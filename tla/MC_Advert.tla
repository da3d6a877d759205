------------------------------ MODULE MC_Advert ------------------------------
(***************************************************************************)
(* Instances of Advert for TLC: a node at the top and a node below it,     *)
(* created and removed as entries and as directories.  Only safety is      *)
(* checked: threads and objects are symmetric.                             *)
(***************************************************************************)
EXTENDS Advert, TLC

CONSTANTS t1, t2, o1, o2

TwoThreads == {t1, t2}
TwoObjects == {o1, o2}
Tree       == {<<"d">>, <<"d", "b">>}
SomeFlags  == {{}, {"Create"}, {"CreateParents", "Exclusive"}}
Interchangeable == Permutations(TwoThreads) \cup Permutations(TwoObjects)
=============================================================================
