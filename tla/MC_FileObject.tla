--------------------------- MODULE MC_FileObject ---------------------------
(***************************************************************************)
(* Instances of FileObject for TLC.  Which thread makes which call does    *)
(* not matter and only safety is checked: the threads are symmetric.       *)
(***************************************************************************)
EXTENDS FileObject, TLC

CONSTANTS t1, t2, f, g

TwoThreads == {t1, t2}
TwoNames   == {f, g}
FewInodes  == 1..2
AllCalls == {"get_size", "read", "write", "seek", "is_dir", "copy", "move",
             "remove", "close"}
TwoModes == {"Write", "ReadWrite"}
Interchangeable == Permutations(TwoThreads) \cup Permutations(TwoNames)
=============================================================================
