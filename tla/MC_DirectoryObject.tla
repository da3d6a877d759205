------------------------ MODULE MC_DirectoryObject ------------------------
(***************************************************************************)
(* Instances of DirectoryObject for TLC.  Only safety is checked: which    *)
(* thread makes a call does not matter.                                    *)
(***************************************************************************)
EXTENDS DirectoryObject, TLC

CONSTANTS t1, t2, a, b, x, y

TwoThreads == {t1, t2}
TwoNames   == {a, b}
Few        == {x, y, Empty}
R(call, src, dst, flags) ==
  [call |-> call, wild |-> FALSE, names |-> {}, src |-> src, dst |-> dst, flags |-> flags]
W(call, names, dst, flags) ==
  [call |-> call, wild |-> TRUE, names |-> names, src |-> <<>>, dst |-> dst, flags |-> flags]

Deep == {"Recursive", "Create", "Overwrite"}

\* A directory with a file and a subdirectory, beside nothing, a directory or a
\* file; and a directory whose subdirectory has a file.
SomeTrees ==
  {(<<>> :> Dir) @@ (<<a>> :> Dir) @@ (<<a, a>> :> x) @@ (<<b>> :> y),
   (<<>> :> Dir) @@ (<<a>> :> Dir) @@ (<<a, a>> :> Dir) @@ (<<a, a, a>> :> x)
     @@ (<<a, b>> :> y)}

SomeRequests ==
  {R("copy", <<a>>, <<b>>, Deep), R("copy", <<b>>, <<a>>, {}),
   R("copy", <<a>>, <<b, a>>, {"CreateParents"}),
   R("move", <<a>>, <<b>>, {}), R("move", <<b>>, <<a>>, {"Overwrite"}),
   R("remove", <<a>>, <<>>, {}), R("remove_self", <<>>, <<>>, {"Recursive"}),
   R("make_dir", <<b>>, <<>>, {}), R("change_dir", <<a>>, <<>>, {}),
   W("copy", {a}, <<b>>, {"Recursive"}), W("move", {a, b}, <<b>>, {}),
   W("remove", {a}, <<>>, {})}
Interchangeable == Permutations(TwoThreads)
=============================================================================
