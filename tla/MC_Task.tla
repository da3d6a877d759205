------------------------------- MODULE MC_Task -------------------------------
(***************************************************************************)
(* Instances of Task for TLC.  The threads are interchangeable only within *)
(* their roles and liveness is checked, so no symmetry is used.            *)
(***************************************************************************)
EXTENDS Task

CONSTANTS t1, t2, t3, a1, a2, a3

One == {t1}
Two == {t1, t2}
AllThreads == {t1, t2, t3}
Others == {t2, t3}
TwoAdaptors == {a1, a2}
AllAdaptors == {a1, a2, a3}
=============================================================================
