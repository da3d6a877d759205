---------------------------- MODULE MC_PosixJob ----------------------------
(***************************************************************************)
(* Instances of PosixJob for TLC.                                          *)
(***************************************************************************)
EXTENDS PosixJob

CONSTANTS c1, c2

First      == {c1}
Second     == {c2}
TwoClients == {c1, c2}
=============================================================================
