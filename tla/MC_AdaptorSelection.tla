------------------------ MODULE MC_AdaptorSelection ------------------------
(***************************************************************************)
(* Instances of AdaptorSelection for TLC: a synchronous and an asynchronous*)
(* caller of two operations that share an adaptor, over adaptors some of   *)
(* which implement only one of them.  The callers and the adaptors differ  *)
(* in what they implement, so there is no symmetry to use.                 *)
(***************************************************************************)
EXTENDS AdaptorSelection, TLC

CONSTANTS c1, c2, a1, a2, a3, a4

BothCallers == {c1, c2}
OneCaller == {c1}
SecondCaller == {c2}
FourAdaptors == {a1, a2, a3, a4}
ThreeAdaptors == {a1, a2, a3}
Overlapping == (c1 :> {a1, a2, a3}) @@ (c2 :> {a2, a3, a4})
LastTwo == (c1 :> {a2, a3})
FixmeAdaptor == {a4}
Nobody == {}
OrdinaryErrors == {NotImplemented + 4}
Declines == {AdaptorDeclined}
=============================================================================
