----------------------------- MODULE MC_Session -----------------------------
(* Instances of Session for TLC. *)
EXTENDS Session, TLC

CONSTANTS t1, t2, t3, a1, a2, ssh, db

\* The first adaptor adds a context of its own, as the advert adaptor does.
OneProto == a1 :> {db} @@ a2 :> {}
=============================================================================
