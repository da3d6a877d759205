-------------------------- MODULE MC_TaskContainer --------------------------
(* Instances of TaskContainer for TLC. *)
EXTENDS TaskContainer

AllCalls == Operations
AddAndWait == {"add_task", "wait"}
AllWaits == Modes \X Timeouts
AnyForever == {<<"Any", "forever">>}
=============================================================================
