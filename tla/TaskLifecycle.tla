---------------------------- MODULE TaskLifecycle ----------------------------
(***************************************************************************)
(* What a task promises, whatever its threads and adaptors do: the         *)
(* operation starts at most once and is settled at most once, Done and     *)
(* Failed report the outcome at the moment it is settled, and from then on *)
(* only cancel() changes the state.                                        *)
(***************************************************************************)

VARIABLES
  state,  \* the task state the application sees
  outcome \* of the operation: "idle", "pending", "success" or "failure"

vars == <<state, outcome>>

Init ==
  /\ state = "New"
  /\ outcome = "idle"

\* A cancel() may slip in between the test and the start of run().
Start ==
  /\ outcome = "idle"
  /\ state \in {"New", "Canceled"}
  /\ state' = "Running"
  /\ outcome' = "pending"

Cancel ==
  /\ state' = "Canceled"
  /\ UNCHANGED outcome

\* The outcome shows even when the task was canceled meanwhile.
Settle ==
  /\ outcome = "pending"
  /\ \/ outcome' = "success" /\ state' = "Done"
     \/ outcome' = "failure" /\ state' = "Failed"

Next == Start \/ Cancel \/ Settle

Spec == Init /\ [][Next]_vars
=============================================================================
