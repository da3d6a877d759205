--------------------------- MODULE TaskContainer ---------------------------
(* saga::impl::task_container (task_container.cpp): tasks that the            *)
(* application runs, cancels and waits for together, while their workers      *)
(* change the task states and call back into the containers.                  *)
(*                                                                            *)
(* Every container has one client thread.  wait() locks the container, but    *)
(* add_task, remove_task, run and cancel do not: an application has to call   *)
(* them from the thread that waits, and that is what is modelled.             *)
(*                                                                            *)
(* A task is its state metric.  Whoever sets the state (set_state of          *)
(* task_base) holds the locks of task and metric until every callback has     *)
(* returned; a callback of a container needs its state_change_mtx, which the  *)
(* client holds while it registers its callbacks.                             *)
EXTENDS Sequences, SequencesExt, Integers, FiniteSets

CONSTANTS Tasks, Containers,
          Calls,      \* the calls the clients make, a subset of Operations
          Waits,      \* the pairs <<mode, timeout>> they wait with
          MaxCopies,  \* how often the application adds a task to a container
          Nobody

States == {"New", "Running", "Done", "Canceled", "Failed"}
FinalStates == {"Done", "Canceled", "Failed"}
Modes == {"All", "Any"}
Timeouts == {"forever", "timed", "poll"}   \* timeout < 0, > 0, = 0

Operations == {"add_task", "remove_task", "run", "cancel", "wait"}

ASSUME TaskContainerAssumption ==
  /\ Calls \subseteq Operations
  /\ Waits \subseteq Modes \X Timeouts
  /\ MaxCopies \in Nat \ {0}
  /\ Nobody \notin Containers \cup {"worker", "application"}
  /\ Containers \cap {"worker", "application"} = {}

VARIABLES
  state,      \* value of the state metric of each task
  active,     \* the task has a worker that has not returned
  setter,     \* who holds the locks of the task in set_state, or Nobody
  callbacks,  \* registrations <<container, entry>> on the state metric
  pending,    \* registrations the current fire has still to call
  list,       \* task_list of each container
  pc,         \* what the client of each container does
  wait,       \* its arguments <<mode, timeout>>
  at,         \* the entry of the list its current loop has reached
  ret         \* the tasks it has collected so far

taskVars == <<state, active, setter, callbacks, pending>>
clientVars == <<list, pc, wait, at, ret>>
vars == <<taskVars, clientVars>>

\* Loops over the list that collect the tasks in a given state.
Scans == {"canceled", "done", "finished", "timed", "polled"}
Waiting == Scans \cup {"clock", "all", "join", "register", "sleep", "unregister"}
Outside == {"idle", "returned", "threw"}

Copies(s, t) == Cardinality({i \in DOMAIN s : s[i] = t})
Cookies == Containers \X (Nat \ {0})

Init ==
  /\ state = [t \in Tasks |-> "New"]
  /\ active = [t \in Tasks |-> FALSE]
  /\ setter = [t \in Tasks |-> Nobody]
  /\ callbacks = [t \in Tasks |-> {}]
  /\ pending = [t \in Tasks |-> {}]
  /\ list = [c \in Containers |-> <<>>]
  /\ pc = [c \in Containers |-> "idle"]
  /\ wait \in [Containers -> Waits]
  /\ at = [c \in Containers |-> 1]
  /\ ret = [c \in Containers |-> <<>>]

----------------------------------------------------------------------------
(* The tasks. *)

SetState(t, s, by) ==
  /\ setter[t] = Nobody
  /\ setter' = [setter EXCEPT ![t] = by]
  /\ state' = [state EXCEPT ![t] = s]
  /\ pending' = [pending EXCEPT ![t] = callbacks[t]]
  /\ UNCHANGED <<active, callbacks>>

\* The mutex state_change_mtx of a container: only its client holds it for
\* longer than one step.
StateChangeLocked(c) == pc[c] = "register"

\* Mutant: fire erases the callback and goes on with it.
StateChangedAgain(t, cookie) ==
  /\ cookie \in pending[t]
  /\ ~StateChangeLocked(cookie[1])
  /\ callbacks' = IF state[t] = "Running" THEN callbacks
                  ELSE [callbacks EXCEPT ![t] = @ \ {cookie}]
  /\ pending' = [pending EXCEPT ![t] = IF state[t] = "Running" THEN @ \ {cookie} ELSE @]
  /\ UNCHANGED <<state, active, setter, clientVars>>

\* The callback of container c: stays registered as long as the task runs.
StateChanged(t, cookie) ==
  /\ cookie \in pending[t]
  /\ ~StateChangeLocked(cookie[1])
  /\ pending' = [pending EXCEPT ![t] = @ \ {cookie}]
  /\ callbacks' = IF state[t] = "Running" THEN callbacks
                  ELSE [callbacks EXCEPT ![t] = @ \ {cookie}]
  /\ UNCHANGED <<state, active, setter, clientVars>>

\* The end of fire: run() starts the worker now, and a worker returns.
FireEnds(t) ==
  /\ setter[t] # Nobody
  /\ pending[t] = {}
  /\ setter' = [setter EXCEPT ![t] = Nobody]
  /\ active' = [active EXCEPT ![t] = IF setter[t] = "worker" THEN FALSE
                                     ELSE @ \/ state[t] = "Running"]
  /\ UNCHANGED <<state, callbacks, pending, clientVars>>

RunTask(t) ==
  /\ state[t] = "New"
  /\ SetState(t, "Running", "application")
  /\ UNCHANGED clientVars

CancelTask(t) == SetState(t, "Canceled", "application") /\ UNCHANGED clientVars

\* The worker stores its outcome, over Canceled too.
WorkerEnds(t) ==
  /\ active[t]
  /\ \E s \in {"Done", "Failed"} : SetState(t, s, "worker")
  /\ UNCHANGED clientVars

----------------------------------------------------------------------------
(* Calls that do not wait. *)

Go(c, label) == pc' = [pc EXCEPT ![c] = label]
Leave(c, label) == Go(c, label) /\ at' = [at EXCEPT ![c] = 1]

\* The client starts a loop over the list, or throws if the list is empty.
Loop(c, label) ==
  /\ Go(c, IF list[c] = <<>> THEN "threw" ELSE label)
  /\ at' = [at EXCEPT ![c] = 1]
  /\ ret' = [ret EXCEPT ![c] = <<>>]

AddTask(c, t) ==
  /\ pc[c] \in Outside
  /\ Copies(list[c], t) < MaxCopies
  /\ list' = [list EXCEPT ![c] = Append(@, t)]
  /\ Go(c, "idle")
  /\ ret' = [ret EXCEPT ![c] = <<>>]
  /\ UNCHANGED <<taskVars, wait, at>>

RemoveTask(c, t) ==
  /\ pc[c] \in Outside
  /\ list' = [list EXCEPT ![c] = RemoveFirst(@, t)]
  /\ Go(c, IF Contains(list[c], t) THEN "idle" ELSE "threw")
  /\ ret' = [ret EXCEPT ![c] = <<>>]
  /\ UNCHANGED <<taskVars, wait, at>>

Run(c) ==
  /\ pc[c] \in Outside
  /\ Loop(c, "run")
  /\ UNCHANGED <<taskVars, list, wait>>

Cancel(c) ==
  /\ pc[c] \in Outside
  /\ Loop(c, "cancel")
  /\ UNCHANGED <<taskVars, list, wait>>

Here(c) == list[c][at[c]]
More(c) == at[c] <= Len(list[c])
Next1(c) == at' = [at EXCEPT ![c] = @ + 1]

\* run() and cancel() take the tasks one by one; run() skips those that are
\* not New, and ends with an exception if a task is run by somebody else
\* between the test and the call.
RunLooks(c) ==
  /\ pc[c] = "run" /\ More(c)
  /\ setter[Here(c)] = Nobody
  /\ IF state[Here(c)] = "New"
     THEN Go(c, "run it") /\ UNCHANGED at
     ELSE Next1(c) /\ UNCHANGED pc
  /\ UNCHANGED <<taskVars, list, wait, ret>>

RunRuns(c) ==
  /\ pc[c] = "run it"
  /\ setter[Here(c)] = Nobody
  /\ IF state[Here(c)] = "New"
     THEN SetState(Here(c), "Running", c) /\ Go(c, "fire run") /\ UNCHANGED at
     ELSE Leave(c, "threw") /\ UNCHANGED taskVars
  /\ UNCHANGED <<list, wait, ret>>

CancelCancels(c) ==
  /\ pc[c] = "cancel" /\ More(c)
  /\ SetState(Here(c), "Canceled", c)
  /\ Go(c, "fire cancel")
  /\ UNCHANGED <<list, wait, at, ret>>

Fired(c) ==
  /\ pc[c] \in {"fire run", "fire cancel"}
  /\ setter[Here(c)] # c
  /\ Go(c, IF pc[c] = "fire run" THEN "run" ELSE "cancel")
  /\ Next1(c)
  /\ UNCHANGED <<taskVars, list, wait, ret>>

LoopDone(c) ==
  /\ pc[c] \in {"run", "cancel"} /\ ~More(c)
  /\ Leave(c, "idle")
  /\ UNCHANGED <<taskVars, list, wait, ret>>

----------------------------------------------------------------------------
(* wait(mode, timeout) *)

Wait(c, w) ==
  /\ pc[c] \in Outside
  /\ wait' = [wait EXCEPT ![c] = w]
  /\ Loop(c, "canceled")
  /\ UNCHANGED <<taskVars, list>>

\* Mutant: a task that failed or was canceled is not taken for finished.
CollectedDone(scan, s) == s = IF scan = "canceled" THEN "Canceled" ELSE "Done"

Collected(scan, s) ==
  CASE scan = "canceled" -> s = "Canceled"
    [] scan = "finished" -> s # "Running"
    [] OTHER -> s = "Done"

\* One call of get_state: it waits for a set_state of the task to end.
Look(c) ==
  /\ pc[c] \in Scans /\ More(c)
  /\ setter[Here(c)] = Nobody
  /\ ret' = [ret EXCEPT ![c] = IF Collected(pc[c], state[Here(c)])
                               THEN Append(@, Here(c)) ELSE @]
  /\ Next1(c)
  /\ UNCHANGED <<taskVars, list, pc, wait>>

Everything(c) == Len(ret[c]) = Len(list[c])

\* Mutant: the list is cleared whatever is returned.
ClearedList(s, returned) == <<>>

\* remove_returned_tasks
Without(s, returned) == FoldLeft(RemoveFirst, s, returned)

\* wait() hands over what it has collected and takes it off the list.
HandOver(c) ==
  /\ list' = [list EXCEPT ![c] = Without(@, ret[c])]
  /\ Leave(c, "returned")
  /\ UNCHANGED <<taskVars, wait, ret>>

Start(c, label) == Loop(c, label) /\ UNCHANGED <<taskVars, list, wait>>
Throw(c) ==
  /\ Leave(c, "threw")
  /\ ret' = [ret EXCEPT ![c] = <<>>]
  /\ UNCHANGED <<taskVars, list, wait>>

Scanned(c, scan) == pc[c] = scan /\ ~More(c)

CanceledScanned(c) ==
  /\ Scanned(c, "canceled")
  /\ IF Everything(c) THEN Throw(c) ELSE Start(c, "done")

DoneScanned(c) ==
  /\ Scanned(c, "done")
  /\ IF Everything(c) THEN HandOver(c)
     ELSE CASE wait[c] = <<"All", "forever">> -> Start(c, "all")
            [] wait[c] = <<"Any", "forever">> -> Start(c, "register")
            [] wait[c][2] = "timed" ->
                 Go(c, "clock") /\ UNCHANGED <<taskVars, list, wait, at, ret>>
            [] wait[c][2] = "poll" -> Start(c, "polled")

PolledScanned(c) == Scanned(c, "polled") /\ HandOver(c)

\* timeout > 0: the clock is read, then the states, then it sleeps 5 ms.
Clock(c) == pc[c] = "clock" /\ Start(c, "timed")

\* The wait ends with what the last scan found, which stays in the list.
TimeOut(c) ==
  /\ pc[c] = "clock"
  /\ Leave(c, "returned")
  /\ UNCHANGED <<taskVars, list, wait, ret>>

TimedScanned(c) ==
  /\ Scanned(c, "timed")
  /\ IF (wait[c][1] = "All" /\ Everything(c)) \/ (wait[c][1] = "Any" /\ ret[c] # <<>>)
     THEN HandOver(c)
     ELSE Go(c, "clock") /\ UNCHANGED <<taskVars, list, wait, at, ret>>

\* All, timeout < 0: task::wait(-1) on one task after the other.
WaitForTask(c) ==
  /\ pc[c] = "all" /\ More(c)
  /\ setter[Here(c)] = Nobody
  /\ CASE state[Here(c)] = "New" -> Throw(c)
       [] state[Here(c)] = "Running" ->
            Go(c, "join") /\ UNCHANGED <<taskVars, list, wait, at, ret>>
       [] OTHER -> Next1(c) /\ UNCHANGED <<taskVars, list, pc, wait, ret>>

\* Mutant: wait(-1) on a task does not join its worker.
DoesNotJoin(c) ==
  /\ pc[c] = "join"
  /\ Go(c, "all") /\ Next1(c)
  /\ UNCHANGED <<taskVars, list, wait, ret>>

Joined(c) ==
  /\ pc[c] = "join"
  /\ ~active[Here(c)]
  /\ Go(c, "all") /\ Next1(c)
  /\ UNCHANGED <<taskVars, list, wait, ret>>

AllWaited(c) ==
  /\ pc[c] = "all" /\ ~More(c)
  /\ ret' = [ret EXCEPT ![c] = list[c]]
  /\ list' = [list EXCEPT ![c] = <<>>]
  /\ Leave(c, "returned")
  /\ UNCHANGED <<taskVars, wait>>

\* Any, timeout < 0: callbacks on all tasks, a wait of at most 5 ms, then the
\* callbacks that are left are removed and the states read.
Register(c) ==
  /\ pc[c] = "register" /\ More(c)
  /\ setter[Here(c)] = Nobody
  /\ callbacks' = [callbacks EXCEPT ![Here(c)] = @ \cup {<<c, at[c]>>}]
  /\ Next1(c)
  /\ UNCHANGED <<state, active, setter, pending, list, pc, wait, ret>>

Registered(c) ==
  /\ pc[c] = "register" /\ ~More(c)
  /\ Go(c, "sleep")
  /\ UNCHANGED <<taskVars, list, wait, at, ret>>

Wake(c) == pc[c] = "sleep" /\ Start(c, "unregister")

\* Mutant: callbacks of tasks that are no longer running are not removed.
UnregisterRunning(c) ==
  /\ pc[c] = "unregister" /\ More(c)
  /\ setter[Here(c)] = Nobody
  /\ callbacks' = IF state[Here(c)] # "Running" THEN callbacks
                  ELSE [callbacks EXCEPT ![Here(c)] = @ \ {<<c, at[c]>>}]
  /\ Next1(c)
  /\ UNCHANGED <<state, active, setter, pending, list, pc, wait, ret>>

\* remove_callback; that the callback is gone already is ignored.
Unregister(c) ==
  /\ pc[c] = "unregister" /\ More(c)
  /\ setter[Here(c)] = Nobody
  /\ callbacks' = [callbacks EXCEPT ![Here(c)] = @ \ {<<c, at[c]>>}]
  /\ Next1(c)
  /\ UNCHANGED <<state, active, setter, pending, list, pc, wait, ret>>

Unregistered(c) == Scanned(c, "unregister") /\ Start(c, "finished")

FinishedScanned(c) ==
  /\ Scanned(c, "finished")
  /\ IF ret[c] = <<>> THEN Start(c, "register") ELSE HandOver(c)

----------------------------------------------------------------------------
TaskStep(t) ==
  \/ \E cookie \in pending[t] : StateChanged(t, cookie)
  \/ FireEnds(t)

\* Steps of a client that need no lock of a task.
ClientStep(c) ==
  \/ Fired(c) \/ LoopDone(c)
  \/ CanceledScanned(c) \/ DoneScanned(c) \/ PolledScanned(c) \/ TimedScanned(c)
  \/ Clock(c) \/ TimeOut(c)
  \/ Joined(c) \/ AllWaited(c)
  \/ Registered(c) \/ Wake(c) \/ Unregistered(c) \/ FinishedScanned(c)

\* Steps that take the lock of a task.
LockingStep(c) ==
  \/ RunLooks(c) \/ RunRuns(c) \/ CancelCancels(c)
  \/ Look(c) \/ WaitForTask(c) \/ Register(c) \/ Unregister(c)

ClientCall(c) ==
  \/ "add_task" \in Calls /\ \E t \in Tasks : AddTask(c, t)
  \/ "remove_task" \in Calls /\ \E t \in Tasks : RemoveTask(c, t)
  \/ "run" \in Calls /\ Run(c)
  \/ "cancel" \in Calls /\ Cancel(c)
  \/ "wait" \in Calls /\ \E w \in Waits : Wait(c, w)

Next ==
  \/ \E t \in Tasks : RunTask(t) \/ CancelTask(t) \/ WorkerEnds(t) \/ TaskStep(t)
  \/ \E c \in Containers : ClientCall(c) \/ ClientStep(c) \/ LockingStep(c)

Spec == Init /\ [][Next]_vars

\* Threads that can run do, functions of adaptors end, a mutex that is free
\* again and again is obtained, and time passes.  Nobody has to call anything.
FairSpec ==
  /\ Spec
  /\ \A t \in Tasks : WF_vars(TaskStep(t)) /\ SF_vars(WorkerEnds(t))
  /\ \A c \in Containers : /\ WF_vars(ClientStep(c))
                           /\ SF_vars(LockingStep(c))
                           /\ SF_vars(TimeOut(c))

----------------------------------------------------------------------------
(* Properties. *)

\* The type invariant: who is still to be called is registered, and loops stay
\* within the list.
TypeOK ==
  /\ state \in [Tasks -> States]
  /\ active \in [Tasks -> BOOLEAN]
  /\ setter \in [Tasks -> Containers \cup {Nobody, "worker", "application"}]
  /\ callbacks \in [Tasks -> SUBSET Cookies]
  /\ pending \in [Tasks -> SUBSET Cookies]
  /\ \A t \in Tasks : pending[t] \subseteq callbacks[t]
  /\ list \in [Containers -> Seq(Tasks)]
  /\ pc \in [Containers -> Outside \cup Waiting
               \cup {"run", "run it", "cancel", "fire run", "fire cancel"}]
  /\ wait \in [Containers -> Waits]
  /\ at \in [Containers -> Nat \ {0}]
  /\ \A c \in Containers : at[c] <= Len(list[c]) + 1
  /\ ret \in [Containers -> Seq(Tasks)]

\* wait(All, ...) returns tasks in final states only, whatever was run, canceled
\* or ended while it waited, and they stay in final states.
AllReturnsFinished ==
  \A c \in Containers :
    pc[c] = "returned" /\ wait[c][1] = "All"
      => \A i \in DOMAIN ret[c] : state[ret[c][i]] \in FinalStates

\* No callback into a container survives the call of wait that registered it:
\* it would use the condition of a container that may be gone.
CallbacksEndWithWait ==
  \A t \in Tasks : \A cookie \in callbacks[t] :
    LET c == cookie[1] IN
      /\ pc[c] \in {"register", "sleep", "unregister"}
      /\ list[c][cookie[2]] = t

\* A task leaves the container only when the client takes it out or when wait
\* returns it, once for every time it was added.
NoTaskIsLost ==
  [][\A c \in Containers :
       pc[c] \in Waiting =>
         \/ list'[c] = list[c]
         \/ /\ pc'[c] = "returned"
            /\ \A t \in Tasks :
                 Copies(list[c], t) = Copies(list'[c], t) + Copies(ret'[c], t)]_vars

\* Every call returns, as the functions of the adaptors end.
CallsReturn == \A c \in Containers : pc[c] \notin Outside ~> pc[c] \in Outside

\* Client c is in the middle of its registrations, and the task it has come to is
\* locked by a fire that can go on only when clients of C release their
\* state_change_mtx.
StuckAmong(c, C) ==
  /\ pc[c] = "register" /\ More(c)
  /\ setter[Here(c)] # Nobody
  /\ pending[Here(c)] # {}
  /\ \A cookie \in pending[Here(c)] : cookie[1] \in C

\* "Any: wait() returns if one or more tasks in the container reached a final
\* state" (task_container.hpp): no clients that wait for Any, with such a task in
\* their containers, block each other for ever.
AnyReturns ==
  \A C \in (SUBSET Containers) \ {{}} :
    \E c \in C : \/ ~StuckAmong(c, C)
                  \/ wait[c] # <<"Any", "forever">>
                  \/ \A i \in DOMAIN list[c] : state[list[c][i]] \notin FinalStates
=============================================================================
