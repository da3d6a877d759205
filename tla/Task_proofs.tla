----------------------------- MODULE Task_proofs -----------------------------
(***************************************************************************)
(* Invariants of Task for any number of threads and adaptors, and, for a   *)
(* task that a single thread runs, the refinement of TaskLifecycle.        *)
(***************************************************************************)
EXTENDS Task, TLAPS

-----------------------------------------------------------------------------
(* The next-state relation, one action at a time.                           *)

\* The case distinction every invariance proof below follows.
LEMMA NextCases ==
  ASSUME Next
  PROVE  \/ \E t \in Threads : RunCheck(t) \/ RunStart(t) \/ RunReplaced(t) \/ Cancel(t)
         \/ \E t \in Threads, timeout \in {"forever", "timed", "poll"} : WaitRead(t, timeout)
         \/ \E t \in Threads : WaitJoin(t) \/ WaitJoined(t)
         \/ \E t \in Threads : TimedRegister(t) \/ TimedWake(t) \/ WaitRecheck(t)
         \/ \E w \in Threads : WorkerSucceed(w) \/ WorkerFail(w)
         \/ \E w \in Threads : RestartCheck(w) \/ RestartSelect(w)
         \/ \E w \in Threads : WorkerFinish(w) \/ WorkerReturn(w)
         \/ Destroy \/ DestroyJoined
  BY DEF Next, AppCall, AppStep, WorkerStep

\* Types, and the future a join needs: whoever saw the state Running finds
\* thread_ assigned, which is also why a joining thread always has a handle.
ExecutesAdaptor == \A w \in Threads : wpc[w] = "exec" => wcpi[w] \in Adaptors

TypedJoin == TypeOK /\ JoinFindsWorker /\ ExecutesAdaptor

\* Types and joins, always.
LEMMA TypedJoinInvariant == Spec => []TypedJoin
<1> USE DEF TypedJoin, TypeOK, JoinFindsWorker, ExecutesAdaptor
<1>1. Init => TypedJoin
  BY DEF Init, States, AppPcs, WorkerPcs
<1>2. TypedJoin /\ [Next]_vars => TypedJoin'
  <2> SUFFICES ASSUME TypedJoin, [Next]_vars PROVE TypedJoin'
    OBVIOUS
  <2> USE DEF States, FinalStates, AppPcs, WorkerPcs, appVars, selectorVars, workerVars,
              Goto, Return, WorkerGoto, SetState, StillRegistered
  <2>1. ASSUME NEW t \in Threads, RunCheck(t) PROVE TypedJoin'
    BY <2>1 DEF RunCheck, Call
  <2>2. ASSUME NEW t \in Threads, RunStart(t) PROVE TypedJoin'
    BY <2>2, TaskAssumption DEF RunStart, NewFuture, TaskAssumption
  <2>3. ASSUME NEW t \in Threads, RunReplaced(t) PROVE TypedJoin'
    BY <2>3 DEF RunReplaced, ReleasedHandle
  <2>4. ASSUME NEW t \in Threads, Cancel(t) PROVE TypedJoin'
    BY <2>4 DEF Cancel, Call
  <2>5. ASSUME NEW t \in Threads, NEW timeout \in {"forever", "timed", "poll"}, WaitRead(t, timeout)
        PROVE TypedJoin'
    BY <2>5 DEF WaitRead, Call
  <2>6. ASSUME NEW t \in Threads, WaitJoin(t) PROVE TypedJoin'
    BY <2>6 DEF WaitJoin
  <2>7. ASSUME NEW t \in Threads, WaitJoined(t) PROVE TypedJoin'
    BY <2>7 DEF WaitJoined, ReleasedHandle
  <2>8. ASSUME NEW t \in Threads, TimedRegister(t) \/ TimedWake(t) \/ WaitRecheck(t)
        PROVE TypedJoin'
    BY <2>8 DEF TimedRegister, TimedWake, WaitRecheck, RemovedCallback
  <2>9. ASSUME NEW w \in Threads, WorkerSucceed(w) \/ WorkerFail(w) PROVE TypedJoin'
    <3>1. CASE WorkerSucceed(w)
      BY <3>1 DEF WorkerSucceed
    <3>2. CASE WorkerFail(w)
      BY <3>2 DEF WorkerFail, RecordedFailure
    <3>3. QED
      BY <2>9, <3>1, <3>2
  <2>10. ASSUME NEW w \in Threads, RestartCheck(w) PROVE TypedJoin'
    BY <2>10 DEF RestartCheck
  <2>11. ASSUME NEW w \in Threads, RestartSelect(w) PROVE TypedJoin'
    BY <2>11 DEF RestartSelect, Banned
  <2>12. ASSUME NEW w \in Threads, WorkerFinish(w) \/ WorkerReturn(w) PROVE TypedJoin'
    BY <2>12 DEF WorkerFinish, WorkerReturn, StoredOutcome
  <2>13. CASE Destroy \/ DestroyJoined
    BY <2>13 DEF Destroy, DestroyJoined, DestroyOrJoin
  <2>14. CASE UNCHANGED vars
    BY <2>14 DEF vars
  <2>15. QED
    BY <2>1, <2>2, <2>3, <2>4, <2>5, <2>6, <2>7, <2>8, <2>9, <2>10, <2>11, <2>12, <2>13, <2>14,
       NextCases
<1>3. QED
  BY <1>1, <1>2, PTL DEF Spec

\* Every variable keeps its type, and a thread refers to a worker exactly while
\* it joins it (TypeOK).
THEOREM TypeCorrect == Spec => []TypeOK
  BY TypedJoinInvariant, PTL DEF TypedJoin

\* Whoever saw the state Running finds a future to join (JoinFindsWorker).
THEOREM JoinSafe == Spec => []JoinFindsWorker
  BY TypedJoinInvariant, PTL DEF TypedJoin

-----------------------------------------------------------------------------
(* Timed waits: the callback never outlives the condition it notifies.      *)

\* A callback of a timed wait is gone from the metric when the wait has ended,
\* whichever way it ended (NoDanglingCondition).
THEOREM NoDangling == Spec => []NoDanglingCondition
<1>1. Init => NoDanglingCondition
  BY DEF Init, NoDanglingCondition
<1>2. TypedJoin /\ NoDanglingCondition /\ [Next]_vars => NoDanglingCondition'
  <2> SUFFICES ASSUME TypedJoin, NoDanglingCondition, [Next]_vars PROVE NoDanglingCondition'
    OBVIOUS
  <2> USE DEF TypedJoin, TypeOK, NoDanglingCondition, appVars, selectorVars, workerVars,
              Goto, Return, SetState, StillRegistered
  <2>1. ASSUME NEW t \in Threads, RunCheck(t) \/ RunStart(t) \/ RunReplaced(t) \/ Cancel(t)
        PROVE NoDanglingCondition'
    BY <2>1 DEF RunCheck, RunStart, RunReplaced, Cancel, Call
  <2>2. ASSUME NEW t \in Threads, NEW timeout \in {"forever", "timed", "poll"}, WaitRead(t, timeout)
        PROVE NoDanglingCondition'
    BY <2>2 DEF WaitRead, Call
  <2>3. ASSUME NEW t \in Threads, WaitJoin(t) \/ WaitJoined(t) PROVE NoDanglingCondition'
    BY <2>3 DEF WaitJoin, WaitJoined
  <2>4. ASSUME NEW t \in Threads, TimedRegister(t) \/ TimedWake(t) \/ WaitRecheck(t)
        PROVE NoDanglingCondition'
    BY <2>4 DEF TimedRegister, TimedWake, WaitRecheck, RemovedCallback
  <2>5. ASSUME NEW w \in Threads, WorkerSucceed(w) \/ WorkerFail(w) \/ RestartCheck(w)
                                  \/ RestartSelect(w) \/ WorkerReturn(w)
        PROVE NoDanglingCondition'
    BY <2>5 DEF WorkerSucceed, WorkerFail, RestartCheck, RestartSelect, WorkerReturn
  <2>6. ASSUME NEW w \in Threads, WorkerFinish(w) PROVE NoDanglingCondition'
    BY <2>6 DEF WorkerFinish, StoredOutcome
  <2>7. CASE Destroy \/ DestroyJoined
    BY <2>7 DEF Destroy, DestroyJoined
  <2>8. CASE UNCHANGED vars
    BY <2>8 DEF vars
  <2>9. QED
    BY <2>1, <2>2, <2>3, <2>4, <2>5, <2>6, <2>7, <2>8, NextCases
<1>3. QED
  BY <1>1, <1>2, TypedJoinInvariant, PTL DEF Spec

-----------------------------------------------------------------------------
(* A failure has a reason, however many threads run the task.               *)

\* What makes FailedIsExplained inductive: a worker that is past its first
\* failed call has recorded it.
FailureRecorded ==
  /\ FailedIsExplained
  /\ \A w \in Threads : wpc[w] \in {"restart", "select"} => errors # {}
  /\ \A w \in Threads : wpc[w] = "finish" /\ setter[w] = "Failed" => errors # {}

\* A task that reports Failed has an exception for rethrow() (FailedIsExplained).
THEOREM FailureExplained == Spec => []FailedIsExplained
<1>1. Init => FailureRecorded
  BY DEF Init, FailureRecorded, FailedIsExplained
<1>2. TypedJoin /\ FailureRecorded /\ [Next]_vars => FailureRecorded'
  <2> SUFFICES ASSUME TypedJoin, FailureRecorded, [Next]_vars PROVE FailureRecorded'
    OBVIOUS
  <2> USE DEF TypedJoin, TypeOK, FailureRecorded, FailedIsExplained, appVars, selectorVars,
              workerVars, WorkerGoto, SetState, StillRegistered
  <2>1. ASSUME NEW t \in Threads, RunCheck(t) \/ RunStart(t) \/ RunReplaced(t) \/ Cancel(t)
        PROVE FailureRecorded'
    BY <2>1 DEF RunCheck, RunStart, RunReplaced, Cancel
  <2>2. ASSUME NEW t \in Threads, NEW timeout \in {"forever", "timed", "poll"}, WaitRead(t, timeout)
        PROVE FailureRecorded'
    BY <2>2 DEF WaitRead
  <2>3. ASSUME NEW t \in Threads, WaitJoin(t) \/ WaitJoined(t) PROVE FailureRecorded'
    BY <2>3 DEF WaitJoin, WaitJoined
  <2>4. ASSUME NEW t \in Threads, TimedRegister(t) \/ TimedWake(t) \/ WaitRecheck(t)
        PROVE FailureRecorded'
    BY <2>4 DEF TimedRegister, TimedWake, WaitRecheck
  <2>5. ASSUME NEW w \in Threads, WorkerSucceed(w) PROVE FailureRecorded'
    BY <2>5 DEF WorkerSucceed
  <2>6. ASSUME NEW w \in Threads, WorkerFail(w) PROVE FailureRecorded'
    BY <2>6 DEF WorkerFail, RecordedFailure
  <2>7. ASSUME NEW w \in Threads, RestartCheck(w) PROVE FailureRecorded'
    BY <2>7 DEF RestartCheck
  <2>8. ASSUME NEW w \in Threads, RestartSelect(w) PROVE FailureRecorded'
    BY <2>8 DEF RestartSelect
  <2>9. ASSUME NEW w \in Threads, WorkerFinish(w) \/ WorkerReturn(w) PROVE FailureRecorded'
    BY <2>9 DEF WorkerFinish, WorkerReturn, StoredOutcome
  <2>10. CASE Destroy \/ DestroyJoined
    BY <2>10 DEF Destroy, DestroyJoined
  <2>11. CASE UNCHANGED vars
    BY <2>11 DEF vars
  <2>12. QED
    BY <2>1, <2>2, <2>3, <2>4, <2>5, <2>6, <2>7, <2>8, <2>9, <2>10, <2>11, NextCases
<1>3. FailureRecorded => FailedIsExplained
  BY DEF FailureRecorded
<1>4. QED
  BY <1>1, <1>2, <1>3, TypedJoinInvariant, PTL DEF Spec

-----------------------------------------------------------------------------
(* A task only one thread may run.  The invariant that carries the rest: it *)
(* has at most one worker, that worker belongs to thread_, and while it is  *)
(* active the selector state describes the adaptor it executes.             *)

Unstarted == \A w \in Threads : wpc[w] = "none"

OneWorker ==
  /\ \A t \in Threads : pc[t] = "run_checked" => t \in Runners /\ Unstarted /\ state \in {"New", "Canceled"}
  /\ \A t \in Threads : pc[t] # "replacing"
  /\ \A w \in Threads : wpc[w] # "none" => w \in Runners
  /\ state = "New" => Unstarted
  /\ future # None => wpc[future] # "none"

Released == life # "alive" => \A t \in Threads : pc[t] = "idle"

SelectorInStep ==
  /\ Unstarted => noNoList = {} /\ errors = {} /\ lateCalls = 0
  /\ errors \subseteq noNoList \cup {cpi}
  /\ \A w \in Threads : Executing(w) => wcpi[w] = cpi

\* After a late call the state is Canceled until that call is over, so that
\* restart() gives up.
LateCallIsLast ==
  lateCalls # 0 =>
    \A w \in Threads : /\ wpc[w] # "select"
                       /\ wpc[w] \in {"exec", "restart"} => state = "Canceled"

Solo ==
  /\ OneWorker /\ Released /\ SelectorInStep /\ LateCallIsLast
  /\ FinishedStateIsQuiet /\ NoAdaptorTriedTwice /\ LateCallsBounded /\ ReleasedTaskIsQuiet

\* With one runner, the facts about its run hold always.
LEMMA SoloInvariant == ASSUME SingleRunner PROVE Spec => []Solo
<1> USE DEF Solo, OneWorker, Released, SelectorInStep, LateCallIsLast, FinishedStateIsQuiet,
            NoAdaptorTriedTwice, LateCallsBounded, ReleasedTaskIsQuiet, Unstarted, Executing
<1>1. Init => Solo
  BY DEF Init
<1>2. TypedJoin /\ Solo /\ [Next]_vars => Solo'
  <2> SUFFICES ASSUME TypedJoin, Solo, [Next]_vars PROVE Solo'
    OBVIOUS
  <2> USE SingleRunner, TaskAssumption DEF SingleRunner, TaskAssumption
  <2> USE DEF TypedJoin, TypeOK, JoinFindsWorker, ExecutesAdaptor, States, FinalStates, AppPcs,
              WorkerPcs, appVars, selectorVars, workerVars, Goto, Return, WorkerGoto, SetState, StillRegistered
  <2>1. ASSUME NEW t \in Threads, RunCheck(t) PROVE Solo'
    BY <2>1 DEF RunCheck, Call
  <2>2. ASSUME NEW t \in Threads, RunStart(t) PROVE Solo'
    BY <2>2 DEF RunStart, NewFuture
  <2>3. ASSUME NEW t \in Threads, RunReplaced(t) PROVE Solo'
    BY <2>3 DEF RunReplaced
  <2>4. ASSUME NEW t \in Threads, Cancel(t) PROVE Solo'
    BY <2>4 DEF Cancel, Call
  <2>5. ASSUME NEW t \in Threads, NEW timeout \in {"forever", "timed", "poll"}, WaitRead(t, timeout)
        PROVE Solo'
    BY <2>5 DEF WaitRead, Call
  <2>6. ASSUME NEW t \in Threads, WaitJoin(t) \/ WaitJoined(t) PROVE Solo'
    BY <2>6 DEF WaitJoin, WaitJoined
  <2>7. ASSUME NEW t \in Threads, TimedRegister(t) \/ TimedWake(t) \/ WaitRecheck(t) PROVE Solo'
    BY <2>7 DEF TimedRegister, TimedWake, WaitRecheck
  <2>8. ASSUME NEW w \in Threads, WorkerSucceed(w) PROVE Solo'
    BY <2>8 DEF WorkerSucceed
  <2>9. ASSUME NEW w \in Threads, WorkerFail(w) PROVE Solo'
    BY <2>9 DEF WorkerFail, RecordedFailure
  <2>10. ASSUME NEW w \in Threads, RestartCheck(w) PROVE Solo'
    BY <2>10 DEF RestartCheck, MayRestart
  <2>11. ASSUME NEW w \in Threads, RestartSelect(w) PROVE Solo'
    BY <2>11 DEF RestartSelect, Banned
  <2>12. ASSUME NEW w \in Threads, WorkerFinish(w) PROVE Solo'
    BY <2>12 DEF WorkerFinish, StoredOutcome
  <2>13. ASSUME NEW w \in Threads, WorkerReturn(w) PROVE Solo'
    BY <2>13 DEF WorkerReturn
  <2>14. CASE Destroy
    BY <2>14 DEF Destroy, DestroyOrJoin
  <2>15. CASE DestroyJoined
    BY <2>15 DEF DestroyJoined
  <2>16. CASE UNCHANGED vars
    BY <2>16 DEF vars
  <2>17. QED
    BY <2>1, <2>2, <2>3, <2>4, <2>5, <2>6, <2>7, <2>8, <2>9, <2>10, <2>11, <2>12, <2>13, <2>14,
       <2>15, <2>16, NextCases
<1>3. QED
  BY <1>1, <1>2, TypedJoinInvariant, PTL DEF Spec

\* Done and Failed are reported only after the last adaptor call
\* (FinishedStateIsQuiet).
THEOREM QuietWhenFinished == ASSUME SingleRunner PROVE Spec => []FinishedStateIsQuiet
  BY SoloInvariant, PTL DEF Solo

\* No adaptor that failed the operation is called again, however many adaptors
\* there are (NoAdaptorTriedTwice).
THEOREM EachAdaptorOnce == ASSUME SingleRunner PROVE Spec => []NoAdaptorTriedTwice
  BY SoloInvariant, PTL DEF Solo

\* At most one adaptor call begins after cancel() (LateCallsBounded).
THEOREM OneLateCall == ASSUME SingleRunner PROVE Spec => []LateCallsBounded
  BY SoloInvariant, PTL DEF Solo

\* A task destroyed in a state other than Canceled has no worker that could
\* still touch it (ReleasedTaskIsQuiet).
THEOREM ReleaseIsSafe == ASSUME SingleRunner PROVE Spec => []ReleasedTaskIsQuiet
  BY SoloInvariant, PTL DEF Solo

-----------------------------------------------------------------------------
(* The task implements TaskLifecycle.                                       *)

\* Every behaviour of a task that one thread runs is one of TaskLifecycle: the
\* operation starts once and is settled once, and only cancel() overrides what
\* was reported (RefinesLifecycle).
THEOREM ImplementsLifecycle == ASSUME SingleRunner PROVE Spec => RefinesLifecycle
<1> USE DEF Outcome
<1>1. Init => Lifecycle!Init
  BY DEF Init, Lifecycle!Init
<1>2. TypedJoin /\ Solo /\ [Next]_vars => [Lifecycle!Next]_(Lifecycle!vars)
  <2> SUFFICES ASSUME TypedJoin, Solo, [Next]_vars PROVE [Lifecycle!Next]_(Lifecycle!vars)
    OBVIOUS
  <2> USE SingleRunner, TaskAssumption DEF SingleRunner, TaskAssumption
  <2> USE DEF TypedJoin, TypeOK, States, FinalStates, WorkerPcs, Solo, OneWorker, Unstarted,
              appVars, selectorVars, workerVars, WorkerGoto, SetState, StillRegistered
  <2> DEFINE Goal == [Lifecycle!Next]_(Lifecycle!vars)
  <2>1. ASSUME UNCHANGED <<state, Outcome>> PROVE Goal
    BY <2>1 DEF Lifecycle!vars
  <2>2. ASSUME NEW t \in Threads, RunCheck(t) \/ RunReplaced(t) PROVE Goal
    BY <2>1, <2>2 DEF RunCheck, RunReplaced
  <2>3. ASSUME NEW t \in Threads, RunStart(t) PROVE Goal
    <3>1. Outcome = "idle" /\ Outcome' = "pending" /\ state \in {"New", "Canceled"} /\ state' = "Running"
      BY <2>3 DEF RunStart
    <3>2. QED
      BY <3>1 DEF Lifecycle!Next, Lifecycle!Start
  <2>4. ASSUME NEW t \in Threads, Cancel(t) PROVE Goal
    BY <2>4 DEF Cancel, Lifecycle!Next, Lifecycle!Cancel
  <2>5. ASSUME NEW t \in Threads, NEW timeout \in {"forever", "timed", "poll"}, WaitRead(t, timeout)
        PROVE Goal
    BY <2>1, <2>5 DEF WaitRead
  <2>6. ASSUME NEW t \in Threads, WaitJoin(t) \/ WaitJoined(t) \/ TimedRegister(t)
                                  \/ TimedWake(t) \/ WaitRecheck(t)
        PROVE Goal
    BY <2>1, <2>6 DEF WaitJoin, WaitJoined, TimedRegister, TimedWake, WaitRecheck
  <2>7. ASSUME NEW w \in Threads, WorkerSucceed(w) \/ WorkerFail(w) \/ RestartCheck(w)
                                  \/ RestartSelect(w) \/ WorkerReturn(w)
        PROVE Goal
    <3>1. /\ wpc[w] # "none" /\ wpc'[w] # "none"
          /\ \A u \in Threads : u # w => wpc[u] = "none" /\ wpc'[u] = "none"
          /\ setter' = [setter EXCEPT ![w] = setter'[w]]
          /\ wpc[w] \in {"returning", "joined"} <=> wpc'[w] \in {"returning", "joined"}
          /\ wpc[w] \in {"returning", "joined"} => setter'[w] = setter[w]
          /\ state' = state
      BY <2>7 DEF WorkerSucceed, WorkerFail, RestartCheck, RestartSelect, WorkerReturn
    <3>2. Outcome' = Outcome
      BY <3>1
    <3>3. QED
      BY <2>1, <3>1, <3>2
  <2>8. ASSUME NEW w \in Threads, WorkerFinish(w) PROVE Goal
    <3>1. /\ wpc[w] = "finish" /\ wpc'[w] = "returning"
          /\ \A u \in Threads : u # w => wpc[u] = "none" /\ wpc'[u] = "none"
          /\ setter' = setter /\ state' = setter[w]
      BY <2>8 DEF WorkerFinish, StoredOutcome
    <3>2. Outcome = "pending"
      BY <3>1
    <3>3. Outcome' = IF setter[w] = "Done" THEN "success" ELSE "failure"
      BY <3>1
    <3>4. QED
      BY <3>1, <3>2, <3>3 DEF Lifecycle!Next, Lifecycle!Settle
  <2>9. CASE Destroy \/ DestroyJoined
    BY <2>1, <2>9 DEF Destroy, DestroyJoined
  <2>10. CASE UNCHANGED vars
    BY <2>1, <2>10 DEF vars
  <2>11. QED
    BY <2>2, <2>3, <2>4, <2>5, <2>6, <2>7, <2>8, <2>9, <2>10, NextCases
<1>3. QED
  BY <1>1, <1>2, TypedJoinInvariant, SoloInvariant, PTL DEF Spec, RefinesLifecycle, Lifecycle!Spec
=============================================================================
