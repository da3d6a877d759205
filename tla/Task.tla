-------------------------------- MODULE Task --------------------------------
(***************************************************************************)
(* One asynchronous task of the engine (saga::impl::task on top of         *)
(* saga::impl::task_base): the application threads that run, cancel, wait  *)
(* for and finally destroy it, and the worker thread its run() starts,     *)
(* which executes an adaptor function and retries it with other adaptors.  *)
(*                                                                         *)
(* The object mutex mtx_ is recursive.  Every critical section of the code *)
(* is one step here, except run(), which may join a former worker while it *)
(* holds mtx_: LockFree says that no thread is in there.                   *)
(*                                                                         *)
(* Left out: tasks whose asynchronism lies in the adaptor or in a bulk     *)
(* (set_external_treatment, set_bulk_treatment and                         *)
(* set_external_bulk_async are called by no live code), callbacks of the   *)
(* application on the state metric, and the value the operation returns.   *)
(***************************************************************************)
EXTENDS Integers, FiniteSets

CONSTANTS
  Threads,     \* the application threads that share the task
  Runners,     \* the threads that may call run()
  Cancelers,   \* the threads that may call cancel()
  Waiters,     \* the threads that may call wait()
  Destroyable, \* whether the last reference to the task may be dropped
  Adaptors,    \* the CPI instances that implement the operation
  HasSelector, \* whether the task carries an adaptor_selector_state
  None         \* no thread, no worker, no adaptor

ASSUME TaskAssumption ==
  /\ Runners \subseteq Threads
  /\ Cancelers \subseteq Threads
  /\ Waiters \subseteq Threads
  /\ Adaptors # {}
  /\ None \notin Threads
  /\ None \notin Adaptors
  /\ Destroyable \in BOOLEAN
  /\ HasSelector \in BOOLEAN

VARIABLES
  state,     \* value of the metric task_state
  pc,        \* where each application thread is in its current call
  handle,    \* the worker a thread is joining
  callbacks, \* threads whose state_changed callback sits on the metric
  future,    \* the worker thread_ refers to
  wpc,       \* where each worker is; a worker is named after its runner
  setter,    \* the state each worker's state_setter will store
  wcpi,      \* the adaptor each worker is executing
  cpi,       \* cpi_instance_, and info_ of the selector state
  noNoList,  \* no_no_list_ of the selector state
  errors,    \* failed calls recorded for rethrow()
  life,      \* life time of the task object
  lateCalls  \* history: adaptor calls started while the state was Canceled

appVars == <<pc, handle>>
selectorVars == <<cpi, noNoList, errors>>
workerVars == <<wpc, setter, wcpi>>
vars == <<state, pc, handle, callbacks, future, wpc, setter, wcpi,
          cpi, noNoList, errors, life, lateCalls>>

States == {"New", "Running", "Done", "Canceled", "Failed"}
FinalStates == {"Done", "Canceled", "Failed"}
\* get_state() of a call and its later steps are apart: what happens between
\* them is what this module is about.
AppPcs == {"idle", "run_checked", "replacing", "await_future", "joining",
           "register", "timed_wait", "recheck"}
WorkerPcs == {"none", "exec", "restart", "select", "finish", "returning", "joined"}

LockFree == \A t \in Threads : pc[t] # "replacing"

Executing(w) == wpc[w] \in {"exec", "restart", "select"}

Init ==
  /\ state = "New"
  /\ pc = [t \in Threads |-> "idle"]
  /\ handle = [t \in Threads |-> None]
  /\ callbacks = {}
  /\ future = None
  /\ wpc = [w \in Threads |-> "none"]
  /\ setter = [w \in Threads |-> "Failed"]
  /\ wcpi = [w \in Threads |-> None]
  /\ cpi \in Adaptors
  /\ noNoList = {}
  /\ errors = {}
  /\ life = "alive"
  /\ lateCalls = 0

-----------------------------------------------------------------------------
(* Setting the state fires the metric.                                      *)

\* What fire() leaves of the callbacks: state_changed of every waiter wakes its
\* thread and takes itself off the metric unless the task still runs.
StillRegistered(s) == IF s = "Running" THEN callbacks ELSE {}

SetState(s) == state' = s /\ callbacks' = StillRegistered(s)

Goto(t, to) == pc' = [pc EXCEPT ![t] = to]
\* How a call ended is left to the comments: r is the value returned or the
\* exception thrown.
Return(t, r) == Goto(t, "idle")

\* Mutant: the worker that was joined stays referred to.
KeptHandle(t) == handle

ReleasedHandle(t) == [handle EXCEPT ![t] = None]

Call(t, allowed) == t \in allowed /\ pc[t] = "idle" /\ life = "alive"

-----------------------------------------------------------------------------
(* run(): the test of the state, and, in a critical section of its own, the *)
(* start of the worker.                                                     *)

RunCheck(t) ==
  /\ Call(t, Runners)
  /\ LockFree
  /\ IF state # "New"
     THEN Return(t, "IncorrectState")
     ELSE Goto(t, "run_checked")
  /\ UNCHANGED <<state, handle, callbacks, future, workerVars, selectorVars, life, lateCalls>>

\* Mutant: the future of the new worker is not kept.
DroppedFuture(t) == future

NewFuture(t) == t

\* Assigning thread_ drops the previous future, whose destructor joins its
\* worker when that one has not finished.
RunStart(t) ==
  /\ pc[t] = "run_checked"
  /\ LockFree
  /\ SetState("Running")
  /\ wpc' = [wpc EXCEPT ![t] = "exec"]
  /\ wcpi' = [wcpi EXCEPT ![t] = cpi]
  /\ future' = NewFuture(t)
  /\ IF future = None \/ wpc[future] = "joined"
     THEN Return(t, "ok") /\ UNCHANGED handle
     ELSE /\ Goto(t, "replacing")
          /\ handle' = [handle EXCEPT ![t] = future]
  /\ UNCHANGED <<setter, selectorVars, life, lateCalls>>

RunReplaced(t) ==
  /\ pc[t] = "replacing"
  /\ wpc[handle[t]] = "joined"
  /\ Return(t, "ok")
  /\ handle' = ReleasedHandle(t)
  /\ UNCHANGED <<state, callbacks, future, workerVars, selectorVars, life, lateCalls>>

Cancel(t) ==
  /\ Call(t, Cancelers)
  /\ LockFree
  /\ SetState("Canceled")
  /\ UNCHANGED <<pc, handle, future, workerVars, selectorVars, life, lateCalls>>

-----------------------------------------------------------------------------
(* wait(timeout): "forever" stands for a negative timeout, "timed" for a    *)
(* positive one, "poll" for zero.                                           *)

WaitRead(t, timeout) ==
  /\ Call(t, Waiters)
  /\ LockFree
  /\ \/ state = "New" /\ Return(t, "IncorrectState")
     \/ state \in FinalStates /\ Return(t, "true")
     \/ /\ state = "Running"
        /\ Goto(t, CASE timeout = "forever" -> "await_future"
                     [] timeout = "timed" -> "register"
                     [] timeout = "poll" -> "recheck")
  /\ UNCHANGED <<state, handle, callbacks, future, workerVars, selectorVars, life, lateCalls>>

\* thread_() reads the member without the mutex.  A waiter keeps the worker it
\* read, even when a second run() replaces thread_ meanwhile.
WaitJoin(t) ==
  /\ pc[t] = "await_future"
  /\ Goto(t, "joining")
  /\ handle' = [handle EXCEPT ![t] = future]
  /\ UNCHANGED <<state, callbacks, future, workerVars, selectorVars, life, lateCalls>>

WaitJoined(t) ==
  /\ pc[t] = "joining"
  /\ wpc[handle[t]] = "joined"
  /\ Return(t, "true")
  /\ handle' = ReleasedHandle(t)
  /\ UNCHANGED <<state, callbacks, future, workerVars, selectorVars, life, lateCalls>>

\* The condition variable lives on the stack of the waiting thread, and the
\* callback refers to it.
TimedRegister(t) ==
  /\ pc[t] = "register"
  /\ LockFree
  /\ callbacks' = callbacks \cup {t}
  /\ Goto(t, "timed_wait")
  /\ UNCHANGED <<state, handle, future, workerVars, selectorVars, life, lateCalls>>

\* Mutant: the callback outlives the wait.
KeptCallback(t) == callbacks

RemovedCallback(t) == callbacks \ {t}

\* Notified or timed out: remove_callback throws for a callback that state_changed
\* took off the metric already, and the exception leaves wait().
TimedWake(t) ==
  /\ pc[t] = "timed_wait"
  /\ LockFree
  /\ IF t \in callbacks
     THEN /\ callbacks' = RemovedCallback(t)
          /\ Goto(t, "recheck")
     ELSE Return(t, "DoesNotExist") /\ UNCHANGED callbacks
  /\ UNCHANGED <<state, handle, future, workerVars, selectorVars, life, lateCalls>>

WaitRecheck(t) ==
  /\ pc[t] = "recheck"
  /\ LockFree
  /\ Return(t, IF state # "Running" THEN "true" ELSE "false")
  /\ UNCHANGED <<state, handle, callbacks, future, workerVars, selectorVars, life, lateCalls>>

-----------------------------------------------------------------------------
(* bond(), the worker.  It holds a plain pointer to the task: after the     *)
(* object is gone its steps have no defined meaning and the model stops.    *)

WorkerGoto(w, to) == wpc' = [wpc EXCEPT ![w] = to]

WorkerSucceed(w) ==
  /\ life # "gone"
  /\ wpc[w] = "exec"
  /\ setter' = [setter EXCEPT ![w] = "Done"]
  /\ WorkerGoto(w, "finish")
  /\ UNCHANGED <<state, appVars, callbacks, future, wcpi, selectorVars, life, lateCalls>>

RecordedFailure(w) == errors \cup {wcpi[w]}

WorkerFail(w) ==
  /\ life # "gone"
  /\ wpc[w] = "exec"
  /\ LockFree
  /\ errors' = RecordedFailure(w)
  /\ WorkerGoto(w, IF HasSelector THEN "restart" ELSE "finish")
  /\ UNCHANGED <<state, appVars, callbacks, future, setter, wcpi, cpi, noNoList, life, lateCalls>>

\* Mutant: a canceled task is retried.
AlwaysRestarts == TRUE

MayRestart == state # "Canceled"

\* restart() gives up on a canceled task ...
RestartCheck(w) ==
  /\ life # "gone"
  /\ wpc[w] = "restart"
  /\ LockFree
  /\ IF MayRestart
     THEN WorkerGoto(w, "select") /\ UNCHANGED errors
     ELSE WorkerGoto(w, "finish") /\ errors' = errors \cup {cpi}
  /\ UNCHANGED <<state, appVars, callbacks, future, setter, wcpi, cpi, noNoList, life, lateCalls>>

\* Mutant: restart() forgets to ban the adaptor that failed.
ForgottenBan == noNoList

Banned == noNoList \cup {cpi}

\* ... and otherwise bans the adaptor that failed and asks get_next_cpi for
\* another one.  Adaptors that cannot be instantiated are banned on the way;
\* the search may also end without a candidate (see AdaptorSelection).
RestartSelect(w) ==
  /\ life # "gone"
  /\ wpc[w] = "select"
  /\ LockFree
  /\ \E declined \in SUBSET (Adaptors \ Banned) :
       LET banned == Banned \cup declined IN
       /\ noNoList' = banned
       /\ errors' = errors \cup declined
       /\ \/ \E a \in Adaptors \ banned :
               /\ cpi' = a
               /\ wcpi' = [wcpi EXCEPT ![w] = a]
               /\ WorkerGoto(w, "exec")
               /\ lateCalls' = IF state = "Canceled" THEN lateCalls + 1 ELSE lateCalls
          \/ WorkerGoto(w, "finish") /\ UNCHANGED <<cpi, wcpi, lateCalls>>
  /\ UNCHANGED <<state, appVars, callbacks, future, setter, life>>

\* Mutant: the state_setter keeps its default.
DefaultOutcome(w) == "Failed"

StoredOutcome(w) == setter[w]

\* Mutant: the state is stored before the other adaptors are tried.
WorkerFinishThenRetry(w) ==
  /\ life # "gone"
  /\ wpc[w] = "finish"
  /\ LockFree
  /\ SetState(StoredOutcome(w))
  /\ WorkerGoto(w, IF setter[w] = "Failed" THEN "restart" ELSE "returning")
  /\ UNCHANGED <<appVars, future, setter, wcpi, selectorVars, life, lateCalls>>

\* The destructor of the state_setter stores the outcome over whatever the
\* state is by then.
WorkerFinish(w) ==
  /\ life # "gone"
  /\ wpc[w] = "finish"
  /\ LockFree
  /\ SetState(StoredOutcome(w))
  /\ WorkerGoto(w, "returning")
  /\ UNCHANGED <<appVars, future, setter, wcpi, selectorVars, life, lateCalls>>

\* Mutant: the future is not told of a failed operation.
WorkerReturnSuccess(w) ==
  /\ life # "gone"
  /\ wpc[w] = "returning"
  /\ setter[w] = "Done"
  /\ WorkerGoto(w, "joined")
  /\ UNCHANGED <<state, appVars, callbacks, future, setter, wcpi, selectorVars, life, lateCalls>>

\* bond() returned: the future is marked done and joins on it end.
WorkerReturn(w) ==
  /\ life # "gone"
  /\ wpc[w] = "returning"
  /\ WorkerGoto(w, "joined")
  /\ UNCHANGED <<state, appVars, callbacks, future, setter, wcpi, selectorVars, life, lateCalls>>

-----------------------------------------------------------------------------
(* ~task(): runs when no call is in progress; it waits only for a task in   *)
(* state Running.                                                           *)

\* Mutant: the destructor does not wait.
DestroysAtOnce == "gone"

DestroyOrJoin == IF state = "Running" THEN "joining" ELSE "gone"

Destroy ==
  /\ Destroyable
  /\ life = "alive"
  /\ \A t \in Threads : pc[t] = "idle"
  /\ life' = DestroyOrJoin
  /\ UNCHANGED <<state, appVars, callbacks, future, workerVars, selectorVars, lateCalls>>

DestroyJoined ==
  /\ life = "joining"
  /\ wpc[future] = "joined"
  /\ life' = "gone"
  /\ UNCHANGED <<state, appVars, callbacks, future, workerVars, selectorVars, lateCalls>>

-----------------------------------------------------------------------------

AppStep(t) ==
  \/ RunStart(t) \/ RunReplaced(t)
  \/ WaitJoin(t) \/ WaitJoined(t)
  \/ TimedRegister(t) \/ TimedWake(t) \/ WaitRecheck(t)

WorkerStep(w) ==
  \/ WorkerSucceed(w) \/ WorkerFail(w)
  \/ RestartCheck(w) \/ RestartSelect(w)
  \/ WorkerFinish(w) \/ WorkerReturn(w)

AppCall(t) ==
  \/ RunCheck(t) \/ Cancel(t)
  \/ \E timeout \in {"forever", "timed", "poll"} : WaitRead(t, timeout)

Next ==
  \/ \E t \in Threads : AppCall(t) \/ AppStep(t) \/ WorkerStep(t)
  \/ Destroy
  \/ DestroyJoined

Spec == Init /\ [][Next]_vars

\* A call that has begun goes on as soon as the mutex lets it, an adaptor
\* function returns or throws, and timed waits end: the operating system
\* schedules every runnable thread.  Nobody is obliged to begin a call.
Fairness ==
  /\ \A t \in Threads : WF_vars(AppStep(t)) /\ WF_vars(WorkerStep(t))
  /\ WF_vars(DestroyJoined)

FairSpec == Spec /\ Fairness

-----------------------------------------------------------------------------
(* Properties.                                                              *)

SingleRunner == \A t, u \in Runners : t = u

\* Types, and that a thread refers to a worker exactly while it joins it.
TypeOK ==
  /\ state \in States
  /\ pc \in [Threads -> AppPcs]
  /\ handle \in [Threads -> Threads \cup {None}]
  /\ callbacks \in SUBSET Threads
  /\ future \in Threads \cup {None}
  /\ wpc \in [Threads -> WorkerPcs]
  /\ setter \in [Threads -> {"Done", "Failed"}]
  /\ wcpi \in [Threads -> Adaptors \cup {None}]
  /\ cpi \in Adaptors
  /\ noNoList \in SUBSET Adaptors
  /\ errors \in SUBSET Adaptors
  /\ life \in {"alive", "joining", "gone"}
  /\ lateCalls \in Nat
  /\ \A t \in Threads : handle[t] # None <=> pc[t] \in {"joining", "replacing"}

\* The condition variable a callback notifies is a local of wait(): no callback
\* is left on the metric once the timed wait that put it there is over, on
\* whatever way that wait ended.
NoDanglingCondition == \A t \in callbacks : pc[t] = "timed_wait"

\* Whoever read the state Running without the mutex finds a future to join:
\* thread_ is assigned before run() lets anybody see that state.
JoinFindsWorker ==
  /\ state = "Running" => future # None
  /\ \A t \in Threads : pc[t] = "await_future" => future # None
  /\ life = "joining" => future # None

\* Done and Failed are reported after the last adaptor call: a task is not
\* reported as Failed while another adaptor may still be tried.
FinishedStateIsQuiet ==
  state \in {"Done", "Failed"} => \A w \in Threads : ~Executing(w)

\* No adaptor that failed the operation is called a second time.
NoAdaptorTriedTwice ==
  \A w \in Threads : wpc[w] = "exec" => wcpi[w] \notin noNoList \cup errors

\* cancel() cannot stop a call in progress, and may race one retry, but no
\* more than one adaptor is called after it.
LateCallsBounded == lateCalls <= 1

\* rethrow() of a Failed task "must throw": a failure has a recorded reason.
FailedIsExplained == state = "Failed" => errors # {}

\* A task that is destroyed in a state other than Canceled has no worker that
\* could touch its members.
ReleasedTaskIsQuiet ==
  life = "gone" /\ state # "Canceled" => \A w \in Threads : ~Executing(w)

\* Every call of an application thread returns: no mutex is kept for ever, and
\* join and timed wait end.
CallsReturn == \A t \in Threads : pc[t] # "idle" ~> pc[t] = "idle"

\* A task that runs reaches another state.
RunningEnds == state = "Running" ~> state # "Running"

\* What the task promises to its users, see TaskLifecycle.
Outcome ==
  IF \A w \in Threads : wpc[w] = "none" THEN "idle"
  ELSE IF \E w \in Threads : wpc[w] \in {"returning", "joined"} /\ setter[w] = "Done"
  THEN "success"
  ELSE IF \E w \in Threads : wpc[w] \in {"returning", "joined"}
  THEN "failure"
  ELSE "pending"

Lifecycle == INSTANCE TaskLifecycle WITH outcome <- Outcome

RefinesLifecycle == Lifecycle!Spec

-----------------------------------------------------------------------------
(* What the comments say, and the code does not keep.                       *)

\* task.hpp, run(): "this function returns immediately".
RunReturns == \A t \in Threads : pc[t] = "replacing" ~> pc[t] = "idle"
=============================================================================
