------------------------------ MODULE PosixJob ------------------------------
(***************************************************************************)
(* A job of the default job adaptor on a POSIX system                      *)
(* (src/adaptors/default/job/impl_posix_job.cpp, posix_job.cpp): a child   *)
(* process, a thread that waits for it, a thread that moves its input and  *)
(* output, and the clients that run, suspend, resume, signal, cancel, wait *)
(* for and release the job.  The members they share have no lock, so every *)
(* group of accesses others can get between is a step of its own.          *)
(*                                                                         *)
(* A job is either created from a description and run here, or reconnected *)
(* to a process by its id; then there is no thread, as nothing ever sets   *)
(* known_job::spawned, and ps tells the state.  One fork at most succeeds. *)
(***************************************************************************)
EXTENDS FiniteSets, Naturals

CONSTANTS Clients,      \* threads that call the job
          Runners,      \* those of them that may call run(),
          Controllers,  \* suspend(), resume() and signal(),
          Cancelers,    \* cancel() or the destructor,
          Askers        \* get_state() and wait()

ASSUME ClientsAssumption ==
  Runners \cup Controllers \cup Cancelers \cup Askers \subseteq Clients

Final  == {"Done", "Failed", "Canceled"}
States == Final \cup {"New", "Running", "Suspended", "Unknown"}
Ends   == {"exited", "failed", "killed"}       \* wait statuses that end a job
Changes == Ends \cup {"stopped", "continued", "lost"}
Polling == {"reading", "waiting", "timed", "suspending", "resuming"}
NoSnap == "nosnap"

VARIABLES
  state,          \* state_
  reconnected,    \* is_reconnected_: the job was created from a process id
  dying,          \* dying_: the destructor has begun
  child,          \* the process: none, alive, stopped, dead (unreaped), gone
  news,           \* the change of the child waitpid would report next
  pending,        \* signals sent to the child and not delivered yet
  waiter,         \* what run_thread_wait() does
  got,            \* the change it got from waitpid
  io,             \* what run_thread_io() does; "aborted": the program terminates
  pullWait,       \* pull_wait_: the waiter shall go on
  pullForIo,      \* pull_for_io_: there is something to redirect
  pullIo,         \* pull_io_: the I/O thread shall go on
  ioKilled,       \* pull_io_killed_: it shall not care about pending output
  channels,       \* pull_for_io_in_, pull_for_io_out_ and _err_ that are set
  threadsRunning, \* threads_running_
  closed,         \* the pipes were closed by close()
  pc,             \* what each client is doing
  snap,           \* the state each client has from ps and not stored yet
  seen,           \* the waiter has reported the end of the process
  overrun         \* run() has stored Running over what the waiter reported

ghosts  == <<seen, overrun>>
process == <<child, news, pending>>
flags   == <<pullWait, pullForIo, pullIo, ioKilled, channels, threadsRunning, closed>>
vars    == <<state, reconnected, dying, process, waiter, got, io, flags, pc, snap, ghosts>>

TypeOK ==
  /\ state \in States
  /\ reconnected \in BOOLEAN /\ dying \in BOOLEAN /\ closed \in BOOLEAN
  /\ pullWait \in BOOLEAN /\ pullForIo \in BOOLEAN /\ pullIo \in BOOLEAN
  /\ ioKilled \in BOOLEAN /\ threadsRunning \in BOOLEAN
  /\ seen \in BOOLEAN /\ overrun \in BOOLEAN
  /\ child \in {"none", "alive", "stopped", "dead", "gone"}
  /\ news \in Changes \cup {"none"}
  /\ pending \subseteq {"STOP", "KILL"}
  /\ waiter \in {"none", "poll", "report", "closing", "ended"}
  /\ got \in Changes \cup {"none"}
  /\ io \in {"none", "start", "setup", "loop", "joining", "ended", "aborted"}
  /\ channels \subseteq {"in", "out"}
  /\ pc \in [Clients -> Polling \cup {"idle", "forked", "created", "started",
                                      "closing", "joining"}]
  /\ snap \in [Clients -> States \cup {NoSnap}]

\* The constructor from a description; a redirection opens a channel.
Described ==
  /\ reconnected = FALSE /\ state = "New" /\ child = "none"
  /\ channels \in SUBSET {"in", "out"}
  /\ pullForIo = (channels # {}) /\ pullIo = pullForIo

\* The constructor from a process id, for a process that has not ended.
Reconnected ==
  /\ reconnected = TRUE /\ child \in {"alive", "stopped"}
  /\ state = IF child = "alive" THEN "Running" ELSE "Suspended"
  /\ channels = {} /\ pullForIo = FALSE /\ pullIo = FALSE

Init ==
  /\ Described \/ Reconnected
  /\ dying = FALSE
  /\ news = "none" /\ pending = {}
  /\ waiter = "none" /\ got = "none" /\ io = "none"
  /\ pullWait = FALSE /\ ioKilled = FALSE
  /\ threadsRunning = FALSE /\ closed = FALSE
  /\ pc = [c \in Clients |-> "idle"]
  /\ snap = [c \in Clients |-> NoSnap]
  /\ seen = FALSE /\ overrun = FALSE

Goto(c, from, to) == pc[c] = from /\ pc' = [pc EXCEPT ![c] = to]

\* An object that is being destroyed keeps the state it has.
SetState(s) == state' = IF dying THEN state ELSE s

-----------------------------------------------------------------------------
(* The child.  SIGCONT takes effect when it is sent, the others later.      *)

Alive == child \in {"alive", "stopped"}

ChildStops ==
  /\ child = "alive" /\ "STOP" \in pending
  /\ child' = "stopped" /\ news' = "stopped" /\ pending' = pending \ {"STOP"}
  /\ UNCHANGED <<state, reconnected, dying, waiter, got, io, flags, pc, snap, ghosts>>

ChildEnds ==
  /\ \/ child = "alive" /\ news' \in {"exited", "failed"}
     \/ Alive /\ "KILL" \in pending /\ news' = "killed"
  /\ child' = "dead" /\ pending' = {}
  /\ UNCHANGED <<state, reconnected, dying, waiter, got, io, flags, pc, snap, ghosts>>

\* The parent of a process this object only reconnected to, or a part of the
\* application that waits for any child, is faster.
ReapedElsewhere ==
  /\ child = "dead"
  /\ child' = "gone" /\ news' = "none"
  /\ UNCHANGED <<state, reconnected, dying, pending, waiter, got, io, flags, pc, snap, ghosts>>

\* signal(): nothing for a job not started or finished; kill() otherwise.
Signals == child # "none" /\ state \notin Final
KillFails == Signals /\ child = "gone"

Send(sig) ==
  IF ~Signals \/ ~Alive THEN UNCHANGED process
  ELSE IF sig = "CONT"
  THEN /\ pending' = pending \ {"STOP"}
       /\ IF child = "stopped" THEN child' = "alive" /\ news' = "continued"
                               ELSE UNCHANGED <<child, news>>
  ELSE pending' = pending \cup {sig} /\ UNCHANGED <<child, news>>

-----------------------------------------------------------------------------
(* close(), called by clients, by the waiter and by the I/O thread.         *)

\* Lines 433-459.
StopIo ==
  /\ pullIo' = (pullIo /\ ~pullForIo)
  /\ ioKilled' = (ioKilled \/ pullForIo)
  /\ pullForIo' = FALSE

\* Mutant: the flag of the waiter is not reset.
CloseFlagsWithoutWaiter ==
  /\ StopIo
  /\ UNCHANGED <<pullWait, channels, threadsRunning, closed>>

\* Up to line 471.  pull_for_io_ is reset before the test for the I/O thread.
CloseFlags ==
  /\ StopIo
  /\ pullWait' = (pullWait /\ ~threadsRunning)
  /\ UNCHANGED <<channels, threadsRunning, closed>>

\* Lines 473-496, after the join.
CloseEnd ==
  /\ threadsRunning' = FALSE /\ closed' = TRUE
  /\ UNCHANGED <<pullWait, pullForIo, pullIo, ioKilled, channels>>

\* pthread_join() of a thread somebody else joins already may return at once.
Joined(others) == waiter \in {"none", "ended"} \/ others

-----------------------------------------------------------------------------
(* run()                                                                    *)

Idle(c) == pc[c] = "idle" /\ ~dying

RunFork(c) ==
  /\ Idle(c) /\ c \in Runners /\ state = "New" /\ child = "none"
  /\ pc' = [pc EXCEPT ![c] = "forked"]
  /\ child' = "alive"
  /\ UNCHANGED <<state, reconnected, dying, news, pending, waiter, got, io, flags, snap, ghosts>>

\* Either thread may fail to be created: run() throws, the child goes on.
RunThreads(c) ==
  \/ /\ Goto(c, "forked", "created")
     /\ io' = IF pullForIo THEN "start" ELSE "none"
     /\ pullWait' = TRUE /\ waiter' = "poll"
     /\ UNCHANGED <<state, reconnected, dying, process, got, pullForIo, pullIo, ioKilled,
                    channels, threadsRunning, closed, snap, ghosts>>
  \/ /\ Goto(c, "forked", "idle")
     /\ \/ pullForIo /\ UNCHANGED <<io, pullWait>>
        \/ io' = (IF pullForIo THEN "start" ELSE "none") /\ pullWait' = TRUE
     /\ UNCHANGED <<state, reconnected, dying, process, waiter, got, pullForIo, pullIo, ioKilled,
                    channels, threadsRunning, closed, snap, ghosts>>

RunStarted(c) ==
  /\ Goto(c, "created", "started")
  /\ threadsRunning' = TRUE
  /\ UNCHANGED <<state, reconnected, dying, process, waiter, got, io, pullWait, pullForIo,
                 pullIo, ioKilled, channels, closed, snap, ghosts>>

RunReturn(c) ==
  /\ Goto(c, "started", "idle")
  /\ SetState("Running")
  /\ overrun' = (state # "New")
  /\ UNCHANGED <<reconnected, dying, process, waiter, got, io, flags, snap, seen>>

-----------------------------------------------------------------------------
(* The other calls of clients                                               *)

\* Mutant: the state is stored for every job.
CancelStores(c) ==
  /\ Idle(c) /\ c \in Cancelers /\ ~KillFails
  /\ pc' = [pc EXCEPT ![c] = "closing"]
  /\ Send("KILL") /\ SetState("Canceled")
  /\ UNCHANGED <<reconnected, dying, waiter, got, io, flags, snap, ghosts>>

\* For a reconnected job cancel() stores the state, whatever it has been.
Cancel(c) ==
  /\ Idle(c) /\ c \in Cancelers /\ ~KillFails
  /\ pc' = [pc EXCEPT ![c] = "closing"]
  /\ Send("KILL")
  /\ IF reconnected THEN SetState("Canceled") ELSE UNCHANGED state
  /\ UNCHANGED <<reconnected, dying, waiter, got, io, flags, snap, ghosts>>

\* ~posix_job: the last reference is gone, nobody is in a call.
Destroy(c) ==
  /\ c \in Cancelers /\ \A d \in Clients : Idle(d)
  /\ dying' = TRUE
  /\ pc' = [pc EXCEPT ![c] = "closing"]
  /\ UNCHANGED <<state, reconnected, process, waiter, got, io, flags, snap, ghosts>>

Close(c) ==
  /\ \/ Goto(c, "closing", "joining") /\ threadsRunning /\ CloseFlags
     \/ Goto(c, "closing", "idle") /\ ~threadsRunning /\ closed' = TRUE /\ StopIo
        /\ UNCHANGED <<pullWait, channels, threadsRunning>>
     \/ /\ Goto(c, "joining", "idle")
        /\ Joined(io = "joining" \/ \E d \in Clients \ {c} : pc[d] = "joining")
        /\ CloseEnd
  /\ UNCHANGED <<state, reconnected, dying, process, waiter, got, io, snap, ghosts>>

Signal(c) ==
  /\ Idle(c) /\ c \in Controllers /\ Signals /\ ~KillFails
  /\ \E sig \in {"STOP", "CONT", "KILL"} : Send(sig)
  /\ UNCHANGED <<state, reconnected, dying, waiter, got, io, flags, pc, snap, ghosts>>

\* suspend() and resume() send their signal and then poll the state.
Suspend(c) ==
  /\ Idle(c) /\ c \in Controllers /\ state = "Running" /\ ~KillFails
  /\ Send("STOP") /\ pc' = [pc EXCEPT ![c] = "suspending"]
  /\ UNCHANGED <<state, reconnected, dying, waiter, got, io, flags, snap, ghosts>>

Resume(c) ==
  /\ Idle(c) /\ c \in Controllers /\ state = "Suspended" /\ ~KillFails
  /\ Send("CONT") /\ pc' = [pc EXCEPT ![c] = "resuming"]
  /\ UNCHANGED <<state, reconnected, dying, waiter, got, io, flags, snap, ghosts>>

\* get_state(), wait(-1) and wait with a time-out.
Ask(c) ==
  /\ Idle(c) /\ c \in Askers
  /\ \E call \in {"reading", "waiting", "timed"} : pc' = [pc EXCEPT ![c] = call]
  /\ UNCHANGED <<state, reconnected, dying, process, waiter, got, io, flags, snap, ghosts>>

\* What ps tells: Unknown for a process that is gone, for an uninterruptible
\* sleep (state D), and when ps cannot be started.
PsStates ==
  {"Unknown"} \cup CASE child = "alive"   -> {"Running"}
                     [] child = "stopped" -> {"Suspended"}
                     [] child = "dead"    -> {"Done"}
                     [] OTHER             -> {}

\* get_state() of a reconnected job: ask ps, then store.
PsRead(c) ==
  /\ pc[c] \in Polling /\ reconnected /\ snap[c] = NoSnap /\ state \notin Final
  /\ \E s \in PsStates : snap' = [snap EXCEPT ![c] = s]
  /\ UNCHANGED <<state, reconnected, dying, process, waiter, got, io, flags, pc, ghosts>>

PsStore(c) ==
  /\ snap[c] # NoSnap
  /\ snap' = [snap EXCEPT ![c] = NoSnap]
  /\ SetState(IF snap[c] = "Unknown" /\ state # "Unknown" THEN "Done" ELSE snap[c])
  /\ UNCHANGED <<reconnected, dying, process, waiter, got, io, flags, pc, ghosts>>

\* Mutant: Failed is forgotten.
ReturnUnlessFailed(c) ==
  /\ snap[c] = NoSnap
  /\ \/ \E from \in Polling \ {"waiting"} : Goto(c, from, "idle")
     \/ Goto(c, "waiting", "idle") /\ state \in {"Done", "Canceled", "Unknown"}
  /\ UNCHANGED <<state, reconnected, dying, process, waiter, got, io, flags, snap, ghosts>>

\* suspend() and resume() give up after ten seconds, a timed wait earlier.
Return(c) ==
  /\ snap[c] = NoSnap
  /\ \/ \E from \in Polling \ {"waiting"} : Goto(c, from, "idle")
     \/ Goto(c, "waiting", "idle") /\ state \in Final \cup {"Unknown"}
  /\ UNCHANGED <<state, reconnected, dying, process, waiter, got, io, flags, snap, ghosts>>

-----------------------------------------------------------------------------
(* run_thread_wait                                                          *)

WaiterPoll ==
  /\ waiter = "poll" /\ pullWait
  /\ \/ /\ news # "none" /\ got' = news /\ news' = "none"
        /\ child' = IF child = "dead" THEN "gone" ELSE child
     \/ child = "gone" /\ got' = "lost" /\ UNCHANGED <<child, news>>
  /\ waiter' = "report"
  /\ UNCHANGED <<state, reconnected, dying, pending, io, flags, pc, snap, ghosts>>

\* Mutant: the status is stored as it is.
ReportedRaw == got

Reported ==
  CASE got = "stopped"   -> "Suspended"
    [] got = "continued" -> "Running"
    [] got = "failed"    -> "Failed"
    [] got = "killed"    -> "Canceled"
    [] OTHER             -> "Done"

WaiterReport ==
  /\ waiter = "report"
  /\ SetState(Reported)
  /\ waiter' = IF got \in {"killed", "lost"} THEN "closing" ELSE "poll"
  /\ got' = "none"
  /\ IF got \in {"stopped", "continued"}
     THEN UNCHANGED <<pullWait, ioKilled, seen>>
     ELSE pullWait' = FALSE /\ ioKilled' = (got \in {"killed", "lost"}) /\ seen' = TRUE
  /\ UNCHANGED <<reconnected, dying, process, io, pullForIo, pullIo, channels,
                 threadsRunning, closed, pc, snap, overrun>>

\* It would join itself, which pthread_join() refuses.
WaiterClose ==
  /\ waiter = "closing" /\ waiter' = "poll"
  /\ StopIo
  /\ pullWait' = FALSE /\ threadsRunning' = FALSE /\ closed' = TRUE
  /\ UNCHANGED <<state, reconnected, dying, process, got, io, channels, pc, snap, ghosts>>

WaiterEnds ==
  /\ waiter = "poll" /\ ~pullWait
  /\ waiter' = "ended"
  /\ UNCHANGED <<state, reconnected, dying, process, got, io, flags, pc, snap, ghosts>>

Waiter == WaiterPoll \/ WaiterReport \/ WaiterClose \/ WaiterEnds

-----------------------------------------------------------------------------
(* run_thread_io                                                            *)

IoStart ==
  /\ io = "start"
  /\ IF pullForIo THEN io' = "setup" /\ ioKilled' = FALSE
                  ELSE io' = "ended" /\ UNCHANGED ioKilled
  /\ UNCHANGED <<state, reconnected, dying, process, waiter, got, pullWait, pullForIo,
                 pullIo, channels, threadsRunning, closed, pc, snap, ghosts>>

\* fcntl() on a closed pipe: throw 1, which the handler for std::exception lets
\* through, so that the exception leaves the thread's function.
IoSetup ==
  /\ io = "setup"
  /\ io' = IF closed THEN "aborted" ELSE "loop"
  /\ UNCHANGED <<state, reconnected, dying, process, waiter, got, flags, pc, snap, ghosts>>

IoGoesOn == pullIo \/ (~ioKilled /\ channels # {})

\* One ready channel: the whole input is written, its end closes the channel;
\* the end of the output only sets pull_io_killed_.
IoTransfer ==
  /\ io = "loop" /\ IoGoesOn /\ ~closed
  /\ \/ /\ "in" \in channels
        /\ channels' = channels \ {"in"}
        /\ pullIo' = (pullIo /\ channels' # {})
        /\ UNCHANGED ioKilled
     \/ /\ "out" \in channels /\ ~Alive
        /\ ioKilled' = TRUE
        /\ UNCHANGED <<channels, pullIo>>
  /\ UNCHANGED <<state, reconnected, dying, process, waiter, got, io, pullWait, pullForIo,
                 threadsRunning, closed, pc, snap, ghosts>>

\* Mutant: pull_io_killed_ is left as it is.
IoFailsOnly ==
  /\ io = "loop" /\ IoGoesOn /\ closed
  /\ SetState("Unknown")
  /\ io' = IF threadsRunning THEN "joining" ELSE "loop"
  /\ pullIo' = FALSE /\ pullForIo' = FALSE
  /\ pullWait' = (pullWait /\ ~threadsRunning)
  /\ UNCHANGED <<reconnected, dying, process, waiter, got, ioKilled, channels,
                 threadsRunning, closed, pc, snap, ghosts>>

\* select() on a closed pipe, unless its number is in use again.
IoFails ==
  /\ io = "loop" /\ IoGoesOn /\ closed
  /\ SetState("Unknown")
  /\ io' = IF threadsRunning THEN "joining" ELSE "loop"
  /\ pullIo' = FALSE /\ ioKilled' = TRUE /\ pullForIo' = FALSE
  /\ pullWait' = (pullWait /\ ~threadsRunning)
  /\ UNCHANGED <<reconnected, dying, process, waiter, got, channels, threadsRunning,
                 closed, pc, snap, ghosts>>

IoJoined ==
  /\ io = "joining" /\ io' = "loop"
  /\ Joined(\E c \in Clients : pc[c] = "joining")
  /\ CloseEnd
  /\ UNCHANGED <<state, reconnected, dying, process, waiter, got, pc, snap, ghosts>>

IoEnds ==
  /\ io = "loop" /\ ~IoGoesOn
  /\ io' = "ended"
  /\ UNCHANGED <<state, reconnected, dying, process, waiter, got, flags, pc, snap, ghosts>>

Io == IoStart \/ IoSetup \/ IoTransfer \/ IoFails \/ IoJoined \/ IoEnds

-----------------------------------------------------------------------------
InRun(c)  == RunThreads(c) \/ RunStarted(c) \/ RunReturn(c)
Client(c) == \/ RunFork(c) \/ Cancel(c) \/ Destroy(c) \/ Signal(c)
             \/ Suspend(c) \/ Resume(c) \/ Ask(c)
             \/ InRun(c) \/ Close(c) \/ PsRead(c) \/ PsStore(c) \/ Return(c)

Running == io # "aborted"

Next ==
  /\ Running
  /\ \/ ChildStops \/ ChildEnds \/ ReapedElsewhere
     \/ Waiter \/ Io
     \/ \E c \in Clients : Client(c)

Spec == Init /\ [][Next]_vars

\* Threads that can go on do; a loop that polls looks at the state after every
\* get_state() and at the clock.  Nobody has to call, no process has to end.
Fairness ==
  /\ WF_vars(Running /\ Waiter)
  /\ WF_vars(Running /\ Io)
  /\ \A c \in Clients :
       /\ WF_vars(Running /\ InRun(c))
       /\ WF_vars(Running /\ Close(c))
       /\ WF_vars(Running /\ (PsRead(c) \/ PsStore(c)))
       /\ SF_vars(Running /\ Return(c))

FairSpec == Spec /\ Fairness

-----------------------------------------------------------------------------
(* Properties                                                               *)

\* A job that was run here is reported Done, Failed or Canceled only when its
\* process has ended, however cancel, the waiter and close() interleave.
FinalMeansEnded == ~reconnected /\ state \in Final => ~Alive

\* Every call but wait(-1) returns, cancel() and the destructor in spite of the
\* join of a thread that joins, too, or the application is terminated.
CallsReturn ==
  \A c \in Clients :
    pc[c] \notin {"idle", "waiting"} ~> pc[c] \in {"idle", "waiting"} \/ io = "aborted"

\* wait(-1) returns when the process has ended; not if cancel() has stopped the
\* waiter first, nor if run() has stored Running over the final state.
Abandoned == ~reconnected /\ waiter \in {"none", "ended"} /\ ~seen
WaitReturns ==
  \A c \in Clients :
    pc[c] = "waiting" /\ child \in {"dead", "gone"}
      ~> pc[c] # "waiting" \/ Abandoned \/ overrun \/ io = "aborted"

\* Once somebody has closed the job, its I/O thread ends.
CloseEndsIo == closed ~> io \in {"none", "ended", "aborted"}
=============================================================================
