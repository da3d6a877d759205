--------------------------- MODULE PosixJob_proofs ---------------------------
(***************************************************************************)
(* Proofs about PosixJob, for any set of clients with any roles.           *)
(***************************************************************************)
EXTENDS PosixJob, TLAPS

\* What never lives again, and what was never started.
Ended == child \in {"dead", "gone"}
NotRun ==
  /\ news = "none" /\ waiter = "none" /\ got = "none"
  /\ \A c \in Clients : pc[c] \notin {"forked", "created", "started"}

\* What is on its way into the state: the news of the kernel, what the waiting
\* thread has got and not yet stored, and the answers of ps, which only
\* reconnected jobs ask for.
TruthOnItsWay ==
  /\ news # "lost" /\ (news \in Ends => child = "dead")
  /\ waiter = "report" => got # "none"
  /\ got \in Ends \cup {"lost"} => Ended
  /\ ~reconnected => \A c \in Clients : snap[c] = NoSnap
  /\ ~reconnected /\ state \in Final => Ended
  /\ child = "none" => NotRun

JobInv == TypeOK /\ TruthOnItsWay

\* TypeOK in two parts: the members that are true or false, and the others.
FlagTypes ==
  /\ reconnected \in BOOLEAN /\ dying \in BOOLEAN /\ closed \in BOOLEAN
  /\ pullWait \in BOOLEAN /\ pullForIo \in BOOLEAN /\ pullIo \in BOOLEAN
  /\ ioKilled \in BOOLEAN /\ threadsRunning \in BOOLEAN
  /\ seen \in BOOLEAN /\ overrun \in BOOLEAN
DataTypes ==
  /\ state \in States
  /\ child \in {"none", "alive", "stopped", "dead", "gone"}
  /\ news \in Changes \cup {"none"}
  /\ pending \subseteq {"STOP", "KILL"}
  /\ waiter \in {"none", "poll", "report", "closing", "ended"}
  /\ got \in Changes \cup {"none"}
  /\ io \in {"none", "start", "setup", "loop", "joining", "ended", "aborted"}
  /\ channels \subseteq {"in", "out"}
  /\ pc \in [Clients -> Polling \cup {"idle", "forked", "created", "started",
                                      "closing", "joining"}]
  /\ snap \in [Clients -> States \cup {NoSnap}]

-----------------------------------------------------------------------------
(* The next-state relation, one action at a time.                           *)

USE DEF JobInv, TypeOK, FlagTypes, DataTypes, TruthOnItsWay, Ended, NotRun, Final, States, Ends, Changes,
        Polling, NoSnap, Alive, SetState, process, flags, ghosts

\* A job that has just been constructed.
LEMMA JobInit == ASSUME Init PROVE JobInv
  BY DEF Init, Described, Reconnected

\* Signals do not change whether the process lives, nor what it has come to.
LEMMA SendKeepsLife ==
  ASSUME JobInv, NEW sig \in {"STOP", "CONT", "KILL"}, Send(sig)
  PROVE  /\ child' \in {"none", "alive", "stopped", "dead", "gone"}
         /\ news' \in Changes \cup {"none"} /\ pending' \subseteq {"STOP", "KILL"}
         /\ Ended' = Ended /\ (child' = "none") = (child = "none")
         /\ news' = news \/ (news' = "continued" /\ child' = "alive")
         /\ child' = child \/ (child = "stopped" /\ child' = "alive")
<1>1. CASE ~Signals \/ ~Alive
  BY <1>1 DEF Send
<1>2. CASE Signals /\ Alive /\ sig = "CONT"
  <2>1. pending' = pending \ {"STOP"}
    BY <1>2 DEF Send
  <2>2. CASE child = "stopped"
    <3>1. child' = "alive" /\ news' = "continued"
      BY <1>2, <2>2 DEF Send
    <3> QED
      BY <2>1, <2>2, <3>1
  <2>3. CASE child # "stopped"
    <3>1. child' = child /\ news' = news
      BY <1>2, <2>3 DEF Send
    <3> QED
      BY <2>1, <2>3, <3>1
  <2> QED
    BY <2>2, <2>3
<1>3. CASE Signals /\ Alive /\ sig # "CONT"
  <2>1. pending' = pending \cup {sig} /\ child' = child /\ news' = news
    BY <1>3 DEF Send
  <2> QED
    BY <1>3, <2>1
<1> QED
  BY <1>1, <1>2, <1>3

\* The operating system's steps.
LEMMA ChildSteps ==
  ASSUME JobInv, ChildStops \/ ChildEnds \/ ReapedElsewhere PROVE JobInv'
<1>1. CASE ChildStops
  BY <1>1 DEF ChildStops
<1>2. CASE ChildEnds
  BY <1>2 DEF ChildEnds
<1>3. CASE ReapedElsewhere
  BY <1>3 DEF ReapedElsewhere
<1> QED
  BY <1>1, <1>2, <1>3

\* The waiting thread.
LEMMA WaiterSteps == ASSUME JobInv, Waiter PROVE JobInv'
<1>1. CASE WaiterPoll
  <2>1. FlagTypes'
    BY <1>1 DEF WaiterPoll
  <2>2. /\ waiter' = "report" /\ got' # "none" /\ got' \in Changes
        /\ UNCHANGED <<state, reconnected, dying, pending, io, channels, pc, snap>>
    BY <1>1 DEF WaiterPoll
  <2>3. /\ child' \in {"none", "alive", "stopped", "dead", "gone"}
        /\ news' \in Changes \cup {"none"}
        /\ Ended => Ended'
        /\ (child' = "none") = (child = "none")
    BY <1>1 DEF WaiterPoll
  <2>4. (got' \in Ends \cup {"lost"} => Ended') /\ news' \notin Ends
    BY <1>1 DEF WaiterPoll
  <2>5. DataTypes'
    BY <2>2, <2>3
  <2>6. TruthOnItsWay'
    BY <1>1, <2>2, <2>3, <2>4 DEF WaiterPoll
  <2> QED
    BY <2>1, <2>5, <2>6
<1>2. CASE WaiterReport
  <2>1. FlagTypes'
    <3>1. /\ reconnected' \in BOOLEAN /\ dying' \in BOOLEAN /\ closed' \in BOOLEAN
          /\ pullForIo' \in BOOLEAN /\ pullIo' \in BOOLEAN
          /\ threadsRunning' \in BOOLEAN /\ overrun' \in BOOLEAN
      BY <1>2 DEF WaiterReport
    <3>2. pullWait' \in BOOLEAN
      BY <1>2 DEF WaiterReport
    <3>3. seen' \in BOOLEAN
      BY <1>2 DEF WaiterReport
    <3>4. ioKilled' \in BOOLEAN
      <4>1. CASE got \in {"stopped", "continued"}
        BY <1>2, <4>1 DEF WaiterReport
      <4>2. CASE got \notin {"stopped", "continued"}
        <5>1. ioKilled' = (got \in {"killed", "lost"})
          BY <1>2, <4>2 DEF WaiterReport
        <5> QED
          BY <5>1
      <4> QED
        BY <4>1, <4>2
    <3> QED
      BY <3>1, <3>2, <3>3, <3>4
  <2>2. DataTypes' /\ TruthOnItsWay'
    BY <1>2 DEF WaiterReport, Reported
  <2> QED
    BY <2>1, <2>2
<1>3. CASE WaiterClose
  <2>1. FlagTypes'
    BY <1>3 DEF WaiterClose, StopIo
  <2>2. DataTypes' /\ TruthOnItsWay'
    BY <1>3 DEF WaiterClose, StopIo
  <2> QED
    BY <2>1, <2>2
<1>4. CASE WaiterEnds
  BY <1>4 DEF WaiterEnds
<1> QED
  BY <1>1, <1>2, <1>3, <1>4 DEF Waiter

\* The I/O thread.
LEMMA IoSteps == ASSUME JobInv, Io PROVE JobInv'
<1>1. CASE IoStart \/ IoSetup \/ IoEnds
  <2>1. FlagTypes'
    <3>1. CASE IoStart
      BY <3>1 DEF IoStart
    <3>2. CASE IoSetup
      BY <3>2 DEF IoSetup
    <3>3. CASE IoEnds
      BY <3>3 DEF IoEnds
    <3> QED
      BY <1>1, <3>1, <3>2, <3>3
  <2>2. io' \in {"setup", "ended", "aborted", "loop"}
    BY <1>1 DEF IoStart, IoSetup, IoEnds
  <2>3. UNCHANGED <<state, reconnected, process, waiter, got, channels, pc, snap>>
    BY <1>1 DEF IoStart, IoSetup, IoEnds
  <2> QED
    BY <2>1, <2>2, <2>3
<1>2. CASE IoTransfer
  <2>1. FlagTypes'
    BY <1>2 DEF IoTransfer
  <2>2. channels' \subseteq channels
    BY <1>2 DEF IoTransfer
  <2>3. UNCHANGED <<state, reconnected, process, waiter, got, io, pc, snap>>
    BY <1>2 DEF IoTransfer
  <2> QED
    BY <2>1, <2>2, <2>3
<1>3. CASE IoFails
  <2>1. FlagTypes'
    BY <1>3 DEF IoFails
  <2>2. DataTypes' /\ TruthOnItsWay'
    BY <1>3 DEF IoFails
  <2> QED
    BY <2>1, <2>2
<1>4. CASE IoJoined
  <2>1. FlagTypes'
    BY <1>4 DEF IoJoined, CloseEnd
  <2>2. DataTypes' /\ TruthOnItsWay'
    BY <1>4 DEF IoJoined, CloseEnd
  <2> QED
    BY <2>1, <2>2
<1> QED
  BY <1>1, <1>2, <1>3, <1>4 DEF Io

\* The clients.
LEMMA ClientSteps == ASSUME JobInv, NEW c \in Clients, Client(c) PROVE JobInv'
<1> USE DEF Goto, Idle
<1>1. CASE RunFork(c)
  BY <1>1 DEF RunFork
<1>2. CASE RunThreads(c)
  <2>1. FlagTypes'
    <3>1. UNCHANGED <<reconnected, dying, closed, pullForIo, pullIo, ioKilled, threadsRunning,
                      seen, overrun>>
      BY <1>2 DEF RunThreads
    <3>2. pullWait' \in BOOLEAN
      BY <1>2 DEF RunThreads
    <3> QED
      BY <3>1, <3>2
  <2>2. /\ pc[c] = "forked"
        /\ pc' = [pc EXCEPT ![c] = "created"] \/ pc' = [pc EXCEPT ![c] = "idle"]
        /\ waiter' \in {waiter, "poll"} /\ io' \in {io, "start", "none"}
    BY <1>2 DEF RunThreads
  <2>3. UNCHANGED <<state, reconnected, process, got, channels, snap>>
    BY <1>2 DEF RunThreads
  <2>4. child # "none"
    BY <2>2
  <2>5. DataTypes'
    BY <2>2, <2>3
  <2>6. TruthOnItsWay'
    BY <2>2, <2>3, <2>4
  <2> QED
    BY <2>1, <2>5, <2>6
<1>3. CASE RunStarted(c)
  <2>1. FlagTypes'
    BY <1>3 DEF RunStarted
  <2>2. /\ pc[c] = "created" /\ pc' = [pc EXCEPT ![c] = "started"]
        /\ UNCHANGED <<state, reconnected, process, waiter, got, io, channels, snap>>
    BY <1>3 DEF RunStarted
  <2> QED
    BY <2>1, <2>2
<1>4. CASE RunReturn(c)
  <2>1. overrun' \in BOOLEAN
    <3>1. overrun' = (state # "New")
      BY <1>4 DEF RunReturn
    <3> QED
      BY <3>1
  <2>2. FlagTypes'
    BY <1>4, <2>1 DEF RunReturn
  <2>3. /\ pc[c] = "started" /\ pc' = [pc EXCEPT ![c] = "idle"]
        /\ state' \in {state, "Running"}
        /\ UNCHANGED <<reconnected, process, waiter, got, io, channels, snap>>
    BY <1>4 DEF RunReturn
  <2> QED
    BY <2>2, <2>3
<1>5. CASE Cancel(c)
  BY <1>5, SendKeepsLife DEF Cancel
<1>6. CASE Destroy(c)
  BY <1>6 DEF Destroy
<1>7. CASE Close(c)
  <2>1. FlagTypes'
    BY <1>7 DEF Close, CloseFlags, StopIo, CloseEnd
  <2>2. \E to \in {"idle", "joining"} : pc' = [pc EXCEPT ![c] = to]
    BY <1>7 DEF Close
  <2>3. UNCHANGED <<state, reconnected, process, waiter, got, io, channels, snap>>
    BY <1>7 DEF Close, CloseFlags, StopIo, CloseEnd
  <2> QED
    BY <2>1, <2>2, <2>3
<1>8. CASE Signal(c)
  BY <1>8, SendKeepsLife DEF Signal
<1>9. CASE Suspend(c)
  BY <1>9, SendKeepsLife DEF Suspend
<1>10. CASE Resume(c)
  BY <1>10, SendKeepsLife DEF Resume
<1>11. CASE Ask(c)
  BY <1>11 DEF Ask
<1>12. CASE PsRead(c)
  BY <1>12 DEF PsRead, PsStates
<1>13. CASE PsStore(c)
  BY <1>13 DEF PsStore
<1>14. CASE Return(c)
  BY <1>14 DEF Return
<1> QED
  BY <1>1, <1>2, <1>3, <1>4, <1>5, <1>6, <1>7, <1>8, <1>9, <1>10, <1>11, <1>12, <1>13,
     <1>14 DEF Client, InRun

\* It holds always: the fact the theorems below rest on.
THEOREM JobInvariant == Spec => []JobInv
<1>1. Init => JobInv
  BY JobInit
<1>2. JobInv /\ [Next]_vars => JobInv'
  <2>1. ASSUME JobInv, Next PROVE JobInv'
    BY <2>1, ChildSteps, WaiterSteps, IoSteps, ClientSteps DEF Next
  <2>2. ASSUME JobInv, UNCHANGED vars PROVE JobInv'
    BY <2>2 DEF vars
  <2> QED
    BY <2>1, <2>2
<1> QED
  BY <1>1, <1>2, PTL DEF Spec

\* Type correctness of all variables.
THEOREM JobTypes == Spec => []TypeOK
<1>1. JobInv => TypeOK
  OBVIOUS
<1> QED
  BY <1>1, JobInvariant, PTL

\* Done, Failed and Canceled of a job that was run here are true: its process has
\* ended (run_thread_wait and cancel, impl_posix_job.cpp), however many clients
\* signal, cancel and close it.
THEOREM FinalIsTrue == Spec => []FinalMeansEnded
<1>1. JobInv => FinalMeansEnded
  BY DEF FinalMeansEnded
<1> QED
  BY <1>1, JobInvariant, PTL

-----------------------------------------------------------------------------
(* The verdict on a job that was run here.                                  *)

\* One run() at most is past its fork, and the waiter is not there before it.
\* Once the waiter has reported an end it is told to stop and reports nothing
\* more; nobody else finds out how a job that was run here has ended.
VerdictInv ==
  /\ \A c, d \in Clients : pc[c] = "forked" /\ pc[d] = "forked" => c = d
  /\ \A c \in Clients : pc[c] = "forked" => waiter = "none"
  /\ waiter = "none" => ~seen
  /\ seen => ~pullWait /\ waiter # "report"
  /\ ~reconnected /\ state \in Final => seen

\* What of JobInv its preservation rests on.
JobFacts ==
  /\ pc \in [Clients -> Polling \cup {"idle", "forked", "created", "started",
                                      "closing", "joining"}]
  /\ got \in Changes \cup {"none"} /\ (waiter = "report" => got # "none")
  /\ ~reconnected => \A c \in Clients : snap[c] = NoSnap
  /\ child = "none" => waiter = "none" /\ \A c \in Clients : pc[c] # "forked"

\* They are in JobInv.
LEMMA JobFactsHold == ASSUME JobInv PROVE JobFacts
  BY DEF JobFacts

\* The end of run() overwrites what the waiter has reported meanwhile, and the
\* I/O thread the state of a job whose pipes were closed under it; nothing else
\* changes a final state of a job that was run here.
VerdictStands ==
  ~reconnected /\ state \in Final =>
    \/ state' = state
    \/ state' = "Running" /\ \E c \in Clients : RunReturn(c)
    \/ state' = "Unknown" /\ IoFails

\* Steps of the child, of the kernel and of the I/O thread.
LEMMA VerdictOfOthers ==
  ASSUME JobFacts, VerdictInv, ChildStops \/ ChildEnds \/ ReapedElsewhere \/ Io
  PROVE  VerdictInv' /\ VerdictStands
<1>1. CASE ChildStops \/ ChildEnds \/ ReapedElsewhere
  <2>1. UNCHANGED <<state, reconnected, waiter, pullWait, pc, seen>>
    BY <1>1 DEF ChildStops, ChildEnds, ReapedElsewhere
  <2> QED
    BY <2>1 DEF VerdictInv, VerdictStands
<1>2. CASE IoStart \/ IoSetup \/ IoTransfer \/ IoJoined \/ IoEnds
  <2>1. UNCHANGED <<state, reconnected, waiter, pullWait, pc, seen>>
    BY <1>2 DEF IoStart, IoSetup, IoTransfer, IoJoined, CloseEnd, IoEnds
  <2> QED
    BY <2>1 DEF VerdictInv, VerdictStands
<1>3. CASE IoFails
  <2>1. /\ UNCHANGED <<reconnected, waiter, pc, seen>>
        /\ state' = state \/ state' = "Unknown"
    BY <1>3 DEF IoFails
  <2>2. pullWait' = (pullWait /\ ~threadsRunning)
    BY <1>3 DEF IoFails
  <2> QED
    BY <1>3, <2>1, <2>2 DEF VerdictInv, VerdictStands
<1> QED
  BY <1>1, <1>2, <1>3 DEF Io

\* The waiter: it reports while nobody has told the end yet.
LEMMA VerdictOfWaiter ==
  ASSUME JobFacts, VerdictInv, Waiter PROVE VerdictInv' /\ VerdictStands
<1>1. waiter # "none" /\ UNCHANGED <<reconnected, pc>>
  BY DEF Waiter, WaiterPoll, WaiterReport, WaiterClose, WaiterEnds
<1>2. waiter' # "none" /\ \A c \in Clients : pc[c] # "forked"
  BY <1>1 DEF Waiter, WaiterPoll, WaiterReport, WaiterClose, WaiterEnds, VerdictInv
<1>3. CASE WaiterPoll
  <2>1. pullWait /\ UNCHANGED <<state, pullWait, seen>>
    BY <1>3 DEF WaiterPoll
  <2> QED
    BY <1>1, <1>2, <2>1 DEF VerdictInv, VerdictStands
<1>4. CASE WaiterReport
  <2>1. ~seen /\ waiter' # "report" /\ got # "none"
    BY <1>4 DEF WaiterReport, VerdictInv, JobFacts
  <2>2. ~(~reconnected /\ state \in Final)
    BY <2>1 DEF VerdictInv
  <2>3. CASE got \in {"stopped", "continued"}
    <3>1. seen' = seen
      BY <1>4, <2>3 DEF WaiterReport
    <3>2. state' = state \/ state' \in {"Suspended", "Running"}
      BY <1>4, <2>3 DEF WaiterReport, Reported
    <3> QED
      BY <1>1, <1>2, <2>1, <2>2, <3>1, <3>2 DEF VerdictInv, VerdictStands
  <2>4. CASE got \notin {"stopped", "continued"}
    <3>1. seen' /\ ~pullWait'
      BY <1>4, <2>4 DEF WaiterReport
    <3> QED
      BY <1>1, <1>2, <2>1, <2>2, <3>1 DEF VerdictInv, VerdictStands
  <2> QED
    BY <2>3, <2>4
<1>5. CASE WaiterClose
  <2>1. ~pullWait' /\ waiter' = "poll" /\ UNCHANGED <<state, seen>>
    BY <1>5 DEF WaiterClose
  <2> QED
    BY <1>1, <1>2, <2>1 DEF VerdictInv, VerdictStands
<1>6. CASE WaiterEnds
  <2>1. waiter' = "ended" /\ UNCHANGED <<state, pullWait, seen>>
    BY <1>6 DEF WaiterEnds
  <2> QED
    BY <1>1, <1>2, <2>1 DEF VerdictInv, VerdictStands
<1> QED
  BY <1>3, <1>4, <1>5, <1>6 DEF Waiter

\* The clients: run() forks once, and only it starts the waiter.
LEMMA VerdictOfClient ==
  ASSUME JobFacts, VerdictInv, NEW c \in Clients, Client(c)
  PROVE  VerdictInv' /\ VerdictStands
<1> USE DEF Goto, Idle
<1>1. CASE RunFork(c)
  <2>1. /\ child = "none" /\ pc' = [pc EXCEPT ![c] = "forked"]
        /\ UNCHANGED <<state, reconnected, waiter, pullWait, seen>>
    BY <1>1 DEF RunFork
  <2> QED
    BY <2>1 DEF VerdictInv, VerdictStands, JobFacts
<1>2. CASE RunThreads(c)
  <2>1. /\ pc[c] = "forked" /\ UNCHANGED <<state, reconnected, seen>>
        /\ \/ pc' = [pc EXCEPT ![c] = "created"] /\ waiter' = "poll"
           \/ pc' = [pc EXCEPT ![c] = "idle"] /\ waiter' = waiter
    BY <1>2 DEF RunThreads
  <2>2. ~seen /\ \A d \in Clients : pc'[d] # "forked"
    BY <2>1 DEF VerdictInv, JobFacts
  <2> QED
    BY <2>1, <2>2 DEF VerdictInv, VerdictStands
<1>3. CASE RunReturn(c)
  <2>1. /\ pc' = [pc EXCEPT ![c] = "idle"]
        /\ UNCHANGED <<reconnected, waiter, pullWait, seen>>
    BY <1>3 DEF RunReturn
  <2>2. state' = state \/ state' = "Running"
    BY <1>3 DEF RunReturn
  <2>3. \A d \in Clients : pc'[d] = "forked" => pc[d] = "forked"
    BY <2>1 DEF JobFacts
  <2>4. VerdictStands
    BY <1>3, <2>2 DEF VerdictStands
  <2> QED
    BY <2>1, <2>2, <2>3, <2>4 DEF VerdictInv
<1>4. CASE Cancel(c) \/ PsStore(c)
  <2>1. /\ UNCHANGED <<reconnected, waiter, pullWait, seen>>
        /\ pc' = pc \/ pc' = [pc EXCEPT ![c] = "closing"]
    BY <1>4 DEF Cancel, PsStore
  <2>2. ~reconnected => state' = state
    BY <1>4 DEF Cancel, PsStore, JobFacts
  <2>3. \A d \in Clients : pc'[d] = "forked" => pc[d] = "forked"
    BY <2>1 DEF JobFacts
  <2> QED
    BY <2>1, <2>2, <2>3 DEF VerdictInv, VerdictStands
<1>5. CASE Close(c)
  <2>1. /\ UNCHANGED <<state, reconnected, waiter, seen>>
        /\ pc' = [pc EXCEPT ![c] = "joining"] \/ pc' = [pc EXCEPT ![c] = "idle"]
    BY <1>5 DEF Close
  <2>2. pullWait' = pullWait \/ pullWait' = (pullWait /\ ~threadsRunning)
    BY <1>5 DEF Close, CloseFlags, CloseEnd
  <2>3. pullWait' => pullWait
    BY <2>2
  <2>4. \A d \in Clients : pc'[d] = "forked" => pc[d] = "forked"
    BY <2>1 DEF JobFacts
  <2> QED
    BY <2>1, <2>3, <2>4 DEF VerdictInv, VerdictStands
<1>6. CASE \/ RunStarted(c) \/ Destroy(c) \/ Signal(c) \/ Suspend(c) \/ Resume(c)
           \/ Ask(c) \/ PsRead(c) \/ Return(c)
  <2>1. UNCHANGED <<state, reconnected, waiter, pullWait, seen>>
    BY <1>6 DEF RunStarted, Destroy, Signal, Suspend, Resume, Ask, PsRead, Return
  <2>2. pc' = pc \/ \E to \in {"started", "closing", "suspending", "resuming", "reading",
                               "waiting", "timed", "idle"} : pc' = [pc EXCEPT ![c] = to]
    BY <1>6 DEF RunStarted, Destroy, Signal, Suspend, Resume, Ask, PsRead, Return
  <2>3. \A d \in Clients : pc'[d] = "forked" => pc[d] = "forked"
    BY <2>2 DEF JobFacts
  <2> QED
    BY <2>1, <2>3 DEF VerdictInv, VerdictStands
<1> QED
  BY <1>1, <1>2, <1>3, <1>4, <1>5, <1>6 DEF Client, InRun

\* A job that was run here has one verdict: however many clients signal, cancel,
\* close and poll it, Done, Failed or Canceled is never replaced by another of
\* them, and by Running or Unknown only in the two races that VerdictStands names.
THEOREM OneVerdict == Spec => [](VerdictInv) /\ [][VerdictStands]_vars
<1>1. Init => VerdictInv
  BY DEF Init, Described, Reconnected, VerdictInv
<1>2. JobInv /\ VerdictInv /\ [Next]_vars => VerdictInv' /\ [VerdictStands]_vars
  <2>1. ASSUME JobInv, VerdictInv, Next PROVE VerdictInv' /\ VerdictStands
    <3>1. JobFacts
      BY <2>1, JobFactsHold
    <3>2. \/ ChildStops \/ ChildEnds \/ ReapedElsewhere \/ Io
          \/ Waiter \/ \E c \in Clients : Client(c)
      BY <2>1 DEF Next
    <3> QED
      BY <2>1, <3>1, <3>2, VerdictOfOthers, VerdictOfWaiter, VerdictOfClient
  <2>2. ASSUME VerdictInv, UNCHANGED vars PROVE VerdictInv'
    BY <2>2 DEF VerdictInv, vars
  <2> QED
    BY <2>1, <2>2
<1> QED
  BY <1>1, <1>2, JobInvariant, PTL DEF Spec
=============================================================================
