-------------------------- MODULE AdaptorSelection --------------------------
(***************************************************************************)
(* How a proxy finds the adaptor that executes a call of the API: its      *)
(* constructor (initcpi), the loop of a synchronous call (execute_sync)    *)
(* and the one of a task (get_next_cpi, with bond and restart), over       *)
(* select_run_mode, which prefers the CPI instances the proxy caches and   *)
(* instantiates another one when none of them will do.                     *)
(*                                                                         *)
(* Several threads call one proxy.  select_run_mode runs under its mutex   *)
(* and is one step; an adaptor executes without it.                        *)
(*                                                                         *)
(* Left out: the preferences of a session (an adaptor that does not match  *)
(* them counts as one that does not implement the operation), whether an   *)
(* adaptor has the synchronous or the asynchronous form of an operation,   *)
(* and the exceptions collected for the report to the caller.              *)
(***************************************************************************)
EXTENDS Integers, Sequences

CONSTANTS
  Callers,      \* threads, each calling an operation of its own, repeatedly
  Async,        \* those that call it through a task
  Adaptors,     \* the CPIs registered for the type of the proxy
  Implementers, \* for each caller, the CPIs that implement its operation
  Fixme,        \* the CPIs that set the flag cpi::Fixme
  CtorErrors,   \* the errors a CPI's constructor may report
  None          \* no CPI

\* Of saga::error, the codes the selection tells apart.
NotImplemented == 1
AdaptorDeclined == 12
NoAdaptor == 13
NoAdaptorInfo == 14

ASSUME SelectionAssumption ==
  /\ Async \subseteq Callers
  /\ Implementers \in [Callers -> SUBSET Adaptors]
  /\ Fixme \subseteq Adaptors
  /\ CtorErrors \subseteq (1 .. 15) \ {NoAdaptor, NoAdaptorInfo}
  /\ None \notin Adaptors

VARIABLES
  object,   \* of the API object: "constructing", "usable" or "unusable"
  initList, \* the no_no_list of initcpi
  cpis,     \* the CPI instances cached by the proxy, the current one first
  pc,       \* where each caller is; "failed" is a call that returned an error
  noNo,     \* the no_no_list of each call
  current,  \* the instance each call executes
  called    \* history: the instances each call has executed

vars == <<object, initList, cpis, pc, noNo, current, called>>

Init ==
  /\ object = "constructing"
  /\ initList = {}
  /\ cpis = <<>>
  /\ pc = [c \in Callers |-> "returned"]
  /\ noNo = [c \in Callers |-> {}]
  /\ current = [c \in Callers |-> None]
  /\ called = [c \in Callers |-> {}]

-----------------------------------------------------------------------------
(* The list of cached instances.                                            *)

Cached == {cpis[i] : i \in DOMAIN cpis}

\* Mutant: the selected instance stays where it is.
NotMoved(i) == cpis

MovedToFront(i) ==
  [j \in 1 .. Len(cpis) |-> IF j = 1 THEN cpis[i] ELSE IF j <= i THEN cpis[j - 1] ELSE cpis[j]]

\* Mutant: the new instance does not get into the list.
Uncached(a) == cpis

Installed(a) == <<a>> \o cpis

-----------------------------------------------------------------------------
(* initcpi: the constructor of the API object instantiates the first CPI    *)
(* that accepts it.                                                         *)

\* An exception of another kind than saga::exception leaves the loop.
InitCpi ==
  /\ object = "constructing"
  /\ \/ \E a \in Adaptors \ initList :
          \/ cpis' = Installed(a) /\ object' = "usable" /\ initList' = {}
          \/ initList' = initList \cup {a} /\ UNCHANGED <<cpis, object>>
          \/ object' = "unusable" /\ initList' = {} /\ UNCHANGED cpis
     \/ /\ Adaptors \subseteq initList
        /\ object' = "unusable" /\ initList' = {} /\ UNCHANGED cpis
  /\ UNCHANGED <<pc, noNo, current, called>>

Begin(c) ==
  /\ object = "usable"
  /\ pc[c] \in {"returned", "failed"}
  /\ pc' = [pc EXCEPT ![c] = "select"]
  /\ noNo' = [noNo EXCEPT ![c] = {}]
  /\ called' = [called EXCEPT ![c] = {}]
  /\ UNCHANGED <<object, initList, cpis, current>>

-----------------------------------------------------------------------------
(* select_run_mode.                                                         *)

Usable(c, i) == cpis[i] \in Implementers[c] \ noNo[c]

\* The first n instances that test_adaptor_helper is asked about.
Rejected(c, n) == {cpis[i] : i \in 1 .. n} \ noNo[c]

\* None of the first n instances ends the search.
Passes(c, n) ==
  \A i \in 1 .. n : ~Usable(c, i) /\ cpis[i] \notin Fixme \ noNo[c]

Ban(c, banned) == noNo' = [noNo EXCEPT ![c] = @ \cup banned]

\* get_current() of the list that select_run_mode leaves.
Execute(c, list) ==
  /\ cpis' = list
  /\ pc' = [pc EXCEPT ![c] = "execute"]
  /\ current' = [current EXCEPT ![c] = list[1]]
  /\ called' = [called EXCEPT ![c] = @ \cup {list[1]}]

GiveUp(c) == pc' = [pc EXCEPT ![c] = "failed"]

SelectCached(c) ==
  /\ pc[c] = "select"
  /\ \E i \in DOMAIN cpis :
       /\ Usable(c, i)
       /\ Passes(c, i - 1)
       /\ Ban(c, Rejected(c, i - 1))
       /\ Execute(c, MovedToFront(i))
  /\ UNCHANGED <<object, initList>>

\* An instance with the flag Fixme that does not implement the operation.
SelectFixme(c) ==
  /\ pc[c] = "select"
  /\ \E i \in DOMAIN cpis :
       /\ cpis[i] \in Fixme \ (noNo[c] \cup Implementers[c])
       /\ Passes(c, i - 1)
       /\ Ban(c, Rejected(c, i - 1))
  /\ GiveUp(c)
  /\ UNCHANGED <<object, initList, cpis, current, called>>

\* Mutant: select_adaptor does not look at the no_no_list.
AllImplementers(c) == Implementers[c]

\* What get_adaptor may still instantiate, in whatever order the CPIs are
\* registered.
Candidates(c) == Implementers[c] \ (noNo[c] \cup Cached)

AskNew(c) == pc[c] = "select" /\ Passes(c, Len(cpis))

BannedByCtor(c, a) == Cached \cup {a}

SelectNew(c) ==
  /\ AskNew(c)
  /\ \E a \in Candidates(c) : Execute(c, Installed(a))
  /\ Ban(c, Cached)
  /\ UNCHANGED <<object, initList>>

\* exception_list::get_error: the most specific error; NotImplemented and
\* AdaptorDeclined only when there is nothing else.
ListError(errors) ==
  LET relevant == errors \ {NotImplemented, AdaptorDeclined} IN
  IF relevant = {} THEN NotImplemented
  ELSE CHOOSE e \in relevant : \A f \in relevant : e <= f

\* Mutant: a constructor that fails ends the search.
AlwaysFatal(c, e) == TRUE

\* The list select_run_mode throws holds NoAdaptor for every cached instance
\* it rejected, and the error of the constructor.
Fatal(c, e) ==
  ListError({e} \cup {NoAdaptor : a \in Rejected(c, Len(cpis))}) \in {NoAdaptor, NoAdaptorInfo}

SelectDeclined(c) ==
  /\ AskNew(c)
  /\ \E a \in Candidates(c), e \in CtorErrors :
       /\ Ban(c, BannedByCtor(c, a))
       /\ IF Fatal(c, e) THEN GiveUp(c) ELSE UNCHANGED pc
  /\ UNCHANGED <<object, initList, cpis, current, called>>

\* An exception of another kind than saga::exception: the synchronous loop
\* tries again, restart() of a task gives up.
SelectThrows(c) ==
  /\ AskNew(c)
  /\ \E a \in Candidates(c) : Ban(c, BannedByCtor(c, a))
  /\ IF c \in Async THEN GiveUp(c) ELSE UNCHANGED pc
  /\ UNCHANGED <<object, initList, cpis, current, called>>

SelectNone(c) ==
  /\ AskNew(c)
  /\ Candidates(c) = {}
  /\ Ban(c, Cached)
  /\ GiveUp(c)
  /\ UNCHANGED <<object, initList, cpis, current, called>>

-----------------------------------------------------------------------------
(* The adaptor's function returns or throws.                                *)

Succeed(c) ==
  /\ pc[c] = "execute"
  /\ pc' = [pc EXCEPT ![c] = "returned"]
  /\ current' = [current EXCEPT ![c] = None]
  /\ noNo' = [noNo EXCEPT ![c] = {}]
  /\ called' = [called EXCEPT ![c] = {}]
  /\ UNCHANGED <<object, initList, cpis>>

\* Mutant: the adaptor that failed may be asked again.
Forgiven(c) == {}

Blamed(c) == {current[c]}

Fail(c) ==
  /\ pc[c] = "execute"
  /\ Ban(c, Blamed(c))
  /\ pc' = [pc EXCEPT ![c] = "select"]
  /\ current' = [current EXCEPT ![c] = None]
  /\ UNCHANGED <<object, initList, cpis, called>>

-----------------------------------------------------------------------------

Select(c) ==
  \/ SelectCached(c) \/ SelectFixme(c) \/ SelectNew(c)
  \/ SelectDeclined(c) \/ SelectThrows(c) \/ SelectNone(c)

Proceed(c) == Select(c) \/ Succeed(c) \/ Fail(c)

Next == InitCpi \/ \E c \in Callers : Begin(c) \/ Proceed(c)

Spec == Init /\ [][Next]_vars

\* Constructors and functions of adaptors end, and the mutex of the proxy is
\* never kept beyond a step.
FairSpec == Spec /\ WF_vars(InitCpi) /\ \A c \in Callers : WF_vars(Proceed(c))

-----------------------------------------------------------------------------
(* Properties.                                                              *)

\* Types, and the assertion of execute_sync and get_next_cpi that a usable
\* object has an instance.
TypeOK ==
  /\ object \in {"constructing", "usable", "unusable"}
  /\ initList \in SUBSET Adaptors
  /\ cpis \in Seq(Adaptors)
  /\ pc \in [Callers -> {"returned", "select", "execute", "failed"}]
  /\ noNo \in [Callers -> SUBSET Adaptors]
  /\ current \in [Callers -> Adaptors \cup {None}]
  /\ called \in [Callers -> SUBSET Adaptors]
  /\ object = "usable" <=> cpis # <<>>

\* However many threads select at the same time, a proxy never holds two
\* instances of one CPI.
NoDuplicateInstances ==
  \A i, j \in DOMAIN cpis : cpis[i] = cpis[j] => i = j

\* The instance that get_current() yields after the selection is the one that
\* was selected: it implements the operation of this very call.
ExecutesImplementer ==
  \A c \in Callers : pc[c] = "execute" => current[c] \in Implementers[c]

\* A call executes no adaptor twice.
CalledOnce ==
  [][\A c \in Callers : pc[c] = "select" /\ pc'[c] = "execute" => current'[c] \notin called[c]]_vars

\* The comment of engine::get_adaptor: an adaptor that fails is put on the list
\* and a different one is selected; "if we don't find any new adaptor ... we
\* finish".  So a synchronous call fails only when every adaptor that implements
\* it was tried.  (The flag Fixme is an exception the code names.)
FailsOnlyWhenExhausted ==
  \A c \in Callers \ Async :
    pc[c] = "failed" /\ Cached \cap Fixme = {} => Implementers[c] \subseteq noNo[c]

\* A call returns, whatever the adaptors answer: the list grows on every round.
CallsReturn ==
  \A c \in Callers : pc[c] \in {"select", "execute"} ~> pc[c] \in {"returned", "failed"}
=============================================================================
