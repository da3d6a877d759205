----------------------- MODULE AdaptorSelection_proofs -----------------------
(***************************************************************************)
(* Invariants of AdaptorSelection for any number of callers and adaptors,  *)
(* any operations, and any errors of the constructors.                     *)
(***************************************************************************)
EXTENDS AdaptorSelection, FiniteSetTheorems, TLAPS

-----------------------------------------------------------------------------
(* What the operators on the list of instances keep.                        *)

\* Moving an instance to the front permutes the list.
LEMMA MovedList ==
  ASSUME cpis \in Seq(Adaptors), NEW i \in DOMAIN cpis
  PROVE  /\ MovedToFront(i) \in Seq(Adaptors)
         /\ MovedToFront(i) # <<>>
         /\ MovedToFront(i)[1] = cpis[i]
         /\ {MovedToFront(i)[j] : j \in DOMAIN MovedToFront(i)} = Cached
         /\ NoDuplicateInstances =>
              \A j, k \in DOMAIN MovedToFront(i) : MovedToFront(i)[j] = MovedToFront(i)[k] => j = k
<1> DEFINE m == MovedToFront(i)
           n == Len(cpis)
<1>1. n \in Nat /\ DOMAIN cpis = 1 .. n /\ i \in 1 .. n
  OBVIOUS
<1>2. m \in [1 .. n -> Adaptors]
  BY <1>1 DEF MovedToFront
<1>3. m \in Seq(Adaptors) /\ Len(m) = n /\ DOMAIN m = 1 .. n
  BY <1>1, <1>2
<1>4. m[1] = cpis[i]
  BY <1>1 DEF MovedToFront
<1>5. \A j \in 2 .. n : m[j] = IF j <= i THEN cpis[j - 1] ELSE cpis[j]
  BY <1>1 DEF MovedToFront
<1>6. ASSUME NEW k \in 1 .. n PROVE \E j \in 1 .. n : m[j] = cpis[k]
  <2>1. CASE k = i
    BY <2>1, <1>1, <1>4
  <2>2. CASE k < i
    BY <2>2, <1>1, <1>5, k + 1 \in 2 .. n, k + 1 <= i, (k + 1) - 1 = k
  <2>3. CASE k > i
    BY <2>3, <1>1, <1>5, k \in 2 .. n
  <2>4. QED
    BY <2>1, <2>2, <2>3, <1>1
<1>7. \A j \in 1 .. n : \E k \in 1 .. n : m[j] = cpis[k]
  BY <1>1, <1>4, <1>5
<1>8. {m[j] : j \in DOMAIN m} = Cached
  <2> HIDE DEF m
  <2>1. ASSUME NEW x \in {m[j] : j \in DOMAIN m} PROVE x \in Cached
    BY <2>1, <1>1, <1>3, <1>7 DEF Cached
  <2>2. ASSUME NEW x \in Cached PROVE x \in {m[j] : j \in DOMAIN m}
    BY <2>2, <1>1, <1>3, <1>6 DEF Cached
  <2>3. QED
    BY <2>1, <2>2
<1>9. ASSUME NoDuplicateInstances, NEW j \in 1 .. n, NEW k \in 1 .. n, m[j] = m[k] PROVE j = k
  BY <1>1, <1>4, <1>5, <1>9 DEF NoDuplicateInstances
<1>10. m # <<>>
  BY <1>1, <1>3
<1> HIDE DEF m
<1>11. QED
  BY <1>3, <1>4, <1>8, <1>9, <1>10 DEF m

\* A new instance goes in front; it is one the list did not hold.
LEMMA InstalledList ==
  ASSUME cpis \in Seq(Adaptors), NEW a \in Adaptors
  PROVE  /\ Installed(a) \in Seq(Adaptors)
         /\ Installed(a) # <<>>
         /\ Installed(a)[1] = a
         /\ NoDuplicateInstances /\ a \notin Cached =>
              \A j, k \in DOMAIN Installed(a) : Installed(a)[j] = Installed(a)[k] => j = k
<1> DEFINE m == Installed(a)
           n == Len(cpis)
<1>1. n \in Nat /\ DOMAIN cpis = 1 .. n
  OBVIOUS
<1>2. m \in Seq(Adaptors) /\ Len(m) = n + 1 /\ DOMAIN m = 1 .. n + 1
  BY DEF Installed
<1>3. m[1] = a /\ \A j \in 2 .. n + 1 : m[j] = cpis[j - 1] /\ j - 1 \in 1 .. n
  BY <1>1 DEF Installed
<1> HIDE DEF m
<1>4. ASSUME NoDuplicateInstances, a \notin Cached, NEW j \in 1 .. n + 1, NEW k \in 1 .. n + 1, m[j] = m[k]
      PROVE  j = k
  <2>1. \A l \in 2 .. n + 1 : m[l] # a
    BY <1>1, <1>3, <1>4 DEF Cached
  <2>2. CASE j = 1 \/ k = 1
    BY <2>1, <2>2, <1>1, <1>3, <1>4
  <2>3. CASE j # 1 /\ k # 1
    BY <2>3, <1>1, <1>3, <1>4 DEF NoDuplicateInstances
  <2>4. QED
    BY <2>2, <2>3
<1>5. m # <<>>
  BY <1>1, <1>2
<1>6. QED
  BY <1>2, <1>3, <1>4, <1>5 DEF m

-----------------------------------------------------------------------------
(* The inductive invariant.                                                 *)

\* Calls are made on usable objects only.
InUse == object # "usable" => \A c \in Callers : pc[c] = "returned"

\* What a call executed is on its list, but for the instance it executes now,
\* and that one is not.
CallInStep ==
  \A c \in Callers :
    /\ pc[c] = "select" => called[c] \subseteq noNo[c]
    /\ pc[c] = "execute" => /\ current[c] \in Implementers[c] \ noNo[c]
                            /\ called[c] \subseteq noNo[c] \cup {current[c]}

SelectionInv == TypeOK /\ NoDuplicateInstances /\ InUse /\ CallInStep

\* The instances a round rejects do not implement the operation.
LEMMA RejectedAreUseless ==
  ASSUME NEW c \in Callers, NEW n \in Nat, Passes(c, n)
  PROVE  Rejected(c, n) \cap Implementers[c] = {}
  BY DEF Passes, Rejected, Usable

\* The invariant holds always.
LEMMA SelectionInvariant == Spec => []SelectionInv
<1>1. Init => SelectionInv
  BY DEF Init, SelectionInv, TypeOK, NoDuplicateInstances, InUse, CallInStep
<1>2. SelectionInv /\ [Next]_vars => SelectionInv'
  <2> SUFFICES ASSUME SelectionInv, [Next]_vars PROVE SelectionInv'
    OBVIOUS
  <2> USE SelectionAssumption DEF SelectionAssumption
  <2> USE DEF SelectionInv, TypeOK, InUse, CallInStep
  <2>1. CASE InitCpi
    <3>1. CASE \E a \in Adaptors : cpis' = Installed(a) /\ object' = "usable" /\ initList' = {}
      <4>1. PICK a \in Adaptors : cpis' = Installed(a) /\ object' = "usable" /\ initList' = {}
        BY <3>1
      <4>2. Cached = {}
        BY <2>1 DEF InitCpi, Cached
      <4>3. NoDuplicateInstances' /\ cpis' \in Seq(Adaptors) /\ cpis' # <<>>
        BY <4>1, <4>2, InstalledList DEF NoDuplicateInstances
      <4>4. QED
        BY <2>1, <4>1, <4>3 DEF InitCpi
    <3>2. CASE UNCHANGED cpis /\ object' # "usable"
      BY <2>1, <3>2 DEF InitCpi, NoDuplicateInstances
    <3>3. QED
      BY <2>1, <3>1, <3>2 DEF InitCpi
  <2>2. ASSUME NEW c \in Callers, Begin(c) PROVE SelectionInv'
    BY <2>2 DEF Begin, NoDuplicateInstances
  <2>3. ASSUME NEW c \in Callers, SelectCached(c) PROVE SelectionInv'
    <3>1. PICK i \in DOMAIN cpis : /\ Usable(c, i) /\ Passes(c, i - 1)
                                   /\ Ban(c, Rejected(c, i - 1))
                                   /\ Execute(c, MovedToFront(i))
      BY <2>3 DEF SelectCached
    <3>2. NoDuplicateInstances' /\ cpis' \in Seq(Adaptors) /\ cpis' # <<>>
      BY <3>1, MovedList DEF NoDuplicateInstances, Execute
    <3>3. Rejected(c, i - 1) \subseteq Adaptors \ Implementers[c]
      <4>1. i - 1 \in Nat /\ \A j \in 1 .. i - 1 : cpis[j] \in Adaptors
        OBVIOUS
      <4>2. QED
        BY <3>1, <4>1, RejectedAreUseless DEF Rejected
    <3>4. MovedToFront(i)[1] = cpis[i] /\ cpis[i] \in Adaptors /\ cpis[i] \in Implementers[c] \ noNo[c]
      BY <3>1, MovedList DEF Usable
    <3>5. object = "usable"
      BY <2>3 DEF SelectCached
    <3>6. TypeOK' /\ InUse'
      BY <2>3, <3>1, <3>2, <3>3, <3>4, <3>5 DEF SelectCached, Execute, Ban
    <3>7. CallInStep'
      BY <2>3, <3>1, <3>3, <3>4 DEF SelectCached, Execute, Ban
    <3>8. QED
      BY <3>2, <3>6, <3>7
  <2>4. ASSUME NEW c \in Callers, SelectNew(c) PROVE SelectionInv'
    <3>1. PICK a \in Candidates(c) : Execute(c, Installed(a))
      BY <2>4 DEF SelectNew
    <3>2. a \in Adaptors /\ a \in Implementers[c] \ noNo[c] /\ a \notin Cached
      BY <3>1 DEF Candidates
    <3>3. NoDuplicateInstances' /\ cpis' \in Seq(Adaptors) /\ cpis' # <<>>
      BY <3>1, <3>2, InstalledList DEF NoDuplicateInstances, Execute
    <3>4. Installed(a)[1] = a /\ Cached \subseteq Adaptors /\ object = "usable"
      BY <2>4, <3>2, InstalledList DEF Cached, SelectNew, AskNew
    <3>5. TypeOK' /\ InUse'
      BY <2>4, <3>1, <3>2, <3>3, <3>4 DEF SelectNew, AskNew, Execute, Ban
    <3>6. CallInStep'
      BY <2>4, <3>1, <3>2, <3>4 DEF SelectNew, AskNew, Execute, Ban
    <3>7. QED
      BY <3>3, <3>5, <3>6
  <2>5. ASSUME NEW c \in Callers, SelectFixme(c) \/ SelectDeclined(c) \/ SelectThrows(c) \/ SelectNone(c)
        PROVE  SelectionInv'
    <3>1. PICK banned \in SUBSET Adaptors : Ban(c, banned)
      <4>1. Cached \subseteq Adaptors /\ \A i \in DOMAIN cpis : Rejected(c, i - 1) \subseteq Adaptors
        BY DEF Cached, Rejected
      <4>2. CASE SelectFixme(c)
        BY <4>1, <4>2 DEF SelectFixme
      <4>3. CASE SelectDeclined(c) \/ SelectThrows(c)
        <5>1. PICK a \in Candidates(c) : Ban(c, BannedByCtor(c, a))
          BY <4>3 DEF SelectDeclined, SelectThrows
        <5>2. BannedByCtor(c, a) \in SUBSET Adaptors
          BY <4>1 DEF BannedByCtor, Candidates
        <5>3. QED
          BY <5>1, <5>2
      <4>4. CASE SelectNone(c)
        BY <4>1, <4>4 DEF SelectNone
      <4>5. QED
        BY <2>5, <4>2, <4>3, <4>4
    <3>2. /\ pc[c] = "select"
          /\ pc' = pc \/ GiveUp(c)
          /\ UNCHANGED <<object, initList, cpis, current, called>>
      BY <2>5 DEF SelectFixme, SelectDeclined, SelectThrows, SelectNone, AskNew
    <3>3. QED
      BY <3>1, <3>2 DEF Ban, GiveUp, NoDuplicateInstances
  <2>6. ASSUME NEW c \in Callers, Succeed(c) PROVE SelectionInv'
    BY <2>6 DEF Succeed, NoDuplicateInstances
  <2>7. ASSUME NEW c \in Callers, Fail(c) PROVE SelectionInv'
    BY <2>7 DEF Fail, Ban, Blamed, NoDuplicateInstances
  <2>8. CASE UNCHANGED vars
    BY <2>8 DEF vars, NoDuplicateInstances
  <2>9. QED
    BY <2>1, <2>2, <2>3, <2>4, <2>5, <2>6, <2>7, <2>8 DEF Next, Proceed, Select
<1>3. QED
  BY <1>1, <1>2, PTL DEF Spec

-----------------------------------------------------------------------------
(* The theorems.                                                            *)

\* Type correctness, with the assertion that a usable object has an instance
\* (TypeOK).
THEOREM SelectionTypes == Spec => []TypeOK
  BY SelectionInvariant, PTL DEF SelectionInv

\* However many threads select on a proxy, it holds one instance of a CPI at
\* most (NoDuplicateInstances).
THEOREM OneInstance == Spec => []NoDuplicateInstances
  BY SelectionInvariant, PTL DEF SelectionInv

\* The instance a call executes implements the call (ExecutesImplementer).
THEOREM RightInstance == Spec => []ExecutesImplementer
<1>1. SelectionInv => ExecutesImplementer
  BY DEF SelectionInv, CallInStep, ExecutesImplementer
<1>2. QED
  BY <1>1, SelectionInvariant, PTL

\* A call executes no adaptor twice (CalledOnce).
THEOREM NoSecondCall == Spec => CalledOnce
<1> DEFINE Fresh == \A c \in Callers : pc[c] = "select" /\ pc'[c] = "execute" => current'[c] \notin called[c]
<1>1. SelectionInv /\ SelectionInv' /\ [Next]_vars => [Fresh]_vars
  <2> SUFFICES ASSUME SelectionInv, SelectionInv', Next, NEW c \in Callers,
                      pc[c] = "select", pc'[c] = "execute"
               PROVE  current'[c] \notin called[c]
    BY DEF vars
  <2>1. called[c] \subseteq noNo[c] /\ current'[c] \notin noNo'[c]
    BY DEF SelectionInv, CallInStep
  <2>2. noNo[c] \subseteq noNo'[c]
    <3> USE DEF SelectionInv, TypeOK
    <3>1. CASE InitCpi
      BY <3>1 DEF InitCpi
    <3>2. ASSUME NEW d \in Callers, Begin(d) PROVE noNo[c] \subseteq noNo'[c]
      BY <3>2 DEF Begin
    <3>3. ASSUME NEW d \in Callers, Select(d) PROVE noNo[c] \subseteq noNo'[c]
      <4>1. \E banned : Ban(d, banned)
        BY <3>3 DEF Select, SelectCached, SelectFixme, SelectNew, SelectDeclined, SelectThrows, SelectNone
      <4>2. QED
        BY <4>1 DEF Ban
    <3>4. ASSUME NEW d \in Callers, Succeed(d) \/ Fail(d) PROVE noNo[c] \subseteq noNo'[c]
      BY <3>4 DEF Succeed, Fail, Ban
    <3>5. QED
      BY <3>1, <3>2, <3>3, <3>4 DEF Next, Proceed
  <2>3. QED
    BY <2>1, <2>2
<1>2. QED
  BY <1>1, SelectionInvariant, PTL DEF Spec, CalledOnce

-----------------------------------------------------------------------------
(* Completeness, for constructors that report neither NotImplemented nor    *)
(* one of the adaptor specific errors.                                      *)

OrdinaryCtorErrors == CtorErrors \subseteq 2 .. 11

\* Such an error is never masked by NoAdaptor.
LEMMA OrdinaryIsNotFatal ==
  ASSUME NEW c \in Callers, NEW e \in 2 .. 11 PROVE ~Fatal(c, e)
<1> DEFINE errors == {e} \cup {NoAdaptor : a \in Rejected(c, Len(cpis))}
           relevant == errors \ {NotImplemented, AdaptorDeclined}
<1>1. relevant \subseteq {e, 13} /\ e \in relevant
  BY DEF NotImplemented, AdaptorDeclined, NoAdaptor
<1> HIDE DEF relevant
<1>2. \A f \in relevant : e <= f
  BY <1>1
<1>3. (CHOOSE r \in relevant : \A f \in relevant : r <= f) <= e
  BY <1>1, <1>2
<1>4. ListError(errors) <= e
  BY <1>1, <1>3 DEF ListError, relevant
<1>5. QED
  BY <1>4 DEF Fatal, NoAdaptor, NoAdaptorInfo

\* A synchronous call fails only after every adaptor that implements it was
\* tried (FailsOnlyWhenExhausted).
THEOREM FailoverIsComplete == ASSUME OrdinaryCtorErrors PROVE Spec => []FailsOnlyWhenExhausted
<1>1. Init => FailsOnlyWhenExhausted
  BY DEF Init, FailsOnlyWhenExhausted
<1>2. SelectionInv /\ FailsOnlyWhenExhausted /\ [Next]_vars => FailsOnlyWhenExhausted'
  <2> SUFFICES ASSUME SelectionInv, FailsOnlyWhenExhausted, [Next]_vars,
                      NEW c \in Callers \ Async, pc'[c] = "failed", Cached' \cap Fixme = {}
               PROVE  Implementers[c] \subseteq noNo'[c]
    BY DEF FailsOnlyWhenExhausted
  <2> USE DEF SelectionInv, TypeOK, FailsOnlyWhenExhausted
  <2>1. ASSUME UNCHANGED <<noNo, pc, cpis>> PROVE Implementers[c] \subseteq noNo'[c]
    BY <2>1 DEF Cached
  <2>2. CASE InitCpi
    BY <2>2 DEF InitCpi, InUse
  <2>3. ASSUME NEW d \in Callers, SelectCached(d) \/ SelectNew(d) PROVE Implementers[c] \subseteq noNo'[c]
    <3>1. c # d /\ pc[c] = "failed" /\ noNo'[c] = noNo[c]
      BY <2>3 DEF SelectCached, SelectNew, Execute, Ban
    <3>2. Cached \subseteq Cached'
      <4>1. CASE SelectCached(d)
        <5>1. PICK i \in DOMAIN cpis : cpis' = MovedToFront(i)
          BY <4>1 DEF SelectCached, Execute
        <5>2. Cached' = {MovedToFront(i)[j] : j \in DOMAIN MovedToFront(i)}
          BY <5>1 DEF Cached
        <5>3. QED
          BY <5>2, MovedList
      <4>2. CASE SelectNew(d)
        <5>1. PICK a \in Candidates(d) : cpis' = Installed(a)
          BY <4>2 DEF SelectNew, Execute
        <5>2. a \in Adaptors
          BY <5>1, SelectionAssumption DEF Candidates, SelectionAssumption
        <5>3. \A i \in DOMAIN cpis : i + 1 \in DOMAIN cpis' /\ cpis'[i + 1] = cpis[i]
          BY <5>1, <5>2 DEF Installed
        <5>4. QED
          BY <5>3 DEF Cached
      <4>3. QED
        BY <2>3, <4>1, <4>2
    <3>3. QED
      BY <3>1, <3>2
  <2>4. ASSUME NEW d \in Callers, SelectFixme(d) PROVE Implementers[c] \subseteq noNo'[c]
    <3>1. Cached' = Cached /\ Cached \cap Fixme # {}
      BY <2>4 DEF SelectFixme, Cached
    <3>2. QED
      BY <3>1
  <2>5. ASSUME NEW d \in Callers, SelectDeclined(d) PROVE Implementers[c] \subseteq noNo'[c]
    <3>1. pc' = pc
      BY <2>5, OrdinaryIsNotFatal DEF SelectDeclined, OrdinaryCtorErrors
    <3>2. c # d /\ Cached' = Cached
      BY <2>5, <3>1 DEF SelectDeclined, AskNew, Cached
    <3>3. noNo'[c] = noNo[c]
      BY <2>5, <3>2 DEF SelectDeclined, Ban
    <3>4. QED
      BY <3>1, <3>2, <3>3
  <2>6. ASSUME NEW d \in Callers, SelectThrows(d) PROVE Implementers[c] \subseteq noNo'[c]
    <3>1. c # d /\ pc[c] = "failed" /\ Cached' = Cached
      BY <2>6 DEF SelectThrows, AskNew, GiveUp, Cached
    <3>2. noNo'[c] = noNo[c]
      BY <2>6, <3>1 DEF SelectThrows, Ban
    <3>3. QED
      BY <3>1, <3>2
  <2>7. ASSUME NEW d \in Callers, SelectNone(d) PROVE Implementers[c] \subseteq noNo'[c]
    <3>1. CASE c = d
      BY <2>7, <3>1 DEF SelectNone, Candidates, Ban
    <3>2. CASE c # d
      BY <2>7, <3>2 DEF SelectNone, Ban, GiveUp, Cached
    <3>3. QED
      BY <3>1, <3>2
  <2>8. ASSUME NEW d \in Callers, Begin(d) \/ Succeed(d) \/ Fail(d) PROVE Implementers[c] \subseteq noNo'[c]
    BY <2>8 DEF Begin, Succeed, Fail, Ban, Cached
  <2>9. QED
    BY <2>1, <2>2, <2>3, <2>4, <2>5, <2>6, <2>7, <2>8 DEF Next, Proceed, Select, vars
<1>3. QED
  BY <1>1, <1>2, SelectionInvariant, PTL DEF Spec

-----------------------------------------------------------------------------
(* Why a call ends: what it can still do becomes less with every step.      *)

InCall == {"select", "execute"}

\* A selection and an execution for every adaptor that is not on the list, and
\* the selection that finds none.
Left(c) == 2 * Cardinality(Adaptors \ noNo[c]) + (IF pc[c] = "select" THEN 1 ELSE 0)

\* A step of the call ends it or brings it nearer to its end, and no step of
\* another call or of the constructor takes it back.
CallAdvances(c) ==
  /\ Proceed(c) => pc'[c] \notin InCall \/ Left(c)' < Left(c)
  /\ pc[c] \in InCall => Proceed(c) \/ UNCHANGED <<pc[c], noNo[c], Left(c)>>

\* What a selection bans, or the failure of the adaptor: nothing leaves the list,
\* and every step that leads to a selection adds to it.
LEMMA ListGrows ==
  ASSUME SelectionInv, NEW c \in Callers, Proceed(c), pc'[c] \in InCall
  PROVE  /\ noNo[c] \subseteq noNo'[c]
         /\ \/ pc[c] = "select" /\ pc'[c] = "execute"
            \/ pc'[c] = "select" /\ \E a \in Adaptors : a \in noNo'[c] \ noNo[c]
<1> USE DEF SelectionInv, TypeOK, InCall
<1>1. CASE SelectCached(c) \/ SelectNew(c)
  <2>1. pc[c] = "select" /\ pc'[c] = "execute" /\ \E banned : Ban(c, banned)
    BY <1>1 DEF SelectCached, SelectNew, AskNew, Execute
  <2> QED
    BY <2>1 DEF Ban
<1>2. CASE SelectDeclined(c) \/ SelectThrows(c)
  <2>1. PICK a \in Candidates(c) : Ban(c, BannedByCtor(c, a))
    BY <1>2 DEF SelectDeclined, SelectThrows
  <2>2. pc'[c] = "select"
    BY <1>2 DEF SelectDeclined, SelectThrows, AskNew, GiveUp
  <2>3. a \in Adaptors /\ a \in noNo'[c] \ noNo[c] /\ noNo[c] \subseteq noNo'[c]
    BY <2>1, SelectionAssumption DEF Candidates, BannedByCtor, Ban, SelectionAssumption
  <2> QED
    BY <2>2, <2>3
<1>3. CASE Fail(c)
  <2>1. pc'[c] = "select" /\ noNo'[c] = noNo[c] \cup {current[c]}
    BY <1>3 DEF Fail, Ban, Blamed
  <2>2. current[c] \in Adaptors \ noNo[c]
    BY <1>3, SelectionAssumption DEF Fail, CallInStep, SelectionAssumption
  <2> QED
    BY <2>1, <2>2
<1>4. CASE SelectFixme(c) \/ SelectNone(c) \/ Succeed(c)
  BY <1>4 DEF SelectFixme, SelectNone, Succeed, GiveUp
<1> QED
  BY <1>1, <1>2, <1>3, <1>4 DEF Proceed, Select

\* What others do.
LEMMA OthersLeaveCall ==
  ASSUME SelectionInv, NEW c \in Callers, pc[c] \in InCall, Next
  PROVE  Proceed(c) \/ UNCHANGED <<pc[c], noNo[c]>>
<1> USE DEF SelectionInv, TypeOK, InCall
<1>1. CASE InitCpi
  BY <1>1 DEF InitCpi
<1>2. ASSUME NEW d \in Callers, Begin(d) PROVE UNCHANGED <<pc[c], noNo[c]>>
  BY <1>2 DEF Begin
<1>3. ASSUME NEW d \in Callers, d # c, Proceed(d) PROVE UNCHANGED <<pc[c], noNo[c]>>
  <2>1. CASE Select(d)
    <3>1. \E banned : Ban(d, banned)
      BY <2>1 DEF Select, SelectCached, SelectFixme, SelectNew, SelectDeclined, SelectThrows,
                  SelectNone
    <3>2. pc' = pc \/ \E to : pc' = [pc EXCEPT ![d] = to]
      BY <2>1 DEF Select, SelectCached, SelectFixme, SelectNew, SelectDeclined, SelectThrows,
                  SelectNone, Execute, GiveUp
    <3> QED
      BY <1>3, <3>1, <3>2 DEF Ban
  <2>2. CASE Succeed(d) \/ Fail(d)
    BY <1>3, <2>2 DEF Succeed, Fail, Ban
  <2> QED
    BY <1>3, <2>1, <2>2 DEF Proceed
<1> QED
  BY <1>1, <1>2, <1>3 DEF Next

\* The measure.
LEMMA LessIsLeft ==
  ASSUME IsFiniteSet(Adaptors), NEW A, NEW B, A \subseteq B
  PROVE  /\ Cardinality(Adaptors \ A) \in Nat /\ Cardinality(Adaptors \ B) \in Nat
         /\ Cardinality(Adaptors \ B) <= Cardinality(Adaptors \ A)
         /\ (\E a \in Adaptors : a \in B \ A)
              => Cardinality(Adaptors \ B) < Cardinality(Adaptors \ A)
<1>1. /\ IsFiniteSet(Adaptors \ A) /\ Adaptors \ B \subseteq Adaptors \ A
      /\ IsFiniteSet(Adaptors \ B)
  BY FS_Subset
<1>2. Cardinality(Adaptors \ A) \in Nat /\ Cardinality(Adaptors \ B) \in Nat
  BY <1>1, FS_CardinalityType
<1>3. /\ Cardinality(Adaptors \ B) <= Cardinality(Adaptors \ A)
      /\ Cardinality(Adaptors \ A) = Cardinality(Adaptors \ B) => Adaptors \ A = Adaptors \ B
  BY <1>1, FS_Subset
<1> QED
  BY <1>2, <1>3

\* With finitely many adaptors every step of a call brings it nearer to its end,
\* whatever the adaptors, their constructors and the other callers do: a call
\* takes at most two steps for every adaptor, and one.  (The property
\* CallsReturn follows where the steps are taken.)
THEOREM RoundsAreFew ==
  ASSUME IsFiniteSet(Adaptors)
  PROVE  Spec => /\ [](\A c \in Callers : Left(c) \in 0 .. (2 * Cardinality(Adaptors) + 1))
                 /\ [][\A c \in Callers : CallAdvances(c)]_vars
<1>1. Cardinality(Adaptors) \in Nat
  BY FS_CardinalityType
<1>2. \A c \in Callers : Left(c) \in 0 .. (2 * Cardinality(Adaptors) + 1)
  <2> SUFFICES ASSUME NEW c \in Callers
               PROVE  Left(c) \in 0 .. (2 * Cardinality(Adaptors) + 1)
    OBVIOUS
  <2>1. Adaptors \ {} = Adaptors
    OBVIOUS
  <2>2. /\ Cardinality(Adaptors \ noNo[c]) \in Nat
        /\ Cardinality(Adaptors \ noNo[c]) <= Cardinality(Adaptors)
    BY <2>1, LessIsLeft
  <2> QED
    BY <1>1, <2>2 DEF Left
<1>3. ASSUME SelectionInv, [Next]_vars
      PROVE  [\A c \in Callers : CallAdvances(c)]_vars
  <2> SUFFICES ASSUME Next, NEW c \in Callers PROVE CallAdvances(c)
    BY <1>3
  <2>1. ASSUME Proceed(c), pc'[c] \in InCall PROVE Left(c)' < Left(c)
    <3> DEFINE m == Cardinality(Adaptors \ noNo[c])
               n == Cardinality(Adaptors \ noNo'[c])
    <3>1. /\ noNo[c] \subseteq noNo'[c]
          /\ \/ pc[c] = "select" /\ pc'[c] = "execute"
             \/ pc'[c] = "select" /\ \E a \in Adaptors : a \in noNo'[c] \ noNo[c]
      BY <1>3, <2>1, ListGrows
    <3>2. /\ m \in Nat /\ n \in Nat /\ n <= m
          /\ (\E a \in Adaptors : a \in noNo'[c] \ noNo[c]) => n < m
      BY <3>1, LessIsLeft
    <3>3. /\ Left(c) = 2 * m + (IF pc[c] = "select" THEN 1 ELSE 0)
          /\ Left(c)' = 2 * n + (IF pc'[c] = "select" THEN 1 ELSE 0)
      BY DEF Left
    <3> HIDE DEF m, n
    <3> QED
      BY <3>1, <3>2, <3>3
  <2>2. pc[c] \in InCall => Proceed(c) \/ UNCHANGED <<pc[c], noNo[c], Left(c)>>
    BY <1>3, OthersLeaveCall DEF Left
  <2> QED
    BY <2>1, <2>2 DEF CallAdvances
<1> QED
  BY <1>2, <1>3, SelectionInvariant, PTL DEF Spec
=============================================================================
