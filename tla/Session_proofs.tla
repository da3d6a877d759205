--------------------------- MODULE Session_proofs ---------------------------
(* Proofs about Session, for any threads, adaptors and contexts.              *)
EXTENDS Session, TLAPS

Waits(t) == pc[t] \in {"load", "locked", "tidy"}

\* Who is inside the lock holds it, adaptors are loaded in the first call that
\* gets there, and until that call has left the loop nobody has been told any
\* preferences, nor come as far as get_adaptor.
Guarded ==
  /\ TypeOK
  /\ \A t \in Threads : Waits(t) => owner = t
  /\ \A t \in Threads : pc[t] = "load" => is_initialized /\ ~has_preferences
  /\ has_preferences \/ (\E t \in Threads : pc[t] = "locked") => is_initialized
  /\ \A t \in Threads :
       call[t] = "get_adaptor" =>
         is_initialized /\ \A u \in Threads : pc[u] # "load"
  /\ PreferencesCoverContexts

USE DEF Waits, Labels, Calls

\* The invariant holds initially.
LEMMA GuardedInit == ASSUME Init PROVE Guarded
  BY DEF SessionAssumption, Init, Guarded, TypeOK, PreferencesCoverContexts

\* Every step keeps it.
LEMMA GuardedStep == ASSUME Guarded, [Next]_vars PROVE Guarded'
<1> USE DEF Guarded, TypeOK, PreferencesCoverContexts, Go, Return,
            engineVars, contextVars
<1>1. CASE UNCHANGED vars
  BY <1>1 DEF vars
<1>2. ASSUME NEW t \in Threads, NEW c \in Calls, Call(t, c) PROVE Guarded'
  BY <1>2 DEF Call
<1>3. ASSUME NEW t \in Threads, Lock(t) PROVE Guarded'
  BY <1>3, SessionAssumption DEF Lock, SessionAssumption
<1>4. ASSUME NEW t \in Threads, Close(t) PROVE Guarded'
  BY <1>4, SessionAssumption DEF Close, ResetPreferences, SessionAssumption
<1>5. ASSUME NEW t \in Threads, Check(t) PROVE Guarded'
  BY <1>5 DEF Check, Then, NeedsLock, ChecksOpened
<1>6. ASSUME NEW t \in Threads, Load(t) PROVE Guarded'
  BY <1>6, SessionAssumption DEF Load, SessionAssumption
<1>7. ASSUME NEW t \in Threads, Loaded(t) PROVE Guarded'
  BY <1>7 DEF Loaded
<1>8. ASSUME NEW t \in Threads, FillPreferences(t) PROVE Guarded'
  BY <1>8, SessionAssumption DEF FillPreferences, Body, Then, SessionAssumption
<1>9. ASSUME NEW t \in Threads, Unlock(t) PROVE Guarded'
  BY <1>9, SessionAssumption DEF Unlock, Body, Then, SessionAssumption
<1>10. ASSUME NEW t \in Threads, ListContexts(t) PROVE Guarded'
  BY <1>10, SessionAssumption DEF ListContexts, Converted, Body, Then, SessionAssumption
<1>11. ASSUME NEW t \in Threads, AddContext(t) PROVE Guarded'
  <2>1. \A kept \in Converted : kept \subseteq Contexts
    BY DEF Converted
  <2>2. contexts' \subseteq Contexts
    BY <1>11, <2>1 DEF AddContext
  <2> QED
    BY <1>11, <2>2, SessionAssumption
       DEF AddContext, ResetPreferences, Body, Then, SessionAssumption
<1>12. ASSUME NEW t \in Threads, RemoveContext(t) PROVE Guarded'
  <2>1. \A kept \in Converted : kept \subseteq Contexts
    BY DEF Converted
  <2>2. contexts' \subseteq Contexts
    BY <1>12, <2>1 DEF RemoveContext
  <2> QED
    BY <1>12, <2>2, SessionAssumption
       DEF RemoveContext, ResetPreferences, Body, Then, SessionAssumption
<1>13. ASSUME NEW t \in Threads, ContextThrows(t) PROVE Guarded'
  BY <1>13, SessionAssumption DEF ContextThrows, Converted, SessionAssumption
<1>14. ASSUME NEW t \in Threads, Tidy(t) PROVE Guarded'
  BY <1>14, SessionAssumption DEF Tidy, SessionAssumption
<1>15. ASSUME NEW t \in Threads, Used(t) PROVE Guarded'
  BY <1>15 DEF Used
<1> QED
  BY <1>1, <1>2, <1>3, <1>4, <1>5, <1>6, <1>7, <1>8, <1>9, <1>10, <1>11,
     <1>12, <1>13, <1>14, <1>15 DEF Next, Locking, Step

\* It holds always: the fact the theorems below rest on.
THEOREM SessionGuarded == Spec => []Guarded
<1>1. Init => Guarded
  BY GuardedInit
<1>2. Guarded /\ [Next]_vars => Guarded'
  BY GuardedStep
<1> QED
  BY <1>1, <1>2, PTL DEF Spec

\* Type correctness.
THEOREM SessionTypes == Spec => []TypeOK
<1>1. Guarded => TypeOK
  BY DEF Guarded
<1> QED
  BY <1>1, SessionGuarded, PTL

\* No proxy selects from an engine that loads its adaptors (get_preferences
\* before get_adaptor, session.cpp and session.hpp).
THEOREM CompleteEngine == Spec => []SelectsFromCompleteEngine
<1>1. Guarded => SelectsFromCompleteEngine
  BY DEF Guarded, SelectsFromCompleteEngine
<1> QED
  BY <1>1, SessionGuarded, PTL

\* Cached preferences cover the contexts (get_preferences, session.cpp).
THEOREM PreferencesFresh == Spec => []PreferencesCoverContexts
<1>1. Guarded => PreferencesCoverContexts
  BY DEF Guarded
<1> QED
  BY <1>1, SessionGuarded, PTL

----------------------------------------------------------------------------
(* The mutex and the first call. *)

\* The mutex belongs to nobody who is not inside.
GivenBack == owner # Nobody => Waits(owner)

\* The first call that gets the lock loads the adaptors: from then on no call
\* begins to, and none comes back to the list of those that are still to load.
LoadsOnce ==
  is_initialized =>
    /\ is_initialized' = TRUE
    /\ toLoad' \subseteq toLoad
    /\ \A t \in Threads : pc'[t] = "load" => pc[t] = "load"

\* Steps of one thread, with the lock or without.
LEMMA GivenBackStep ==
  ASSUME Guarded, GivenBack, NEW t \in Threads,
         \/ \E c \in Calls : Call(t, c)
         \/ Locking(t) \/ Step(t)
  PROVE  GivenBack' /\ LoadsOnce
<1> USE SessionAssumption DEF SessionAssumption, GivenBack, LoadsOnce, Guarded, TypeOK, Go, Return,
                              engineVars, contextVars
<1>1. CASE \E c \in Calls : Call(t, c)
  BY <1>1 DEF Call
<1>2. CASE Lock(t)
  BY <1>2 DEF Lock
<1>3. CASE Close(t)
  BY <1>3 DEF Close
<1>4. CASE Check(t)
  <2>1. /\ pc[t] = "check" /\ UNCHANGED <<is_initialized, toLoad, owner>>
        /\ \E to \in {"idle", "lock", "check", "use"} : pc' = [pc EXCEPT ![t] = to]
    BY <1>4 DEF Check, Then
  <2> QED
    BY <2>1
<1>5. CASE Load(t)
  BY <1>5 DEF Load
<1>6. CASE Loaded(t)
  BY <1>6 DEF Loaded
<1>7. ASSUME NEW c, Body(t, c) PROVE GivenBack' /\ LoadsOnce
  <2>1. /\ pc[t] = "locked" /\ owner' = Nobody /\ UNCHANGED <<is_initialized, toLoad>>
        /\ \E to \in {"idle", "check", "use"} : pc' = [pc EXCEPT ![t] = to]
    BY <1>7 DEF Body, Then
  <2> QED
    BY <2>1
<1>8. CASE FillPreferences(t) \/ Unlock(t) \/ ListContexts(t) \/ AddContext(t) \/ RemoveContext(t)
  <2>1. \E c : Body(t, c)
    BY <1>8 DEF FillPreferences, Unlock, ListContexts, AddContext, RemoveContext
  <2> QED
    BY <1>7, <2>1
<1>9. CASE ContextThrows(t) \/ Tidy(t)
  <2>1. /\ owner' = Nobody /\ UNCHANGED <<is_initialized, toLoad>>
        /\ pc' = [pc EXCEPT ![t] = "idle"]
    BY <1>9 DEF ContextThrows, Tidy
  <2> QED
    BY <2>1
<1>10. CASE Used(t)
  BY <1>10 DEF Used
<1> QED
  BY <1>1, <1>2, <1>3, <1>4, <1>5, <1>6, <1>8, <1>9, <1>10 DEF Locking, Step

\* However many threads use the session for the first time at once, one of them
\* loads the adaptors, each of them once, although is_initialized is tested
\* without the lock (late_initialize, engine.cpp); and no call, whether it
\* returns or throws, leaves with the mutex, so that the others can go on.
THEOREM AdaptorsLoadedOnce == Spec => []GivenBack /\ [][LoadsOnce]_vars
<1>1. Init => GivenBack
  BY DEF Init, GivenBack
<1>2. Guarded /\ GivenBack /\ [Next]_vars => GivenBack' /\ [LoadsOnce]_vars
  <2>1. ASSUME Guarded, GivenBack, Next PROVE GivenBack' /\ LoadsOnce
    BY <2>1, GivenBackStep DEF Next
  <2>2. ASSUME GivenBack, UNCHANGED vars PROVE GivenBack'
    BY <2>2 DEF GivenBack, vars
  <2> QED
    BY <2>1, <2>2
<1> QED
  BY <1>1, <1>2, SessionGuarded, PTL DEF Spec
=============================================================================
