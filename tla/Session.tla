------------------------------ MODULE Session ------------------------------
(* saga::impl::session with its engine (session.hpp, session.cpp,             *)
(* engine.cpp): threads that select adaptors, log, and add, remove and list   *)
(* contexts, on a session that loads its adaptors when it is first used and   *)
(* that may be closed at any time.                                            *)
(*                                                                            *)
(* A context stands for its type, and a session has one context of a type.    *)
(* Adaptors is the list of the ini files; an adaptor may add contexts of its  *)
(* own (Proto) while it is loaded.                                            *)
EXTENDS FiniteSets

CONSTANTS Threads, Adaptors, Contexts, Proto, Nobody

ASSUME SessionAssumption ==
  /\ Proto \in [Adaptors -> SUBSET Contexts]
  /\ Nobody \notin Threads

VARIABLES
  is_opened,
  is_initialized,   \* late_initialize was called
  toLoad,           \* adaptors late_initialize has still to load
  loaded,           \* the engine's adaptors_ and adaptor_infos_
  contextList,      \* kind of the context list: NULL, proto or list
  contexts,         \* the types of the contexts in it
  has_preferences,
  preferences,
  owner,            \* the thread that holds mtx_, or Nobody
  pc,               \* what each thread does
  call              \* the call it makes

engineVars == <<is_initialized, toLoad, loaded>>
contextVars == <<contextList, contexts, has_preferences, preferences>>
vars == <<is_opened, engineVars, contextVars, owner, pc, call>>

\* get_preferences and get_adaptor are the two halves of one use of the
\* session by a proxy.
Calls == {"get_preferences", "get_adaptor", "module_needs_logging",
          "add_context", "remove_context", "list_contexts", "close"}
Labels == {"idle", "check", "lock", "load", "locked", "use", "tidy"}

Init ==
  /\ is_opened = TRUE
  /\ is_initialized = FALSE
  /\ toLoad = {}
  /\ loaded = {}
  /\ contextList = "NULL"
  /\ contexts = {}
  /\ has_preferences = FALSE
  /\ preferences = {}
  /\ owner = Nobody
  /\ pc = [t \in Threads |-> "idle"]
  /\ call = [t \in Threads |-> "none"]

Go(t, label) == pc' = [pc EXCEPT ![t] = label]
Return(t) == Go(t, "idle") /\ call' = [call EXCEPT ![t] = "none"]

\* A thread calls the session; a proxy begins with get_preferences.
Call(t, c) ==
  /\ pc[t] = "idle"
  /\ c # "get_adaptor"
  /\ Go(t, "check")
  /\ call' = [call EXCEPT ![t] = c]
  /\ UNCHANGED <<is_opened, engineVars, contextVars, owner>>

ChecksOpened == {"get_preferences", "get_adaptor", "add_context",
                 "remove_context", "list_contexts"}

\* Mutant: no lock for a session that has no contexts.
NeedsLockForContexts(c) ==
  CASE c = "get_preferences" -> ~has_preferences /\ contexts # {}
    [] c \in {"get_adaptor", "module_needs_logging"} -> ~is_initialized
    [] OTHER -> TRUE

\* What a call finds without the lock: whether the session was closed, and
\* whether there is anything to lock for.
NeedsLock(c) ==
  CASE c = "get_preferences" -> ~has_preferences
    [] c \in {"get_adaptor", "module_needs_logging"} -> ~is_initialized
    [] OTHER -> TRUE

\* Mutant: the proxy asks for the preferences again and again.
ThenAgain(t) ==
  CASE call[t] = "get_preferences" -> Go(t, "check") /\ UNCHANGED call
    [] call[t] \in {"get_adaptor", "module_needs_logging"} ->
         Go(t, "use") /\ UNCHANGED call
    [] OTHER -> Return(t)

\* What follows a call that ended normally.
Then(t) ==
  CASE call[t] = "get_preferences" ->
         Go(t, "check") /\ call' = [call EXCEPT ![t] = "get_adaptor"]
    [] call[t] \in {"get_adaptor", "module_needs_logging"} ->
         Go(t, "use") /\ UNCHANGED call
    [] OTHER -> Return(t)

Check(t) ==
  /\ pc[t] = "check"
  /\ IF call[t] \in ChecksOpened /\ ~is_opened
     THEN Return(t)
     ELSE IF NeedsLock(call[t])
          THEN Go(t, "lock") /\ UNCHANGED call
          ELSE Then(t)
  /\ UNCHANGED <<is_opened, engineVars, contextVars, owner>>

----------------------------------------------------------------------------
(* Under the lock: late_initialize and then the body of the call. *)

\* is_initialized is set before the adaptors are loaded.
Lock(t) ==
  /\ pc[t] = "lock"
  /\ call[t] # "close"
  /\ owner = Nobody
  /\ owner' = t
  /\ IF is_initialized
     THEN Go(t, "locked") /\ UNCHANGED <<is_initialized, toLoad>>
     ELSE /\ is_initialized' = TRUE
          /\ toLoad' = Adaptors
          /\ Go(t, "load")
  /\ UNCHANGED <<is_opened, loaded, contextVars, call>>

\* One adaptor: adaptor_register adds its contexts, which a closed session
\* refuses, and then the adaptor may be accepted or not.
Load(t) ==
  /\ pc[t] = "load"
  /\ \E a \in toLoad :
       /\ toLoad' = toLoad \ {a}
       /\ IF Proto[a] = {}
          THEN UNCHANGED <<contextList, contexts>> /\ loaded' \in {loaded, loaded \cup {a}}
          ELSE IF is_opened
          THEN /\ contextList' = "proto"
               /\ contexts' = contexts \cup Proto[a]
               /\ loaded' \in {loaded, loaded \cup {a}}
          ELSE UNCHANGED <<contextList, contexts, loaded>>
  /\ UNCHANGED <<is_opened, is_initialized, has_preferences, preferences, owner, pc, call>>

Loaded(t) ==
  /\ pc[t] = "load"
  /\ toLoad = {}
  /\ Go(t, "locked")
  /\ UNCHANGED <<is_opened, engineVars, contextVars, owner, call>>

\* The end of the body of call c: the lock is released.
Body(t, c) ==
  /\ pc[t] = "locked"
  /\ call[t] = c
  /\ owner' = Nobody
  /\ Then(t)
  /\ UNCHANGED <<is_opened, engineVars>>

FillPreferences(t) ==
  /\ Body(t, "get_preferences")
  /\ preferences' = preferences \cup contexts
  /\ has_preferences' = TRUE
  /\ UNCHANGED <<contextList, contexts>>

Unlock(t) ==
  /\ Body(t, "get_adaptor") \/ Body(t, "module_needs_logging")
  /\ UNCHANGED contextVars

\* The contexts that are left when the proto contexts become real ones: those
\* whose defaults cannot be set are dropped.
Converted == IF contextList = "proto" THEN SUBSET contexts ELSE {contexts}

ListContexts(t) ==
  /\ Body(t, "list_contexts")
  /\ contextList' = "list"
  /\ contexts' \in Converted
  /\ \* setting the defaults of a context may use the session
     IF contextList = "proto"
     THEN \/ UNCHANGED <<has_preferences, preferences>>
          \/ ~has_preferences /\ has_preferences' = TRUE /\ preferences' = preferences \cup contexts
     ELSE UNCHANGED <<has_preferences, preferences>>

\* Mutant: the preferences are cleared and not computed again.
ClearPreferences == UNCHANGED has_preferences /\ preferences' = {}

ResetPreferences == has_preferences' = FALSE /\ preferences' = {}

AddContext(t) ==
  /\ Body(t, "add_context")
  /\ contextList' = "list"
  /\ \E kept \in Converted, c \in Contexts : contexts' = kept \cup {c}
  /\ ResetPreferences

RemoveContext(t) ==
  /\ Body(t, "remove_context")
  /\ contextList # "NULL"
  /\ contextList' = "list"
  /\ \E kept \in Converted : \E c \in kept : contexts' = kept \ {c}
  /\ ResetPreferences

\* The defaults of the new context cannot be set, or there is no context to
\* remove: the list was converted.
ContextThrows(t) ==
  /\ pc[t] = "locked"
  /\ call[t] \in {"add_context", "remove_context"}
  /\ owner' = Nobody
  /\ Return(t)
  /\ contextList' = IF call[t] = "remove_context" /\ contextList = "NULL"
                    THEN "NULL" ELSE "list"
  /\ contexts' \in Converted
  /\ IF contextList = "proto"
     THEN \/ UNCHANGED <<has_preferences, preferences>>
          \/ ~has_preferences /\ has_preferences' = TRUE /\ preferences' = preferences \cup contexts
     ELSE UNCHANGED <<has_preferences, preferences>>
  /\ UNCHANGED <<is_opened, engineVars>>

----------------------------------------------------------------------------
(* close, and the use of the engine, which takes no lock. *)

\* Mutant: the list is dropped, the contexts in it are not.
CloseForgetsContexts(t) ==
  /\ pc[t] = "lock"
  /\ call[t] = "close"
  /\ owner = Nobody
  /\ owner' = t
  /\ is_opened' = FALSE
  /\ contextList' = "NULL"
  /\ ResetPreferences
  /\ Go(t, "tidy")
  /\ UNCHANGED <<engineVars, contexts, call>>

Close(t) ==
  /\ pc[t] = "lock"
  /\ call[t] = "close"
  /\ owner = Nobody
  /\ owner' = t
  /\ is_opened' = FALSE
  /\ contextList' = "NULL"
  /\ contexts' = {}
  /\ ResetPreferences
  /\ Go(t, "tidy")
  /\ UNCHANGED <<engineVars, call>>

Tidy(t) ==
  /\ pc[t] = "tidy"
  /\ loaded' = {}
  /\ owner' = Nobody
  /\ Return(t)
  /\ UNCHANGED <<is_opened, is_initialized, toLoad, contextVars>>

\* The engine has searched its adaptors, or its list of modules to log.
Used(t) ==
  /\ pc[t] = "use"
  /\ Return(t)
  /\ UNCHANGED <<is_opened, engineVars, contextVars, owner>>

----------------------------------------------------------------------------
Locking(t) == Lock(t) \/ Close(t)

Step(t) ==
  \/ Check(t)
  \/ Load(t) \/ Loaded(t)
  \/ FillPreferences(t) \/ Unlock(t) \/ ListContexts(t)
  \/ AddContext(t) \/ RemoveContext(t) \/ ContextThrows(t)
  \/ Tidy(t) \/ Used(t)

Next == \E t \in Threads : (\E c \in Calls : Call(t, c)) \/ Locking(t) \/ Step(t)

Spec == Init /\ [][Next]_vars

\* Threads run, a mutex that is free again and again is obtained, nobody is
\* obliged to call.
FairSpec == Spec /\ \A t \in Threads : WF_vars(Step(t)) /\ SF_vars(Locking(t))

----------------------------------------------------------------------------
(* Properties. *)

\* The type invariant.
TypeOK ==
  /\ is_opened \in BOOLEAN
  /\ is_initialized \in BOOLEAN
  /\ toLoad \subseteq Adaptors
  /\ loaded \subseteq Adaptors
  /\ contextList \in {"NULL", "proto", "list"}
  /\ contexts \subseteq Contexts
  /\ contextList = "NULL" => contexts = {}
  /\ has_preferences \in BOOLEAN
  /\ preferences \subseteq Contexts
  /\ owner \in Threads \cup {Nobody}
  /\ pc \in [Threads -> Labels]
  /\ call \in [Threads -> Calls \cup {"none"}]

\* No proxy searches an engine whose adaptors are being loaded, although
\* get_adaptor tests is_initialized, which is set first, without the lock:
\* get_preferences comes before it, and waits for the lock until it has been
\* answered under it once.
SelectsFromCompleteEngine ==
  \A t, u \in Threads :
    pc[t] = "use" /\ call[t] = "get_adaptor" => pc[u] # "load"

\* Preferences that are used without being computed again cover the contexts
\* of the session.
PreferencesCoverContexts == has_preferences => contexts \subseteq preferences

\* Every call returns.
CallsReturn == \A t \in Threads : pc[t] # "idle" ~> pc[t] = "idle"
=============================================================================
