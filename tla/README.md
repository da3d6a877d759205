# A verification of SAGA

SAGA (`src/saga`) is a C++ API for distributed applications: jobs, files,
replicas, adverts, streams.  The API itself does nothing; an *engine*
(`src/saga/impl/engine`) finds, for every call, a plug-in (an *adaptor*) that
implements it, tries another one when that fails, and runs calls as
asynchronous *tasks* that threads share, group in containers, wait for and
cancel.  The engine and the default adaptors (`src/adaptors/default`), which
give the API to local processes, files and data bases, hold the program's own
logic and its concurrency; these modules are about both.

| Module | Of the code | Proofs |
|---|---|---|
| `Task`, `TaskLifecycle` | an asynchronous task, its worker, its retries; what it promises | `Task_proofs` |
| `AdaptorSelection` | how a proxy finds the adaptor of a call, and the next one | `AdaptorSelection_proofs` |
| `TaskContainer` | tasks run, canceled and waited for together | `TaskContainer_proofs` |
| `Session` | the engine a session loads lazily, its contexts and preferences | `Session_proofs` |
| `PosixJob` | a job of the default adaptor: a child process, its waiting and its I/O thread | `PosixJob_proofs` |
| `FileObject` | a file object of the default adaptor, shared by threads | `FileObject_proofs` |
| `DirectoryObject` | a directory object of the default adaptor, shared by threads | `DirectoryObject_proofs` |
| `Advert` | entries and directories of the default advert adaptor on a data base that several clients use | `Advert_proofs` |

`MC_*.tla` give the constants small values, `MC_<module>_<question>.cfg` is one
run of TLC each; `PROJECT.json` lists the runs, for every definition the lines it
models, and for every property a mutation of the code that breaks it.

## 1. Inventory

### Task (`engine/task.hpp`, `task_base.hpp`, `task_base.cpp`)
*State:* the state metric (New, Running, Done, Canceled, Failed) with its
callbacks, the future `thread_` of the worker, the recursive mutex `mtx_`, the
selected CPI (*capability provider instance*: an adaptor's object for one API
object), the selector state with the list of banned adaptors, the recorded
exceptions.
*Operations:* `run`, `wait(timeout)`, `cancel`, `get_state`, `rethrow`, the
destructor; on the worker's side `bond`, `restart`, and `set_state`, which fires
the metric.
*Hard:* states read under the mutex and used without it; a worker that stores
its outcome over whatever the state has become; the condition variable of a
timed wait, which lives on the stack and is referred to by a callback;
cancellation against retry; the destructor against the worker.
*Correct when:* nobody waits for ever, a reported outcome is the last word of the
worker, no adaptor is called twice, a failure has a reason, a finished object is
touched by nobody.

### Future (`src/external/boost/futures/boost/futures/detail/threaded_future.hpp`)
A handle of a worker thread: join, and a destructor that joins.  Part of `Task`.

### Adaptor selection (`engine/proxy.cpp`, `run_mode_wrapper.hpp`, `engine.cpp`, `adaptor_selector*.hpp`)
*State:* of a proxy, the list of CPI instances with the current one in front; of
a call, the `no_no_list` of banned adaptors and the list of exceptions.
*Operations:* `initcpi` (constructor of the API object), `select_run_mode`,
`execute_sync`, `get_next_cpi` (task), `get_adaptor` of the engine.
*Hard:* several threads select on one proxy with separate lists; which error ends
the search is read off a whole list of exceptions; every way a round can fail
has to ban somebody, or the loop does not end.
*Correct when:* a call ends, never executes an adaptor twice or one that does not
implement it, and fails only when nothing is left to try.

### Task container (`engine/task_container.cpp`)
*State:* the list of tasks, `state_change_mtx` and its condition, the callbacks
it has registered on its tasks.
*Operations:* `add_task`, `remove_task`, `run`, `cancel`, `wait(mode, timeout)`,
`list_tasks`, `get_states`.
*Hard:* states read one by one while others change them; locks of the container
and of the metrics taken in both orders; callbacks that must not survive `wait`.
*Correct when:* no task is lost or returned too early, no callback is left, every
call returns.

### Session and engine (`engine/session.cpp`, `engine.cpp`)
*State:* `is_initialized`, the lists of adaptors, the context list and its kind,
the cached preferences, `is_opened`, `mtx_`.
*Operations:* `get_preferences`, `get_adaptor`, `module_needs_logging`,
`add_context`, `remove_context`, `list_contexts`, `add_proto_context`, `close`;
`late_initialize`, `tidy` of the engine.
*Hard:* double-checked locking whose flag is set before the work is done; an
adaptor that uses the session while it is loaded; caches that a context change
has to reset.
*Correct when:* nobody selects from a half-loaded engine, preferences are never
stale, every call returns.

### Metrics and monitorable objects (`engine/metric.*`, `monitorable.*`)
*State:* value, callbacks, mutex.  *Operations:* `fire`, `add_callback`,
`remove_callback`.  *Hard:* a callback runs with the locks of metric and task
held, may take itself off, throw or fire again.  Modelled as far as tasks and
containers use it.

### Default job adaptor (`src/adaptors/default/job`)
*State:* state of the job, process id, the flags `pull_wait_`, `pull_io_`,
`pull_io_killed_`, `threads_running_`, the channels, two helper threads.
*Operations:* `run`, `suspend`, `resume`, `signal`, `checkpoint`, `get_state`,
`wait`, `cancel`, `close`, the destructor; the thread that calls `waitpid` and
the one that moves input and output.
*Hard:* flags reset before they are tested; threads that join each other from
`close`; states stored by whoever comes last; a child that was not started here
and is known through `ps` only.
*Correct when:* a final state is true, calls return, closing ends the I/O thread.

### Default file adaptor (`src/adaptors/default/file`)
*State:* of an object the instance data (location, stream, position `pointer_`,
mode) under the lock of the proxy, the mutex `mtx_`, `is_open_`; the file system.
*Operations:* of files `get_size`, `read`, `write`, `seek`, `is_dir`, `copy`,
`move`, `remove`, `close`; of directories `copy`, `move`, `remove`, `make_dir`,
`change_dir`, each of the first three with wildcards, `close`.
*Hard:* two locks taken in both orders; a position shared by all transfers;
several looks at the file system before a change of it; recursion over trees
that other threads change.
*Correct when:* transfers get ranges of their own, copies are what they claim,
nothing is lost without the flag that allows it.

### Default advert adaptor (`src/adaptors/default/advert`)
*State:* tables of nodes, attributes and data; in every object the id of its
node, its path, the mode it was opened with.
*Operations:* the constructors, `store` and `retrieve`, attributes, `list`,
`make_dir`, `change_dir`, both kinds of `remove`, `close`; the transaction loop.
*Hard:* cached ids of rows that other clients remove; transactions rolled back
and repeated with what the last attempt left behind; several transactions per call.
*Correct when:* an object never works on another client's node; tables agree.

### Others
| Component | State and operations | Hard |
|---|---|---|
| Wrapper and dummy tasks (`wrapper_task.hpp`) | a task around a task or around a result | polls in the destructor |
| Instance data (`proxy.cpp`, `proxy.hpp`) | data shared by the adaptors of an object; `check_out`, `check_in` with a lock per datum | the datum may be replaced while it is checked out |
| Error reports (`exception_list.cpp`, `object.hpp`) | list of exceptions, last known good adaptor; `get_error` | which of many errors is told |
| Attributes, attribute cache (`attribute*.cpp`) | maps, modes, a cached position | cached position across removals and threads |
| Default replica adaptor (`src/adaptors/default/replica`) | tables of directories, entries, replicas, attributes | as the advert adaptor |
| Work items (`manage_workitems.cpp`, `workitem.hpp`) | timers and an I/O thread; disabled at present | join under a lock, timer that fires at once |
| Other adaptors, packages, facade, URL, objects, buffers, logging, ini files, tools | see `PROJECT.json` | input and output, or stateless forwarding |
| Bulk (`engine/bulk_analyser.cpp`, `saga/adaptors/bulk_*`) | analysis of task containers | no live caller |

### How they interact
A method of an API object calls its *proxy*; the proxy asks its *session* for
the preferences and then for a CPI, which makes the session load its *engine* the
first time (`Session`); the selection loop (`AdaptorSelection`) executes the CPI
directly or hands it to a *task* (`Task`), whose worker continues the same loop on
failure.  A task's state is a *metric*; `wait` of a task and of a *container*
(`TaskContainer`) register callbacks on it.  The modules meet at these points:
`RestartSelect` of `Task` stands for the selection loop of `AdaptorSelection`
(any adaptors may be declined on the way, the search may end without one);
`TaskContainer` takes a task as its metric and a worker that ends; a selection
step of `AdaptorSelection` stands for a `get_preferences`, `get_adaptor` pair of
`Session`.  The adaptors (`PosixJob`, `FileObject`, `DirectoryObject`, `Advert`)
are what such an execution runs: a synchronous call in the caller's thread, an
asynchronous one in the worker of a task, so that threads share an object of
theirs even when the application has one.

## 2. The modules and the code

### `Task`
One action per critical section.  `RunCheck` and `RunStart` are the two sections
of `run()` (task.hpp:287-318) and `RunReplaced` is the assignment to `thread_`
when it has to join a former worker; `WaitRead`, `WaitJoin`, `WaitJoined`,
`TimedRegister`, `TimedWake`, `WaitRecheck` are `task_base::wait` in its order;
`WorkerSucceed` and `WorkerFail` are `bond`, `RestartCheck` and `RestartSelect`
`restart`, `WorkerFinish` the destructor of the `state_setter`; `Destroy` and
`DestroyJoined` are `~task`.  `SetState` stores the state and fires the metric,
which wakes and removes the callbacks of timed waits.  `LockFree` is the mutex:
the only thread that keeps it beyond a step is one in `RunReplaced`.
`lateCalls` is a history variable.  `Threads`, `Runners`, `Cancelers`, `Waiters`
say who may call what, so that a run can ask about a single runner or several.

`TaskLifecycle` is the abstract specification: an operation that starts at most
once, is settled at most once, and whose outcome is what the state shows until
`cancel()` changes it.  `RefinesLifecycle` maps `outcome` to the progress and the
`state_setter` of the worker.

### `AdaptorSelection`
`InitCpi` is the constructor of an API object (one round per step, because
constructors of adaptors are foreign code).  `select_run_mode` runs under the
mutex of the proxy and is one step, split by what ends it: a cached instance
(`SelectCached`), one with the flag `Fixme` (`SelectFixme`), a new instance
(`SelectNew`), a constructor that reports an error (`SelectDeclined`) or throws
something else (`SelectThrows`), nothing (`SelectNone`).  `Fatal` is the test of
`execute_sync` and `get_next_cpi` on the list of exceptions, `ListError` is
`exception_list::get_error`.

### `TaskContainer`
Every loop over the list is taken task by task: `Look` is one `get_state`,
`Register` and `Unregister` one `add_callback` and `remove_callback`,
`CancelCancels` and `RunRuns` one call on a task.  `setter[t]` is the thread that
holds the locks of task and metric while it fires; `StateChanged` is a callback
into a container, which needs `state_change_mtx`, held by a client in
`pc = "register"`.  The code locks nothing in `add_task`, `remove_task`, `run` and
`cancel`; a container therefore has one client thread here, which is the only
use the code makes safe.  `wait` for Any collects every task that is not Running,
tasks in state New included (`Collected`), as task_container.cpp:132 does.

### `Session`
`Check` is what a call tests without the lock, `Lock` takes it and does what
`late_initialize` does first, `Load` is one adaptor of its loop, and one action
per body follows (`FillPreferences`, `AddContext`, ...).  `Used` is the end of
what is done with the engine after the lock was released.  Contexts are their
types; when proto contexts are converted, any of them may be dropped, since
setting their defaults may throw.

### `PosixJob`
`Described` and `Reconnected` are the two constructors.  `RunFork`, `RunThreads`,
`RunStarted`, `RunReturn` are the steps of `run` between which the helper threads
get going; `Signals` and `Send` are `signal`, with which `suspend`, `resume` and
`cancel` begin; `StopIo`, `CloseFlags`, `CloseEnd` the steps of `close`, which
clients, the destructor and the waiting thread itself call.  `Waiter*` is
`run_thread_wait`, `Io*` `run_thread_io`, `PsRead` and `PsStore` `get_state` of a
job that was not started here.  `ChildStops`, `ChildEnds` and `ReapedElsewhere`
are the operating system's; `news` is what `waitpid` will report.  `seen` and
`overrun` are history variables.

### `FileObject`
`LockInst` and `UnlockInst` are `check_out` and `check_in` of the instance data
by a constructor and a destructor of `instance_data`, `LockMtx` is `mtx_`.  A
transfer is `Read` (`Write`), the lock, the data, the end of it under a second
acquisition; `GetSizeSeek`, `GetSizeTell` and `GetSizeBack` are the three uses of
the stream in `get_size`.  `CopyClear`, `CopyCreate`, `CopyFill` and `MoveHold`,
`MoveRename`, `MoveLock`, `MoveReopen` are what `copy` and `move` do to the file
system, one step per call of it that others may come between.  The stream is its
position and its error bits (`SeekFrom`, `AfterRead`), a file an inode with a
size.  `spans`, `twice` and `asked` are history variables.

### `DirectoryObject`
`inst` and `mtx` are the two locks; an exception gives back both (`End`).  A call
is its beginning (`CopyCall`, `CopyWildcard`, ...), which waits for the locks the
code takes first, and one step per look at the file system or change of it:
`Look`, `Clear`, `Check`, `RenameEntry` are `sync_move`; `Look`, `Clear`,
`CopyEntry` `sync_copy` of a file; `RemoveCheck`, `RemoveDo` `sync_remove`;
`WildLock`, `WildNext` and then the same steps for one entry after the other
(`Done`) the three operations with wildcards and their helpers.  `Enter`,
`OpenDir`, `Entry`, `Replace`, `Fill`, `Leave` are the recursive `copy_directory`,
with the active calls on `stack`.  The operators over `tree` are
Boost.Filesystem.  `before` is a history variable: the tree as it was when a copy
began, until another thread has changed it.

### `Advert`
The tables are `nodes` (id to parent, name, kind), `data` and `metadata` (which
nodes have a row).  A transaction of `database_connection::execute` is one step.
An attempt that SQLite answers with BUSY is rolled back and repeated; it is a
step of its own where it leaves the id it found in the object or in the call
(`InitCreateBusy`, `RemoveOtherBusy`, `Busy`), and a stutter otherwise.
`Open`, `InitExists`, `InitCreate`, `InitOpen`, `Abandon` are the constructors,
`MakeExists` and `MakeCreate` the accesses of `make_dir`, `ExistsEntry`,
`ExistsDirectory`, `RemoveOther` those of `remove(url)`; `Drop` is the destructor.
`Enters`, `Keeps` and `Leaves` are the `database_scope` and the mutex of the
instance.

## 3. Runs

Every run but `task_runners` checks the type invariant of its module beside the
properties named here.

| Run | Instance | Shows |
|---|---|---|
| `task_shared` | 3 threads, one of them runs, three adaptors, destroyable, 18486 states | no callback outlives its condition variable (`NoDanglingCondition`), Done and Failed come after the last adaptor call (`FinishedStateIsQuiet`), no adaptor is tried twice, at most one late call after `cancel` (`LateCallsBounded`), a task released in a state other than Canceled is quiet, every call returns, Running ends, and the task implements `TaskLifecycle` |
| `task_runners` | 3 threads, two of them run, two adaptors, destroyable, 64016 states, no fairness | up to the deadlock `task_tworuns` shows, a wait that saw Running finds a worker to join (`JoinFindsWorker`), though the second `run()` replaces it |
| `selection_calls` | a thread and a task on one proxy, four adaptors, one with `Fixme`, 16391 states | no duplicate instances, the instance executed implements the operation, no adaptor twice in a call (`CalledOnce`), a synchronous call fails only when all were tried, calls return |
| `container_calls` | one container, two tasks, all calls, modes and time-outs, 70894 states | what a wait for All returns has ended (`AllReturnsFinished`), callbacks end with `wait`, no task is lost (`NoTaskIsLost`), calls return |
| `session_calls` | two threads, two adaptors, one adds a context, two context types, 21410 states | proxies select from a complete engine, cached preferences cover the contexts, calls return |
| `posixjob_calls` | a client that runs, controls, asks and waits, one that cancels or destroys, a child that stops, goes on and ends, 95244 states | Done, Failed or Canceled means that the process has ended (`FinalMeansEnded`), calls return, `wait(-1)` returns when the process has ended unless `WaitReturns` names why not, closing ends the I/O thread (`CloseEndsIo`) |
| `file_calls` | two threads, all calls on files of at most one byte, targets that come and go, a disk that fills up, 2636720 states | transfers get adjacent ranges (`RangesAdjacent`), no entry is replaced unless some call may (`NothingReplaced`), what is copied does not change meanwhile (`CopyIsSnapshot`) |
| `directory_calls` | two threads, two names, paths of at most three, two trees, twelve calls, 696855 states | the file system stays a tree, a copy of a directory is the union of both trees (`CopyIsUnion`), without Overwrite or Recursive no content vanishes (`NothingLost`) |
| `advert_calls` | two threads, two objects, a node and one below it, 1608705 states | an open entry whose node exists works on an entry of its own name (`HandleIsItsNode`), stored data belongs to a node that exists and no directory has two nodes of one name (`TablesAgree`) |

The other runs check a sentence of the repository that the code does not keep;
TLC finds the behaviour, and `PROJECT.json` quotes the sentence:

| Run | Sentence | What happens |
|---|---|---|
| `task_tworuns` | "this function returns immediately" | two concurrent `run()`s: the second joins the first worker while it holds the mutex that worker needs |
| `selection_declined` | the search ends when "all are in the no_adaptor list" | an adaptor that declines ends it when a cached one does not implement the call |
| `container_shared` | wait(Any) "returns if one or more tasks in the container reached a final state" | two containers with the same two tasks in opposite orders, and a setter of each, wait in a cycle |

**Bounds.**  `Task`: three threads give a runner, a waiter and a canceler at once,
and two waiters of different kinds beside the worker; three adaptors give a
retry after a retry, with one declined in between.  `AdaptorSelection`: two
callers whose sets of implementers overlap in two adaptors, each with one the
other cannot use, give every order of the list; the instances of a call are
bounded by the adaptors, and calls repeat for ever.  `TaskContainer`: `MaxCopies`
bounds how often a task is in a container (1 in the runs; the code does not look
for duplicates) and with it the only unbounded data; a container that holds a
task twice can lock itself out as two containers do in `container_shared`, so
that only safety, which is proved for every `MaxCopies`, could be asked with 2;
two tasks make the difference between some and all.  `Session`: a second thread suffices for every
race on two flags; the same properties also hold with three (449202 states).
`PosixJob`: one process is forked at most, and the two clients divide the calls
so that `cancel` or the destructor meets each of the others.  `FileObject`: files
of one byte already tell a short read from a full one and a full disk from room;
one file may be moved onto another and into a subdirectory.  `DirectoryObject`:
`MaxDepth` is the length of a path at which the system refuses, so copies into
one's own subdirectory end; the trees have a file beside a subdirectory, a file
in the way and one in a subdirectory; the calls are those whose effects can
meet (a set with 5278378 states held, too); requests never name the root as what
is removed or overwritten.  `Advert`: `MaxNodes` is the largest id the data base
gives, beyond it an insertion fails and the transaction is rolled back; three
leave one to be removed and created again by the other client.  The inductive
invariant was checked on this instance and with three threads on one path, where
it shows that a data row may end up on a directory (section 5).  The last three are
checked for safety only, and use the symmetry of threads and objects; where
liveness is checked, symmetry is not used.

**Deadlock** is checked except where the program may really stop: a task that
was destroyed, two concurrent `run()`s (`task_runners`), an API object whose
constructor failed, a job that was destroyed, objects that were closed, and the
runs that look for a violation of a sentence.  File and directory objects also
stop because threads that use one object lock each other out (section 5).

**Fairness.**  The threads of the operating system make progress: a step whose
thread is runnable is taken (weak fairness), a mutex that becomes free again and
again is obtained in the end (strong fairness of the steps that take one in
`TaskContainer` and `Session`, where others may take it over and over; in `Task`
every critical section but the one of `RunReplaced` is a step), functions
and constructors of adaptors return, and time passes, so timed waits end.  The
API obliges nobody to begin a call: no call is fair.  In `PosixJob` the helper
threads, the steps of `run`, `close` and `ps` are weakly fair, and so is nothing
the child does; `Return`, which a polling wait takes when it happens to look at
the right moment, is strongly fair.  `FileObject`, `DirectoryObject` and `Advert`
are checked for safety: their locks may block for ever, or a busy data base.

## 4. Proofs

All theorems hold for every value of the constants that the named `ASSUME`s
allow: any number of threads, adaptors, callers and contexts.

*`Task_proofs`.*  `TypedJoin` (types; whoever saw Running finds a future;
executing workers have an adaptor) and `FailureRecorded` are inductive for any
number of runners, and give `TypeCorrect`, `JoinSafe`, `NoDangling` and
`FailureExplained`.  The others assume `SingleRunner`, because two runners break
them (`task_tworuns`); they follow from `Solo`, whose parts say why one runner is
enough: there is one worker (`OneWorker`), the selector's adaptor is the one
the worker executes (`SelectorInStep`), a late call is the last one because
`MayRestart` looks at the state again (`LateCallIsLast`), and the destructor
joined or had nothing to join (`Released`).  `ImplementsLifecycle` maps every
step to one of `TaskLifecycle` or to a stutter under the same invariant.

*`AdaptorSelection_proofs`.*  Types, that the list has no duplicates however many
threads select (`OneInstance`), that the front of the list is what the call
selected (`RightInstance`), that an executed adaptor is banned when the call
selects again (`NoSecondCall`), and that a failed synchronous call has tried
everything (`FailoverIsComplete`).  The last one assumes `OrdinaryCtorErrors`:
constructors report one of the codes 2 to 11 of `saga::error`, which
`exception_list::get_error` prefers to the NoAdaptor of a cached instance;
`selection_declined` shows that it is needed.
`RoundsAreFew` is the part of `CallsReturn` that needs no fairness: the list of banned
adaptors of a call only grows, and every step that leads to a further selection adds
to it (`ListGrows`).  Hence, if the adaptors
are finitely many, each step of a call ends it or lowers `Left`, which is at most
twice their number and one, and no step of another caller raises it.

*`Session_proofs`.*  One invariant, `Guarded`: at most the owner of the mutex is
inside, the adaptors are loaded by the owner only, preferences exist only after a
complete load.  The last part carries `CompleteEngine`: `get_adaptor` skips the
lock if `is_initialized`, which is set too early, but every proxy has first got
its preferences.  `PreferencesFresh` rests on the resets.  `AdaptorsLoadedOnce` adds
that the owner of the mutex is always inside (`GivenBack`: no way out of a call, by
an exception or not, keeps it), and, about steps, that once the first caller has set
`is_initialized` nobody enters the load and the list to load only shrinks.

*`TaskContainer_proofs`.*  `ContainerInv` says who holds the locks of a task
(`TaskInv`), which list entries a client has passed (`Place`), that the callbacks of
a waiting container are on the entries below `at` while it registers and on
those from `at` on while it unregisters (`Registrations`), and that whatever a
wait for All has passed has ended (`Finished`), which no step undoes (`Progress`).
The types, `AllReturnsFinished` and `CallbacksEndWithWait` are parts of it.
`NoTaskIsLost` counts: `CollectedInv` says that a scan has collected no task more
often than the list has shown it, and the lemmas about `remove_returned_tasks`,
a fold, that taking those out leaves exactly the others.

*`PosixJob_proofs`.*  `FinalMeansEnded` speaks of the state only and is not
inductive, since the truth about the child reaches it on three ways:
`TruthOnItsWay` adds the news of the kernel, what the waiting thread has fetched
and not stored, that the answer of `ps` is stored for reconnected jobs only, and
that a job that was never run has no helper thread.  `OneVerdict` is about the
steps of a job run here: Done, Failed and Canceled never replace each other.  Its
invariant `VerdictInv` says why: a single `run()` is past its fork and the waiting
thread does not exist before that, and once an end has been reported (`seen`) the
waiting thread is told to stop and reports nothing more.  The two steps that do
replace a final state are named in `VerdictStands` and are those of the source: the
end of `run()`, which sets Running after the waiting thread may have reported, and a
failing I/O thread.

*`FileObject_proofs`.*  `LockInv`: each mutex belongs to the one thread that is
between its lock and its unlock, hence nobody else changes what a call has looked
at.  With it `DiskInv` says what `copy` and `move` carry from step to step (the
target a copy creates is still free), `StreamInv` that the ranges read and
written end where `pointer_` will be after the transfer under way (`Frontier`),
which `get_size` does not disturb although it moves the position of the stream.
`CopyIsSnapshot` and `NothingReplaced`, on steps, follow one action at a time.

*`DirectoryObject_proofs`.*  `DirInv`: a thread past the lock of `mtx_` has it,
calls reach only the steps of their kind, and what the last look saw is still so
when the entry is renamed or removed (`StillSo`).  The lemmas before it say that
each operation of the file system (create, remove a subtree, rename a subtree)
makes a tree of a tree, for paths of any length; `NothingLost` follows.
`CopyIsUnion` needs a second invariant, `CopyInv`, about every copy of a directory
under way while no other thread has changed the tree: each call of `copy_directory`
on the stack copies a directory of the first tree to its image below the target
(`FramesOk`), nothing but images and the way to the target has changed, and an entry
is already what it shall be unless it is still `Pending`: in what is left of one of
the calls, below the one just entered, or the file at hand (`Written`).  One lemma
per step of the copy keeps it (`EnterCopies` to `LeaveCopies`); at the end nothing is
pending, and the tree is the union (`CopyEnds`).
`DirectoryAssumption` excludes requests to remove or overwrite the root, and
starts from trees.

*`Advert_proofs`.*  The tables form a tree with names unique in each directory and
ids below the next one (`TablesInv`); a constructor works alone on an instance that
is not open (`CallInv`); the id an entry caches was given to an entry of its name
and to no other node since (`OwnNode`), when it is open or about to be: while it is
created, the id may be anybody's, because a rolled back attempt leaves it there
(`HandleInv`).  `HandleIsItsNode` alone says nothing of removed nodes, whose ids must
not come back.  This is `IdsKeepTheirNode`: every transaction removes nodes, or adds
some with ids that were never used, and changes none.
`find` and `create` walk a path with folds: the lemmas up to `WithPathIs` say that such a fold is what its steps make it (`FoldExists`), that
looking up what was just created ends in the same node (`WalksTogether`), and that
the tree stays good meanwhile.  `AdvertAssumption` takes paths to be sequences of at
least one name.

*Model-checked only:* liveness (`CallsReturn`, `RunningEnds`, `WaitReturns`,
`CloseEndsIo`, and the sentences about progress), because fairness and ENABLED are
out of the prover's reach (of the selection's `CallsReturn` the bound on the rounds
is proved).  The other properties of the passing runs are theorems.  Facts about a
number of steps are proved with sets of naturals (`SetInduction`, from
`WFMin`), because the induction theorems of the library take operators.  No module
that is proved about declares a recursive operator.

## 5. Not modelled, and what the code does not keep

Tasks whose asynchronism lies in the adaptor or in a bulk: no live code creates
them.  Work items are disabled in `register_workitem.cpp`, bulk strategies have
no caller.  Application callbacks on metrics, the attribute cache, wrapper tasks
and the report of errors are left to the plan below.  Parsers, logging, ini
files, the loading of shared libraries and the adaptors that pass calls on to a
service are input and output without interleaving of their own; the packages and
the facade forward every method to the machinery above.  Text, durations and
results of operations are abstracted everywhere: a timed wait may end at any
moment.  Uses that the C++ standard leaves undefined with unbounded consequences
(a vector changed by two threads, an engine cleared at session.cpp:432 while a
selection iterates over it) are excluded by the model.

- `PosixJob`: `migrate`, the registry of known jobs, the job service, the Windows
  variant.
- `FileObject`: objects opened for reading only, buffers the implementation
  allocates, links, `clone`; several operations on different objects of one file.
- `DirectoryObject`: links, permissions, lists and finds, entries opened through
  a directory.  There is one object: two of them, or two processes, share no
  lock, and nothing keeps `rename` of one from replacing what the other has just
  created.  A subtree is removed, a file filled and a directory read in one step.
- `Advert`: objects opened for reading only, `isdir_`, recursion of `find` and
  `list`, the cache of connections, monitoring, data bases other than SQLite.
  Paths are resolved; a look-up outside a transaction is atomic.

Lines below say what the code does where no property could be stated, or where a
stronger one fails; all of it is part of the models, unless said otherwise.

*Tasks.*  The worker stores Done or Failed over a state Canceled that was final
(task_base.hpp:170; `src/saga/saga/task_base.hpp:45` calls it final), so
`TaskLifecycle` promises the outcome until `cancel` only.  A timed wait that the
end of the task wakes may throw DoesNotExist, as its callback is gone
(task_base.cpp:272).  A task that was canceled is destroyed without waiting for
its worker (task.hpp:266).

*Jobs.*  `close` stops the waiting thread before that has seen what `cancel` did
(impl_posix_job.cpp:464): the job stays Running.  The helper threads outlive the
destructor, which has reset the flag that says there is something to join (:458).
`run` stores Running over the state of a child that has ended by then (:814).
After the end of the output the I/O thread polls at full speed until the job is
closed (:1079).  A job known by its id is never watched (:389), its `interactive_`
is read uninitialised (:360-425), and one look at a `ps` that fails makes it Done
for good; an id that the system has used again is not noticed (not modelled).

*Files.*  `is_dir`, `is_entry`, `is_link` and `move` take `mtx_` inside the
instance data (default_namespace_entry_impl.hpp:137, 175, 220, 623), the others
the instance data inside `mtx_` (default_file.cpp:219, 301, 352, 385, 413, 457):
two threads can lock each other out.  A short read leaves eofbit and failbit, so
the next read throws and the next seek stores -1; only `get_size` clears them.
`move` opens the file again with the flags of the first time, so one opened
with Truncate, or for writing only, is emptied; a move that fails leaves it closed;
a move into a directory leaves the old location; a move onto itself with Overwrite
removes the file (default_namespace_entry_impl.hpp:626).  Opening with Exclusive
looks and creates in two steps (default_file.cpp:68-94).  A write of which only
the flush fails has advanced the position.

*Directories.*  The operations with wildcards take the locks in the other order,
too.  They match the whole path of an entry with the pattern
(default_namespace_dir_impl.hpp:1164), so one that does not begin with a star
selects nothing, and as the facade tries the wildcard function first for a
source given as text (`src/saga/impl/packages/namespace/namespace_dir.cpp:224`), copying "a" by name
then does nothing and reports success.  Copying or moving an entry onto itself with
Overwrite removes it (:613, :720), and `move("*", "sub", Overwrite)` removes `sub`
with all that was moved into it.  If a file stands where a directory is to be,
`copy_directory` puts the entries beside it.  A recursive copy into one's own
subdirectory goes on until the path is too long.  `make_dir` ignores its flags
and, as the removal of the own directory, does not take `mtx_`; `remove(url)` does
not look whether the object is open.  Create with Exclusive cannot succeed when
the directory is new, since its existence is checked afterwards (not modelled).

*Adverts.*  `change_dir` to a directory that does not exist reports success and
changes the location, not the node (advertdirectory.cpp:1146).  `set_attribute` on
an entry another client has removed leaves rows that belong to no node
(advert_database_connection.cpp:1085).  `set_attribute`, `get_attribute` and
`remove_attribute` look the path up without asking for an entry and cache the id: if
one thread closes an object while two others are in `store_data` and
`set_attribute`, and another client has made a directory of that name, the
data is stored on the directory; so `TablesAgree` speaks of nodes.  Two clients
can both create one entry exclusively (advert.cpp:112).  What is below an entry that
is no directory is orphaned when that is removed.  A recursive `list` or `find` throws "this should
not happen" at advertdirectory.cpp:722 (not modelled).

## 6. Plan

1. *Done:* `Task` with `TaskLifecycle`, `AdaptorSelection`, `Session` with their
   proofs, `TaskContainer`; of the adaptors `PosixJob`, `FileObject`,
   `DirectoryObject`, `Advert`; the proofs of all their safety properties.
2. The replica adaptor as a second instance of the tree of `Advert`, with a table
   of replicas in place of the data; lists and finds.
3. Callbacks of the application on the state metric that throw, remove
   themselves or fire again, composed with `Task`.
4. `get_error` and the last known good adaptor as operators, against the
   priorities the programming guide states (`programming_guide_errors.tex`).
5. Wrapper tasks as another implementation of `TaskLifecycle`; the cached
   position of the attribute cache; then the work items.
