# Verification of OpenESL

OpenESL is a C++ library of interfaces (`esl/`) and features that implement them
(`features/common4esl`, `zsystem4esl`, `mhd4esl`, `sqlite4esl`, ...). This directory holds TLA+
models of the parts of it that keep state and are hard to test, the TLC configurations that check
them on small instances, and theorems that TLAPS checks for every value of the constants. Line
numbers are those of the sources beside it. `PROJECT.json` lists components, runs, mutants, hazards,
theorems and which lines each definition models.

    tlc -workers 2 -config ObjectPool.cfg MCObjectPool    # one run
    tlapm TaskFactory_proofs.tla                          # one proof module

## 1. The system

Modelled parts come first. The library has no tests of its concurrent parts.

| Component | State | Operations | Interacts with | What is hard |
|---|---|---|---|---|
| **Task system** `common4esl/system/Task*` | queue of bindings, threads available and processing, a status and a factory pointer per task; three kinds of mutex | createTask, getTasks, cancel, getContext, the loop of a worker, destructor | procedures and status listeners of the program; the raw pointer from task to factory | a task moves between containers in separate critical sections; nested locks in different orders; timed waits; shutdown |
| **Object pool** `esl/utility/ObjectPool.h` | list of objects, counter of lent ones, a handler thread | get with and without timeout, release by a deleter, handler rounds, destructor | factory function of the program; deleters that outlive get() | counter with failures, lost wakeups, destructor against borrowers and getters |
| **Session pool** `esl/utility/SessionPool.h` | one object per key with a count, total counter, handler thread | the same, by key | raw pointers of clients to objects of the pool | objects destroyed while lent, stale counts |
| **Message timer** `esl/utility/MessageTimer.h` | list of messages with times, runner's thread id, `newMessageMutex` | run, stop, addMessage | the message handler calls back into addMessage and stop | wait without predicate, mutex held in the handler, run after stop |
| **Signal manager** `zsystem4esl/system/signal`, `zsystem/SignalHandler` | global instance, registry, message list, detached thread, table of handlers | install, uninstall, signal, run | POSIX signals interrupt any thread | locks in a signal handler, lost start notification, instance deleted unguarded |
| **Logbook** `thirdparty/logbook` | recursive owner mutex, buffer of unblocked writers, location, levels | create and release writer, setLevel | appenders | text left in the buffer, data race on the location |
| **Appenders** `common4esl/monitoring` | ring of lines; a stream with its place in the line | write, newline, flush | logbook | ring at its limit, cut lines |
| **HTTP server** `mhd4esl` | daemon pointer, response queue per request, certificates | listen, release, wait, accept | libmicrohttpd threads | double stop, order of notification, error paths of a request |
| **Child processes** `zsystem4esl`, `zsystem/Process` | process id, pipes | execute, poll, transfer, waitpid, sendSignal | operating system; readers and writers | wait for the child against a full pipe, pointer to a local variable |
| **Readers and writers** `esl/io` | buffer, end flags | read, write, produce, consume | HTTP, processes | short reads and writes |
| **Database** `esl/database`, `sqlite4esl` | result set, fields, changed and fetching flags, handles | prepare, execute, fetch, edit, move, destroy | SQLite | ownership of statements, exceptions between two assignments |
| ODBC `odbc4esl` | handles | as above | ODBC driver | same protocol as result sets |
| HTTP client `curl4esl` | one request, headers, receive buffer | send, callbacks | libcurl | exceptions through callbacks |
| Processing context `common4esl/object` | objects by id, entries, parent, exception handler | addObject, addAlias, find, run, initialize | procedures, XML configuration | failed initialisation, ids |
| Plugin registry `esl/plugin` | process-wide pointer, plugins | get, set, install | all features at start | order of destruction |
| Utilities, key store, XML parser, examples | none or filled once | - | - | not the core |

What makes each modelled component correct:

* *Task system*: a task is executed once or canceled, never lost; the thread counter is exact and
  within `max-threads`; nothing touches a destroyed factory; a context is handed out only when its
  procedure is over; the destructor returns and every task ends.
* *Pools*: limit and counter agree with what is lent; no free place with getters blocked; an object
  has one owner (object pool) or lives as long as it is used (session pool); the destructor outlasts
  the borrowers and returns.
* *Message timer*: a message whose time has come leaves the list; a stop ends the runner; nobody
  locks himself out.
* *Signal manager*: a function is called only while its handler exists; one thread serves the
  manager; a signal with handlers in the registry is caught.
* *Logbook and appenders*: every character arrives once, in the order of its message, under the
  location of its message; the ring holds the last whole lines.
* *HTTP server*: nobody waits for a daemon that is gone; no request uses a destroyed socket; a request
  is answered once or refused.
* *Child processes*: no byte is lost or doubled; `execute()` returns; no pointer dangles.
* *Database*: a statement has one owner; a field shows its row; a statement runs with what was passed
  to it; the database outlives its statements.

## 2. Modules

| Module | Models | EXTENDS / instance |
|---|---|---|
| `TaskFactory` | task system, 3 kinds of actors | implements `TaskLifecycle` |
| `TaskLifecycle` | what a user of `esl::system::Task` is promised | - |
| `ObjectPool` | object pool | implements `ObjectLending` |
| `ObjectLending` | exclusive lending below a limit | - |
| `SessionPool` | session pool | implements `SessionLending` |
| `SessionLending` | shared lending of one object per key below a limit | - |
| `MessageTimer` | message timer | implements `TimedMessages` |
| `TimedMessages` | replacement by key, handing over by priority, one after the other | - |
| `SignalManager` | handlers, manager, detached thread, table of `SignalHandler` | - |
| `Logbook` | writers of several threads, composed with two appenders | extends `Appenders` |
| `Appenders` | ring and stream as recursive functions from state and text to state; `LinesOf`, the reference | - |
| `HttpServerSocket` | socket and requests; MHD's daemons are external | extends `ServerName` |
| `ServerName` | choice of a certificate as a recursive function over the entries; `BestCertificate`, the reference | - |
| `ChildProcess` | parent, child and pipes; the operating system is external | extends `IOAdapters` |
| `IOAdapters` | buffers of `ProducerReader` and `ConsumerWriter` | - |
| `SQLiteStatements` | factory, connection, prepared statements, result sets; SQLite is external | extends `Field` |
| `Field` | value and column type of a field, conversions | - |
| `MC...` | sets of model values and symmetries for TLC | the module they are named after |
| `TaskFactory_proofs`, `ObjectPool_proofs`, `SessionPool_proofs`, `MessageTimer_proofs`, `SignalManager_proofs`, `HttpServerSocket_proofs`, `ChildProcess_proofs`, `LogbookAndStatements_proofs` | theorems | their module |

**Granularity.** A step is a critical section. A mutex is a variable only where it is held across
steps: `queueMutex`, `threadsMutex` and `taskFactoryMutex` in `TaskFactory`, `newMessageMutex` in
`MessageTimer`, `instanceMutex`, `registryMutex`, `messagesMutex` and `newMessageCVMutex` in
`SignalManager`, the recursive `loggerMutex` in `Logbook`. Both pools hold `objectsMutex` from the
first to the last statement of every function and give it up only in a wait, so a step is the stretch
between two waits. `messageTypesMutex`, `configMutex` and `waitNotifyMutex` guard single steps. A
condition variable is the set of threads whose program counter says that they are blocked:
`notify_one` picks any, a wakeup may be spurious, and a woken thread needs the mutex again before it
goes on. Where code reads shared state without its mutex, the read is a step of its own.

**`TaskFactory`.** A client runs `CreateEnqueue`, `CreateSpawn` (or `CreateSpawnFails`, when
`std::thread` throws) and `CreateNotify`; `ListQueued` and `ListProcessing` are getTasks();
`CancelCall` to `CancelSignal` are cancel(). A worker's main loop (the constructor of `TaskThread`)
is `LoopTest`, `Peek`, `Fetch`, `InsertProcessing`, `RunStarted`, `ProcedureReturns` or
`ProcedureThrows`, `RunCatches`, `Detach`, `EraseProcessing`, `WaitTest`, `Sleep`, `Timeout`,
`TimeoutTest`, `Exit` and `ExitNotify`. The destructor is `DestroyBegin` to `DestroyJoin`. A thread
identity whose thread has ended may be used again. `std::mutex` is not recursive: a thread that
locks what it holds (`cpc[c] = "relock"`) stays there.

**`ObjectPool`, `SessionPool`.** `Get` decides at once or blocks; `GetWoken`, `GetElapsed` evaluate
the predicate again; `HandlerRound` is one pass of the timeout handler. Of time there is only which
lifetimes have elapsed (`Expire`). Whether there is a lifetime, and with it a handler thread, is
chosen in `Init`: `handler = "none"` or `"start"`. In `SessionPool` `valid` says whose raw pointer
still points to a living object, and counts per key are numbers modulo `SizeModulus`, as they may go
below zero. The mapping to `SessionLending` shows what is lent and what is usable; the counters, whose
places may be lost, are not part of the promise.

**`MessageTimer`.** `run()` is `Run` to `Leave`, one step for each stretch between two looks at shared
state. `running` is changed by `stop()` without a mutex, so that it may change between the two
looks (`Test`, `Look`) and before the wait (`Block`). `HandlerAdds` and `HandlerStops` are the calls
from the message handler, which succeed at once if `runThreadId` is the thread's own. For
`TimedMessages` a message is being handled (`Handling`) while a runner is in the handler.

**`SignalManager`.** A user is a thread of the program that creates and destroys one handler.
`CreateDirect`, `DestroyDirect` are handlers that are called in the frame of the signal; `Install` to
`Register` and `Remove` to `RemoveAwait` are creation and destruction of a threaded one. `Start` to
`EndNotify` are `ThreadManager::run()`. A signal (`Raise`) puts a frame over any thread at any step;
the thread goes on only after `CallDirect`, `CallManager`, `PushMessage` and `Return`, and a frame that
needs a mutex its own thread holds never goes on. A null `instance` that is followed is
`InstanceGone`, after which the program is at its end. The module keeps the mapping of "child" to the
table of SIGILL, which the code has (`SignalHandler.cpp:82`).

**`Logbook`, `Appenders`.** A thread has a stack of writers, as an expression that is logged may log
itself. `CreateOwner` and `CreateUnblocked` are the two outcomes of the `try_lock`, `PutChar` is one
character through the stream buffer (a line end writes to the appenders at once for an owner),
`DestroyWriter`, `PushUnblocked`, `TryLock`, `FlushBuffer` and `Unlock` are the release, `SetLevel` is
setLevel() by a thread without `loggerMutex`. Two ghosts keep the record the properties need:
`writes`, all that the appenders got, and `disturbed`, the messages during which the location may
have changed. The appenders are functions from state and text to state; `Logbook` holds one of each.

**`HttpServerSocket`, `ServerName`.** Callers are threads of the program that may run any of listen,
release, wait and the destructor whenever they are idle. `Listen` to `ListenAssign` follow the three
critical sections of listen() and its unguarded reads, `Release` to `ReleaseNotify` those of release(),
`WaitTest` and `WaitWakes` the wait. A request goes through `Connect`, `FirstCall`, `NextCall` and
`Complete`, the calls of mhdAcceptHandler and mhdRequestCompletedHandler; `Own` are the responses its
handler queues. What MHD takes, and when, is `Takes`. `fault` is the second stop of one daemon.

**`ChildProcess`, `IOAdapters`.** The parent is `Execute`, `Fork`, then rounds of `Poll`, `Process` per
stream and `EndRound` or `EndRoundWaiting`, then `Waitpid`, `ForgetPid`, `Return`; `Throw` is an
exception of a Reader or Writer. The child follows a plan: it writes, reads all, closes, ends. Another
thread takes the handle (`GetHandle`) and sends a signal (`Kill`). Bytes are numbered, so that
the sequence which arrives says what was lost, doubled or replaced; the bytes that the offset of
`Input.cpp:174` takes from the wrong place are `Junk`.

**`SQLiteStatements`, `Field`.** One action per operation and outcome: an execution is refused, fails,
finds no row or a row. `bound` is what SQLite has bound, `given` what the program passed; `state` says
whether SQLite takes bindings. A result set takes the statement of its prepared statement and may be
moved, read to its end, edited and destroyed. `Field` is the assignment with its conversions.

## 3. Runs

| Run | Asks | Instance |
|---|---|---|
| `task_factory` | life of tasks, counters, what listings and cancels miss, nothing after destruction, no other deadlocks, refinement | 2 tasks, 3 thread identities, max-threads 2, 2 clients, 1 failing thread start |
| `task_factory_shutdown` | destructor returns, tasks end | 3 tasks, 2 identities, 1 client, fair |
| `object_pool` | wakeups, lending (refinement), destructor, timed get, lifetimes | 3 clients, 2 objects, limit 2, 1 failure, fair |
| `object_pool_getters` | *violated*: getters return before the pool is gone | 2 clients |
| `session_pool` | counts, limit, wakeups, lifetime of objects | 3 clients, 2 keys, limit 2, 1 failure |
| `message_timer` | nothing forgotten, no self-deadlock, messages and stops are served | 2 runners, 1 client, 3 messages of 2 keys and 2 priorities, 1 movable; 2 messages added, 1 throw, 1 overlap, fair |
| `signal_manager` | handlers that are called exist, one thread, registry and table agree | 2 users, 2 identities of the detached thread, 2 signals, 1 raised at a time, 1 failure |
| `logbook` | texts arrive, in order, under their location, as whole lines | 2 threads, 3 messages, nesting depth 2, ring of 1 line of 1 column, 1 setLevel |
| `http_server_socket` | waiters, requests, handler of release, answers, certificates | 2 callers, 1 request, 2 daemons, 1 chunk of body, 1 response of the handler, 2 key stores |
| `child_process` | bytes, dangling pointer, execute() returns | 3 setups of streams, 5 plans of the child, pipes and buffers of 2 bytes, 0 or 3 bytes to send, 1 signal, fair |
| `child_process_waitpid` | *violated*: waitpid() and the child's full pipe | the same |
| `sqlite_statements` | owners, fields, parameters, order of destruction | 1 connection, 1 statement and 1 bulk statement, 2 result sets, 2 statements of SQLite |

**Bounds and why they are enough.**

* Tasks: two threads and three tasks let one task be queued while both threads are busy; a third
  identity lets a thread start while an old one is between its decrement and its notification; two
  clients let two cancels meet.
* Pools: a limit of 2 with 3 clients has a lent object, a second one, and somebody who waits. One
  failure is enough to lose a place. `SizeModulus = 4` exceeds the number of clients, so an exact
  count is never confused with a wrapped one.
* Timer: a second runner is needed for an overlap; messages with a shared key, with a priority and
  with a movable timer make each branch of the list handling happen.
* Signals: two users make the last removal meet a new installation; two identities let a new thread
  start before the old has ended. "child" and "ill" share a table.
* Logbook: three messages of two threads, of one line, of an empty line and a second one, and of a
  line without end; a ring of one line overflows at once.
* HTTP: two callers suffice for every pair of overlapping calls; two daemons for one that is
  forgotten; a chunk of body for the calls between first and last.
* Processes: 3 bytes over buffers and pipes of 2 give a full and a short read, and a pipe that is
  full in both directions.
* Database: two result sets for a move, a parameter list with and without NULL, rows of two types and
  NULL, so that a field keeps the type of its first value through every conversion of later ones.

The bounds are the constants `Max...`, `PipeSize`, `Sources` and `SizeModulus`; everything else is
finite by nature. Symmetry is used in runs of invariants, and in `task_factory` with `LifecycleSpec`,
whose specification has no fairness; never with liveness, and only over sets whose members no
definition names. `CHECK_DEADLOCK FALSE` stands where the program really stops: the deadlocks of
`cancel()`, an overlap of two runners, a signal frame that locks what its thread holds, a fault,
messages and plans that are used up, a child and a parent that wait for each other.

**Fairness and why the code justifies it.**

* Task system: strong fairness of every step of a thread, that is, a thread that can run does, and
  one that finds a mutex free again and again obtains it. A wait with a time limit ends only where
  that is the hypothesis (`TimeoutsElapse`, in `DestructorReturns`): the setting `thread-timeout-ms`
  may be very long. Nothing is assumed of clients, of the owner and of spurious wakeups.
* Object pool: weak fairness of threads; strong fairness of `GetTimeout`, for the limit is a point in
  time that a wakeup in vain does not put off; lifetimes elapse; borrowers give back, which is what
  the destructor's comment presumes ("all circling objects outside this pool are released").
* Timer: strong fairness of steps that need `newMessageMutex`, weak fairness of the timed wait. The
  handler returns. Nothing makes a client add a message, run or stop.
* Child process: weak fairness of the parent's thread and of the child; both are scheduled by the
  operating system and neither takes a mutex. Signals, exceptions and interruptions may never come.
* Session pool, signals, logbook, HTTP, database: invariants only. For signals and the session pool
  liveness does not hold in the code, as said below; the logbook never waits; of the socket, who waits
  for whom is the invariant `WaiterWillBeNotified`.

**What the runs show that is wrong in the code.** The two runs that are violated:

* `object_pool_getters`, `ObjectPool.h:178`: getters that the handler has woken for the destruction
  look at members of a pool that may be gone. Another case of it: a handler whose first round comes
  after the destructor's flag, with nothing lent, ends without notifying anybody.
* `child_process_waitpid`, `Process.cpp:392` of zsystem: after a round that transferred nothing
  (a Reader or Writer that has nothing for the moment, a stream that only reports a hang-up) the parent
  waits for a child that waits for its output to be read.

**What the models contain that differs from what one would expect.** Each of these is a step of a
model; the passing properties are stated so that they hold with it, and say where they do not:

* *Task system.* `OnlyCancelDeadlocks`: on a queued task `cancel()` locks `taskFactoryMutex` twice
  (`TaskBinding.cpp:17`, `:68`), and it takes `taskFactoryMutex` before `queueMutex` while the
  destructor does the reverse. There are no other deadlocks. The shutdown run has no cancel
  (`CancelTargets = {}`). `MissedOnlyInTransit`: between pop and insertion a task is in no container.
  `EveryTaskEnds` excepts `Live = {}`: a thread that has looked at the queue for the last time is
  still counted when `createTask` decides that it needs no new one. `NoWorkAfterDestroy`: the
  notification of `threadsFinishedCV` comes after the decrement, maybe after the factory is gone
  (`TaskThread.cpp:100`).
* *Object pool.* A `createObject` that throws or returns nullptr takes a place for ever
  (`ObjectPool.h:217`, `:222`, against the comment at 132-134), and with a lifetime the destructor
  waits for it for ever: `DestructorReturns` presumes that none failed. `WatchedObjectLeavesPool`
  starts with the handler's first round. `ObjectPool.h:101` speaks of a timeout 0 as no wait, `:203`
  waits without limit.
* *Session pool.* With a lifetime the handler destroys objects that are lent (`SessionPool.h:310`);
  their release neither lowers the counter nor notifies (`:338`), so that places are lost, getters
  wait for ever and the destructor hangs, against the comment at 179-180. `UseIsCounted` is
  for pools without lifetime; `LimitKept` and `NobodyForgotten` say what still holds: the counter
  errs on the side of the limit, and nobody blocks whom the counter would let through.
  `resetLifetimeOnGet` (`:92`) is commented out (`:247-269`).
* *Timer.* `stop()` followed by `run()` gives two runners (`MessageTimer.h:109-110`), which then
  share `runThreadId`: the properties end with the first overlap (`overlaps = 0`). A handler that
  throws leaves `running` true (`:208`).
* *Signals.* The wait for the start of the thread has no predicate, and the thread notifies without
  `newMessageCVMutex` (`ThreadManager.cpp:49`, `:108`): the notification may come first, and
  `notify_one` may wake somebody else. `instance` is reset without `instanceMutex` (`:145`) while an
  installation may be past its test. `signalHandler()` locks `instanceMutex` and `messagesMutex` in
  the frame of a signal (`:99`). A `std::thread` that fails leaves an instance without a thread.
  Therefore nothing is stated about what must eventually happen. `CaughtIfRegistered` ends with the
  first failed `sigaction()`, which leaves an empty entry.
* *Logbook.* `QueueHasFlusher` excepts one race: a `try_lock` that fails between the owner's flush and
  its unlock (`Logbook.cpp:249`, `:250`) leaves the text until the next message. `OrderKept` excepts a
  later message that is written directly while an earlier one is queued. `RightLocation` excepts
  messages during which setLevel() replaced `currentLocation` without `loggerMutex` (`:167`), the
  thread logged something else, or a queue was flushed.
* *HTTP.* Two threads in release() stop one daemon twice (`Socket.cpp:266`); a second overlapping
  listen() overwrites `daemonPtr`, with null when the port is taken (`:232`, `:245`); a release()
  between the start of the daemon and the assignment of the handler (`:261`) calls the previous
  handler. `WaiterWillBeNotified`, `RequestsOutlived` and `ReleasedHandlerCalled` except these. A waiter
  may return, and destroy the socket, before release() has used its last member (`:278-281`); a
  release() in a thread of MHD would join itself; both are outside what the model lets callers do.
* *Processes and adapters.* The position in the buffers is counted from their end (`Input.cpp:174`,
  `Output.cpp:86`), so that a byte of a short read may become another: `BytesKept` names those bytes.
  After an exception of a Reader or Writer `processPtr` dangles (`DanglingOnlyAfterThrow`). The process
  id stays published between `waitpid` and line 195 of zsystem's `Process.cpp`. A bidirectional stream
  at its end makes the parent poll without end, a stalled Reader leads to the deadlock above:
  `ExecuteReturns` is for readers that do not stall and children that close nothing early.
* *Database.* NULL is bound to the parameter before its own (`StatementHandle.cpp:236`), and a statement
  that an error stopped refuses to be bound: `RunsWithGiven` is about parameters that are not NULL. A
  rejected change of a field has changed it before it throws, and `fetching` stays TRUE when fetch()
  throws (`ResultSet.cpp:171`): `FieldsShowRow` excepts that. A failed open keeps the pointer to
  the closed handle (`ConnectionFactory.cpp:114`): `DatabaseOutlivesStatements` excepts that.

## 4. Proofs

Every theorem holds for every number of threads and of whatever its module counts (tasks, objects,
keys, messages, signals, requests, statements) and for every setting. The assumptions are the named
`ASSUME`s of the modules: sets of threads are finite, threads of different roles are different
threads, "nobody" is no thread, task or object, `MaxThreads` is positive, `SizeModulus` exceeds 1,
bounds are natural numbers, "child" is among the signals only together with "ill", rows and edits are
NULL or values of the modelled types, a buffer is not larger than a pipe, plans of a child consist
of its three operations, host names (not empty) and patterns are sequences of labels, and every message
has a level and a text of characters.

Every proof module follows one pattern: an inductive invariant that is a conjunction of named parts,
lemmas for the steps that can disturb a part, and the properties as consequences.

**Task system** (`TaskFactory_proofs`). None of the properties is inductive: that a task is in one
place depends on who holds `queueMutex`, and that the counter never falls below zero depends on which
threads still count. `IInv` is the conjunction of
`TypeOK`, `MutexInv` (who holds which mutex follows from where the actors are), `BusyInv`
(the task at hand is a task), `ClosingInv` (what the destructor has achieved so far), `AttachedInv`
(a binding that points to the factory has somebody who will clear the pointer), `CountInv`,
`PlaceInv` (queued once or in one pair of hands) and `StatusInv` (which status goes with which
place). Each is preserved action by action. From it:
`TypeCorrect`, `FactoryNotDangling`, `CountCorrect`, `TaskInOnePlace`, `ContextExclusive`,
and `RefinesLifecycle`: every step is a step of `TaskLifecycle` or a stutter. That a task starts only
below `MaxThreads` there needs the count of live threads: running tasks map one to one into them.

**Object pool** (`ObjectPool_proofs`). `IInv` adds to the properties that a client inside `get()`
holds nothing, that the list is finite, and that the handler ends, and with it the destructor, only
when everything is back. `GetCases` reduces the three actions of `get()` to *enters*, *leaves* and
*stays*; two lemmas (`WakeUsed`, `WakeAdded`) carry the arithmetic of `NoLostWakeup`. From it:
`TypeCorrect`, `CounterExact`, `LimitKept`, `WakeupsSuffice`, `ExclusiveLending`, `DestructorLast`,
`GettersWoken`, and `RefinesLending`.

**Clients of the task system** (the second part of `TaskFactory_proofs`). What a client has
seen stays true while it holds `queueMutex`, and a task that a cancel() sought there in vain never
comes back (`LookInv`); so a task that getTasks() or cancel() misses is in transit:
`OnlyTransitIsMissed`. `NothingLeft` joins what the destructor has achieved (`ClosingInv`) with the
places of tasks. `NoOtherDeadlock`: in a circle of waiting actors each leads to a cancel() that is
searching (`Waiters`), and this one waits for the destructor, which waits for a cancel().

**Session pool** (`SessionPool_proofs`). The limit and the notifications are inductive together
(`IInv`): the same three cases of `get()` as in the object pool, and `WakeUsed`, `WakeAdded` for a
place that is taken or becomes free. From it `LimitOnLendings` and `NotificationsSuffice`. That counts
are exact (`UsersCounted`) is a second invariant, `UseInv`, for pools without a lifetime; counts per
key wrap at `SizeModulus`, so it needs a few lemmas on remainders.
`RefinesLending`: a step that lends, gives back, cleans up or closes is that step of `SessionLending`,
all others stutter. `LendInv` says what this needs beyond `IInv`: a usable pointer is to an object
that is stored, and the handler ends, and with it the destructor of a pool with a lifetime, only when the
counter is 0, so that nobody holds anything (`HoldingCounts`). That the limit holds in the abstract
step comes from the counter of the concrete one, which is never below the number of lendings.

**Message timer** (`MessageTimer_proofs`). `MutexInv`, who holds `newMessageMutex`, needs nothing else
and holds with overlapping runs too. `AloneInv` says what the first overlap ends: one runner is in
run(), `runThreadId` names it, and what it saw before it waits is still so. From it `NothingMissed` and
`NoDoubleLock`. `RefinesTimed` does not presume that runs do not overlap: since a runner keeps
`newMessageMutex` in its handler, a second runner that hands over a message cannot coexist with it
(`OneHandles`), whatever `runThreadId` says.

**Signal manager** (`SignalManager_proofs`). A frame may lie over any step of any thread, but all it
does to threads is a notification, which moves one blocked thread to the place behind its wait
(`Moves`, `Awakes`). `ServingInv`: a detached thread is started only where there is no instance,
and the one that serves an instance leaves with it. `RegistryInv`: who is being called, or will be in
this round, is in the registry, and `registryMutex` keeps it there. `CaughtInv` adds that a key has
handlers. From them `CalledWhileOwned`, `OneServer`, `CaughtExactly`.

**HTTP server socket** (`HttpServerSocket_proofs`). Callers do not touch requests, and requests do not
touch the socket, so `SocketInv` and `RequestInv` are preserved by one half of the steps each. The
first says that the thread which destroys the socket is alone with it and, as long as no calls overlap,
that a daemon which runs is the one the socket knows (`KnownInv`) and whose handler goes with it
(`HandlerInv`); the second follows the queue of a request. `ServedInv` joins them: a request that is
not over belongs to a daemon that runs. From them `NoLostNotification`, `SocketOutlivesRequests`,
`RightHandlerCalled`, `RequestsAnswered`. `CertificateIsBest` is about the loop of `mhdSniCallback`
alone, for every name and every key store: what the loop has found after `i` entries is the
best of the first `i` (`Found`), by the least `i` for which it would not be; a name that fits
exactly ends it. Thus `BestCertificateGiven`.

**Child processes** (`ChildProcess_proofs`). `OutInv` and `InInv` say where every byte is: source,
adapter, pipe and receiver hold adjoining stretches of the stream, and a byte that is not itself came
with a short read. They need `PipeInv`: the results of one `poll()` name different streams in
ascending order, and what it said of the room in a pipe is still so when the parent writes, since
nobody else does. Hence `StreamsKeepTheirBytes`, and `NoWriteBlocks`, which no run checks: the parent
is never stuck in a write, so that its only waits are `poll()` and `waitpid()`. `HandleInv` ties
`processPtr`, the process id and the child to the place in `execute()`: `NoDanglingProcess`.
That all a child wrote has arrived when it has been waited for, the last part of `BytesKept`, needs
`EndInv`: a stream the parent reads stays in the list of `poll()`, a child that runs has all its
streams open, and so a round in which nothing was processed is one in which `poll()` saw only
hang-ups and empty pipes (`DrainInv`, `PollFindsEnd`); a consumer that is served empties its buffer
(`ConsumeTakesAll`).

**Logbook** (first part of `LogbookAndStatements_proofs`). A thread's stack of writers has two
parts: the first `k` are no owners, the others lock `loggerMutex`, so `locks` is the length of the
rest (`LockInv`, `Holds`). From it follows who may touch the common stream (`StreamInv`), the queue
(`QueueInv`) and the location (`LocationInv`). Where characters are is not stated on sequences
but on two sets, `Away` (all that have left their writers) and `AwayOrder` (pairs of them,
one before the other): moving text from the stream or the queue to the appenders changes neither.
`KeptInv` says which characters of a message are away; that a message is in order makes them unique,
for a character in two places would come before itself. `AfterInv` relates the messages of a
thread. `LogbookInvariant` is their conjunction; from it `EverythingDelivered`,
`LocationsAreRight`, `SomebodyFlushes`.

What the appenders show (`WholeLines`) is about texts of every length in a ring of every size. `LinesInv`
compares both with `LinesOf`, the lines a reader expects: the rows of the ring from consumer to
producer are the last of them (`RingShows`), and the stream holds all complete ones, each between its
header and its line end, and what has begun (`StreamShows`). The writing of a text is a recursive
function over its characters, and so is `LinesOf`. `Recursion` and `SameRecursion` say once that such a
function exists and is unique, `UpTo` is the induction; they are proved from the least
element of a set of numbers (`LeastNumber`), as the library's theorems on induction take an operator.
With these, each step of the one recursion is matched with one of the other.

**Database** (second part of `LogbookAndStatements_proofs`). Four invariants, each inductive with the
types: `OwnerInv` (a statement exists exactly if one handle leads to it), `DatabaseInv` (the factory opens once, and only a
failed open leaves it a closed handle), `BoundInv`, `FieldInv`. From them `OwnersUnique`,
`DatabaseLives`, `ParametersArrive`, `FieldsCorrect`.

**Only model-checked.** Liveness: `DestructorReturns` of both modules, `EveryTaskEnds`,
`TimedGetReturns`, `WatchedObjectLeavesPool`, `DueLeaves`, `StopEndsRun` and `ExecuteReturns`, which need
fairness and ENABLED and are out of the provers' reach. Of some the safety half is a
theorem: `WakeupsSuffice` and `NothingMissed` say that a notification is always under way,
`NoOtherDeadlock` that only a cancel() closes a circle, `StreamsKeepTheirBytes` that
`execute()`, if it returns, has delivered everything. Every invariant of a passing run has a theorem.

**Proved, and in no run.** `RefinesLending` of the session pool and `RefinesTimed` state
`LendingSpec` of `SessionPool` and `TimedSpec` of `MessageTimer`, which the runs of these modules do
not list: adding `PROPERTY LendingSpec` to `SessionPool.cfg` or `PROPERTY
TimedSpec` to `MessageTimer.cfg` checks them on the same instances. The same is true of invariants that
are theorems for their own sake: `CounterExact`, `LimitKept`, `ExclusiveLending`, `DestructorLast` and
`GettersWoken` of the object pool, `MutexHolder` of the timer, `NoWriteBlocks` of the child process.

## 5. What is not modelled

* Task system: contents of contexts and of `exceptionPtr`, a descriptor without procedure, the
  priority (no code reads it), a status listener that throws on cancel inside the destructor (which
  ends the program), parsing of settings.
  The wait predicate of a worker reads `queue.empty()` without `queueMutex` (`TaskThread.cpp:82`): a
  race on one pointer, which the model takes to give the value before or after the other thread's step.
* Pools: the order of the list (`fifo`, `lifo`: any object may be taken), lengths of lifetimes, calls
  into a destroyed pool (they have no meaning; which calls can still come is a property), in the
  session pool a `createObject` that returns nullptr. Objects left in the list when its destructor
  runs lower `objectsCirculating` below zero, which nothing reads any more.
* Timer: times themselves (ties may go either way), timers of 0 for movable messages, messages without
  a key (a key nobody else has). `runThreadId` is read without a lock; a read finds a value written.
* Signals: what the functions do; a handler that is installed for several types by one object.
* Logbook: adding and removing appenders, the destructor (which does not flush the queue), the level
  of a type name (one level for all), a setLevel() between the two statements `:222` and `:223`,
  layouts (a header stands for them), the end of a stream buffer (every character may be the last).
* HTTP: parsing of a request, the content a response is read from (`contentReaderCallback`,
  `sendFile`), `sendQueue()` in the middle of a body with versions of MHD that refuse it.
* Processes: streams that are files, what the child does before its program starts, times. Assumed:
  the program ignores SIGPIPE, and a pipe that `poll()` reports as writable has room for
  `MaxBufferSize`. The adapters are those compiled without `ESL_1_6`. Of the other readers and
  writers (strings, memory, files, static data) each keeps one position; two of them are wrong and
  plain from the text: `output/File.cpp` never advances its position, `ProducerStatic.cpp:36` sends
  again what was taken by a partial write.
* Database: SQLite's own work; several threads that share a factory, whose first `createConnection`
  opens a shared handle with `SQLITE_OPEN_NOMUTEX` without a lock; copies of fields and their getters
  (`Field::toBoolean` of a string writes to an empty one).
* The components marked `not_modelled` in `PROJECT.json`, each with its reason there. The greater part
  of the repository's lines belongs to them: declarations, forwarding classes, parsers of settings,
  tables of character sets, and vendored code. They have no state worth a model checker.

## 6. Plan

1. A channel as abstract specification of `ChildProcess` (order and completeness of a stream as one
   promise), and action properties as theorems: what no step may do to a registered handler, or to a
   statement that somebody owns.
2. `ProcessingContext`: a sequential object with failures; `isInitialized` is set before anything can
   throw (`ProcessingContext.cpp:282`).
3. The HTTP client with an explicit assumption about the order of libcurl's callbacks.
4. Several threads that share one SQLite factory.
