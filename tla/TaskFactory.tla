---------------------------- MODULE TaskFactory ----------------------------
(***************************************************************************)
(* common4esl::system::TaskFactory with its TaskBindings and TaskThreads.  *)
(*                                                                         *)
(* Actors: client threads (createTask, getTasks, Task::cancel), worker     *)
(* threads (TaskThread) and the owner, which destroys the factory.         *)
(*                                                                         *)
(* A critical section is one step unless the code does something           *)
(* observable inside it; the mutexes held across steps are variables:      *)
(*   queueMutex          by getTasks, cancel and the destructor            *)
(*   threadsMutex        by a worker between wait predicate and blocking   *)
(*   taskFactoryMutex[t] by cancel on task t                               *)
(* A mutex that is never held across a step appears only as a guard that   *)
(* it is free.  std::mutex is not recursive: its owner locking it again    *)
(* blocks for ever (glibc), which is what cancel does at "relock".         *)
(***************************************************************************)
EXTENDS Naturals, Sequences, FiniteSets

CONSTANTS
    Tasks,          \* tasks the clients may create
    Workers,        \* thread identities; a thread that ended frees its own
    Clients,        \* threads that call the API
    Owner,          \* the thread that destroys the factory
    NoOne,          \* nobody holds the mutex / no task in hand
    MaxThreads,     \* setting "max-threads"
    CancelTargets,  \* tasks on which clients call cancel()
    MaxSpawnFailures \* how often starting a std::thread may throw

ASSUME MaxThreadsAssumption == MaxThreads \in Nat \ {0}
ASSUME WorkersAssumption    == IsFiniteSet(Workers)
ASSUME ActorsAssumption     ==
    /\ Owner \notin Clients
    /\ NoOne \notin Clients \union Workers \union Tasks \union {Owner}
ASSUME ThreadsAssumption    == Workers \intersect (Clients \union {Owner}) = {}
ASSUME BoundsAssumption     ==
    /\ CancelTargets \subseteq Tasks
    /\ MaxSpawnFailures \in Nat

VARIABLES
    queue,             \* TaskFactory::queue, front first
    queueMutex,        \* holder
    threadsMax,        \* TaskFactory::threadsMax, 0 once destruction began
    threadsAvailable,  \* TaskFactory::threadsAvailable
    threadsProcessing, \* keys of TaskFactory::threadsProcessing
    threadsMutex,      \* holder
    attached,          \* tasks whose TaskBinding::taskFactory is not nullptr
    taskFactoryMutex,  \* [Tasks -> holder]
    status,            \* [Tasks -> TaskBinding::status]
    wpc,               \* [Workers -> where the thread is]
    hand,              \* [Workers -> the binding it works on]
    cpc,               \* [Clients -> where the call is]
    target,            \* [Clients -> the task its cancel() is about]
    signalled,         \* tasks whose procedureCancel() has been called
    listing,           \* [Clients -> tasks getTasks() has collected so far]
    owner,             \* where the destructor is
    cursor,            \* destructor: queue entry whose status is being set
    spawnFailures      \* threads counted in threadsAvailable that never ran

queueVars   == <<queue, queueMutex>>
threadVars  == <<threadsMax, threadsAvailable, threadsProcessing,
                 threadsMutex, spawnFailures>>
taskVars    == <<attached, taskFactoryMutex, status, signalled>>
workerVars  == <<wpc, hand>>
clientVars  == <<cpc, target, listing>>
ownerVars   == <<owner, cursor>>
vars == <<queueVars, threadVars, taskVars, workerVars, clientVars, ownerVars>>

Status == {"none", "waiting", "canceled", "running", "exception", "done"}

WorkerPCs == {"none", "loop", "peek", "fetch", "insert", "run", "procedure",
              "catch", "detach", "erase", "wait", "sleep", "blocked",
              "woken", "timeout", "exit", "notify"}
ClientPCs == {"idle", "spawn", "notify", "list", "cancel", "search",
              "relock", "signal"}
OwnerPCs  == {"alive", "exchange", "detach", "clear", "notifyAll", "join",
              "blocked", "woken", "destroyed"}

Entries(q) == {q[i] : i \in DOMAIN q}

\* Threads counted in threadsAvailable: created and not yet past the decrement.
Live == {w \in Workers : wpc[w] \notin {"none", "notify"}}

Init ==
    /\ queue = <<>>
    /\ queueMutex = NoOne
    /\ threadsMax = MaxThreads
    /\ threadsAvailable = 0
    /\ threadsProcessing = {}
    /\ threadsMutex = NoOne
    /\ spawnFailures = 0
    /\ attached = {}
    /\ taskFactoryMutex = [t \in Tasks |-> NoOne]
    /\ status = [t \in Tasks |-> "none"]
    /\ signalled = {}
    /\ wpc = [w \in Workers |-> "none"]
    /\ hand = [w \in Workers |-> NoOne]
    /\ cpc = [c \in Clients |-> "idle"]
    /\ target = [c \in Clients |-> NoOne]
    /\ listing = [c \in Clients |-> {}]
    /\ owner = "alive"
    /\ cursor = 1

-----------------------------------------------------------------------------
(* Condition variables.  notify_one wakes any one blocked thread, if there *)
(* is one; notify_all wakes them all.                                      *)

BlockedWorkers == {w \in Workers : wpc[w] = "blocked"}

NotifyOneWorker ==
    IF BlockedWorkers = {}
    THEN UNCHANGED wpc
    ELSE \E w \in BlockedWorkers : wpc' = [wpc EXCEPT ![w] = "woken"]

NotifyAllWorkers ==
    wpc' = [w \in Workers |-> IF wpc[w] = "blocked" THEN "woken" ELSE wpc[w]]

-----------------------------------------------------------------------------
(* Clients.  createTask and getTasks need a living factory (the caller's   *)
(* obligation for any C++ object); cancel() goes through the Task and may  *)
(* come at any time.                                                       *)

\* createTask: new binding at the back of the queue, under queueMutex.
CreateEnqueue(c, t) ==
    /\ cpc[c] = "idle" /\ owner = "alive"
    /\ status[t] = "none"
    /\ queueMutex = NoOne
    /\ queue' = Append(queue, t)
    /\ status' = [status EXCEPT ![t] = "waiting"]
    /\ attached' = attached \union {t}
    /\ cpc' = [cpc EXCEPT ![c] = "spawn"]
    /\ UNCHANGED <<queueMutex, threadVars, taskFactoryMutex, signalled, workerVars,
                   target, listing, ownerVars>>

\* createTask under threadsMutex: start a thread unless the limit is reached.
CreateSpawn(c) ==
    /\ cpc[c] = "spawn"
    /\ threadsMutex = NoOne
    /\ \/ /\ threadsAvailable < threadsMax
          /\ threadsAvailable' = threadsAvailable + 1
          /\ \E w \in Workers : /\ wpc[w] = "none"
                                /\ wpc' = [wpc EXCEPT ![w] = "loop"]
       \/ /\ threadsAvailable >= threadsMax
          /\ UNCHANGED <<threadsAvailable, wpc>>
    /\ cpc' = [cpc EXCEPT ![c] = "notify"]
    /\ UNCHANGED <<queueVars, threadsMax, threadsProcessing, threadsMutex,
                   spawnFailures, taskVars, hand, target, listing, ownerVars>>

\* TaskThread::create: std::thread's constructor throws after the increment;
\* createTask is left by the exception, without the notification.
CreateSpawnFails(c) ==
    /\ cpc[c] = "spawn"
    /\ threadsMutex = NoOne
    /\ spawnFailures < MaxSpawnFailures
    /\ threadsAvailable < threadsMax
    /\ threadsAvailable' = threadsAvailable + 1
    /\ spawnFailures' = spawnFailures + 1
    /\ cpc' = [cpc EXCEPT ![c] = "idle"]
    /\ UNCHANGED <<queueVars, threadsMax, threadsProcessing, threadsMutex,
                   taskVars, workerVars, target, listing, ownerVars>>

\* Mutant: createTask forgets threadsCV.notify_one().
CreateSilent(c) ==
    /\ cpc[c] = "notify"
    /\ cpc' = [cpc EXCEPT ![c] = "idle"]
    /\ UNCHANGED <<queueVars, threadVars, taskVars, workerVars, target, listing, ownerVars>>

CreateNotify(c) ==
    /\ cpc[c] = "notify"
    /\ NotifyOneWorker
    /\ cpc' = [cpc EXCEPT ![c] = "idle"]
    /\ UNCHANGED <<queueVars, threadVars, taskVars, hand, target, listing, ownerVars>>

\* getTasks: the queue first; queueMutex stays locked until the return.
ListQueued(c) ==
    /\ cpc[c] = "idle" /\ owner = "alive"
    /\ queueMutex = NoOne
    /\ queueMutex' = c
    /\ listing' = [listing EXCEPT ![c] = Entries(queue)]
    /\ cpc' = [cpc EXCEPT ![c] = "list"]
    /\ UNCHANGED <<queue, threadVars, taskVars, workerVars, target, ownerVars>>

\* getTasks: then threadsProcessing, and both lists are returned as one.
ListProcessing(c) ==
    /\ cpc[c] = "list"
    /\ threadsMutex = NoOne
    /\ listing' = [listing EXCEPT ![c] = {}]
    /\ queueMutex' = NoOne
    /\ cpc' = [cpc EXCEPT ![c] = "idle"]
    /\ UNCHANGED <<queue, threadVars, taskVars, workerVars, target, ownerVars>>

CancelCall(c, t) ==
    /\ cpc[c] = "idle"
    /\ t \in CancelTargets /\ status[t] # "none"
    /\ target' = [target EXCEPT ![c] = t]
    /\ cpc' = [cpc EXCEPT ![c] = "cancel"]
    /\ UNCHANGED <<queueVars, threadVars, taskVars, workerVars, listing, ownerVars>>

\* cancel: lock taskFactoryMutex; nothing to do for a detached binding.
CancelEnter(c) ==
    LET t == target[c] IN
    /\ cpc[c] = "cancel"
    /\ taskFactoryMutex[t] = NoOne
    /\ \/ /\ t \notin attached
          /\ cpc' = [cpc EXCEPT ![c] = "idle"]
          /\ UNCHANGED taskFactoryMutex
       \/ /\ t \in attached
          /\ taskFactoryMutex' = [taskFactoryMutex EXCEPT ![t] = c]
          /\ cpc' = [cpc EXCEPT ![c] = "search"]
    /\ UNCHANGED <<queueVars, threadVars, attached, status, signalled, workerVars,
                   target, listing, ownerVars>>

\* cancel: the task is still queued.  It is taken out and marked canceled;
\* setStatus then locks taskFactoryMutex, which this thread already holds.
CancelQueued(c) ==
    LET t == target[c] IN
    /\ cpc[c] = "search"
    /\ queueMutex = NoOne
    /\ queueMutex' = c
    /\ \E i \in 1..Len(queue) :
          /\ queue[i] = t
          /\ queue' = SubSeq(queue, 1, i - 1) \o SubSeq(queue, i + 1, Len(queue))
    /\ status' = [status EXCEPT ![t] = "canceled"]
    /\ cpc' = [cpc EXCEPT ![c] = "relock"]
    /\ UNCHANGED <<threadVars, attached, taskFactoryMutex, signalled, workerVars,
                   target, listing, ownerVars>>

CancelNotQueued(c) ==
    /\ cpc[c] = "search"
    /\ queueMutex = NoOne
    /\ target[c] \notin Entries(queue)
    /\ cpc' = [cpc EXCEPT ![c] = "signal"]
    /\ UNCHANGED <<queueVars, threadVars, taskVars, workerVars, target, listing, ownerVars>>

\* cancel, under threadsMutex: procedureCancel() is called only when the task
\* is found in threadsProcessing.  Both mutexes are released on return.
CancelSignal(c) ==
    LET t == target[c] IN
    /\ cpc[c] = "signal"
    /\ threadsMutex = NoOne
    /\ signalled' = signalled \union ({t} \intersect threadsProcessing)
    /\ taskFactoryMutex' = [taskFactoryMutex EXCEPT ![t] = NoOne]
    /\ cpc' = [cpc EXCEPT ![c] = "idle"]
    /\ UNCHANGED <<queueVars, threadVars, attached, status, workerVars,
                   target, listing, ownerVars>>

-----------------------------------------------------------------------------
(* Workers: the constructor of TaskThread is the thread's main loop.       *)

WorkerOnly(w, to) ==
    /\ wpc' = [wpc EXCEPT ![w] = to]
    /\ UNCHANGED <<queueVars, threadVars, taskVars, hand, clientVars, ownerVars>>

LoopTest(w) ==
    /\ wpc[w] = "loop"
    /\ WorkerOnly(w, IF threadsMax = 0 THEN "exit" ELSE "peek")

\* The look at the queue and the look before popping are two critical
\* sections: another worker may empty the queue between them.
Peek(w) ==
    /\ wpc[w] = "peek"
    /\ \/ threadsMax = 0 /\ WorkerOnly(w, "wait")
       \/ /\ threadsMax # 0
          /\ queueMutex = NoOne
          /\ WorkerOnly(w, IF queue = <<>> THEN "wait" ELSE "fetch")

FetchNothing(w) ==
    /\ wpc[w] = "fetch"
    /\ queueMutex = NoOne
    /\ queue = <<>>
    /\ WorkerOnly(w, "wait")

Fetch(w) ==
    /\ wpc[w] = "fetch"
    /\ queueMutex = NoOne
    /\ queue # <<>>
    /\ hand' = [hand EXCEPT ![w] = Head(queue)]
    /\ queue' = Tail(queue)
    /\ wpc' = [wpc EXCEPT ![w] = "insert"]
    /\ UNCHANGED <<queueMutex, threadVars, taskVars, clientVars, ownerVars>>

InsertProcessing(w) ==
    /\ wpc[w] = "insert"
    /\ threadsMutex = NoOne
    /\ threadsProcessing' = threadsProcessing \union {hand[w]}
    /\ wpc' = [wpc EXCEPT ![w] = "run"]
    /\ UNCHANGED <<queueVars, threadsMax, threadsAvailable, threadsMutex,
                   spawnFailures, taskVars, hand, clientVars, ownerVars>>

(* TaskBinding::run.  Every setStatus calls onStateChanged, which may      *)
(* throw; run() catches that like an exception of the procedure.           *)

SetStatus(w, s, to) ==
    /\ status' = [status EXCEPT ![hand[w]] = s]
    /\ wpc' = [wpc EXCEPT ![w] = to]
    /\ UNCHANGED <<queueVars, threadVars, attached, taskFactoryMutex, signalled, hand,
                   clientVars, ownerVars>>

\* Mutant: run() starts the procedure without setStatus(running).
RunUnmarked(w) ==
    /\ wpc[w] = "run"
    /\ WorkerOnly(w, "procedure")

RunStarted(w) ==
    /\ wpc[w] = "run"
    /\ \E to \in {"procedure", "catch"} : SetStatus(w, "running", to)

ProcedureReturns(w) ==
    /\ wpc[w] = "procedure"
    /\ \E to \in {"detach", "catch"} : SetStatus(w, "done", to)

ProcedureThrows(w) ==
    /\ wpc[w] = "procedure"
    /\ WorkerOnly(w, "catch")

RunCatches(w) ==
    /\ wpc[w] = "catch"
    /\ SetStatus(w, "exception", "detach")

\* Mutant: run() clears the pointer without taskFactoryMutex.
DetachUnlocked(w) ==
    /\ wpc[w] = "detach"
    /\ attached' = attached \ {hand[w]}
    /\ wpc' = [wpc EXCEPT ![w] = "erase"]
    /\ UNCHANGED <<queueVars, threadVars, taskFactoryMutex, status, signalled, hand,
                   clientVars, ownerVars>>

\* End of run(), under taskFactoryMutex: the binding forgets the factory.
Detach(w) ==
    /\ wpc[w] = "detach"
    /\ taskFactoryMutex[hand[w]] = NoOne
    /\ attached' = attached \ {hand[w]}
    /\ wpc' = [wpc EXCEPT ![w] = "erase"]
    /\ UNCHANGED <<queueVars, threadVars, taskFactoryMutex, status, signalled, hand,
                   clientVars, ownerVars>>

EraseProcessing(w) ==
    /\ wpc[w] = "erase"
    /\ threadsMutex = NoOne
    /\ threadsProcessing' = threadsProcessing \ {hand[w]}
    /\ hand' = [hand EXCEPT ![w] = NoOne]
    /\ wpc' = [wpc EXCEPT ![w] = "peek"]
    /\ UNCHANGED <<queueVars, threadsMax, threadsAvailable, threadsMutex,
                   spawnFailures, taskVars, clientVars, ownerVars>>

(* threadsCV.wait_for with its predicate.  The predicate is evaluated with *)
(* threadsMutex held but without queueMutex; the mutex is kept until the   *)
(* thread blocks, and a thread that stops blocking has to lock it again.   *)

WaitPredicate == threadsMax = 0 \/ queue # <<>>

WaitTest(w) ==
    /\ wpc[w] \in {"wait", "woken"}
    /\ threadsMutex = NoOne
    /\ \/ WaitPredicate /\ WorkerOnly(w, "loop")
       \/ /\ ~WaitPredicate
          /\ threadsMutex' = w
          /\ wpc' = [wpc EXCEPT ![w] = "sleep"]
          /\ UNCHANGED <<queueVars, threadsMax, threadsAvailable,
                         threadsProcessing, spawnFailures, taskVars, hand,
                         clientVars, ownerVars>>

Sleep(w) ==
    /\ wpc[w] = "sleep"
    /\ threadsMutex' = NoOne
    /\ wpc' = [wpc EXCEPT ![w] = "blocked"]
    /\ UNCHANGED <<queueVars, threadsMax, threadsAvailable, threadsProcessing,
                   spawnFailures, taskVars, hand, clientVars, ownerVars>>

SpuriousWakeup(w) ==
    /\ wpc[w] = "blocked"
    /\ WorkerOnly(w, "woken")

Timeout(w) ==
    /\ wpc[w] = "blocked"
    /\ WorkerOnly(w, "timeout")

\* After the timeout the predicate has the last word.
TimeoutTest(w) ==
    /\ wpc[w] = "timeout"
    /\ threadsMutex = NoOne
    /\ WorkerOnly(w, IF WaitPredicate THEN "loop" ELSE "exit")

(* ~TaskThread: the decrement under threadsMutex, the notification after   *)
(* it has been released.                                                   *)

\* Mutant: the ending thread is still counted.
ExitCounted(w) ==
    /\ wpc[w] = "exit"
    /\ threadsMutex = NoOne
    /\ WorkerOnly(w, "notify")

Exit(w) ==
    /\ wpc[w] = "exit"
    /\ threadsMutex = NoOne
    /\ threadsAvailable' = threadsAvailable - 1
    /\ wpc' = [wpc EXCEPT ![w] = "notify"]
    /\ UNCHANGED <<queueVars, threadsMax, threadsProcessing, threadsMutex,
                   spawnFailures, taskVars, hand, clientVars, ownerVars>>

\* Mutant: no notification of threadsFinishedCV.
ExitSilent(w) ==
    /\ wpc[w] = "notify"
    /\ WorkerOnly(w, "none")

ExitNotify(w) ==
    /\ wpc[w] = "notify"
    /\ wpc' = [wpc EXCEPT ![w] = "none"]
    /\ owner' = IF owner = "blocked" THEN "woken" ELSE owner
    /\ UNCHANGED <<queueVars, threadVars, taskVars, hand, clientVars, cursor>>

-----------------------------------------------------------------------------
(* ~TaskFactory.  It starts when no client is inside createTask or         *)
(* getTasks; calls to cancel() may be under way.                           *)

OwnerOnly(to) ==
    /\ owner' = to
    /\ UNCHANGED <<queueVars, threadVars, taskVars, workerVars, clientVars, cursor>>

DestroyBegin ==
    /\ owner = "alive"
    /\ \A c \in Clients : cpc[c] \notin {"spawn", "notify", "list"}
    /\ queueMutex = NoOne
    /\ queueMutex' = Owner
    /\ threadsMax' = 0
    /\ owner' = "exchange"
    /\ UNCHANGED <<queue, threadsAvailable, threadsProcessing, threadsMutex,
                   spawnFailures, taskVars, workerVars, clientVars, cursor>>

\* Mutant: the destructor drops the queue without canceling its tasks.
DestroyNoCancel ==
    /\ owner = "exchange"
    /\ OwnerOnly("clear")

\* setStatus(canceled) of the next entry: first the status ...
DestroyExchange ==
    /\ owner = "exchange"
    /\ IF cursor > Len(queue)
       THEN OwnerOnly("clear")
       ELSE /\ status' = [status EXCEPT ![queue[cursor]] = "canceled"]
            /\ owner' = "detach"
            /\ UNCHANGED <<queueVars, threadVars, attached, taskFactoryMutex,
                           signalled, workerVars, clientVars, cursor>>

\* Mutant: the destructor clears the pointer without taskFactoryMutex.
DestroyDetachUnlocked ==
    /\ owner = "detach"
    /\ attached' = attached \ {queue[cursor]}
    /\ cursor' = cursor + 1
    /\ owner' = "exchange"
    /\ UNCHANGED <<queueVars, threadVars, taskFactoryMutex, status, signalled,
                   workerVars, clientVars>>

\* ... then the factory pointer, under the binding's taskFactoryMutex.
DestroyDetach ==
    /\ owner = "detach"
    /\ taskFactoryMutex[queue[cursor]] = NoOne
    /\ attached' = attached \ {queue[cursor]}
    /\ cursor' = cursor + 1
    /\ owner' = "exchange"
    /\ UNCHANGED <<queueVars, threadVars, taskFactoryMutex, status, signalled,
                   workerVars, clientVars>>

\* Mutant: queueMutex is kept for the rest of the destructor.
DestroyClearLocked ==
    /\ owner = "clear"
    /\ queue' = <<>>
    /\ owner' = "notifyAll"
    /\ UNCHANGED <<queueMutex, threadVars, taskVars, workerVars, clientVars, cursor>>

DestroyClear ==
    /\ owner = "clear"
    /\ queue' = <<>>
    /\ queueMutex' = NoOne
    /\ owner' = "notifyAll"
    /\ UNCHANGED <<threadVars, taskVars, workerVars, clientVars, cursor>>

\* Without threadsMutex: a worker between predicate and blocking misses it.
DestroyNotifyAll ==
    /\ owner = "notifyAll"
    /\ NotifyAllWorkers
    /\ owner' = "join"
    /\ UNCHANGED <<queueVars, threadVars, taskVars, hand, clientVars, cursor>>

\* Mutant: waits for the tasks in threadsProcessing, not for the threads.
DestroyJoinTasks ==
    /\ owner \in {"join", "woken"}
    /\ threadsMutex = NoOne
    /\ OwnerOnly(IF threadsProcessing = {} THEN "destroyed" ELSE "blocked")

\* threadsFinishedCV.wait with its predicate.
DestroyJoin ==
    /\ owner \in {"join", "woken"}
    /\ threadsMutex = NoOne
    /\ OwnerOnly(IF threadsAvailable = 0 THEN "destroyed" ELSE "blocked")

DestroySpuriousWakeup == owner = "blocked" /\ OwnerOnly("woken")

-----------------------------------------------------------------------------
ClientStep(c) ==
    \/ CreateSpawn(c) \/ CreateSpawnFails(c) \/ CreateNotify(c)
    \/ ListProcessing(c)
    \/ CancelEnter(c) \/ CancelQueued(c) \/ CancelNotQueued(c)
    \/ CancelSignal(c)

ClientCall(c) ==
    \/ \E t \in Tasks : CreateEnqueue(c, t) \/ CancelCall(c, t)
    \/ ListQueued(c)

WorkerStep(w) ==
    \/ LoopTest(w) \/ Peek(w) \/ FetchNothing(w) \/ Fetch(w)
    \/ InsertProcessing(w) \/ RunStarted(w) \/ ProcedureReturns(w)
    \/ ProcedureThrows(w) \/ RunCatches(w) \/ Detach(w) \/ EraseProcessing(w)
    \/ WaitTest(w) \/ Sleep(w) \/ TimeoutTest(w) \/ Exit(w) \/ ExitNotify(w)

DestroyStep ==
    \/ DestroyExchange \/ DestroyDetach \/ DestroyClear \/ DestroyNotifyAll
    \/ DestroyJoin

\* The program has ended: nothing is left to do.
Ended ==
    /\ owner = "destroyed"
    /\ \A c \in Clients : cpc[c] = "idle"
    /\ \A w \in Workers : wpc[w] = "none"
    /\ UNCHANGED vars

Next ==
    \/ \E c \in Clients : ClientCall(c) \/ ClientStep(c)
    \/ \E w \in Workers : WorkerStep(w) \/ SpuriousWakeup(w) \/ Timeout(w)
    \/ DestroyBegin \/ DestroyStep \/ DestroySpuriousWakeup
    \/ Ended

Spec == Init /\ [][Next]_vars

(* A thread that can go on does so, and a mutex that is free again and     *)
(* again is obtained at last.  Nothing makes a client call, the owner      *)
(* destroy, or a blocked thread wake spuriously; that a wait with a time   *)
(* limit ends is an assumption of its own, for the limit may be very long. *)
Fairness ==
    /\ \A c \in Clients : SF_vars(ClientStep(c))
    /\ \A w \in Workers : SF_vars(WorkerStep(w))
    /\ SF_vars(DestroyStep)

TimeoutsElapse == \A w \in Workers : WF_vars(Timeout(w))

FairSpec == Spec /\ Fairness

-----------------------------------------------------------------------------
TypeOK ==
    /\ queue \in Seq(Tasks)
    /\ queueMutex \in Clients \union {Owner, NoOne}
    /\ threadsMax \in {0, MaxThreads}
    /\ threadsAvailable \in Nat
    /\ threadsProcessing \subseteq Tasks
    /\ threadsMutex \in Workers \union {NoOne}
    /\ spawnFailures \in 0..MaxSpawnFailures
    /\ attached \subseteq Tasks
    /\ taskFactoryMutex \in [Tasks -> Clients \union {NoOne}]
    /\ status \in [Tasks -> Status]
    /\ signalled \subseteq Tasks
    /\ wpc \in [Workers -> WorkerPCs]
    /\ hand \in [Workers -> Tasks \union {NoOne}]
    /\ cpc \in [Clients -> ClientPCs]
    /\ target \in [Clients -> Tasks \union {NoOne}]
    /\ listing \in [Clients -> SUBSET Tasks]
    /\ owner \in OwnerPCs
    /\ cursor \in Nat \ {0}

-----------------------------------------------------------------------------
(* Safety.                                                                 *)

Holding == {"insert", "run", "procedure", "catch", "detach", "erase"}

\* A task popped but not yet in threadsProcessing is in neither container.
InTransit == {hand[w] : w \in {v \in Workers : wpc[v] = "insert"}}

\* threadsAvailable counts the live threads and those that failed to start,
\* and never exceeds the setting, although it is incremented by the creator of
\* a thread and decremented by the thread in different critical sections.
ThreadCount ==
    /\ threadsAvailable = Cardinality(Live) + spawnFailures
    /\ threadsAvailable <= MaxThreads

\* No task is lost or run twice between queue, popping thread and
\* threadsProcessing: an unfinished task is in exactly one place.
OnePlace ==
    /\ \A i, j \in DOMAIN queue : queue[i] = queue[j] => i = j
    /\ \A w \in Workers : wpc[w] \in Holding => hand[w] \notin Entries(queue)
    /\ \A v, w \in Workers :
          /\ wpc[v] \in Holding /\ wpc[w] \in Holding
          /\ hand[v] = hand[w]
          => v = w
    /\ threadsProcessing =
          {hand[w] : w \in {v \in Workers : wpc[v] \in Holding \ {"insert"}}}
    /\ \A t \in Tasks : status[t] \in {"waiting", "running"} =>
          t \in Entries(queue) \union InTransit \union threadsProcessing

\* cancel() may race the destructor: once the factory is destroyed no binding
\* points to it and no cancel() is still using it.
NoDanglingFactory ==
    owner = "destroyed" =>
        /\ attached = {}
        /\ \A c \in Clients : cpc[c] \in {"idle", "cancel"}

\* After the destructor returned, the only access a worker still makes is the
\* notification of threadsFinishedCV behind its decrement.
NoWorkAfterDestroy ==
    owner = "destroyed" =>
        /\ \A w \in Workers : wpc[w] \in {"none", "notify"}
        /\ queue = <<>> /\ threadsProcessing = {}

\* getContext() hands out the context once the status is final; by then no
\* procedure works on it any more.
ContextNotShared ==
    \A w \in Workers : wpc[w] = "procedure" => status[hand[w]] = "running"

\* Between the queue and threadsProcessing a task is in neither container.
\* Only there does cancel() of an unfinished task find it in none of them, so
\* that the call is lost, and only there does getTasks() miss it; and it never
\* returns one twice.
MissedOnlyInTransit ==
    \A c \in Clients :
        /\ cpc[c] = "signal" => target[c] \in threadsProcessing \union InTransit
        /\ cpc[c] = "list" =>
              /\ listing[c] \intersect threadsProcessing = {}
              /\ \A t \in Tasks : status[t] \in {"waiting", "running"} =>
                    t \in listing[c] \union threadsProcessing \union InTransit

\* Actor a cannot go on before actor b does something: it needs a mutex b
\* holds, or it is the destructor that joins the thread b.
WaitsFor(a, b) ==
    \/ /\ a \in Clients
       /\ \/ cpc[a] = "cancel" /\ taskFactoryMutex[target[a]] = b
          \/ cpc[a] = "search" /\ queueMutex = b
          \/ cpc[a] = "relock" /\ a = b
    \/ /\ a = Owner
       /\ \/ owner = "detach" /\ taskFactoryMutex[queue[cursor]] = b
          \/ owner \in {"join", "blocked", "woken"} /\ b \in Live
    \/ /\ a \in Workers
       /\ \/ wpc[a] \in {"peek", "fetch"} /\ queueMutex = b
          \/ wpc[a] = "detach" /\ taskFactoryMutex[hand[a]] = b

\* cancel() of a queued task locks a mutex it holds, or meets the destructor
\* that locks the same two mutexes in the opposite order.
CancelDeadlock ==
    \E c \in Clients : \/ WaitsFor(c, c)
                       \/ WaitsFor(c, Owner) /\ WaitsFor(Owner, c)

\* There is no other deadlock: whenever actors wait for each other in a
\* circle, one of these two is the reason.
OnlyCancelDeadlocks ==
    (\E S \in SUBSET (Clients \union Workers \union {Owner}) :
        /\ S # {}
        /\ \A a \in S : \E b \in S : WaitsFor(a, b))
    => CancelDeadlock

(* The refinement mapping: users see of a task its status; the factory is  *)
(* closing from the first to the last step of the destructor.              *)
Phase == IF owner = "alive" THEN "open"
         ELSE IF owner = "destroyed" THEN "gone" ELSE "closing"
Lifecycle == INSTANCE TaskLifecycle WITH phase <- Phase
LifecycleSpec == Lifecycle!Spec

-----------------------------------------------------------------------------
(* Liveness, under FairSpec.                                               *)

\* The destructor returns.  Its notify_all can be missed by a worker, which
\* then leaves only when its wait times out.
DestructorReturns ==
    TimeoutsElapse => (owner # "alive" ~> owner = "destroyed")

\* Every task gets a final status, whether waits time out or not, unless the
\* last thread is gone: createTask may rely on one that is about to leave.
EveryTaskEnds ==
    \A t \in Tasks :
        status[t] = "waiting" ~>
            status[t] \in {"canceled", "exception", "done"} \/ Live = {}
=============================================================================
