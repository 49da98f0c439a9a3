------------------------- MODULE TaskFactory_proofs -------------------------
(***************************************************************************)
(* Theorems about TaskFactory for every number of tasks, threads and       *)
(* clients and every value of the settings.                                *)
(***************************************************************************)
EXTENDS TaskFactory, FiniteSetTheorems, SequenceTheorems, TLAPS

Closing  == {"exchange", "detach", "clear"}       \* destructor, queue locked
Draining == {"notifyAll", "join", "blocked", "woken", "destroyed"}

\* Who holds which mutex follows from where the actors are.
MutexInv ==
    /\ \A c \in Clients : queueMutex = c <=> cpc[c] \in {"list", "relock"}
    /\ queueMutex = Owner <=> owner \in Closing
    /\ \A c \in Clients, t \in Tasks :
          taskFactoryMutex[t] = c <=>
              cpc[c] \in {"search", "relock", "signal"} /\ target[c] = t

\* The task an actor is busy with is a task.
BusyInv ==
    /\ \A w \in Workers : wpc[w] \in Holding => hand[w] \in Tasks
    /\ \A c \in Clients : cpc[c] \in {"cancel", "search", "relock", "signal"}
                          => target[c] \in Tasks

\* Who is still going to clear the factory pointer of t's binding.
QueuedFor(t)    == \E i \in 1..Len(queue) :
                      queue[i] = t /\ (owner \in Closing => i >= cursor)
HeldFor(t)      == \E w \in Workers :
                      hand[w] = t /\ wpc[w] \in Holding \ {"erase"}
RelockingFor(t) == \E c \in Clients : cpc[c] = "relock" /\ target[c] = t

\* A binding points to the factory only while one of them exists, and
\* cancel() works only on such a binding.
AttachedInv ==
    /\ \A c \in Clients : cpc[c] \in {"search", "relock", "signal"}
                          => target[c] \in attached
    /\ \A t \in attached : QueuedFor(t) \/ HeldFor(t) \/ RelockingFor(t)

\* What the destructor has achieved when it has got so far.
ClosingInv ==
    /\ owner = "alive" => cursor = 1
    /\ owner # "alive" => \A c \in Clients :
                             cpc[c] \in {"idle", "cancel", "search", "signal"}
    /\ owner = "detach" => cursor \in 1..Len(queue)
    /\ owner = "clear" => cursor > Len(queue)
    /\ owner \in Draining => queue = <<>>
    /\ owner = "destroyed" => threadsAvailable = 0

\* threadsAvailable counts the live threads.
CountInv ==
    /\ threadsAvailable = Cardinality(Live) + spawnFailures
    /\ threadsAvailable <= MaxThreads

\* An entry the destructor has already marked.
Marked(i) == /\ owner \in Closing
             /\ i < cursor \/ (i = cursor /\ owner = "detach")

\* A task is queued once, or in the hands of one thread, never both.
QueuedOnce == \A i, j \in 1..Len(queue) : queue[i] = queue[j] => i = j
NotInHand  == \A w \in Workers, i \in 1..Len(queue) :
                 wpc[w] \in Holding => queue[i] # hand[w]
HeldOnce   == \A v, w \in Workers :
                 wpc[v] \in Holding /\ wpc[w] \in Holding /\ hand[v] = hand[w]
                 => v = w
ProcessingSet ==
    \A t \in Tasks : t \in threadsProcessing <=>
        \E w \in Workers : hand[w] = t /\ wpc[w] \in Holding \ {"insert"}
PlaceInv == QueuedOnce /\ NotInHand /\ HeldOnce /\ ProcessingSet

\* The status tells where a task is, and the reverse.
QueueStatus ==
    \A i \in 1..Len(queue) :
        status[queue[i]] = IF Marked(i) THEN "canceled" ELSE "waiting"
HandStatus ==
    \A w \in Workers :
        /\ wpc[w] \in {"insert", "run"} => status[hand[w]] = "waiting"
        /\ wpc[w] = "procedure" => status[hand[w]] = "running"
        /\ wpc[w] = "catch" => status[hand[w]] \in {"running", "done"}
        /\ wpc[w] \in {"detach", "erase"} =>
              status[hand[w]] \in {"done", "exception"}
WaitingPlace ==
    \A t \in Tasks : status[t] = "waiting" =>
        \/ \E i \in 1..Len(queue) : queue[i] = t
        \/ \E w \in Workers : hand[w] = t /\ wpc[w] \in {"insert", "run"}
RunningPlace ==
    \A t \in Tasks : status[t] = "running" =>
        \E w \in Workers : hand[w] = t /\ wpc[w] \in {"procedure", "catch"}
StatusInv == QueueStatus /\ HandStatus /\ WaitingPlace /\ RunningPlace

BaseInv == TypeOK /\ MutexInv /\ BusyInv /\ ClosingInv
\* The inductive invariant.
IInv    == BaseInv /\ AttachedInv /\ CountInv /\ PlaceInv /\ StatusInv

-----------------------------------------------------------------------------
(* Sequences: what erasing one entry and popping the front leave.          *)

\* r is q without its entry i.
ErasedAt(q, r, i) ==
    \A j \in 1..Len(r) : /\ j < i => r[j] = q[j]
                         /\ j >= i => r[j] = q[j + 1]

\* A queue from which one binding is taken out.
LEMMA RemoveAt ==
  ASSUME NEW S, NEW q \in Seq(S), NEW i \in 1..Len(q)
  PROVE  LET r == SubSeq(q, 1, i - 1) \o SubSeq(q, i + 1, Len(q))
         IN  /\ r \in Seq(S)
             /\ Len(r) = Len(q) - 1
             /\ ErasedAt(q, r, i)
<1> DEFINE front == SubSeq(q, 1, i - 1)
           back  == SubSeq(q, i + 1, Len(q))
<1>1. Len(q) \in Nat /\ \A j \in 1..Len(q) : q[j] \in S
  OBVIOUS
<1>2. /\ front \in Seq(S) /\ Len(front) = i - 1
      /\ \A j \in 1..(i - 1) : front[j] = q[j]
  BY <1>1, SubSeqProperties
<1>3. /\ back \in Seq(S) /\ Len(back) = Len(q) - i
      /\ \A j \in 1..(Len(q) - i) : back[j] = q[i + j]
  BY <1>1, SubSeqProperties
<1> HIDE DEF front, back
<1>4. /\ front \o back \in Seq(S)
      /\ Len(front \o back) = Len(front) + Len(back)
      /\ \A j \in 1..(Len(front) + Len(back)) : (front \o back)[j] =
            IF j <= Len(front) THEN front[j] ELSE back[j - Len(front)]
  BY <1>2, <1>3, ConcatProperties
<1>5. \A j \in 1..(Len(q) - 1) :
         /\ j < i => (front \o back)[j] = q[j]
         /\ j >= i => (front \o back)[j] = q[j + 1]
  <2> SUFFICES ASSUME NEW j \in 1..(Len(q) - 1)
               PROVE  /\ j < i => (front \o back)[j] = q[j]
                      /\ j >= i => (front \o back)[j] = q[j + 1]
    OBVIOUS
  <2>1. CASE j < i
    BY <1>1, <1>2, <1>3, <1>4, <2>1
  <2>2. CASE j >= i
    <3>1. /\ j - (i - 1) \in 1..(Len(q) - i)
          /\ i + (j - (i - 1)) = j + 1
      BY <1>1, <2>2
    <3>2. (front \o back)[j] = back[j - (i - 1)]
      BY SMTT(30), <1>1, <1>2, <1>3, <1>4, <2>2
    <3> QED
      BY <1>3, <2>2, <3>1, <3>2
  <2>3. j \in Int /\ i \in Int
    BY <1>1
  <2> QED
    BY <2>1, <2>2, <2>3
<1>6. Len(front \o back) = Len(q) - 1
  BY <1>1, <1>2, <1>3, <1>4
<1> QED
  BY <1>4, <1>5, <1>6 DEF front, back, ErasedAt

(* What the three actions that move queue entries do, index by index.      *)

\* What addTask does to the queue.
LEMMA EnqueueEffect ==
  ASSUME IInv, NEW c \in Clients, NEW t \in Tasks, CreateEnqueue(c, t)
  PROVE  /\ Len(queue) \in Nat
         /\ Len(queue') = Len(queue) + 1
         /\ queue'[Len(queue) + 1] = t
         /\ \A i \in 1..Len(queue) : queue'[i] = queue[i]
         /\ status[t] = "none"
         /\ owner = "alive" /\ owner' = owner
         /\ UNCHANGED <<wpc, hand>>
<1>1. queue \in Seq(Tasks)
  BY DEF IInv, BaseInv, TypeOK
<1> QED
  BY <1>1, AppendProperties DEF CreateEnqueue, workerVars, ownerVars

\* What cancel() does to the queue.
LEMMA EraseEffect ==
  ASSUME IInv, NEW c \in Clients, CancelQueued(c)
  PROVE  /\ \E i \in 1..Len(queue) :
               /\ queue[i] = target[c]
               /\ ErasedAt(queue, queue', i)
         /\ Len(queue) \in Nat \ {0}
         /\ Len(queue') = Len(queue) - 1
         /\ queue' \in Seq(Tasks)
         /\ owner \notin Closing
         /\ cpc[c] = "search" /\ cpc' = [cpc EXCEPT ![c] = "relock"]
         /\ queueMutex = NoOne /\ queueMutex' = c
         /\ status' = [status EXCEPT ![target[c]] = "canceled"]
         /\ UNCHANGED <<threadsMax, threadsAvailable, threadsProcessing,
                        threadsMutex, spawnFailures, attached,
                        taskFactoryMutex, signalled, wpc, hand, target,
                        listing, owner, cursor>>
<1>1. queue \in Seq(Tasks) /\ Owner # NoOne
  BY ActorsAssumption DEF IInv, BaseInv, TypeOK
<1>2. owner \notin Closing
  BY <1>1 DEF CancelQueued, IInv, BaseInv, MutexInv
<1>3. PICK i \in 1..Len(queue) :
         /\ queue[i] = target[c]
         /\ queue' = SubSeq(queue, 1, i - 1) \o SubSeq(queue, i + 1, Len(queue))
  BY DEF CancelQueued
<1>4. /\ queue' \in Seq(Tasks)
      /\ Len(queue') = Len(queue) - 1
      /\ ErasedAt(queue, queue', i)
  BY <1>1, <1>3, RemoveAt
<1>5. Len(queue) \in Nat \ {0}
  BY <1>1
<1> QED
  BY <1>2, <1>3, <1>4, <1>5 DEF CancelQueued, threadVars, workerVars, ownerVars

\* What a worker does to the queue.
LEMMA FetchEffect ==
  ASSUME IInv, NEW w \in Workers, Fetch(w)
  PROVE  /\ Len(queue) \in Nat \ {0}
         /\ Len(queue') = Len(queue) - 1
         /\ \A j \in 1..Len(queue') : queue'[j] = queue[j + 1]
         /\ wpc[w] = "fetch" /\ wpc' = [wpc EXCEPT ![w] = "insert"]
         /\ hand' = [hand EXCEPT ![w] = queue[1]]
         /\ wpc \in [Workers -> WorkerPCs]
         /\ hand \in [Workers -> Tasks \union {NoOne}]
         /\ owner \notin Closing
         /\ UNCHANGED <<attached, status, cpc, target, owner, cursor>>
<1>1. queue \in Seq(Tasks) /\ queue # <<>> /\ Owner # NoOne
  BY ActorsAssumption DEF IInv, BaseInv, TypeOK, Fetch
<1>2. owner \notin Closing
  BY <1>1 DEF Fetch, IInv, BaseInv, MutexInv
<1>3. Head(queue) = queue[1] /\ Len(queue) \in Nat \ {0}
  BY <1>1
<1>4. /\ Len(queue') = Len(queue) - 1
      /\ \A j \in 1..Len(queue') : queue'[j] = queue[j + 1]
  BY <1>1, HeadTailProperties DEF Fetch
<1>5. wpc \in [Workers -> WorkerPCs] /\ hand \in [Workers -> Tasks \union {NoOne}]
  BY DEF IInv, BaseInv, TypeOK
<1> QED
  BY <1>2, <1>3, <1>4, <1>5 DEF Fetch, taskVars, clientVars, ownerVars

-----------------------------------------------------------------------------
(* The count.                                                              *)

\* The threads that are alive can be counted.
LEMMA LiveFinite == IsFiniteSet(Live) /\ Cardinality(Live) \in Nat
<1>1. Live \in SUBSET Workers
  BY DEF Live
<1> QED
  BY <1>1, WorkersAssumption, FS_Subset, FS_CardinalityType

\* Somebody is alive, so the count is positive.
LEMMA LivePositive ==
  ASSUME IInv, NEW w \in Live PROVE threadsAvailable > 0
<1>1. Cardinality(Live) # 0
  BY LiveFinite, FS_EmptySet
<1> QED
  BY <1>1, LiveFinite, BoundsAssumption DEF IInv, CountInv, BaseInv, TypeOK

-----------------------------------------------------------------------------
(* One lemma per part of the invariant, one step per action.               *)

\* Every step keeps BaseInv.
LEMMA BaseStep == ASSUME IInv, Next PROVE BaseInv'
<1> USE ActorsAssumption, BoundsAssumption, MaxThreadsAssumption DEF IInv,
        BaseInv, TypeOK, MutexInv, BusyInv, ClosingInv, Closing, Holding,
        queueVars, threadVars, taskVars, workerVars, clientVars, ownerVars,
        Draining, Status, WorkerPCs, ClientPCs, OwnerPCs
<1>1. ASSUME NEW c \in Clients, NEW t \in Tasks, CreateEnqueue(c, t) PROVE BaseInv'
  BY <1>1 DEF CreateEnqueue, Entries
<1>2. ASSUME NEW c \in Clients, NEW t \in Tasks, CancelCall(c, t) PROVE BaseInv'
  BY <1>2 DEF CancelCall
<1>3. ASSUME NEW c \in Clients, CreateSpawn(c) PROVE BaseInv'
  BY <1>3 DEF CreateSpawn
<1>4. ASSUME NEW c \in Clients, CreateSpawnFails(c) PROVE BaseInv'
  BY <1>4 DEF CreateSpawnFails
<1>5. ASSUME NEW c \in Clients, CreateNotify(c) PROVE BaseInv'
  BY <1>5 DEF CreateNotify, NotifyOneWorker, BlockedWorkers
<1>6. ASSUME NEW c \in Clients, ListProcessing(c) PROVE BaseInv'
  BY <1>6 DEF ListProcessing
<1>7. ASSUME NEW c \in Clients, CancelEnter(c) PROVE BaseInv'
  BY <1>7 DEF CancelEnter
<1>8. ASSUME NEW c \in Clients, CancelQueued(c) PROVE BaseInv'
  <2>1. owner = "alive"
    BY <1>8, EraseEffect DEF Draining, OwnerPCs
  <2>2. TypeOK'
    <3>1. queue' \in Seq(Tasks)
      BY <1>8, EraseEffect
    <3>2. TypeOK
      OBVIOUS
    <3> HIDE DEF IInv
    <3> QED
      BY <1>8, <3>1, <3>2 DEF CancelQueued
  <2>3. MutexInv'
    BY <1>8, <2>1, EraseEffect
  <2>4. BusyInv'
    BY <1>8, EraseEffect
  <2>5. ClosingInv'
    BY <1>8, <2>1, EraseEffect
  <2> HIDE DEF TypeOK, MutexInv, BusyInv, ClosingInv
  <2> QED
    BY <2>2, <2>3, <2>4, <2>5
<1>9. ASSUME NEW c \in Clients, CancelNotQueued(c) PROVE BaseInv'
  BY <1>9 DEF CancelNotQueued, Entries
<1>10. ASSUME NEW c \in Clients, CancelSignal(c) PROVE BaseInv'
  BY <1>10 DEF CancelSignal
<1>11. ASSUME NEW c \in Clients, ListQueued(c) PROVE BaseInv'
  BY <1>11 DEF ListQueued, Entries
<1>12. ASSUME NEW w \in Workers, LoopTest(w) PROVE BaseInv'
  BY <1>12 DEF LoopTest, WorkerOnly
<1>13. ASSUME NEW w \in Workers, Peek(w) PROVE BaseInv'
  BY <1>13 DEF Peek, WorkerOnly
<1>14. ASSUME NEW w \in Workers, FetchNothing(w) PROVE BaseInv'
  BY <1>14 DEF FetchNothing, WorkerOnly
<1>15. ASSUME NEW w \in Workers, Fetch(w) PROVE BaseInv'
  BY <1>15 DEF Fetch
<1>16. ASSUME NEW w \in Workers, InsertProcessing(w) PROVE BaseInv'
  BY <1>16 DEF InsertProcessing
<1>17. ASSUME NEW w \in Workers, RunStarted(w) PROVE BaseInv'
  BY <1>17 DEF RunStarted, SetStatus
<1>18. ASSUME NEW w \in Workers, ProcedureReturns(w) PROVE BaseInv'
  BY <1>18 DEF ProcedureReturns, SetStatus
<1>19. ASSUME NEW w \in Workers, ProcedureThrows(w) PROVE BaseInv'
  BY <1>19 DEF ProcedureThrows, WorkerOnly
<1>20. ASSUME NEW w \in Workers, RunCatches(w) PROVE BaseInv'
  BY <1>20 DEF RunCatches, SetStatus
<1>21. ASSUME NEW w \in Workers, Detach(w) PROVE BaseInv'
  BY <1>21 DEF Detach
<1>22. ASSUME NEW w \in Workers, EraseProcessing(w) PROVE BaseInv'
  BY <1>22 DEF EraseProcessing
<1>23. ASSUME NEW w \in Workers, WaitTest(w) PROVE BaseInv'
  BY SMTT(30), <1>23 DEF WaitTest, WorkerOnly, WaitPredicate
<1>24. ASSUME NEW w \in Workers, Sleep(w) PROVE BaseInv'
  BY <1>24 DEF Sleep
<1>25. ASSUME NEW w \in Workers, TimeoutTest(w) PROVE BaseInv'
  BY <1>25 DEF TimeoutTest, WorkerOnly, WaitPredicate
<1>26. ASSUME NEW w \in Workers, Exit(w) PROVE BaseInv'
  BY <1>26, LivePositive DEF Exit, Live
<1>27. ASSUME NEW w \in Workers, ExitNotify(w) PROVE BaseInv'
  BY <1>27 DEF ExitNotify
<1>28. ASSUME NEW w \in Workers, SpuriousWakeup(w) PROVE BaseInv'
  BY <1>28 DEF SpuriousWakeup, WorkerOnly
<1>29. ASSUME NEW w \in Workers, Timeout(w) PROVE BaseInv'
  BY <1>29 DEF Timeout, WorkerOnly
<1>30. ASSUME DestroyBegin PROVE BaseInv'
  BY <1>30 DEF DestroyBegin
<1>31. ASSUME DestroyExchange PROVE BaseInv'
  BY <1>31 DEF DestroyExchange, OwnerOnly
<1>32. ASSUME DestroyDetach PROVE BaseInv'
  BY <1>32 DEF DestroyDetach
<1>33. ASSUME DestroyClear PROVE BaseInv'
  BY <1>33 DEF DestroyClear
<1>34. ASSUME DestroyNotifyAll PROVE BaseInv'
  BY <1>34 DEF DestroyNotifyAll, NotifyAllWorkers
<1>35. ASSUME DestroyJoin PROVE BaseInv'
  BY <1>35 DEF DestroyJoin, OwnerOnly
<1>36. ASSUME DestroySpuriousWakeup PROVE BaseInv'
  BY <1>36 DEF DestroySpuriousWakeup, OwnerOnly
<1>37. ASSUME Ended PROVE BaseInv'
  BY <1>37 DEF Ended, vars
<1> HIDE DEF IInv, BaseInv
<1> QED
  BY <1>1, <1>2, <1>3, <1>4, <1>5, <1>6, <1>7, <1>8, <1>9, <1>10, <1>11,
     <1>12, <1>13, <1>14, <1>15, <1>16, <1>17, <1>18, <1>19, <1>20, <1>21,
     <1>22, <1>23, <1>24, <1>25, <1>26, <1>27, <1>28, <1>29, <1>30, <1>31,
     <1>32, <1>33, <1>34, <1>35, <1>36, <1>37 DEF Next, ClientCall,
     ClientStep, WorkerStep, DestroyStep

\* Every step keeps AttachedInv.
LEMMA AttachedStep == ASSUME IInv, Next PROVE AttachedInv'
<1> USE ActorsAssumption, BoundsAssumption, MaxThreadsAssumption DEF IInv,
        BaseInv, TypeOK, MutexInv, BusyInv, ClosingInv, Closing, Holding,
        queueVars, threadVars, taskVars, workerVars, clientVars, ownerVars,
        ErasedAt, AttachedInv, QueuedFor, HeldFor, RelockingFor, WorkerPCs
<1>1. ASSUME NEW c \in Clients, NEW t \in Tasks, CreateEnqueue(c, t) PROVE AttachedInv'
  BY SMTT(30), <1>1 DEF CreateEnqueue, Entries
<1>2. ASSUME NEW c \in Clients, NEW t \in Tasks, CancelCall(c, t) PROVE AttachedInv'
  BY <1>2 DEF CancelCall
<1>3. ASSUME NEW c \in Clients, CreateSpawn(c) PROVE AttachedInv'
  BY <1>3 DEF CreateSpawn
<1>4. ASSUME NEW c \in Clients, CreateSpawnFails(c) PROVE AttachedInv'
  BY <1>4 DEF CreateSpawnFails
<1>5. ASSUME NEW c \in Clients, CreateNotify(c) PROVE AttachedInv'
  BY <1>5 DEF CreateNotify, NotifyOneWorker, BlockedWorkers
<1>6. ASSUME NEW c \in Clients, ListProcessing(c) PROVE AttachedInv'
  BY <1>6 DEF ListProcessing
<1>7. ASSUME NEW c \in Clients, CancelEnter(c) PROVE AttachedInv'
  BY <1>7 DEF CancelEnter
<1>8. ASSUME NEW c \in Clients, CancelQueued(c) PROVE AttachedInv'
  <2>1. /\ cpc' = [cpc EXCEPT ![c] = "relock"] /\ cpc \in [Clients -> ClientPCs]
        /\ cpc[c] = "search"
        /\ UNCHANGED <<attached, target>>
        /\ AttachedInv
    BY <1>8 DEF CancelQueued
  <2>2. UNCHANGED <<wpc, hand>> /\ owner \notin Closing /\ owner' = owner
    BY <1>8, EraseEffect
  <2> HIDE DEF IInv, BaseInv, TypeOK, MutexInv, BusyInv, ClosingInv

  <2>3. ASSUME NEW t \in attached, QueuedFor(t), t # target[c]
        PROVE  QueuedFor(t)'
    <3>1. PICK i \in 1..Len(queue) :
             /\ queue[i] = target[c]
             /\ ErasedAt(queue, queue', i)
      BY <1>8, EraseEffect
    <3>2. Len(queue) \in Nat /\ Len(queue') = Len(queue) - 1
      BY <1>8, EraseEffect
    <3>3. PICK j \in 1..Len(queue) : queue[j] = t
      BY <2>3
    <3>4. CASE j < i
      BY <2>2, <3>1, <3>2, <3>3, <3>4
    <3>5. CASE j > i
      <4>1. j - 1 \in 1..Len(queue') /\ queue'[j - 1] = t
        BY <3>1, <3>2, <3>3, <3>5
      <4> QED
        BY <2>2, <4>1
    <3> QED
      BY <2>3, <3>1, <3>3, <3>4, <3>5
  <2>4. RelockingFor(target[c])'
    BY <2>1
  <2>5. ASSUME NEW t \in attached PROVE HeldFor(t) => HeldFor(t)'
    BY <2>2
  <2>6. ASSUME NEW t \in attached PROVE RelockingFor(t) => RelockingFor(t)'
    BY <2>1
  <2> QED
    BY <2>1, <2>3, <2>4, <2>5, <2>6
<1>9. ASSUME NEW c \in Clients, CancelNotQueued(c) PROVE AttachedInv'
  BY <1>9 DEF CancelNotQueued, Entries
<1>10. ASSUME NEW c \in Clients, CancelSignal(c) PROVE AttachedInv'
  BY <1>10 DEF CancelSignal
<1>11. ASSUME NEW c \in Clients, ListQueued(c) PROVE AttachedInv'
  BY <1>11 DEF ListQueued, Entries
<1>12. ASSUME NEW w \in Workers, LoopTest(w) PROVE AttachedInv'
  BY <1>12 DEF LoopTest, WorkerOnly
<1>13. ASSUME NEW w \in Workers, Peek(w) PROVE AttachedInv'
  BY SMTT(30), <1>13 DEF Peek, WorkerOnly
<1>14. ASSUME NEW w \in Workers, FetchNothing(w) PROVE AttachedInv'
  BY <1>14 DEF FetchNothing, WorkerOnly
<1>15. ASSUME NEW w \in Workers, Fetch(w) PROVE AttachedInv'
  <2>1. UNCHANGED <<attached, cpc, target>> /\ AttachedInv
    BY <1>15, FetchEffect
  <2> HIDE DEF IInv, BaseInv, TypeOK, MutexInv, BusyInv, ClosingInv

  <2>2. ASSUME NEW t \in attached, QueuedFor(t)
        PROVE  QueuedFor(t)' \/ HeldFor(t)'
    <3>1. PICK j \in 1..Len(queue) : queue[j] = t
      BY <2>2
    <3>2. CASE j = 1
      BY <1>15, <3>1, <3>2, FetchEffect
    <3>3. CASE j > 1
      <4>1. j - 1 \in 1..Len(queue') /\ queue'[j - 1] = t
        BY <1>15, <3>1, <3>3, FetchEffect
      <4> QED
        BY <1>15, <4>1, FetchEffect
    <3> QED
      BY <3>1, <3>2, <3>3
  <2>3. ASSUME NEW t \in attached, HeldFor(t) PROVE HeldFor(t)'
    BY <1>15, <2>3, FetchEffect
  <2> QED
    BY <2>1, <2>2, <2>3
<1>16. ASSUME NEW w \in Workers, InsertProcessing(w) PROVE AttachedInv'
  BY <1>16 DEF InsertProcessing
<1>17. ASSUME NEW w \in Workers, RunStarted(w) PROVE AttachedInv'
  <2>1. /\ wpc[w] \in {"run", "procedure", "catch"} /\ wpc \in [Workers -> WorkerPCs]
        /\ \E to \in {"procedure", "catch", "detach"} : wpc' = [wpc EXCEPT ![w] = to]
        /\ UNCHANGED <<hand, attached, queue, owner, cursor, cpc, target>>
        /\ AttachedInv
    BY <1>17 DEF RunStarted, SetStatus
  <2> HIDE DEF IInv, BaseInv, TypeOK, MutexInv, BusyInv, ClosingInv

  <2>2. ASSUME NEW t \in attached PROVE HeldFor(t) => HeldFor(t)'
    BY <2>1
  <2> QED
    BY <2>1, <2>2
<1>18. ASSUME NEW w \in Workers, ProcedureReturns(w) PROVE AttachedInv'
  <2>1. /\ wpc[w] \in {"run", "procedure", "catch"} /\ wpc \in [Workers -> WorkerPCs]
        /\ \E to \in {"procedure", "catch", "detach"} : wpc' = [wpc EXCEPT ![w] = to]
        /\ UNCHANGED <<hand, attached, queue, owner, cursor, cpc, target>>
        /\ AttachedInv
    BY <1>18 DEF ProcedureReturns, SetStatus
  <2> HIDE DEF IInv, BaseInv, TypeOK, MutexInv, BusyInv, ClosingInv

  <2>2. ASSUME NEW t \in attached PROVE HeldFor(t) => HeldFor(t)'
    BY <2>1
  <2> QED
    BY <2>1, <2>2
<1>19. ASSUME NEW w \in Workers, ProcedureThrows(w) PROVE AttachedInv'
  BY <1>19 DEF ProcedureThrows, WorkerOnly
<1>20. ASSUME NEW w \in Workers, RunCatches(w) PROVE AttachedInv'
  <2>1. /\ wpc[w] \in {"run", "procedure", "catch"} /\ wpc \in [Workers -> WorkerPCs]
        /\ \E to \in {"procedure", "catch", "detach"} : wpc' = [wpc EXCEPT ![w] = to]
        /\ UNCHANGED <<hand, attached, queue, owner, cursor, cpc, target>>
        /\ AttachedInv
    BY <1>20 DEF RunCatches, SetStatus
  <2> HIDE DEF IInv, BaseInv, TypeOK, MutexInv, BusyInv, ClosingInv

  <2>2. ASSUME NEW t \in attached PROVE HeldFor(t) => HeldFor(t)'
    BY <2>1
  <2> QED
    BY <2>1, <2>2
<1>21. ASSUME NEW w \in Workers, Detach(w) PROVE AttachedInv'
  BY <1>21 DEF Detach
<1>22. ASSUME NEW w \in Workers, EraseProcessing(w) PROVE AttachedInv'
  BY <1>22 DEF EraseProcessing
<1>23. ASSUME NEW w \in Workers, WaitTest(w) PROVE AttachedInv'
  BY <1>23 DEF WaitTest, WorkerOnly, WaitPredicate
<1>24. ASSUME NEW w \in Workers, Sleep(w) PROVE AttachedInv'
  BY <1>24 DEF Sleep
<1>25. ASSUME NEW w \in Workers, TimeoutTest(w) PROVE AttachedInv'
  BY <1>25 DEF TimeoutTest, WorkerOnly, WaitPredicate
<1>26. ASSUME NEW w \in Workers, Exit(w) PROVE AttachedInv'
  BY <1>26 DEF Exit
<1>27. ASSUME NEW w \in Workers, ExitNotify(w) PROVE AttachedInv'
  BY <1>27 DEF ExitNotify
<1>28. ASSUME NEW w \in Workers, SpuriousWakeup(w) PROVE AttachedInv'
  BY <1>28 DEF SpuriousWakeup, WorkerOnly
<1>29. ASSUME NEW w \in Workers, Timeout(w) PROVE AttachedInv'
  BY <1>29 DEF Timeout, WorkerOnly
<1>30. ASSUME DestroyBegin PROVE AttachedInv'
  BY <1>30 DEF DestroyBegin
<1>31. ASSUME DestroyExchange PROVE AttachedInv'
  <2>1. /\ UNCHANGED <<attached, queue, cursor, wpc, hand, cpc, target>>
        /\ owner \in Closing \/ owner' \notin Closing
        /\ AttachedInv
    BY <1>31 DEF DestroyExchange, OwnerOnly
  <2> HIDE DEF IInv, BaseInv, TypeOK, MutexInv, BusyInv, ClosingInv, Closing
  <2>2. ASSUME NEW t PROVE QueuedFor(t) => QueuedFor(t)'
    BY <2>1
  <2>3. ASSUME NEW t PROVE HeldFor(t) => HeldFor(t)'
    BY <2>1
  <2>4. ASSUME NEW t PROVE RelockingFor(t) => RelockingFor(t)'
    BY <2>1
  <2> HIDE DEF QueuedFor, HeldFor, RelockingFor
  <2> QED
    BY <2>1, <2>2, <2>3, <2>4
<1>32. ASSUME DestroyDetach PROVE AttachedInv'
  BY <1>32 DEF DestroyDetach
<1>33. ASSUME DestroyClear PROVE AttachedInv'
  BY <1>33 DEF DestroyClear
<1>34. ASSUME DestroyNotifyAll PROVE AttachedInv'
  BY <1>34 DEF DestroyNotifyAll, NotifyAllWorkers
<1>35. ASSUME DestroyJoin PROVE AttachedInv'
  BY <1>35 DEF DestroyJoin, OwnerOnly
<1>36. ASSUME DestroySpuriousWakeup PROVE AttachedInv'
  BY <1>36 DEF DestroySpuriousWakeup, OwnerOnly
<1>37. ASSUME Ended PROVE AttachedInv'
  BY <1>37 DEF Ended, vars
<1> HIDE DEF IInv, AttachedInv
<1> QED
  BY <1>1, <1>2, <1>3, <1>4, <1>5, <1>6, <1>7, <1>8, <1>9, <1>10, <1>11,
     <1>12, <1>13, <1>14, <1>15, <1>16, <1>17, <1>18, <1>19, <1>20, <1>21,
     <1>22, <1>23, <1>24, <1>25, <1>26, <1>27, <1>28, <1>29, <1>30, <1>31,
     <1>32, <1>33, <1>34, <1>35, <1>36, <1>37 DEF Next, ClientCall,
     ClientStep, WorkerStep, DestroyStep

\* Every step keeps PlaceInv.
LEMMA PlaceStep == ASSUME IInv, Next PROVE PlaceInv'
<1> USE ActorsAssumption, BoundsAssumption, MaxThreadsAssumption DEF IInv,
        BaseInv, TypeOK, MutexInv, BusyInv, ClosingInv, Closing, Holding,
        queueVars, threadVars, taskVars, workerVars, clientVars, ownerVars,
        ErasedAt, PlaceInv, QueuedOnce, NotInHand, HeldOnce, ProcessingSet,
        StatusInv, QueueStatus, HandStatus, Marked
<1>1. ASSUME NEW c \in Clients, NEW t \in Tasks, CreateEnqueue(c, t) PROVE PlaceInv'
  <2>1. /\ \A i \in 1..Len(queue) : queue[i] # t
        /\ \A v \in Workers : wpc[v] \in Holding => hand[v] # t
    BY SMTT(30), <1>1, EnqueueEffect
  <2>2. PlaceInv
    OBVIOUS
  <2> HIDE DEF IInv, BaseInv, TypeOK, MutexInv, BusyInv, ClosingInv

  <2>3. QueuedOnce'
    BY <1>1, <2>1, <2>2, EnqueueEffect
  <2>4. NotInHand'
    BY <1>1, <2>1, <2>2, EnqueueEffect
  <2>5. HeldOnce'
    BY <1>1, <2>2, EnqueueEffect
  <2>6. ProcessingSet'
    BY <1>1, <2>2, EnqueueEffect DEF CreateEnqueue
  <2> QED
    BY <2>3, <2>4, <2>5, <2>6
<1>2. ASSUME NEW c \in Clients, NEW t \in Tasks, CancelCall(c, t) PROVE PlaceInv'
  BY <1>2 DEF CancelCall
<1>3. ASSUME NEW c \in Clients, CreateSpawn(c) PROVE PlaceInv'
  <2>1. /\ UNCHANGED <<queue, hand, threadsProcessing>> /\ PlaceInv
        /\ \A v \in Workers : wpc'[v] = wpc[v] \/ (wpc[v] = "none" /\ wpc'[v] = "loop")
    BY <1>3 DEF CreateSpawn
  <2> HIDE DEF IInv, BaseInv, TypeOK, MutexInv, BusyInv, ClosingInv

  <2> QED
    BY <2>1
<1>4. ASSUME NEW c \in Clients, CreateSpawnFails(c) PROVE PlaceInv'
  BY <1>4 DEF CreateSpawnFails
<1>5. ASSUME NEW c \in Clients, CreateNotify(c) PROVE PlaceInv'
  BY <1>5 DEF CreateNotify, NotifyOneWorker, BlockedWorkers
<1>6. ASSUME NEW c \in Clients, ListProcessing(c) PROVE PlaceInv'
  BY <1>6 DEF ListProcessing
<1>7. ASSUME NEW c \in Clients, CancelEnter(c) PROVE PlaceInv'
  BY <1>7 DEF CancelEnter
<1>8. ASSUME NEW c \in Clients, CancelQueued(c) PROVE PlaceInv'
  <2>1. PlaceInv
    OBVIOUS
  <2> HIDE DEF IInv, BaseInv, TypeOK, MutexInv, BusyInv, ClosingInv

  <2>2. PICK i \in 1..Len(queue) :
           ErasedAt(queue, queue', i)
    BY <1>8, EraseEffect
  <2>3. /\ Len(queue) \in Nat /\ Len(queue') = Len(queue) - 1
        /\ UNCHANGED <<wpc, hand>>
    BY <1>8, EraseEffect
  <2>4. QueuedOnce'
    <3> SUFFICES ASSUME NEW j \in 1..Len(queue'), NEW k \in 1..Len(queue'),
                        queue'[j] = queue'[k]
                 PROVE  j = k
      OBVIOUS
    <3>1. /\ i \in Nat /\ j \in Nat /\ k \in Nat
          /\ j \in 1..Len(queue) /\ j + 1 \in 1..Len(queue)
          /\ k \in 1..Len(queue) /\ k + 1 \in 1..Len(queue)
      BY <2>3
    <3>2. /\ j < i => queue'[j] = queue[j]
          /\ j >= i => queue'[j] = queue[j + 1]
          /\ k < i => queue'[k] = queue[k]
          /\ k >= i => queue'[k] = queue[k + 1]
      BY <2>2
    <3>3. /\ queue[j] = queue[k] => j = k
          /\ queue[j] = queue[k + 1] => j = k + 1
          /\ queue[j + 1] = queue[k] => j + 1 = k
          /\ queue[j + 1] = queue[k + 1] => j + 1 = k + 1
      BY <2>1, <3>1
    <3> QED
      BY <3>1, <3>2, <3>3
  <2>5. NotInHand'
    BY <2>1, <2>2, <2>3
  <2>6. HeldOnce'
    BY <2>1, <2>3
  <2>7. UNCHANGED <<threadsProcessing, wpc, hand>>
    BY <1>8, EraseEffect
  <2>8. ProcessingSet'
    BY <2>1, <2>7
  <2> QED
    BY <2>4, <2>5, <2>6, <2>8
<1>9. ASSUME NEW c \in Clients, CancelNotQueued(c) PROVE PlaceInv'
  BY <1>9 DEF CancelNotQueued, Entries
<1>10. ASSUME NEW c \in Clients, CancelSignal(c) PROVE PlaceInv'
  BY <1>10 DEF CancelSignal
<1>11. ASSUME NEW c \in Clients, ListQueued(c) PROVE PlaceInv'
  BY <1>11 DEF ListQueued, Entries
<1>12. ASSUME NEW w \in Workers, LoopTest(w) PROVE PlaceInv'
  BY <1>12 DEF LoopTest, WorkerOnly
<1>13. ASSUME NEW w \in Workers, Peek(w) PROVE PlaceInv'
  BY SMTT(30), <1>13 DEF Peek, WorkerOnly
<1>14. ASSUME NEW w \in Workers, FetchNothing(w) PROVE PlaceInv'
  BY <1>14 DEF FetchNothing, WorkerOnly
<1>15. ASSUME NEW w \in Workers, Fetch(w) PROVE PlaceInv'
  BY <1>15 DEF Fetch
<1>16. ASSUME NEW w \in Workers, InsertProcessing(w) PROVE PlaceInv'
  BY <1>16 DEF InsertProcessing
<1>17. ASSUME NEW w \in Workers, RunStarted(w) PROVE PlaceInv'
  BY <1>17 DEF RunStarted, SetStatus
<1>18. ASSUME NEW w \in Workers, ProcedureReturns(w) PROVE PlaceInv'
  BY <1>18 DEF ProcedureReturns, SetStatus
<1>19. ASSUME NEW w \in Workers, ProcedureThrows(w) PROVE PlaceInv'
  BY <1>19 DEF ProcedureThrows, WorkerOnly
<1>20. ASSUME NEW w \in Workers, RunCatches(w) PROVE PlaceInv'
  BY <1>20 DEF RunCatches, SetStatus
<1>21. ASSUME NEW w \in Workers, Detach(w) PROVE PlaceInv'
  BY <1>21 DEF Detach
<1>22. ASSUME NEW w \in Workers, EraseProcessing(w) PROVE PlaceInv'
  BY <1>22 DEF EraseProcessing
<1>23. ASSUME NEW w \in Workers, WaitTest(w) PROVE PlaceInv'
  BY <1>23 DEF WaitTest, WorkerOnly, WaitPredicate
<1>24. ASSUME NEW w \in Workers, Sleep(w) PROVE PlaceInv'
  BY <1>24 DEF Sleep
<1>25. ASSUME NEW w \in Workers, TimeoutTest(w) PROVE PlaceInv'
  BY <1>25 DEF TimeoutTest, WorkerOnly, WaitPredicate
<1>26. ASSUME NEW w \in Workers, Exit(w) PROVE PlaceInv'
  BY <1>26 DEF Exit
<1>27. ASSUME NEW w \in Workers, ExitNotify(w) PROVE PlaceInv'
  BY <1>27 DEF ExitNotify
<1>28. ASSUME NEW w \in Workers, SpuriousWakeup(w) PROVE PlaceInv'
  BY <1>28 DEF SpuriousWakeup, WorkerOnly
<1>29. ASSUME NEW w \in Workers, Timeout(w) PROVE PlaceInv'
  BY <1>29 DEF Timeout, WorkerOnly
<1>30. ASSUME DestroyBegin PROVE PlaceInv'
  BY <1>30 DEF DestroyBegin
<1>31. ASSUME DestroyExchange PROVE PlaceInv'
  BY <1>31 DEF DestroyExchange, OwnerOnly
<1>32. ASSUME DestroyDetach PROVE PlaceInv'
  BY <1>32 DEF DestroyDetach
<1>33. ASSUME DestroyClear PROVE PlaceInv'
  BY <1>33 DEF DestroyClear
<1>34. ASSUME DestroyNotifyAll PROVE PlaceInv'
  BY SMTT(30), <1>34 DEF DestroyNotifyAll, NotifyAllWorkers
<1>35. ASSUME DestroyJoin PROVE PlaceInv'
  BY <1>35 DEF DestroyJoin, OwnerOnly
<1>36. ASSUME DestroySpuriousWakeup PROVE PlaceInv'
  BY <1>36 DEF DestroySpuriousWakeup, OwnerOnly
<1>37. ASSUME Ended PROVE PlaceInv'
  BY <1>37 DEF Ended, vars
<1> HIDE DEF IInv, PlaceInv
<1> QED
  BY <1>1, <1>2, <1>3, <1>4, <1>5, <1>6, <1>7, <1>8, <1>9, <1>10, <1>11,
     <1>12, <1>13, <1>14, <1>15, <1>16, <1>17, <1>18, <1>19, <1>20, <1>21,
     <1>22, <1>23, <1>24, <1>25, <1>26, <1>27, <1>28, <1>29, <1>30, <1>31,
     <1>32, <1>33, <1>34, <1>35, <1>36, <1>37 DEF Next, ClientCall,
     ClientStep, WorkerStep, DestroyStep

\* Every step keeps StatusInv.
LEMMA StatusStep == ASSUME IInv, Next PROVE StatusInv'
<1> USE ActorsAssumption, BoundsAssumption, MaxThreadsAssumption DEF IInv,
        BaseInv, TypeOK, MutexInv, BusyInv, ClosingInv, Closing, Holding,
        queueVars, threadVars, taskVars, workerVars, clientVars, ownerVars,
        ErasedAt, PlaceInv, QueuedOnce, NotInHand, HeldOnce, StatusInv,
        QueueStatus, HandStatus, WaitingPlace, RunningPlace, Marked, Status
<1>1. ASSUME NEW c \in Clients, NEW t \in Tasks, CreateEnqueue(c, t) PROVE StatusInv'
  <2>1. QueueStatus'
    BY <1>1 DEF CreateEnqueue
  <2>2. HandStatus'
    BY <1>1 DEF CreateEnqueue
  <2>3. WaitingPlace'
    BY <1>1 DEF CreateEnqueue
  <2>4. RunningPlace'
    BY <1>1 DEF CreateEnqueue
  <2> HIDE DEF QueueStatus, HandStatus, WaitingPlace, RunningPlace
  <2> QED
    BY <2>1, <2>2, <2>3, <2>4
<1>2. ASSUME NEW c \in Clients, NEW t \in Tasks, CancelCall(c, t) PROVE StatusInv'
  BY <1>2 DEF CancelCall
<1>3. ASSUME NEW c \in Clients, CreateSpawn(c) PROVE StatusInv'
  <2>1. /\ UNCHANGED <<queue, hand, status, owner, cursor>> /\ StatusInv
        /\ \A v \in Workers : wpc'[v] = wpc[v] \/ (wpc[v] = "none" /\ wpc'[v] = "loop")
    BY <1>3 DEF CreateSpawn
  <2> HIDE DEF IInv, BaseInv, TypeOK, MutexInv, BusyInv, ClosingInv
  <2>5. QueueStatus'
    BY <2>1
  <2>6. HandStatus'
    BY <2>1
  <2>7. WaitingPlace'
    BY <2>1
  <2>8. RunningPlace'
    BY <2>1
  <2> HIDE DEF QueueStatus, HandStatus, WaitingPlace, RunningPlace
  <2> QED
    BY <2>5, <2>6, <2>7, <2>8
<1>4. ASSUME NEW c \in Clients, CreateSpawnFails(c) PROVE StatusInv'
  BY <1>4 DEF CreateSpawnFails
<1>5. ASSUME NEW c \in Clients, CreateNotify(c) PROVE StatusInv'
  <2>1. /\ UNCHANGED <<queue, hand, status, owner, cursor>> /\ StatusInv
        /\ \A v \in Workers : wpc'[v] = wpc[v] \/ (wpc[v] = "blocked" /\ wpc'[v] = "woken")
    BY <1>5 DEF CreateNotify, NotifyOneWorker, BlockedWorkers
  <2> HIDE DEF IInv, BaseInv, TypeOK, MutexInv, BusyInv, ClosingInv
  <2>5. QueueStatus'
    BY <2>1
  <2>6. HandStatus'
    BY <2>1
  <2>7. WaitingPlace'
    BY <2>1
  <2>8. RunningPlace'
    BY <2>1
  <2> HIDE DEF QueueStatus, HandStatus, WaitingPlace, RunningPlace
  <2> QED
    BY <2>5, <2>6, <2>7, <2>8
<1>6. ASSUME NEW c \in Clients, ListProcessing(c) PROVE StatusInv'
  BY <1>6 DEF ListProcessing
<1>7. ASSUME NEW c \in Clients, CancelEnter(c) PROVE StatusInv'
  BY <1>7 DEF CancelEnter
<1>8. ASSUME NEW c \in Clients, CancelQueued(c) PROVE StatusInv'
  <2>1. /\ UNCHANGED <<wpc, hand, owner>> /\ owner \notin Closing
        /\ Len(queue) \in Nat /\ Len(queue') = Len(queue) - 1
    BY <1>8, EraseEffect
  <2>2. PICK i \in 1..Len(queue) :
           /\ queue[i] = target[c]
           /\ ErasedAt(queue, queue', i)
    BY <1>8, EraseEffect
  <2>3. /\ StatusInv /\ PlaceInv
        /\ status \in [Tasks -> Status] /\ queue \in Seq(Tasks)
        /\ status' = [status EXCEPT ![target[c]] = "canceled"]
    BY <1>8 DEF CancelQueued
  <2> HIDE DEF IInv, BaseInv, TypeOK, MutexInv, BusyInv, ClosingInv
  <2>5. QueueStatus'
    BY <2>1, <2>2, <2>3
  <2>6. HandStatus'
    BY <2>1, <2>2, <2>3
  <2>7. WaitingPlace'
    <3> SUFFICES ASSUME NEW t \in Tasks, status[t] = "waiting", t # target[c],
                        NEW j \in 1..Len(queue), queue[j] = t
                 PROVE  \E k \in 1..Len(queue') : queue'[k] = t
      BY <2>1, <2>3
    <3>1. CASE j < i
      BY <2>1, <2>2, <3>1
    <3>2. CASE j > i
      <4>1. j - 1 \in 1..Len(queue') /\ queue'[j - 1] = t
        BY <2>1, <2>2, <3>2
      <4> QED
        BY <4>1
    <3> QED
      BY <2>2, <3>1, <3>2
  <2>8. RunningPlace'
    BY <2>1, <2>2, <2>3
  <2> HIDE DEF QueueStatus, HandStatus, WaitingPlace, RunningPlace
  <2> QED
    BY <2>5, <2>6, <2>7, <2>8
<1>9. ASSUME NEW c \in Clients, CancelNotQueued(c) PROVE StatusInv'
  BY <1>9 DEF CancelNotQueued, Entries
<1>10. ASSUME NEW c \in Clients, CancelSignal(c) PROVE StatusInv'
  BY <1>10 DEF CancelSignal
<1>11. ASSUME NEW c \in Clients, ListQueued(c) PROVE StatusInv'
  BY <1>11 DEF ListQueued, Entries
<1>12. ASSUME NEW w \in Workers, LoopTest(w) PROVE StatusInv'
  BY <1>12 DEF LoopTest, WorkerOnly
<1>13. ASSUME NEW w \in Workers, Peek(w) PROVE StatusInv'
  BY SMTT(30), <1>13 DEF Peek, WorkerOnly
<1>14. ASSUME NEW w \in Workers, FetchNothing(w) PROVE StatusInv'
  BY <1>14 DEF FetchNothing, WorkerOnly
<1>15. ASSUME NEW w \in Workers, Fetch(w) PROVE StatusInv'
  <2>1. StatusInv
    OBVIOUS
  <2> HIDE DEF IInv, BaseInv, TypeOK, MutexInv, BusyInv, ClosingInv
  <2>5. QueueStatus'
    BY <1>15, <2>1, FetchEffect
  <2>6. HandStatus'
    BY <1>15, <2>1, FetchEffect
  <2>7. WaitingPlace'
    <3> SUFFICES ASSUME NEW t \in Tasks, status[t] = "waiting"
                 PROVE \/ \E i \in 1..Len(queue') : queue'[i] = t
                       \/ \E v \in Workers : hand'[v] = t /\ wpc'[v] \in {"insert", "run"}
      BY <1>15, FetchEffect
    <3>1. CASE \E v \in Workers : hand[v] = t /\ wpc[v] \in {"insert", "run"}
      BY <1>15, <3>1, FetchEffect
    <3>4. /\ Len(queue) \in Nat /\ Len(queue') = Len(queue) - 1
          /\ \A j \in 1..Len(queue') : queue'[j] = queue[j + 1]
      BY <1>15, FetchEffect
    <3>2. ASSUME NEW i \in 1..Len(queue), queue[i] = t
          PROVE  \/ i = 1
                 \/ i - 1 \in 1..Len(queue') /\ queue'[i - 1] = t
      <4>1. CASE i # 1
        <5>1. i - 1 \in 1..Len(queue') /\ (i - 1) + 1 = i
          BY <4>1, <3>4
        <5> QED
          BY <5>1, <3>4, <3>2
      <4> QED
        BY <4>1
    <3>3. queue[1] = t => hand'[w] = t /\ wpc'[w] = "insert"
      BY <1>15, FetchEffect
    <3> QED
      BY <2>1, <3>1, <3>2, <3>3
  <2>8. RunningPlace'
    BY <1>15, <2>1, FetchEffect
  <2> HIDE DEF QueueStatus, HandStatus, WaitingPlace, RunningPlace
  <2> QED
    BY <2>5, <2>6, <2>7, <2>8
<1>16. ASSUME NEW w \in Workers, InsertProcessing(w) PROVE StatusInv'
  BY <1>16 DEF InsertProcessing
<1>17. ASSUME NEW w \in Workers, RunStarted(w) PROVE StatusInv'
  <2>1. QueueStatus'
    BY <1>17 DEF RunStarted, SetStatus
  <2>2. HandStatus'
    BY <1>17 DEF RunStarted, SetStatus
  <2>3. WaitingPlace'
    BY <1>17 DEF RunStarted, SetStatus
  <2>4. RunningPlace'
    BY <1>17 DEF RunStarted, SetStatus
  <2> HIDE DEF QueueStatus, HandStatus, WaitingPlace, RunningPlace
  <2> QED
    BY <2>1, <2>2, <2>3, <2>4
<1>18. ASSUME NEW w \in Workers, ProcedureReturns(w) PROVE StatusInv'
  BY SMTT(30), <1>18 DEF ProcedureReturns, SetStatus
<1>19. ASSUME NEW w \in Workers, ProcedureThrows(w) PROVE StatusInv'
  BY <1>19 DEF ProcedureThrows, WorkerOnly
<1>20. ASSUME NEW w \in Workers, RunCatches(w) PROVE StatusInv'
  <2>1. StatusInv /\ PlaceInv
    OBVIOUS
  <2>2. /\ hand[w] \in Tasks /\ status \in [Tasks -> Status]
        /\ queue \in Seq(Tasks)
        /\ status[hand[w]] \in {"running", "done"}
    BY <1>20 DEF RunCatches
  <2>3. /\ UNCHANGED <<queue, hand, owner, cursor>>
        /\ wpc[w] = "catch"
        /\ status' = [status EXCEPT ![hand[w]] = "exception"]
        /\ \A v \in Workers : wpc'[v] = IF v = w THEN "detach" ELSE wpc[v]
    BY <1>20 DEF RunCatches, SetStatus
  <2> HIDE DEF IInv, BaseInv, TypeOK, MutexInv, BusyInv, ClosingInv
  <2>5. QueueStatus'
    BY <2>1, <2>2, <2>3
  <2>6. HandStatus'
    BY <2>1, <2>2, <2>3
  <2>7. WaitingPlace'
    BY <2>1, <2>2, <2>3
  <2>8. RunningPlace'
    BY <2>1, <2>2, <2>3
  <2> HIDE DEF QueueStatus, HandStatus, WaitingPlace, RunningPlace
  <2> QED
    BY <2>5, <2>6, <2>7, <2>8
<1>21. ASSUME NEW w \in Workers, Detach(w) PROVE StatusInv'
  <2>1. /\ UNCHANGED <<queue, hand, status, owner, cursor>> /\ StatusInv
        /\ \A v \in Workers :
              wpc'[v] = wpc[v] \/ (wpc[v] = "detach" /\ wpc'[v] = "erase")
    BY <1>21 DEF Detach
  <2> HIDE DEF IInv, BaseInv, TypeOK, MutexInv, BusyInv, ClosingInv
  <2>5. QueueStatus'
    BY <2>1
  <2>6. HandStatus'
    BY <2>1
  <2>7. WaitingPlace'
    BY <2>1
  <2>8. RunningPlace'
    BY <2>1
  <2> HIDE DEF QueueStatus, HandStatus, WaitingPlace, RunningPlace
  <2> QED
    BY <2>5, <2>6, <2>7, <2>8
<1>22. ASSUME NEW w \in Workers, EraseProcessing(w) PROVE StatusInv'
  <2>2. /\ wpc[w] = "erase" /\ wpc' = [wpc EXCEPT ![w] = "peek"]
        /\ hand' = [hand EXCEPT ![w] = NoOne]
        /\ UNCHANGED <<queue, status, owner, cursor>>
    BY <1>22 DEF EraseProcessing
  <2>3. wpc \in [Workers -> WorkerPCs] /\ StatusInv
    OBVIOUS
  <2> HIDE DEF IInv, BaseInv, TypeOK, MutexInv, BusyInv, ClosingInv, StatusInv
  <2>1. /\ UNCHANGED <<queue, status, owner, cursor>> /\ StatusInv
        /\ \A v \in Workers :
              \/ wpc'[v] = wpc[v] /\ hand'[v] = hand[v]
              \/ wpc[v] = "erase" /\ wpc'[v] = "peek"
    BY <2>2, <2>3
  <2> USE DEF StatusInv
  <2>5. QueueStatus'
    BY <2>1
  <2>6. HandStatus'
    BY <2>1
  <2>7. WaitingPlace'
    BY <2>1
  <2>8. RunningPlace'
    BY <2>1
  <2> HIDE DEF QueueStatus, HandStatus, WaitingPlace, RunningPlace
  <2> QED
    BY <2>5, <2>6, <2>7, <2>8
<1>23. ASSUME NEW w \in Workers, WaitTest(w) PROVE StatusInv'
  <2>1. QueueStatus'
    BY <1>23 DEF WaitTest, WorkerOnly, WaitPredicate
  <2>2. HandStatus'
    BY <1>23 DEF WaitTest, WorkerOnly, WaitPredicate
  <2>3. WaitingPlace'
    BY <1>23 DEF WaitTest, WorkerOnly, WaitPredicate
  <2>4. RunningPlace'
    BY <1>23 DEF WaitTest, WorkerOnly, WaitPredicate
  <2> HIDE DEF QueueStatus, HandStatus, WaitingPlace, RunningPlace
  <2> QED
    BY <2>1, <2>2, <2>3, <2>4
<1>24. ASSUME NEW w \in Workers, Sleep(w) PROVE StatusInv'
  BY <1>24 DEF Sleep
<1>25. ASSUME NEW w \in Workers, TimeoutTest(w) PROVE StatusInv'
  BY <1>25 DEF TimeoutTest, WorkerOnly, WaitPredicate
<1>26. ASSUME NEW w \in Workers, Exit(w) PROVE StatusInv'
  BY <1>26 DEF Exit
<1>27. ASSUME NEW w \in Workers, ExitNotify(w) PROVE StatusInv'
  BY <1>27 DEF ExitNotify
<1>28. ASSUME NEW w \in Workers, SpuriousWakeup(w) PROVE StatusInv'
  BY SMTT(30), <1>28 DEF SpuriousWakeup, WorkerOnly
<1>29. ASSUME NEW w \in Workers, Timeout(w) PROVE StatusInv'
  BY <1>29 DEF Timeout, WorkerOnly
<1>30. ASSUME DestroyBegin PROVE StatusInv'
  BY <1>30 DEF DestroyBegin
<1>31. ASSUME DestroyExchange PROVE StatusInv'
  <2>1. QueueStatus'
    BY <1>31 DEF DestroyExchange, OwnerOnly
  <2>2. HandStatus'
    BY <1>31 DEF DestroyExchange, OwnerOnly
  <2>3. WaitingPlace'
    BY <1>31 DEF DestroyExchange, OwnerOnly
  <2>4. RunningPlace'
    BY <1>31 DEF DestroyExchange, OwnerOnly
  <2> HIDE DEF QueueStatus, HandStatus, WaitingPlace, RunningPlace
  <2> QED
    BY <2>1, <2>2, <2>3, <2>4
<1>32. ASSUME DestroyDetach PROVE StatusInv'
  BY <1>32 DEF DestroyDetach
<1>33. ASSUME DestroyClear PROVE StatusInv'
  BY <1>33 DEF DestroyClear
<1>34. ASSUME DestroyNotifyAll PROVE StatusInv'
  BY <1>34 DEF DestroyNotifyAll, NotifyAllWorkers
<1>35. ASSUME DestroyJoin PROVE StatusInv'
  BY <1>35 DEF DestroyJoin, OwnerOnly
<1>36. ASSUME DestroySpuriousWakeup PROVE StatusInv'
  BY <1>36 DEF DestroySpuriousWakeup, OwnerOnly
<1>37. ASSUME Ended PROVE StatusInv'
  BY <1>37 DEF Ended, vars
<1> HIDE DEF IInv, StatusInv
<1> QED
  BY <1>1, <1>2, <1>3, <1>4, <1>5, <1>6, <1>7, <1>8, <1>9, <1>10, <1>11,
     <1>12, <1>13, <1>14, <1>15, <1>16, <1>17, <1>18, <1>19, <1>20, <1>21,
     <1>22, <1>23, <1>24, <1>25, <1>26, <1>27, <1>28, <1>29, <1>30, <1>31,
     <1>32, <1>33, <1>34, <1>35, <1>36, <1>37 DEF Next, ClientCall,
     ClientStep, WorkerStep, DestroyStep

\* Every step keeps CountInv.
LEMMA CountStep == ASSUME IInv, Next PROVE CountInv'
<1> DEFINE Kept == Live' = Live /\ UNCHANGED <<threadsAvailable,
        spawnFailures>>
<1> USE DEF queueVars, threadVars, taskVars, workerVars, clientVars, ownerVars
<1>0. ASSUME Kept PROVE CountInv'
  BY <1>0 DEF IInv, CountInv
<1>type. /\ wpc \in [Workers -> WorkerPCs] /\ IsFiniteSet(Live)
      /\ threadsAvailable \in Nat /\ spawnFailures \in Nat /\ Cardinality(Live) \in Nat
      /\ threadsMax \in Nat /\ MaxThreads \in Nat /\ threadsMax <= MaxThreads /\ threadsAvailable <= MaxThreads
      /\ threadsAvailable = Cardinality(Live) + spawnFailures
  BY LiveFinite, BoundsAssumption, MaxThreadsAssumption DEF IInv, BaseInv, TypeOK, CountInv
<1>1. ASSUME NEW c \in Clients, NEW t \in Tasks, CreateEnqueue(c, t) PROVE Kept
  BY <1>type, <1>1 DEF CreateEnqueue, Entries, Live
<1>2. ASSUME NEW c \in Clients, NEW t \in Tasks, CancelCall(c, t) PROVE Kept
  BY <1>type, <1>2 DEF CancelCall, Live
<1>3. ASSUME NEW c \in Clients, CreateSpawn(c) PROVE CountInv'
  <2>1. CASE threadsAvailable >= threadsMax
    <3>1. Kept
      BY <1>type, <1>3, <2>1 DEF CreateSpawn, Live
    <3> QED
      BY <1>0, <3>1
  <2>2. CASE ~ (threadsAvailable >= threadsMax)
    <3>1. PICK w \in Workers : wpc[w] = "none" /\ wpc' = [wpc EXCEPT ![w] = "loop"]
      BY <1>type, <1>3, <2>2 DEF CreateSpawn
    <3>2. Live' = Live \union {w} /\ w \notin Live
      BY <1>type, <3>1 DEF Live
    <3>3. threadsAvailable' = threadsAvailable + 1 /\ UNCHANGED spawnFailures
      BY <1>type, <1>3, <2>2 DEF CreateSpawn
    <3>4. Cardinality(Live') = Cardinality(Live) + 1
      BY <1>type, <3>2, FS_AddElement
    <3> QED
      BY <1>type, <2>2, <3>3, <3>4 DEF CountInv
  <2> QED
    BY <2>1, <2>2
<1>4. ASSUME NEW c \in Clients, CreateSpawnFails(c) PROVE CountInv'
  <2>1. Live' = Live
    BY <1>4 DEF CreateSpawnFails, Live
  <2>2. /\ threadsAvailable' = threadsAvailable + 1
        /\ spawnFailures' = spawnFailures + 1
        /\ threadsAvailable < threadsMax
    BY <1>4 DEF CreateSpawnFails
  <2> QED
    BY <1>type, <2>1, <2>2 DEF CountInv
<1>5. ASSUME NEW c \in Clients, CreateNotify(c) PROVE Kept
  BY <1>type, <1>5 DEF CreateNotify, NotifyOneWorker, BlockedWorkers, Live
<1>6. ASSUME NEW c \in Clients, ListProcessing(c) PROVE Kept
  BY <1>type, <1>6 DEF ListProcessing, Live
<1>7. ASSUME NEW c \in Clients, CancelEnter(c) PROVE Kept
  BY <1>type, <1>7 DEF CancelEnter, Live
<1>8. ASSUME NEW c \in Clients, CancelQueued(c) PROVE Kept
  BY <1>type, <1>8 DEF CancelQueued, Entries, Live
<1>9. ASSUME NEW c \in Clients, CancelNotQueued(c) PROVE Kept
  BY <1>type, <1>9 DEF CancelNotQueued, Entries, Live
<1>10. ASSUME NEW c \in Clients, CancelSignal(c) PROVE Kept
  BY <1>type, <1>10 DEF CancelSignal, Live
<1>11. ASSUME NEW c \in Clients, ListQueued(c) PROVE Kept
  BY <1>type, <1>11 DEF ListQueued, Entries, Live
<1>12. ASSUME NEW w \in Workers, LoopTest(w) PROVE Kept
  BY <1>type, <1>12 DEF LoopTest, WorkerOnly, Live
<1>13. ASSUME NEW w \in Workers, Peek(w) PROVE Kept
  BY <1>type, <1>13 DEF Peek, WorkerOnly, Live
<1>14. ASSUME NEW w \in Workers, FetchNothing(w) PROVE Kept
  BY <1>type, <1>14 DEF FetchNothing, WorkerOnly, Live
<1>15. ASSUME NEW w \in Workers, Fetch(w) PROVE Kept
  BY <1>type, <1>15 DEF Fetch, Live
<1>16. ASSUME NEW w \in Workers, InsertProcessing(w) PROVE Kept
  BY <1>type, <1>16 DEF InsertProcessing, Live
<1>17. ASSUME NEW w \in Workers, RunStarted(w) PROVE Kept
  BY <1>type, <1>17 DEF RunStarted, SetStatus, Live
<1>18. ASSUME NEW w \in Workers, ProcedureReturns(w) PROVE Kept
  BY <1>type, <1>18 DEF ProcedureReturns, SetStatus, Live
<1>19. ASSUME NEW w \in Workers, ProcedureThrows(w) PROVE Kept
  BY <1>type, <1>19 DEF ProcedureThrows, WorkerOnly, Live
<1>20. ASSUME NEW w \in Workers, RunCatches(w) PROVE Kept
  BY <1>type, <1>20 DEF RunCatches, SetStatus, Live
<1>21. ASSUME NEW w \in Workers, Detach(w) PROVE Kept
  BY <1>type, <1>21 DEF Detach, Live
<1>22. ASSUME NEW w \in Workers, EraseProcessing(w) PROVE Kept
  BY <1>type, <1>22 DEF EraseProcessing, Live
<1>23. ASSUME NEW w \in Workers, WaitTest(w) PROVE Kept
  BY <1>type, <1>23 DEF WaitTest, WorkerOnly, WaitPredicate, Live
<1>24. ASSUME NEW w \in Workers, Sleep(w) PROVE Kept
  BY <1>type, <1>24 DEF Sleep, Live
<1>25. ASSUME NEW w \in Workers, TimeoutTest(w) PROVE Kept
  BY <1>type, <1>25 DEF TimeoutTest, WorkerOnly, WaitPredicate, Live
<1>26. ASSUME NEW w \in Workers, Exit(w) PROVE CountInv'
  <2>1. Live' = Live \ {w} /\ w \in Live
    BY <1>type, <1>26 DEF Exit, Live
  <2>2. threadsAvailable' = threadsAvailable - 1 /\ UNCHANGED spawnFailures
    BY <1>26 DEF Exit
  <2>3. Cardinality(Live') = Cardinality(Live) - 1
    BY <1>type, <2>1, FS_RemoveElement
  <2> QED
    BY <1>type, <2>2, <2>3 DEF CountInv
<1>27. ASSUME NEW w \in Workers, ExitNotify(w) PROVE Kept
  BY <1>type, <1>27 DEF ExitNotify, Live
<1>28. ASSUME NEW w \in Workers, SpuriousWakeup(w) PROVE Kept
  BY <1>type, <1>28 DEF SpuriousWakeup, WorkerOnly, Live
<1>29. ASSUME NEW w \in Workers, Timeout(w) PROVE Kept
  BY <1>type, <1>29 DEF Timeout, WorkerOnly, Live
<1>30. ASSUME DestroyBegin PROVE Kept
  BY <1>type, <1>30 DEF DestroyBegin, Live
<1>31. ASSUME DestroyExchange PROVE Kept
  BY <1>type, <1>31 DEF DestroyExchange, OwnerOnly, Live
<1>32. ASSUME DestroyDetach PROVE Kept
  BY <1>type, <1>32 DEF DestroyDetach, Live
<1>33. ASSUME DestroyClear PROVE Kept
  BY <1>type, <1>33 DEF DestroyClear, Live
<1>34. ASSUME DestroyNotifyAll PROVE Kept
  BY <1>type, <1>34 DEF DestroyNotifyAll, NotifyAllWorkers, Live
<1>35. ASSUME DestroyJoin PROVE Kept
  BY <1>type, <1>35 DEF DestroyJoin, OwnerOnly, Live
<1>36. ASSUME DestroySpuriousWakeup PROVE Kept
  BY <1>type, <1>36 DEF DestroySpuriousWakeup, OwnerOnly, Live
<1>37. ASSUME Ended PROVE Kept
  BY <1>type, <1>37 DEF Ended, vars, Live
<1> HIDE DEF Kept
<1> QED
  BY <1>0, <1>1, <1>2, <1>3, <1>4, <1>5, <1>6, <1>7, <1>8, <1>9, <1>10,
     <1>11, <1>12, <1>13, <1>14, <1>15, <1>16, <1>17, <1>18, <1>19, <1>20,
     <1>21, <1>22, <1>23, <1>24, <1>25, <1>26, <1>27, <1>28, <1>29, <1>30,
     <1>31, <1>32, <1>33, <1>34, <1>35, <1>36, <1>37 DEF Next, ClientCall,
     ClientStep, WorkerStep, DestroyStep

-----------------------------------------------------------------------------
(* The theorems.                                                           *)

\* The invariant holds of a new factory.
LEMMA InductiveInit == Init => IInv
<1> SUFFICES ASSUME Init PROVE IInv
  OBVIOUS
<1>1. Live = {}
  BY DEF Init, Live
<1>2. CountInv
  BY <1>1, FS_EmptySet, MaxThreadsAssumption DEF Init, CountInv
<1>3. BaseInv
  BY ActorsAssumption, BoundsAssumption, MaxThreadsAssumption
     DEF Init, BaseInv, TypeOK, MutexInv, BusyInv, ClosingInv, Closing,
         Holding, Draining, Status, WorkerPCs, ClientPCs, OwnerPCs
<1>4. AttachedInv /\ PlaceInv /\ StatusInv
  BY DEF Init, AttachedInv, PlaceInv, QueuedOnce, NotInHand, HeldOnce, ProcessingSet,
         StatusInv, QueueStatus, HandStatus, WaitingPlace, RunningPlace, Holding
<1> QED
  BY <1>2, <1>3, <1>4 DEF IInv

\* Every step keeps the invariant.
LEMMA InductiveStep == IInv /\ [Next]_vars => IInv'
<1> SUFFICES ASSUME IInv, [Next]_vars PROVE IInv'
  OBVIOUS
<1>1. CASE Next
  BY <1>1, BaseStep, AttachedStep, CountStep, PlaceStep, StatusStep DEF IInv
<1>2. CASE UNCHANGED vars
  BY <1>2
     DEF vars, queueVars, threadVars, taskVars, workerVars, clientVars,
         ownerVars, IInv, BaseInv, TypeOK, MutexInv, BusyInv, ClosingInv,
         AttachedInv, QueuedFor, HeldFor, RelockingFor, CountInv, Live,
         PlaceInv, QueuedOnce, NotInHand, HeldOnce, ProcessingSet, StatusInv, QueueStatus,
         HandStatus, WaitingPlace, RunningPlace, Marked
<1> QED
  BY <1>1, <1>2

\* The invariant holds in every reachable state.
LEMMA Inductive == Spec => []IInv
<1> QED
  BY InductiveInit, InductiveStep, PTL DEF Spec

\* Every variable keeps its type; in particular threadsAvailable, an unsigned
\* int, is never decremented below zero by ~TaskThread.
THEOREM TypeCorrect == Spec => []TypeOK
<1>1. IInv => TypeOK
  BY DEF IInv, BaseInv
<1> QED
  BY <1>1, Inductive, PTL

\* cancel() is safe against ~TaskFactory: when the destructor has returned no
\* binding points to the factory and no cancel() still works on it.
THEOREM FactoryNotDangling == Spec => []NoDanglingFactory
<1>1. ASSUME IInv, owner = "destroyed"
      PROVE  attached = {} /\ \A c \in Clients : cpc[c] \in {"idle", "cancel"}
  <2>1. Live = {}
    BY <1>1, LiveFinite, FS_EmptySet, BoundsAssumption
       DEF IInv, CountInv, ClosingInv, BaseInv, TypeOK
  <2>2. queue = <<>>
    BY <1>1 DEF IInv, BaseInv, ClosingInv, Draining
  <2>3. \A c \in Clients : cpc[c] \in {"idle", "cancel", "search", "signal"}
    BY <1>1 DEF IInv, BaseInv, ClosingInv
  <2>4. attached = {}
    <3>1. \A t \in attached : ~QueuedFor(t)
      BY <2>2 DEF QueuedFor
    <3>2. \A t \in attached : ~HeldFor(t)
      BY <2>1 DEF HeldFor, Live, Holding
    <3>3. \A t \in attached : ~RelockingFor(t)
      BY <2>3 DEF RelockingFor
    <3> QED
      BY <1>1, <3>1, <3>2, <3>3 DEF IInv, AttachedInv
  <2> QED
    BY <1>1, <2>3, <2>4 DEF IInv, AttachedInv
<1>2. IInv => NoDanglingFactory
  BY <1>1 DEF NoDanglingFactory
<1> QED
  BY <1>2, Inductive, PTL

\* threadsAvailable counts the running threads (and those that failed to
\* start) and never exceeds "max-threads".
THEOREM CountCorrect == Spec => []ThreadCount
<1>1. IInv => ThreadCount
  BY DEF IInv, CountInv, ThreadCount
<1> QED
  BY <1>1, Inductive, PTL

\* A task is in one place, by the invariant.
LEMMA PlacesFollow == ASSUME IInv PROVE OnePlace
<1>1. queue \in Seq(Tasks) /\ threadsProcessing \subseteq Tasks
      /\ \A w \in Workers : wpc[w] \in Holding => hand[w] \in Tasks
  BY DEF IInv, BaseInv, TypeOK, BusyInv
<1>2. QueuedOnce /\ NotInHand /\ HeldOnce /\ ProcessingSet
  BY DEF IInv, PlaceInv
<1>3. WaitingPlace /\ RunningPlace
  BY DEF IInv, StatusInv
<1>4. \A i, j \in DOMAIN queue : queue[i] = queue[j] => i = j
  BY <1>1, <1>2 DEF QueuedOnce
<1>5. \A w \in Workers : wpc[w] \in Holding => hand[w] \notin Entries(queue)
  BY <1>1, <1>2 DEF NotInHand, Entries
<1>6. threadsProcessing =
         {hand[w] : w \in {v \in Workers : wpc[v] \in Holding \ {"insert"}}}
  BY <1>1, <1>2 DEF ProcessingSet
<1>7. ASSUME NEW t \in Tasks, status[t] \in {"waiting", "running"}
      PROVE  t \in Entries(queue) \union InTransit \union threadsProcessing
  <2>1. CASE status[t] = "waiting"
    <3>1. CASE \E i \in 1..Len(queue) : queue[i] = t
      BY <1>1, <3>1 DEF Entries
    <3>2. CASE \E w \in Workers : hand[w] = t /\ wpc[w] \in {"insert", "run"}
      BY <1>6, <3>2 DEF InTransit, Holding
    <3> QED
      BY <1>3, <2>1, <3>1, <3>2 DEF WaitingPlace
  <2>2. CASE status[t] = "running"
    BY <1>3, <1>6, <2>2 DEF RunningPlace, Holding
  <2> QED
    BY <1>7, <2>1, <2>2
<1> QED
  BY <1>2, <1>4, <1>5, <1>6, <1>7 DEF OnePlace, HeldOnce

\* An unfinished task is in exactly one place: queue, popping thread or
\* threadsProcessing, and one thread at most works on it.
THEOREM TaskInOnePlace == Spec => []OnePlace
<1>1. IInv => OnePlace
  BY PlacesFollow
<1> QED
  BY <1>1, Inductive, PTL

\* While a procedure works on its context the status is "running", so that
\* getContext() does not hand the context out.
THEOREM ContextExclusive == Spec => []ContextNotShared
<1>1. IInv => ContextNotShared
  BY DEF IInv, StatusInv, HandStatus, ContextNotShared
<1> QED
  BY <1>1, Inductive, PTL

\* The instance brings its own copy of the library's definition.
LEMMA SameCardinality == \A S : Lifecycle!Cardinality(S) = Cardinality(S)
  BY DEF Cardinality, Lifecycle!Cardinality

\* Before another task starts there is room for it below "max-threads".
LEMMA RoomToStart ==
  ASSUME IInv, NEW w \in Workers, wpc[w] = "run"
  PROVE  /\ IsFiniteSet(Lifecycle!RunningTasks)
         /\ Cardinality(Lifecycle!RunningTasks) < MaxThreads
<1> DEFINE Busy == {v \in Workers : /\ wpc[v] \in {"procedure", "catch"}
                                    /\ status[hand[v]] = "running"}
           work == [v \in Busy |-> hand[v]]
<1>1. w \in Live
  BY DEF Live
<1>2. /\ IsFiniteSet(Live \ {w})
      /\ Cardinality(Live \ {w}) = Cardinality(Live) - 1
  BY <1>1, LiveFinite, FS_RemoveElement
<1>3. Busy \in SUBSET (Live \ {w})
  BY DEF Live
<1>4. IsFiniteSet(Busy) /\ Cardinality(Busy) <= Cardinality(Live) - 1
      /\ Cardinality(Busy) \in Nat
  BY <1>2, <1>3, FS_Subset, FS_CardinalityType
<1>5. work \in Surjection(Busy, Lifecycle!RunningTasks)
  <2>1. \A v \in Busy : hand[v] \in Lifecycle!RunningTasks
    BY DEF IInv, BaseInv, BusyInv, Holding, Lifecycle!RunningTasks
  <2>2. \A t \in Lifecycle!RunningTasks : \E v \in Busy : work[v] = t
    BY DEF IInv, StatusInv, RunningPlace, Lifecycle!RunningTasks
  <2> QED
    BY <2>1, <2>2 DEF Surjection
<1> HIDE DEF Busy, work
<1>6. /\ IsFiniteSet(Lifecycle!RunningTasks)
      /\ Cardinality(Lifecycle!RunningTasks) <= Cardinality(Busy)
      /\ Cardinality(Lifecycle!RunningTasks) \in Nat
  BY <1>4, <1>5, FS_Surjection, FS_CardinalityType
<1> QED
  BY <1>4, <1>6, LiveFinite, BoundsAssumption, MaxThreadsAssumption
     DEF IInv, CountInv, BaseInv, TypeOK

\* No status change, and the destructor stays in its phase.
LEMMA StutterStep ==
  ASSUME UNCHANGED <<status, owner>> PROVE UNCHANGED <<status, Phase>>
BY DEF Phase

\* Every step of the factory is a step of the life cycle or invisible.
LEMMA LifecycleStep ==
  ASSUME IInv, Next PROVE Lifecycle!Next \/ UNCHANGED <<status, Phase>>
<1> DEFINE Abstract == Lifecycle!Next \/ UNCHANGED <<status, Phase>>
<1>type. /\ status \in [Tasks -> Status] /\ queue \in Seq(Tasks)
         /\ \A w \in Workers : wpc[w] \in Holding => hand[w] \in Tasks
         /\ owner = "destroyed" => Live = {}
  BY LiveFinite, FS_EmptySet, BoundsAssumption
     DEF IInv, BaseInv, TypeOK, BusyInv, ClosingInv, CountInv
<1>hand. HandStatus
  BY DEF IInv, StatusInv
<1>alive. ASSUME NEW w \in Workers, wpc[w] \in Holding
          PROVE  Phase # "gone" /\ (UNCHANGED owner => UNCHANGED Phase)
  BY <1>type, <1>alive DEF Holding, Live, Phase
<1>move. ASSUME NEW t \in Tasks, NEW old, NEW new, Phase # "gone",
                UNCHANGED Phase, status[t] = old,
                status' = [status EXCEPT ![t] = new],
                \/ old = "waiting" /\ new = "canceled"
                \/ old = "running" /\ new \in {"done", "exception"}
                \/ old = "done" /\ new = "exception"
         PROVE  Abstract
  BY <1>move DEF Lifecycle!Next, Lifecycle!Withdraw, Lifecycle!Complete,
                 Lifecycle!Overrule, Lifecycle!Move
<1>1. ASSUME NEW c \in Clients, NEW t \in Tasks, CreateEnqueue(c, t) PROVE Abstract
  <2>1. /\ Phase = "open" /\ UNCHANGED Phase
        /\ status[t] = "none" /\ status' = [status EXCEPT ![t] = "waiting"]
    BY <1>1 DEF CreateEnqueue, ownerVars, Phase
  <2> QED
    BY <2>1 DEF Lifecycle!Next, Lifecycle!Submit, Lifecycle!Move
<1>2. ASSUME NEW c \in Clients, CancelQueued(c) PROVE Abstract
  <2>1. PICK i \in 1..Len(queue) : queue[i] = target[c]
    BY <1>2, EraseEffect
  <2>2. /\ target[c] \in Tasks /\ status[target[c]] = "waiting"
        /\ status' = [status EXCEPT ![target[c]] = "canceled"]
    BY <1>2, <1>type, <2>1, EraseEffect DEF IInv, StatusInv, QueueStatus, Marked
  <2>3. Phase # "gone" /\ UNCHANGED Phase
    BY <1>2, EraseEffect DEF IInv, BaseInv, ClosingInv, Draining, Phase
  <2> QED
    BY <1>move, <2>2, <2>3
<1>3. ASSUME NEW w \in Workers, RunStarted(w) PROVE Abstract
  <2>1. /\ hand[w] \in Tasks /\ status[hand[w]] = "waiting"
        /\ status' = [status EXCEPT ![hand[w]] = "running"]
        /\ Phase # "gone" /\ UNCHANGED Phase
    BY <1>3, <1>type, <1>hand, <1>alive
       DEF RunStarted, SetStatus, HandStatus, Holding, ownerVars
  <2>2. Cardinality(Lifecycle!RunningTasks) < MaxThreads
    BY <1>3, RoomToStart DEF RunStarted
  <2>3. Lifecycle!Start(hand[w])
    BY <2>1, <2>2, SameCardinality DEF Lifecycle!Start, Lifecycle!Move
  <2> QED
    BY <2>1, <2>3 DEF Lifecycle!Next
<1>4. ASSUME NEW w \in Workers, ProcedureReturns(w) PROVE Abstract
  <2>1. /\ hand[w] \in Tasks /\ status[hand[w]] = "running"
        /\ status' = [status EXCEPT ![hand[w]] = "done"]
        /\ Phase # "gone" /\ UNCHANGED Phase
    BY <1>4, <1>type, <1>hand, <1>alive
       DEF ProcedureReturns, SetStatus, HandStatus, Holding, ownerVars
  <2> QED
    BY <1>move, <2>1
<1>5. ASSUME NEW w \in Workers, RunCatches(w) PROVE Abstract
  <2>1. /\ hand[w] \in Tasks /\ status[hand[w]] \in {"running", "done"}
        /\ status' = [status EXCEPT ![hand[w]] = "exception"]
        /\ Phase # "gone" /\ UNCHANGED Phase
    BY <1>5, <1>type, <1>hand, <1>alive
       DEF RunCatches, SetStatus, HandStatus, Holding, ownerVars
  <2> QED
    BY <1>move, <2>1
<1>6. ASSUME DestroyBegin PROVE Abstract
  BY <1>6 DEF DestroyBegin, taskVars, Phase, Lifecycle!Next, Lifecycle!Close
<1>7. ASSUME DestroyExchange PROVE Abstract
  <2>1. CASE cursor > Len(queue)
    BY <1>7, <2>1 DEF DestroyExchange, OwnerOnly, taskVars, Phase
  <2>2. CASE ~ (cursor > Len(queue))
    <3>1. cursor \in 1..Len(queue) /\ queue[cursor] \in Tasks
      BY <1>type, <2>2 DEF IInv, BaseInv, TypeOK
    <3>2. status[queue[cursor]] = "waiting"
      BY <1>7, <3>1
         DEF DestroyExchange, IInv, StatusInv, QueueStatus, Marked, BaseInv, TypeOK
    <3>3. /\ status' = [status EXCEPT ![queue[cursor]] = "canceled"]
          /\ Phase # "gone" /\ UNCHANGED Phase
      BY <1>7, <2>2 DEF DestroyExchange, Phase
    <3> QED
      BY <1>move, <3>1, <3>2, <3>3
  <2> QED
    BY <2>1, <2>2
<1>8. ASSUME DestroyJoin PROVE Abstract
  <2>1. CASE threadsAvailable = 0
    <3>1. Phase = "closing" /\ Phase' = "gone" /\ UNCHANGED status
      BY <1>8, <2>1 DEF DestroyJoin, OwnerOnly, taskVars, Phase
    <3>2. Live = {} /\ queue = <<>>
      BY <1>8, <2>1, LiveFinite, FS_EmptySet, BoundsAssumption
         DEF DestroyJoin, IInv, BaseInv, TypeOK, CountInv, ClosingInv, Draining
    <3>3. \A t \in Tasks : status[t] \notin {"waiting", "running"}
      BY <3>2 DEF Live, IInv, StatusInv, WaitingPlace, RunningPlace
    <3> QED
      BY <1>type, <3>1, <3>3
         DEF Status, Lifecycle!Next, Lifecycle!Vanish, Lifecycle!Final
  <2>2. CASE threadsAvailable # 0
    BY <1>8, <2>2 DEF DestroyJoin, OwnerOnly, taskVars, Phase
  <2> QED
    BY <2>1, <2>2
<1>9. ASSUME DestroyDetach \/ DestroyClear \/ DestroyNotifyAll \/ DestroySpuriousWakeup PROVE Abstract
  BY <1>9 DEF DestroyDetach, DestroyClear, DestroyNotifyAll,
              DestroySpuriousWakeup, OwnerOnly, taskVars, Phase
<1>10. ASSUME NEW w \in Workers, ExitNotify(w) PROVE Abstract
  BY <1>10 DEF ExitNotify, taskVars, Phase
<1>11. ASSUME NEW c \in Clients,
              \/ CreateSpawn(c) \/ CreateSpawnFails(c) \/ CreateNotify(c)
              \/ ListQueued(c) \/ ListProcessing(c) \/ CancelEnter(c)
              \/ CancelNotQueued(c) \/ CancelSignal(c)
              \/ \E t \in Tasks : CancelCall(c, t)
       PROVE  Abstract
  <2>1. UNCHANGED <<status, owner>>
    BY <1>11 DEF CreateSpawn, CreateSpawnFails, CreateNotify, ListQueued,
                 ListProcessing, CancelEnter, CancelNotQueued, CancelSignal,
                 CancelCall, taskVars, ownerVars
  <2> QED
    BY <2>1, StutterStep
<1>12. ASSUME NEW w \in Workers,
              \/ LoopTest(w) \/ Peek(w) \/ FetchNothing(w) \/ ProcedureThrows(w)
              \/ TimeoutTest(w) \/ SpuriousWakeup(w) \/ Timeout(w)
       PROVE  Abstract
  <2>1. UNCHANGED <<status, owner>>
    BY <1>12 DEF LoopTest, Peek, FetchNothing, ProcedureThrows, TimeoutTest,
                 SpuriousWakeup, Timeout, WorkerOnly, taskVars, ownerVars
  <2> QED
    BY <2>1, StutterStep
<1>13. ASSUME NEW w \in Workers,
              \/ Fetch(w) \/ InsertProcessing(w) \/ Detach(w)
              \/ EraseProcessing(w) \/ WaitTest(w) \/ Sleep(w) \/ Exit(w)
       PROVE  Abstract
  <2>1. UNCHANGED <<status, owner>>
    BY <1>13 DEF Fetch, InsertProcessing, Detach, EraseProcessing, WaitTest,
                 Sleep, Exit, WorkerOnly, taskVars, ownerVars
  <2> QED
    BY <2>1, StutterStep
<1>14. ASSUME Ended PROVE Abstract
  BY <1>14, StutterStep DEF Ended, vars, taskVars, ownerVars
<1> HIDE DEF Abstract
<1>15. ASSUME NEW c \in Clients, ClientCall(c) \/ ClientStep(c) PROVE Abstract
  BY <1>1, <1>2, <1>11, <1>15 DEF ClientCall, ClientStep
<1>16. ASSUME NEW w \in Workers, WorkerStep(w) \/ SpuriousWakeup(w) \/ Timeout(w)
       PROVE  Abstract
  BY <1>3, <1>4, <1>5, <1>10, <1>12, <1>13, <1>16 DEF WorkerStep
<1>17. ASSUME DestroyBegin \/ DestroyStep \/ DestroySpuriousWakeup
       PROVE  Abstract
  BY <1>6, <1>7, <1>8, <1>9, <1>17 DEF DestroyStep
<1>18. Abstract
  BY <1>14, <1>15, <1>16, <1>17 DEF Next
<1> QED
  BY <1>18 DEF Abstract

\* The factory keeps the promise of TaskLifecycle: every task follows the
\* status life cycle, at most "max-threads" tasks run together, and a destroyed
\* factory leaves only finished tasks behind.
THEOREM RefinesLifecycle == Spec => LifecycleSpec
<1>1. Init => Lifecycle!Init
  BY DEF Init, Lifecycle!Init, Phase
<1>2. IInv /\ [Next]_vars => [Lifecycle!Next]_<<status, Phase>>
  <2>1. ASSUME UNCHANGED vars PROVE UNCHANGED <<status, Phase>>
    BY <2>1, StutterStep DEF vars, taskVars, ownerVars
  <2> QED
    BY <2>1, LifecycleStep
<1> QED
  BY <1>1, <1>2, Inductive, PTL
     DEF Spec, LifecycleSpec, Lifecycle!Spec, Lifecycle!lcVars

-----------------------------------------------------------------------------
(* The calls of clients while a factory works and while it is destroyed:    *)
(* what they may miss, whom they may block, and what is left when the       *)
(* destructor has returned.                                                 *)

\* cancel() is about a task that was created, and once it has looked in vain
\* for it in the queue it will not be there again; getTasks() holds queueMutex
\* from its first list to the second.
LookInv ==
    /\ \A c \in Clients : cpc[c] \in {"cancel", "search", "relock", "signal"}
                          => status[target[c]] # "none"
    /\ \A c \in Clients : cpc[c] = "signal" =>
                             \A i \in 1..Len(queue) : queue[i] # target[c]
    /\ \A c \in Clients : cpc[c] = "list" => listing[c] = Entries(queue)

\* No client has looked yet.
LEMMA LookInit == Init => LookInv
BY DEF Init, LookInv

\* The types that steps of clients need.
LEMMA QueueType ==
    ASSUME IInv
    PROVE  /\ queue \in Seq(Tasks) /\ Len(queue) \in Nat
           /\ status \in [Tasks -> Status]
           /\ cpc \in [Clients -> ClientPCs]
           /\ target \in [Clients -> Tasks \union {NoOne}]
           /\ listing \in [Clients -> SUBSET Tasks]
           /\ wpc \in [Workers -> WorkerPCs]
           /\ hand \in [Workers -> Tasks \union {NoOne}]
           /\ NoOne \notin Tasks
BY ActorsAssumption DEF IInv, BaseInv, TypeOK

\* A call of a client.
LEMMA LookClientStep ==
    ASSUME IInv, IInv', LookInv, NEW c \in Clients, ClientCall(c) \/ ClientStep(c)
    PROVE  LookInv'
<1> USE QueueType
<1>1. ASSUME NEW t \in Tasks, CreateEnqueue(c, t) PROVE LookInv'
  <2>1. queueMutex = NoOne /\ \A d \in Clients : cpc[d] # "list"
    BY <1>1, ActorsAssumption DEF CreateEnqueue, IInv, BaseInv, MutexInv
  <2>2. \A d \in Clients : cpc'[d] \in {"cancel", "search", "relock", "signal"} =>
           cpc[d] = cpc'[d] /\ target'[d] = target[d] /\ target[d] # t
    BY <1>1 DEF CreateEnqueue, LookInv
  <2>3. \A s \in Tasks : status[s] # "none" => status'[s] # "none"
    BY <1>1 DEF CreateEnqueue
  <2>4. \A i \in 1..Len(queue') :
           queue'[i] = t \/ (i \in 1..Len(queue) /\ queue'[i] = queue[i])
    BY <1>1, EnqueueEffect
  <2>5. \A d \in Clients : cpc'[d] # "list"
    BY <1>1, <2>1 DEF CreateEnqueue
  <2>6. \A d \in Clients : cpc'[d] \in {"cancel", "search", "relock", "signal"}
                           => target[d] \in Tasks
    BY <2>2 DEF IInv, BaseInv, BusyInv
  <2> QED
    BY <2>2, <2>3, <2>4, <2>5, <2>6 DEF LookInv
<1>2. ASSUME NEW t \in Tasks, CancelCall(c, t) PROVE LookInv'
  BY <1>2 DEF CancelCall, LookInv, queueVars, taskVars, Entries
<1>3. CASE ListQueued(c)
  BY <1>3 DEF ListQueued, LookInv, taskVars, Entries
<1>4. CASE CreateSpawn(c) \/ CreateSpawnFails(c) \/ CreateNotify(c) \/ ListProcessing(c)
  <2>1. /\ UNCHANGED <<queue, status, target>>
        /\ \A d \in Clients : cpc'[d] = cpc[d] \/ cpc'[d] \in {"idle", "notify"}
        /\ \A d \in Clients : cpc'[d] = "list" => listing'[d] = listing[d]
    BY <1>4 DEF CreateSpawn, CreateSpawnFails, CreateNotify, ListProcessing,
       queueVars, taskVars
  <2> QED
    BY <2>1 DEF LookInv, Entries
<1>5. CASE CancelEnter(c) \/ CancelSignal(c)
  <2>1. /\ UNCHANGED <<queue, status, target, listing>>
        /\ \A d \in Clients : \/ cpc'[d] = cpc[d] \/ cpc'[d] = "idle"
                              \/ cpc[d] = "cancel" /\ cpc'[d] = "search"
    BY <1>5 DEF CancelEnter, CancelSignal, queueVars
  <2> QED
    BY <2>1 DEF LookInv, Entries
<1>6. CASE CancelQueued(c)
  <2>1. \A d \in Clients : cpc[d] # "list"
    BY <1>6, ActorsAssumption DEF CancelQueued, IInv, BaseInv, MutexInv
  <2>2. /\ cpc' = [cpc EXCEPT ![c] = "relock"] /\ cpc[c] = "search"
        /\ status' = [status EXCEPT ![target[c]] = "canceled"]
        /\ UNCHANGED <<target, listing>>
        /\ Len(queue') = Len(queue) - 1
        /\ \E i \in 1..Len(queue) : ErasedAt(queue, queue', i)
    BY <1>6, EraseEffect
  <2>3. \A j \in 1..Len(queue') : \E i \in 1..Len(queue) : queue'[j] = queue[i]
    <3>1. PICK i \in 1..Len(queue) : ErasedAt(queue, queue', i)
      BY <2>2
    <3>2. Len(queue) \in Nat /\ Len(queue') \in Nat
      BY <1>6, EraseEffect
    <3> SUFFICES ASSUME NEW j \in 1..Len(queue')
                 PROVE  \E k \in 1..Len(queue) : queue'[j] = queue[k]
      OBVIOUS
    <3>3. j \in 1..Len(queue) /\ j + 1 \in 1..Len(queue)
      BY <2>2, <3>2
    <3>4. queue'[j] = queue[j] \/ queue'[j] = queue[j + 1]
      BY <3>1, <3>2 DEF ErasedAt
    <3> QED
      BY <3>3, <3>4, Zenon
  <2> QED
    BY <2>1, <2>2, <2>3 DEF LookInv
<1>7. CASE CancelNotQueued(c)
  <2>1. \A i \in 1..Len(queue) : queue[i] # target[c]
    BY <1>7 DEF CancelNotQueued, Entries
  <2> QED
    BY <1>7, <2>1 DEF CancelNotQueued, LookInv, queueVars, taskVars, Entries
<1> QED
  BY <1>1, <1>2, <1>3, <1>4, <1>5, <1>6, <1>7 DEF ClientCall, ClientStep

\* A step of a thread or of the destructor: entries only leave the queue, and
\* not while a getTasks() holds its mutex; a status never becomes "none" again.
LEMMA LookOtherStep ==
    ASSUME IInv, LookInv,
           UNCHANGED <<cpc, target, listing>>,
           \A t \in Tasks : status[t] # "none" => status'[t] # "none",
           \/ queue' = queue
           \/ /\ \A j \in 1..Len(queue') : \E i \in 1..Len(queue) : queue'[j] = queue[i]
              /\ \A d \in Clients : cpc[d] # "list"
    PROVE  LookInv'
<1>1. \A d \in Clients : cpc[d] \in {"cancel", "search", "relock", "signal"}
                         => target[d] \in Tasks
  BY DEF IInv, BaseInv, BusyInv
<1> QED
  BY <1>1 DEF LookInv, Entries

\* Every step keeps LookInv.
LEMMA LookStep == IInv /\ IInv' /\ LookInv /\ [Next]_vars => LookInv'
<1> SUFFICES ASSUME IInv, IInv', LookInv, [Next]_vars PROVE LookInv'
  OBVIOUS
<1> USE QueueType
<1>1. ASSUME NEW c \in Clients, ClientCall(c) \/ ClientStep(c) PROVE LookInv'
  BY <1>1, LookClientStep
<1>2. ASSUME NEW w \in Workers, Fetch(w) PROVE LookInv'
  <2>1. \A d \in Clients : cpc[d] # "list"
    BY <1>2, ActorsAssumption DEF Fetch, IInv, BaseInv, MutexInv
  <2>2. \A j \in 1..Len(queue') : j + 1 \in 1..Len(queue) /\ queue'[j] = queue[j + 1]
    BY <1>2, FetchEffect
  <2>3. UNCHANGED <<cpc, target, listing, status>>
    BY <1>2 DEF Fetch, clientVars, taskVars
  <2> QED
    BY <2>1, <2>2, <2>3, LookOtherStep
<1>3. ASSUME NEW w \in Workers,
             RunStarted(w) \/ ProcedureReturns(w) \/ RunCatches(w)
      PROVE  LookInv'
  <2>1. \A t \in Tasks : status[t] # "none" => status'[t] # "none"
    BY <1>3 DEF RunStarted, ProcedureReturns, RunCatches, SetStatus
  <2>2. UNCHANGED <<cpc, target, listing, queue>>
    BY <1>3 DEF RunStarted, ProcedureReturns, RunCatches, SetStatus, clientVars,
       queueVars
  <2> QED
    BY <2>1, <2>2, LookOtherStep
<1>4. ASSUME NEW w \in Workers,
             \/ LoopTest(w) \/ Peek(w) \/ FetchNothing(w) \/ InsertProcessing(w)
             \/ ProcedureThrows(w) \/ Detach(w) \/ EraseProcessing(w)
             \/ WaitTest(w) \/ Sleep(w) \/ TimeoutTest(w) \/ Exit(w)
             \/ ExitNotify(w) \/ SpuriousWakeup(w) \/ Timeout(w)
      PROVE  LookInv'
  <2>1. UNCHANGED <<cpc, target, listing, status, queue>>
    BY <1>4 DEF LoopTest, Peek, FetchNothing, InsertProcessing, ProcedureThrows,
       Detach, EraseProcessing, WaitTest, Sleep, TimeoutTest, Exit, ExitNotify,
       SpuriousWakeup, Timeout, WorkerOnly, clientVars, taskVars, queueVars
  <2> QED
    BY <2>1, LookOtherStep
<1>5. CASE DestroyExchange
  <2>1. \A t \in Tasks : status[t] # "none" => status'[t] # "none"
    BY <1>5 DEF DestroyExchange, OwnerOnly, taskVars
  <2>2. UNCHANGED <<cpc, target, listing, queue>>
    BY <1>5 DEF DestroyExchange, OwnerOnly, clientVars, queueVars
  <2> QED
    BY <2>1, <2>2, LookOtherStep
<1>6. CASE DestroyClear
  <2>1. \A d \in Clients : cpc[d] # "list"
    BY <1>6 DEF DestroyClear, IInv, BaseInv, ClosingInv
  <2>2. UNCHANGED <<cpc, target, listing, status>> /\ Len(queue') = 0
    BY <1>6 DEF DestroyClear, clientVars, taskVars
  <2> QED
    BY <2>1, <2>2, LookOtherStep
<1>7. CASE \/ DestroyBegin \/ DestroyDetach \/ DestroyNotifyAll \/ DestroyJoin
           \/ DestroySpuriousWakeup \/ UNCHANGED vars
  <2>1. UNCHANGED <<cpc, target, listing, status, queue>>
    BY <1>7 DEF DestroyBegin, DestroyDetach, DestroyNotifyAll, DestroyJoin,
       DestroySpuriousWakeup, OwnerOnly, vars, clientVars, taskVars, queueVars
  <2> QED
    BY <2>1, LookOtherStep
<1> QED
  BY <1>1, <1>2, <1>3, <1>4, <1>5, <1>6, <1>7 DEF Next, WorkerStep, DestroyStep, Ended

-----------------------------------------------------------------------------
\* cancel() of an unfinished task fails to find it, and getTasks() leaves it
\* out, only while a thread has it in hand between the two containers; and
\* getTasks() returns no task twice.
THEOREM OnlyTransitIsMissed == Spec => []MissedOnlyInTransit
<1>1. ASSUME IInv, LookInv, NEW c \in Clients, cpc[c] = "signal"
      PROVE  target[c] \in threadsProcessing \union InTransit
  <2> DEFINE t == target[c]
  <2>1. t \in attached /\ t \in Tasks
    BY <1>1 DEF IInv, BaseInv, AttachedInv, BusyInv
  <2>2. ~QueuedFor(t)
    BY <1>1 DEF LookInv, QueuedFor
  <2>3. ~RelockingFor(t)
    BY <1>1, <2>1 DEF IInv, BaseInv, MutexInv, RelockingFor
  <2>4. HeldFor(t)
    BY <1>1, <2>1, <2>2, <2>3 DEF IInv, AttachedInv
  <2>5. PICK w \in Workers : hand[w] = t /\ wpc[w] \in Holding \ {"erase"}
    BY <2>4 DEF HeldFor
  <2>6. CASE wpc[w] = "insert"
    BY <2>5, <2>6 DEF InTransit
  <2>7. CASE wpc[w] # "insert"
    BY <1>1, <2>1, <2>5, <2>7 DEF IInv, PlaceInv, ProcessingSet
  <2> QED
    BY <2>6, <2>7
<1>2. ASSUME IInv, LookInv, NEW c \in Clients, cpc[c] = "list"
      PROVE  /\ listing[c] \intersect threadsProcessing = {}
             /\ \A t \in Tasks : status[t] \in {"waiting", "running"} =>
                   t \in listing[c] \union threadsProcessing \union InTransit
  <2>1. listing[c] = Entries(queue) /\ OnePlace
    BY <1>2, PlacesFollow DEF LookInv
  <2>2. listing[c] \intersect threadsProcessing = {}
    BY <2>1 DEF OnePlace
  <2> QED
    BY <2>1, <2>2 DEF OnePlace
<1>3. IInv /\ LookInv => MissedOnlyInTransit
  BY <1>1, <1>2 DEF MissedOnlyInTransit
<1> QED
  BY <1>3, LookInit, LookStep, Inductive, PTL DEF Spec

\* When the destructor has returned, no thread works, nothing is queued and
\* nothing is being processed; a thread may only be about to notify.
THEOREM NothingLeft == Spec => []NoWorkAfterDestroy
<1>1. ASSUME IInv, owner = "destroyed"
      PROVE  /\ \A w \in Workers : wpc[w] \in {"none", "notify"}
             /\ queue = <<>> /\ threadsProcessing = {}
  <2>1. Live = {}
    BY <1>1, LiveFinite, FS_EmptySet, BoundsAssumption
       DEF IInv, CountInv, ClosingInv, BaseInv, TypeOK
  <2>2. \A w \in Workers : wpc[w] \in {"none", "notify"}
    BY <2>1 DEF Live
  <2>3. queue = <<>>
    BY <1>1 DEF IInv, BaseInv, ClosingInv, Draining
  <2>4. threadsProcessing = {}
    <3>1. \A w \in Workers : wpc[w] \notin Holding
      BY <2>2 DEF Holding
    <3> QED
      BY <1>1, <3>1 DEF IInv, PlaceInv, ProcessingSet, BaseInv, TypeOK
  <2> QED
    BY <2>2, <2>3, <2>4
<1>2. IInv => NoWorkAfterDestroy
  BY <1>1 DEF NoWorkAfterDestroy
<1> QED
  BY <1>2, Inductive, PTL

-----------------------------------------------------------------------------
(* Deadlocks.  S is a set of actors each of which waits for one of them.   *)

Circle(S) ==
    /\ S \in SUBSET (Clients \union Workers \union {Owner})
    /\ \A a \in S : \E b \in S : WaitsFor(a, b)

\* Whom an actor can wait for.  A client that lists or signals waits for nobody
\* and so is in no circle.
LEMMA Waiters ==
    ASSUME IInv, NEW S, Circle(S), NEW a \in S,
           \A c \in Clients : cpc[c] # "relock"
    PROVE  /\ a \in Clients => cpc[a] \in {"cancel", "search"}
           /\ a \in Clients /\ cpc[a] = "search" =>
                 Owner \in S /\ WaitsFor(a, Owner) /\ owner \in Closing
           /\ a \in Clients /\ cpc[a] = "cancel" =>
                 \E b \in S : b \in Clients /\ cpc[b] = "search"
           /\ a = Owner => \/ /\ owner = "detach"
                              /\ \E b \in S : /\ b \in Clients /\ WaitsFor(Owner, b)
                                              /\ cpc[b] = "search"
                           \/ /\ owner \in {"join", "blocked", "woken"}
                              /\ \E b \in S : b \in Workers
           /\ a \in Workers => \/ owner \in Closing /\ Owner \in S
                               \/ \E b \in S : b \in Clients /\ cpc[b] = "search"
<1> USE ActorsAssumption, ThreadsAssumption DEF IInv, BaseInv
\* Who holds a mutex that a member of S needs is itself a member that waits.
<1>1. ASSUME NEW b \in S, b \in Clients PROVE cpc[b] \in {"cancel", "search"}
  BY <1>1 DEF Circle, WaitsFor
<1>2. ASSUME NEW t \in Tasks, NEW b \in S, taskFactoryMutex[t] = b
      PROVE  b \in Clients /\ cpc[b] = "search"
  <2>1. b \in Clients
    BY <1>2 DEF TypeOK, Circle
  <2>2. cpc[b] \in {"search", "relock", "signal"}
    BY <1>2, <2>1 DEF MutexInv
  <2> QED
    BY <2>1, <2>2, <1>1
<1>3. ASSUME NEW b \in S, queueMutex = b PROVE b = Owner /\ owner \in Closing
  <2>1. b \in Clients \union {Owner}
    BY <1>3 DEF TypeOK, Circle
  <2>2. b \notin Clients
    BY <1>1, <1>3 DEF MutexInv
  <2> QED
    BY <1>3, <2>1, <2>2 DEF MutexInv
<1>4. PICK b \in S : WaitsFor(a, b)
  BY DEF Circle
<1>5. CASE a \in Clients
  <2>1. a # Owner /\ a \notin Workers
    BY <1>5
  <2>2. CASE cpc[a] = "cancel"
    <3>1. taskFactoryMutex[target[a]] = b /\ target[a] \in Tasks
      BY <1>4, <1>5, <2>1, <2>2 DEF WaitsFor, BusyInv
    <3> QED
      BY <3>1, <2>1, <2>2, <1>2, <1>5
  <2>3. CASE cpc[a] = "search"
    <3>1. queueMutex = b
      BY <1>4, <1>5, <2>1, <2>3 DEF WaitsFor
    <3> QED
      BY <3>1, <2>1, <2>3, <1>3, <1>4, <1>5
  <2> QED
    BY <1>1, <1>5, <2>2, <2>3
<1>6. CASE a = Owner
  <2>1. a \notin Clients /\ a \notin Workers
    BY <1>6
  <2>2. CASE owner = "detach"
    <3>1. taskFactoryMutex[queue[cursor]] = b
      BY <1>4, <2>1, <2>2 DEF WaitsFor
    <3>2. queue[cursor] \in Tasks
      BY <2>2 DEF ClosingInv, TypeOK
    <3> QED
      BY <3>1, <3>2, <2>1, <2>2, <1>2, <1>4, <1>6
  <2>3. CASE owner # "detach"
    <3>1. owner \in {"join", "blocked", "woken"} /\ b \in Live
      BY <1>4, <2>1, <2>3 DEF WaitsFor
    <3>2. b \in Workers
      BY <3>1 DEF Live
    <3> QED
      BY <3>1, <3>2, <2>1, <1>6
  <2> QED
    BY <2>2, <2>3
<1>7. CASE a \in Workers
  <2>1. a \notin Clients /\ a # Owner
    BY <1>7
  <2>2. CASE queueMutex = b
    BY <2>1, <2>2, <1>3
  <2>3. CASE wpc[a] = "detach" /\ taskFactoryMutex[hand[a]] = b
    <3>1. hand[a] \in Tasks
      BY <1>7, <2>3 DEF BusyInv, Holding
    <3> QED
      BY <3>1, <2>1, <2>3, <1>2
  <2> QED
    BY <1>4, <2>1, <2>2, <2>3 DEF WaitsFor
<1> QED
  BY <1>5, <1>6, <1>7 DEF Circle

\* Actors that wait for each other in a circle, however long, do so because of
\* one of the two deadlocks of cancel(): no other order of the locks and waits
\* of createTask, getTasks, the threads and the destructor can block.
THEOREM NoOtherDeadlock == Spec => []OnlyCancelDeadlocks
<1>1. ASSUME IInv, NEW S, Circle(S), S # {} PROVE CancelDeadlock
  <2>1. CASE \E c \in Clients : cpc[c] = "relock"
    BY <2>1 DEF CancelDeadlock, WaitsFor
  <2>2. CASE \A c \in Clients : cpc[c] # "relock"
    \* A client of S that searches waits for the destructor, and it for one of S.
    <3>1. ASSUME NEW b \in S, b \in Clients, cpc[b] = "search"
          PROVE  CancelDeadlock
      <4>1. Owner \in S /\ owner \in Closing
        BY <1>1, <2>2, <3>1, Waiters
      <4>2. PICK d \in S : d \in Clients /\ WaitsFor(Owner, d) /\ cpc[d] = "search"
        BY <1>1, <2>2, <4>1, Waiters DEF Closing
      <4>3. WaitsFor(d, Owner)
        BY <1>1, <2>2, <4>2, Waiters
      <4> QED
        BY <4>2, <4>3 DEF CancelDeadlock
    \* So does a destructor that holds the queue.
    <3>2. ASSUME Owner \in S, owner \in Closing PROVE CancelDeadlock
      BY <1>1, <2>2, <3>1, <3>2, Waiters DEF Closing
    <3>3. ASSUME NEW a \in S, a \in Workers PROVE CancelDeadlock
      BY <1>1, <2>2, <3>1, <3>2, <3>3, Waiters
    <3>4. ASSUME Owner \in S PROVE CancelDeadlock
      BY <1>1, <2>2, <3>1, <3>3, <3>4, Waiters
    <3>5. ASSUME NEW a \in S, a \in Clients PROVE CancelDeadlock
      BY <1>1, <2>2, <3>1, <3>5, Waiters
    <3> QED
      BY <1>1, <3>3, <3>4, <3>5 DEF Circle
  <2> QED
    BY <2>1, <2>2
<1>2. IInv => OnlyCancelDeadlocks
  BY <1>1 DEF OnlyCancelDeadlocks, Circle
<1> QED
  BY <1>2, Inductive, PTL
=============================================================================
