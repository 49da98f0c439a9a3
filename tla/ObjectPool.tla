----------------------------- MODULE ObjectPool -----------------------------
(***************************************************************************)
(* esl::utility::ObjectPool: objects are lent to client threads by get()   *)
(* and come back by the deleter of the unique_ptr; a thread of the pool,   *)
(* the timeout handler, destroys objects whose lifetime has elapsed.       *)
(*                                                                         *)
(* Every function holds objectsMutex from its first to its last statement  *)
(* and gives it up only while it waits for a condition variable, so that   *)
(* each stretch between two waits is one step and the mutex itself needs   *)
(* no variable.  Of time a model needs only which lifetimes have elapsed,  *)
(* of the list only what is in it: Strategy::fifo or lifo picks one.       *)
(* Calls into a pool that has been destroyed are undefined and are no      *)
(* steps; which calls can still be under way then is a question the        *)
(* properties ask.                                                         *)
(***************************************************************************)
EXTENDS Naturals, FiniteSets

CONSTANTS
    Objects,            \* identities; a destroyed object frees its own
    Clients,            \* threads that call get()
    NoObject,           \* a client that holds nothing
    ObjectsMax,         \* objectsMax, 0: no limit
    ResetLifetimeOnGet, \* resetLifetimeOnGet
    MaxCreateFailures   \* how often createObject may throw or return nullptr

ASSUME ObjectsMaxAssumption == ObjectsMax \in Nat
ASSUME ClientsAssumption    == IsFiniteSet(Clients)
ASSUME NoObjectAssumption   == NoObject \notin Objects
ASSUME PoolAssumption       ==
    /\ ResetLifetimeOnGet \in BOOLEAN
    /\ MaxCreateFailures \in Nat

VARIABLES
    objects,            \* contents of the list ObjectPool::objects
    objectsCirculating, \* ObjectPool::objectsCirculating
    expired,            \* objects whose timePointBegin + objectLifetime is over
    held,               \* [Clients -> object in the client's unique_ptr]
    gpc,                \* [Clients -> where its get() is]
    handler,            \* where timeoutHandler() is, "none": no such thread
    pool,               \* where the destructor is
    createFailures      \* calls of createObject that brought no object

clientVars == <<held, gpc>>
vars == <<objects, objectsCirculating, expired, held, gpc, handler, pool,
          createFailures>>

(* "waiting": timeout 0, "waitingFor": timeout > 0; a woken thread has to  *)
(* obtain the mutex and evaluate checkGetObject() again.                   *)
GetPCs     == {"idle", "waiting", "waitingFor", "woken", "wokenFor", "elapsed"}
HandlerPCs == {"none", "start", "waiting", "waitingFor", "woken", "ended"}
PoolPCs    == {"alive", "notify", "join", "destroyed"}

DescructorCalled == pool # "alive"

\* objectLifetime is not 0, which makes the constructor start the thread.
HasLifetime == handler # "none"

Holders == {c \in Clients : held[c] # NoObject}
Unused  == Objects \ (objects \union {held[c] : c \in Clients})

Init ==
    /\ objects = {}
    /\ objectsCirculating = 0
    /\ expired = {}
    /\ held = [c \in Clients |-> NoObject]
    /\ gpc = [c \in Clients |-> "idle"]
    /\ handler \in {"none", "start"}
    /\ pool = "alive"
    /\ createFailures = 0

-----------------------------------------------------------------------------
Waiting == {c \in Clients : gpc[c] \in {"waiting", "waitingFor"}}
Woken   == {c \in Clients : gpc[c] \in {"woken", "wokenFor", "elapsed"}}

Wake(pc) == IF pc = "waiting" THEN "woken"
            ELSE IF pc = "waitingFor" THEN "wokenFor" ELSE pc

NotifyAllGetters == gpc' = [c \in Clients |-> Wake(gpc[c])]

\* notify_one of the timeout handler: it is the only one that waits.
HandlerNotified == IF handler \in {"waiting", "waitingFor"} THEN "woken"
                   ELSE handler

-----------------------------------------------------------------------------
(* get()                                                                   *)

CheckGetObject ==
    DescructorCalled \/ ObjectsMax = 0 \/ ObjectsMax > objectsCirculating

\* Ways in which get() goes on when it need not wait (any longer).

LeaveEmpty(c) ==
    /\ gpc' = [gpc EXCEPT ![c] = "idle"]
    /\ UNCHANGED <<objects, objectsCirculating, expired, held, handler, pool,
                   createFailures>>

CreateNew(c) ==
    /\ objects = {}
    /\ objectsCirculating' = objectsCirculating + 1
    /\ \E o \in Unused :
          /\ held' = [held EXCEPT ![c] = o]
          /\ expired' = expired \ {o}
    /\ gpc' = [gpc EXCEPT ![c] = "idle"]
    /\ UNCHANGED <<objects, handler, pool, createFailures>>

\* createObject() throws, or returns nullptr, for which no deleter is called:
\* the increment is not taken back.
CreateFails(c) ==
    /\ objects = {}
    /\ createFailures < MaxCreateFailures
    /\ createFailures' = createFailures + 1
    /\ objectsCirculating' = objectsCirculating + 1
    /\ gpc' = [gpc EXCEPT ![c] = "idle"]
    /\ UNCHANGED <<objects, expired, held, handler, pool>>

\* An object whose lifetime is over but that is still there is taken as well.
TakeExisting(c) ==
    /\ objects # {}
    /\ objectsCirculating' = objectsCirculating + 1
    /\ \E o \in objects :
          /\ held' = [held EXCEPT ![c] = o]
          /\ objects' = objects \ {o}
          /\ expired' = IF ResetLifetimeOnGet THEN expired \ {o} ELSE expired
    /\ gpc' = [gpc EXCEPT ![c] = "idle"]
    /\ UNCHANGED <<handler, pool, createFailures>>

\* Mutant: a getter woken by the destructor still gets an object.
ProceedAnyway(c) == CreateNew(c) \/ CreateFails(c) \/ TakeExisting(c)

Proceed(c) ==
    \/ DescructorCalled /\ LeaveEmpty(c)
    \/ ~DescructorCalled /\ (CreateNew(c) \/ CreateFails(c) \/ TakeExisting(c))

Block(c, pc) ==
    /\ gpc' = [gpc EXCEPT ![c] = pc]
    /\ UNCHANGED <<objects, objectsCirculating, expired, held, handler, pool,
                   createFailures>>

\* A client borrows one object at a time.
Get(c) ==
    /\ gpc[c] = "idle" /\ held[c] = NoObject /\ pool = "alive"
    /\ \/ CheckGetObject /\ Proceed(c)
       \/ ~CheckGetObject /\ \E pc \in {"waiting", "waitingFor"} : Block(c, pc)

\* Mutant: a thread woken in vain waits again without its time limit.
GetWokenUnlimited(c) ==
    /\ gpc[c] \in {"woken", "wokenFor"} /\ pool # "destroyed"
    /\ \/ CheckGetObject /\ Proceed(c)
       \/ ~CheckGetObject /\ Block(c, "waiting")

GetWoken(c) ==
    /\ gpc[c] \in {"woken", "wokenFor"} /\ pool # "destroyed"
    /\ \/ CheckGetObject /\ Proceed(c)
       \/ /\ ~CheckGetObject
          /\ Block(c, IF gpc[c] = "woken" THEN "waiting" ELSE "waitingFor")

\* wait_for evaluates its predicate once more after the time is over.
GetElapsed(c) ==
    /\ gpc[c] = "elapsed" /\ pool # "destroyed"
    /\ \/ CheckGetObject /\ Proceed(c)
       \/ ~CheckGetObject /\ LeaveEmpty(c)

\* Also a thread that was notified may find its time to be over.
GetTimeout(c) ==
    /\ gpc[c] \in {"waitingFor", "wokenFor"} /\ pool # "destroyed"
    /\ Block(c, "elapsed")

GetSpuriousWakeup(c) ==
    /\ c \in Waiting /\ pool # "destroyed"
    /\ Block(c, Wake(gpc[c]))

-----------------------------------------------------------------------------
(* release(), called by the deleter                                        *)

Pooled(c) == ~DescructorCalled /\ held[c] \notin expired

\* Mutant: release() notifies the getters only when it keeps the object.
ReleaseSilent(c) ==
    /\ held[c] # NoObject /\ pool # "destroyed"
    /\ objects' = IF Pooled(c) THEN objects \union {held[c]} ELSE objects
    /\ objectsCirculating' = objectsCirculating - 1
    /\ held' = [held EXCEPT ![c] = NoObject]
    /\ IF Waiting = {} \/ ~Pooled(c)
       THEN UNCHANGED gpc
       ELSE \E d \in Waiting : gpc' = [gpc EXCEPT ![d] = Wake(gpc[d])]
    /\ handler' = HandlerNotified
    /\ UNCHANGED <<expired, pool, createFailures>>

\* Mutant: release() forgets to wake the timeout handler.
ReleaseNoHandler(c) ==
    /\ held[c] # NoObject /\ pool # "destroyed"
    /\ objects' = IF Pooled(c) THEN objects \union {held[c]} ELSE objects
    /\ objectsCirculating' = objectsCirculating - 1
    /\ held' = [held EXCEPT ![c] = NoObject]
    /\ IF Waiting = {}
       THEN UNCHANGED gpc
       ELSE \E d \in Waiting : gpc' = [gpc EXCEPT ![d] = Wake(gpc[d])]
    /\ UNCHANGED <<handler, expired, pool, createFailures>>

\* The object goes back to the list or is destroyed; one getter and
\* the timeout handler are notified.  (With resetLifetimeOnRelease a lifetime
\* that is not over starts again, which makes no difference here.)
Release(c) ==
    /\ held[c] # NoObject /\ pool # "destroyed"
    /\ objects' = IF Pooled(c) THEN objects \union {held[c]} ELSE objects
    /\ objectsCirculating' = objectsCirculating - 1
    /\ held' = [held EXCEPT ![c] = NoObject]
    /\ IF Waiting = {}
       THEN UNCHANGED gpc
       ELSE \E d \in Waiting : gpc' = [gpc EXCEPT ![d] = Wake(gpc[d])]
    /\ handler' = HandlerNotified
    /\ UNCHANGED <<expired, pool, createFailures>>

-----------------------------------------------------------------------------
(* timeoutHandler()                                                        *)

\* The loop test and the wait: with a time limit when there is an object whose
\* lifetime is not over, without one otherwise.
WaitAgain(list) ==
    handler' = IF DescructorCalled /\ objectsCirculating = 0 THEN "ended"
               ELSE IF list \subseteq expired THEN "waiting" ELSE "waitingFor"

HandlerStart ==
    /\ handler = "start"
    /\ WaitAgain(objects)
    /\ UNCHANGED <<objects, objectsCirculating, expired, held, gpc, pool,
                   createFailures>>

\* After a wait: destroy what is over (everything once the destructor has been
\* called) without calling release(), wake all getters, and wait again.
HandlerRound ==
    /\ handler = "woken"
    /\ objects' = IF DescructorCalled THEN {} ELSE objects \ expired
    /\ NotifyAllGetters
    /\ WaitAgain(objects')
    /\ UNCHANGED <<objectsCirculating, expired, held, pool, createFailures>>

HandlerTimeout ==
    /\ handler = "waitingFor"
    /\ handler' = "woken"
    /\ UNCHANGED <<objects, objectsCirculating, expired, held, gpc, pool,
                   createFailures>>

HandlerSpuriousWakeup ==
    /\ handler = "waiting"
    /\ handler' = "woken"
    /\ UNCHANGED <<objects, objectsCirculating, expired, held, gpc, pool,
                   createFailures>>

Expire(o) ==
    /\ HasLifetime
    /\ o \in (Objects \ Unused) \ expired
    /\ expired' = expired \union {o}
    /\ UNCHANGED <<objects, objectsCirculating, held, gpc, handler, pool,
                   createFailures>>

-----------------------------------------------------------------------------
(* ~ObjectPool                                                             *)

DestroyBegin ==
    /\ pool = "alive"
    /\ pool' = "notify"
    /\ UNCHANGED <<objects, objectsCirculating, expired, held, gpc, handler,
                   createFailures>>

\* Mutant: the destructor joins the handler without waking it.
DestroySilent ==
    /\ pool = "notify"
    /\ pool' = "join"
    /\ UNCHANGED <<handler, gpc, objects, objectsCirculating, expired, held,
                   createFailures>>

DestroyNotify ==
    /\ pool = "notify"
    /\ pool' = "join"
    /\ \/ HasLifetime /\ handler' = HandlerNotified /\ UNCHANGED gpc
       \/ ~HasLifetime /\ NotifyAllGetters /\ UNCHANGED handler
    /\ UNCHANGED <<objects, objectsCirculating, expired, held, createFailures>>

\* The thread is joined if there is one, then the members are destroyed.
DestroyJoin ==
    /\ pool = "join"
    /\ handler \in {"none", "ended"}
    /\ pool' = "destroyed"
    /\ objects' = {}
    /\ UNCHANGED <<objectsCirculating, expired, held, gpc, handler,
                   createFailures>>

-----------------------------------------------------------------------------
GetStep(c) == GetWoken(c) \/ GetElapsed(c)

HandlerStep == HandlerStart \/ HandlerRound

DestroyStep == DestroyNotify \/ DestroyJoin

Ended == pool = "destroyed" /\ UNCHANGED vars

Next ==
    \/ \E c \in Clients : \/ Get(c) \/ GetStep(c) \/ Release(c)
                          \/ GetTimeout(c) \/ GetSpuriousWakeup(c)
    \/ \E o \in Objects : Expire(o)
    \/ HandlerStep \/ HandlerTimeout \/ HandlerSpuriousWakeup
    \/ DestroyBegin \/ DestroyStep
    \/ Ended

Spec == Init /\ [][Next]_vars

(* Every thread that is able to run does so, waits with a time limit end   *)
(* (the limit of get() is a point in time, so that being woken before it   *)
(* does not put it off), lifetimes elapse, and borrowers give objects back.*)
Fairness ==
    /\ \A c \in Clients : /\ WF_vars(GetStep(c)) /\ SF_vars(GetTimeout(c))
                          /\ WF_vars(Release(c))
    /\ WF_vars(HandlerStep) /\ WF_vars(HandlerTimeout)
    /\ WF_vars(DestroyStep)
    /\ \A o \in Objects : WF_vars(Expire(o))

FairSpec == Spec /\ Fairness

-----------------------------------------------------------------------------
TypeOK ==
    /\ objects \subseteq Objects
    /\ objectsCirculating \in Nat
    /\ expired \subseteq Objects
    /\ held \in [Clients -> Objects \union {NoObject}]
    /\ gpc \in [Clients -> GetPCs]
    /\ handler \in HandlerPCs
    /\ pool \in PoolPCs
    /\ createFailures \in 0..MaxCreateFailures

\* The counter is exact: borrowed objects and the places lost to a
\* createObject that failed; it is what the limit, the waiting getters and
\* the end of the timeout handler depend on.
CirculatingExact ==
    objectsCirculating = Cardinality(Holders) + createFailures

\* Lent objects and pooled ones together never exceed the limit.
WithinLimit ==
    ObjectsMax > 0 => objectsCirculating + Cardinality(objects) <= ObjectsMax

\* release() wakes one getter only: as long as getters are blocked, for every
\* free place there is a woken getter on its way to it.
NoLostWakeup ==
    Waiting # {} /\ ~DescructorCalled =>
        ObjectsMax - objectsCirculating <= Cardinality(Woken)

\* An object is in the list or with one borrower, never both, nor with two.
LentOnce ==
    /\ \A c \in Holders : held[c] \notin objects
    /\ \A c, d \in Holders : held[c] = held[d] => c = d

\* With a lifetime the destructor waits, through the timeout handler, until
\* every borrowed object has come back; no deleter meets a destroyed pool.
BorrowersOutlived ==
    HasLifetime /\ pool = "destroyed" => Holders = {}

\* Without a lifetime the destructor itself wakes the getters: none of them
\* is blocked any more, or blocks again, when it goes on.
NoGetterForgotten ==
    ~HasLifetime /\ pool \in {"join", "destroyed"} => Waiting = {}

(* The refinement mapping: the pool is closing from the first to the last  *)
(* step of the destructor.  A pool without lifetime does not wait for its  *)
(* borrowers: all it keeps is what is promised for the time of closing.    *)
Phase == IF pool = "alive" THEN "open"
         ELSE IF pool = "destroyed" /\ HasLifetime THEN "gone" ELSE "closing"
Lending == INSTANCE ObjectLending WITH idle <- objects, lent <- held,
                                       phase <- Phase
LendingSpec == Lending!Spec

-----------------------------------------------------------------------------
(* Liveness, under FairSpec.                                               *)

\* The destructor returns: with a lifetime it needs borrowers that give back,
\* and no place may be lost to a createObject that failed.
DestructorReturns == pool # "alive" ~> pool = "destroyed" \/ createFailures > 0

\* get() with a timeout comes back, however often it is woken in vain.
TimedGetReturns ==
    \A c \in Clients :
        gpc[c] \in {"waitingFor", "wokenFor", "elapsed"} ~>
            gpc[c] = "idle" \/ pool = "destroyed"

\* Once the timeout handler runs, an object that is in the list does not
\* outlive its time there: whenever the handler waits without a time limit,
\* whatever comes into the list later wakes it.  An object that is over before
\* the first round is not watched; it may stay.
WatchedObjectLeavesPool ==
    \A o \in Objects :
        o \in objects \ expired /\ handler \notin {"none", "start"} ~> o \notin objects

-----------------------------------------------------------------------------
(* What comments say and the code does not do.                             *)

\* "to let waiting get-Calls returning an empty object" (lines 169-171): they
\* have returned before the pool is gone.
GettersReturnBeforeDestroyed ==
    HasLifetime /\ pool = "destroyed" => \A c \in Clients : gpc[c] = "idle"
=============================================================================
