---------------------------- MODULE SessionPool ----------------------------
(***************************************************************************)
(* esl::utility::SessionPool: for every key one object, lent to any number *)
(* of client threads at a time and counted per key; get() limits how many  *)
(* lendings there are altogether.  As in ObjectPool every stretch between  *)
(* two waits is one critical section of objectsMutex and one step.         *)
(*                                                                         *)
(* A client's pointer is raw: the pool owns the object.  "valid" says      *)
(* whose pointers still point to the object stored under their key.  A     *)
(* createObject that returns nullptr is not modelled, one that throws is.  *)
(***************************************************************************)
EXTENDS Naturals, FiniteSets

CONSTANTS
    Keys,               \* keys of sessions
    Clients,            \* threads that call get()
    NoKey,              \* a client that holds nothing
    ObjectsMax,         \* objectsMax, 0: no limit
    MaxCreateFailures,  \* how often createObject may throw
    SizeModulus         \* values of std::size_t, reduced to a few

ASSUME ObjectsMaxAssumption  == ObjectsMax \in Nat
ASSUME ClientsAssumption     == IsFiniteSet(Clients)
ASSUME NoKeyAssumption       == NoKey \notin Keys
ASSUME SizeModulusAssumption == SizeModulus \in Nat \ {0, 1}
ASSUME SettingsAssumption    ==
    MaxCreateFailures \in Nat

VARIABLES
    stored,             \* keys of SessionPool::objects
    circulating,        \* [Keys -> StoredObject::circulating]
    expired,            \* keys whose timePointBegin + objectLifetime is over
    objectsCirculating, \* SessionPool::objectsCirculating
    held,               \* [Clients -> key in the deleter of the client]
    valid,              \* clients whose object has not been destroyed
    gpc,                \* [Clients -> where its get() is]
    wanted,             \* [Clients -> key its get() is about]
    handler,            \* where timeoutHandler() is, "none": no such thread
    pool,               \* where the destructor is
    createFailures      \* calls of createObject that threw

objectVars == <<stored, circulating, expired, objectsCirculating, createFailures>>
clientVars == <<held, valid, gpc, wanted>>
vars == <<objectVars, clientVars, handler, pool>>

DescructorCalled == pool # "alive"

\* objectLifetime is not 0, which makes the constructor start the thread.
HasLifetime == handler # "none"

Holders      == {c \in Clients : held[c] # NoKey}
HoldersOf(k) == {c \in Clients : held[c] = k}

Init ==
    /\ stored = {}
    /\ circulating = [k \in Keys |-> 0]
    /\ expired = {}
    /\ objectsCirculating = 0
    /\ createFailures = 0
    /\ held = [c \in Clients |-> NoKey]
    /\ valid = {}
    /\ gpc = [c \in Clients |-> "idle"]
    /\ wanted = [c \in Clients |-> NoKey]
    /\ handler \in {"none", "start"}
    /\ pool = "alive"

-----------------------------------------------------------------------------
Waiting == {c \in Clients : gpc[c] \in {"waiting", "waitingFor"}}
Woken   == {c \in Clients : gpc[c] \in {"woken", "wokenFor", "elapsed"}}

Wake(pc) == IF pc = "waiting" THEN "woken"
            ELSE IF pc = "waitingFor" THEN "wokenFor" ELSE pc

NotifyAllGetters == gpc' = [c \in Clients |-> Wake(gpc[c])]

HandlerNotified == IF handler \in {"waiting", "waitingFor"} THEN "woken"
                   ELSE handler

\* Destroys the objects of the keys in gone: their pointers dangle from now on.
Erase(gone) ==
    /\ stored' = stored \ gone
    /\ valid' = {c \in valid : held'[c] \notin gone \union {NoKey}}

-----------------------------------------------------------------------------
(* get()                                                                   *)

CheckGetObject ==
    DescructorCalled \/ ObjectsMax = 0 \/ ObjectsMax > objectsCirculating

GetReturns(c) ==
    /\ gpc' = [gpc EXCEPT ![c] = "idle"]
    /\ wanted' = [wanted EXCEPT ![c] = NoKey]
    /\ UNCHANGED <<handler, pool>>

LeaveEmpty(c) == GetReturns(c) /\ UNCHANGED <<objectVars, held, valid>>

Lent(c, k) ==
    /\ objectsCirculating' = objectsCirculating + 1
    /\ held' = [held EXCEPT ![c] = k]
    /\ valid' = valid \union {c}
    /\ GetReturns(c)

CreateNew(c, k) ==
    /\ k \notin stored
    /\ stored' = stored \union {k}
    /\ circulating' = [circulating EXCEPT ![k] = 1]
    /\ expired' = expired \ {k}
    /\ Lent(c, k)
    /\ UNCHANGED createFailures

\* createObject() throws after the increment of objectsCirculating.
CreateThrows(c, k) ==
    /\ k \notin stored
    /\ createFailures < MaxCreateFailures
    /\ createFailures' = createFailures + 1
    /\ objectsCirculating' = objectsCirculating + 1
    /\ GetReturns(c)
    /\ UNCHANGED <<stored, circulating, expired, held, valid>>

\* Mutant: the counter of the key is not raised for the next client.
ShareUncounted(c, k) ==
    /\ k \in stored
    /\ Lent(c, k)
    /\ UNCHANGED <<stored, circulating, expired, createFailures>>

\* The object is shared.  resetLifetimeOnGet, which would start its lifetime
\* again, is not looked at: the code for it is commented out.
ShareExisting(c, k) ==
    /\ k \in stored
    /\ circulating' = [circulating EXCEPT ![k] = (@ + 1) % SizeModulus]
    /\ Lent(c, k)
    /\ UNCHANGED <<stored, expired, createFailures>>

Proceed(c, k) ==
    \/ DescructorCalled /\ LeaveEmpty(c)
    \/ /\ ~DescructorCalled
       /\ CreateNew(c, k) \/ CreateThrows(c, k) \/ ShareExisting(c, k)

Block(c, k, pc) ==
    /\ gpc' = [gpc EXCEPT ![c] = pc]
    /\ wanted' = [wanted EXCEPT ![c] = k]
    /\ UNCHANGED <<objectVars, held, valid, handler, pool>>

\* A client borrows one object at a time.
Get(c, k) ==
    /\ gpc[c] = "idle" /\ held[c] = NoKey /\ pool = "alive"
    /\ \/ CheckGetObject /\ Proceed(c, k)
       \/ ~CheckGetObject /\ \E pc \in {"waiting", "waitingFor"} : Block(c, k, pc)

GetWoken(c) ==
    /\ gpc[c] \in {"woken", "wokenFor"} /\ pool # "destroyed"
    /\ \/ CheckGetObject /\ Proceed(c, wanted[c])
       \/ /\ ~CheckGetObject
          /\ Block(c, wanted[c], IF gpc[c] = "woken" THEN "waiting" ELSE "waitingFor")

\* Mutant: a getter whose time is over does not look again.
GetElapsedLeaving(c) ==
    /\ gpc[c] = "elapsed" /\ pool # "destroyed"
    /\ LeaveEmpty(c)

GetElapsed(c) ==
    /\ gpc[c] = "elapsed" /\ pool # "destroyed"
    /\ \/ CheckGetObject /\ Proceed(c, wanted[c])
       \/ ~CheckGetObject /\ LeaveEmpty(c)

GetTimeout(c) ==
    /\ gpc[c] \in {"waitingFor", "wokenFor"} /\ pool # "destroyed"
    /\ Block(c, wanted[c], "elapsed")

GetSpuriousWakeup(c) ==
    /\ c \in Waiting /\ pool # "destroyed"
    /\ Block(c, wanted[c], Wake(gpc[c]))

-----------------------------------------------------------------------------
(* release(), called by the deleter                                        *)

ReleaseNotify ==
    /\ IF Waiting = {}
       THEN UNCHANGED gpc
       ELSE \E d \in Waiting : gpc' = [gpc EXCEPT ![d] = Wake(gpc[d])]
    /\ handler' = HandlerNotified

\* The object of the key is gone: release() returns without the decrement and
\* without waking anybody.
ReleaseUnknown(c) ==
    /\ held[c] # NoKey /\ pool # "destroyed"
    /\ held[c] \notin stored
    /\ held' = [held EXCEPT ![c] = NoKey]
    /\ valid' = valid \ {c}
    /\ UNCHANGED <<objectVars, gpc, wanted, handler, pool>>

\* Mutant: two decrements of objectsCirculating.
ReleaseTwice(c) ==
    LET k == held[c] IN
    /\ k # NoKey /\ pool # "destroyed"
    /\ k \in stored
    /\ circulating' = [circulating EXCEPT ![k] = (@ + SizeModulus - 1) % SizeModulus]
    /\ held' = [held EXCEPT ![c] = NoKey]
    /\ Erase({})
    /\ objectsCirculating' = objectsCirculating - 2
    /\ ReleaseNotify
    /\ UNCHANGED <<expired, createFailures, wanted, pool>>

\* The last client to give back an object whose lifetime is over destroys it.
Release(c) ==
    LET k    == held[c]
        last == ~DescructorCalled /\ circulating'[k] = 0
    IN
    /\ k # NoKey /\ pool # "destroyed"
    /\ k \in stored
    /\ circulating' = [circulating EXCEPT ![k] = (@ + SizeModulus - 1) % SizeModulus]
    /\ held' = [held EXCEPT ![c] = NoKey]
    /\ Erase(IF last /\ k \in expired THEN {k} ELSE {})
    /\ objectsCirculating' = objectsCirculating - 1
    /\ ReleaseNotify
    /\ UNCHANGED <<expired, createFailures, wanted, pool>>

-----------------------------------------------------------------------------
(* timeoutHandler()                                                        *)

WaitAgain(keys) ==
    handler' = IF DescructorCalled /\ objectsCirculating = 0 THEN "ended"
               ELSE IF keys \subseteq expired THEN "waiting" ELSE "waitingFor"

HandlerStart ==
    /\ handler = "start"
    /\ WaitAgain(stored)
    /\ UNCHANGED <<objectVars, clientVars, pool>>

\* Objects whose lifetime is over, or all once the destructor has been called,
\* are destroyed whether or not clients still use them.
HandlerRound ==
    /\ handler = "woken"
    /\ UNCHANGED <<circulating, expired, objectsCirculating, createFailures, held,
                   wanted, pool>>
    /\ Erase(IF DescructorCalled THEN stored ELSE stored \intersect expired)
    /\ NotifyAllGetters
    /\ WaitAgain(stored')

HandlerTimeout ==
    /\ handler = "waitingFor"
    /\ handler' = "woken"
    /\ UNCHANGED <<objectVars, clientVars, pool>>

HandlerSpuriousWakeup ==
    /\ handler = "waiting"
    /\ handler' = "woken"
    /\ UNCHANGED <<objectVars, clientVars, pool>>

Expire(k) ==
    /\ HasLifetime
    /\ k \in stored \ expired
    /\ expired' = expired \union {k}
    /\ UNCHANGED <<stored, circulating, objectsCirculating, createFailures,
                   clientVars, handler, pool>>

-----------------------------------------------------------------------------
(* ~SessionPool                                                            *)

DestroyBegin ==
    /\ pool = "alive"
    /\ pool' = "notify"
    /\ UNCHANGED <<objectVars, clientVars, handler>>

DestroyNotify ==
    /\ pool = "notify"
    /\ pool' = "join"
    /\ \/ HasLifetime /\ handler' = HandlerNotified /\ UNCHANGED gpc
       \/ ~HasLifetime /\ NotifyAllGetters /\ UNCHANGED handler
    /\ UNCHANGED <<objectVars, held, valid, wanted>>

DestroyJoin ==
    /\ pool = "join"
    /\ handler \in {"none", "ended"}
    /\ pool' = "destroyed"
    /\ UNCHANGED <<circulating, expired, objectsCirculating, createFailures, held,
                   gpc, wanted, handler>>
    /\ Erase(stored)

-----------------------------------------------------------------------------
GetStep(c)  == GetWoken(c) \/ GetElapsed(c)
GiveBack(c) == ReleaseUnknown(c) \/ Release(c)
HandlerStep == HandlerStart \/ HandlerRound
DestroyStep == DestroyNotify \/ DestroyJoin

Ended == pool = "destroyed" /\ UNCHANGED vars

Next ==
    \/ \E c \in Clients : \/ \E k \in Keys : Get(c, k)
                          \/ GetStep(c) \/ GiveBack(c)
                          \/ GetTimeout(c) \/ GetSpuriousWakeup(c)
    \/ \E k \in Keys : Expire(k)
    \/ HandlerStep \/ HandlerTimeout \/ HandlerSpuriousWakeup
    \/ DestroyBegin \/ DestroyStep
    \/ Ended

Spec == Init /\ [][Next]_vars

-----------------------------------------------------------------------------
\* A client's pointer never dangles in a pool without lifetime: its object
\* stays as long as somebody uses it, because the counter of the key, which
\* decides about the destruction, says how many clients do.
UseIsCounted ==
    ~HasLifetime /\ pool # "destroyed" =>
        /\ Holders = valid
        /\ \A k \in stored : circulating[k] = Cardinality(HoldersOf(k)) % SizeModulus

\* There are never more than objectsMax lendings at a time, because the counter
\* behind the limit never says less than the clients hold, however many objects
\* were destroyed while they were lent and however often createObject threw.
LimitKept ==
    /\ objectsCirculating >= Cardinality(Holders) + createFailures
    /\ ObjectsMax > 0 => Cardinality(Holders) <= ObjectsMax

\* Nobody blocks without reason: for every free place there is a woken getter as
\* long as getters are blocked, although a release of an unknown key wakes
\* nobody; and while the destructor waits for the handler, the handler is
\* blocked only because of lendings it has to wait for.
NobodyForgotten ==
    /\ Waiting # {} /\ ~DescructorCalled =>
           ObjectsMax - objectsCirculating <= Cardinality(Woken)
    /\ pool = "join" /\ handler = "waiting" => objectsCirculating > 0

(* The refinement mapping: the pool is closing from the first to the last  *)
(* step of the destructor; objects last if the constructor starts no       *)
(* handler.                                                                *)
Phase == IF pool = "alive" THEN "open"
         ELSE IF pool = "destroyed" THEN "gone" ELSE "closing"
Lending == INSTANCE SessionLending WITH existing <- stored, users <- held,
               usable <- valid, phase <- Phase, lasting <- ~HasLifetime

\* The pool keeps what SessionLending promises: one object per key, shared; the
\* limit on lendings; without a lifetime no object taken from its users; with one
\* nothing borrowed from a pool that is gone.
LendingSpec == Lending!Spec
=============================================================================
