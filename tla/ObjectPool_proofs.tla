------------------------- MODULE ObjectPool_proofs -------------------------
(***************************************************************************)
(* What TLAPS proves about ObjectPool for every number of clients and      *)
(* objects, every limit and both kinds of lifetime.                        *)
(*                                                                         *)
(* The inductive invariant IInv adds to the properties of the pool that a  *)
(* client inside get() holds nothing and that the timeout handler has      *)
(* ended only in a pool that is closing and has everything back.           *)
(***************************************************************************)
EXTENDS ObjectPool, FiniteSetTheorems, TLAPS

FiniteObjects == IsFiniteSet(objects)

\* A client inside get() holds nothing; no client is inside a get() that
\* began after the destructor.
EmptyHanded == \A c \in Clients : gpc[c] # "idle" => held[c] = NoObject

\* The thread of a pool with a lifetime ends when all objects are back.
HandlerEnd ==
    handler = "ended" => DescructorCalled /\ objectsCirculating = 0

\* The destructor returns when the thread has ended.
DestroyedEnd == pool = "destroyed" => handler \in {"none", "ended"}

IInv ==
    /\ TypeOK /\ FiniteObjects /\ EmptyHanded /\ LentOnce
    /\ CirculatingExact /\ WithinLimit /\ NoLostWakeup
    /\ HandlerEnd /\ DestroyedEnd /\ NoGetterForgotten

-----------------------------------------------------------------------------
(* Cardinalities of the sets of clients.                                   *)

\* Sets of clients are finite, and their cardinalities change by one with
\* one client.
LEMMA ClientSets ==
    ASSUME NEW S \in SUBSET Clients, NEW c \in Clients
    PROVE  /\ IsFiniteSet(S) /\ Cardinality(S) \in Nat
           /\ c \notin S => Cardinality(S \union {c}) = Cardinality(S) + 1
           /\ c \in S => /\ Cardinality(S \ {c}) = Cardinality(S) - 1
                         /\ Cardinality(S) > 0
<1>1. IsFiniteSet(S)
  BY ClientsAssumption, FS_Subset
<1>2. Cardinality(S) \in Nat
  BY <1>1, FS_CardinalityType
<1>3. c \notin S => Cardinality(S \union {c}) = Cardinality(S) + 1
  BY <1>1, FS_AddElement
<1>4. c \in S => Cardinality(S \ {c}) = Cardinality(S) - 1
  BY <1>1, FS_RemoveElement
<1>5. c \in S => Cardinality(S) > 0
  BY <1>1, <1>2, FS_EmptySet
<1> QED
  BY <1>1, <1>2, <1>3, <1>4, <1>5

\* The same for the set of pooled objects.
LEMMA ObjectSets ==
    ASSUME NEW S, IsFiniteSet(S), NEW o
    PROVE  /\ Cardinality(S) \in Nat
           /\ IsFiniteSet(S \union {o}) /\ IsFiniteSet(S \ {o})
           /\ o \notin S => Cardinality(S \union {o}) = Cardinality(S) + 1
           /\ o \in S => /\ Cardinality(S \ {o}) = Cardinality(S) - 1
                         /\ Cardinality(S) > 0
<1>1. Cardinality(S) \in Nat
  BY FS_CardinalityType
<1>2. /\ IsFiniteSet(S \union {o})
      /\ o \notin S => Cardinality(S \union {o}) = Cardinality(S) + 1
  BY FS_AddElement
<1>3. /\ IsFiniteSet(S \ {o})
      /\ o \in S => Cardinality(S \ {o}) = Cardinality(S) - 1
  BY FS_RemoveElement
<1>4. o \in S => Cardinality(S) > 0
  BY <1>1, FS_EmptySet
<1> QED
  BY <1>1, <1>2, <1>3, <1>4

\* The empty pool.
LEMMA NoObjects == IsFiniteSet({}) /\ Cardinality({}) = 0
BY FS_EmptySet

-----------------------------------------------------------------------------
(* What a step of get() can be, whichever of the three actions it is.      *)

\* get() passes its wait in a pool that is alive.
Enters(c) ==
    /\ held[c] = NoObject
    /\ ObjectsMax = 0 \/ ObjectsMax > objectsCirculating
    /\ pool = "alive"

\* get() returns empty: it was woken by the destructor, or too late.
Leaves(c) ==
    /\ held[c] = NoObject
    /\ DescructorCalled \/ ObjectsMax <= objectsCirculating
    /\ LeaveEmpty(c)

\* get() waits (again) for a free place.
Stays(c) ==
    /\ held[c] = NoObject
    /\ pool = "alive" /\ ObjectsMax <= objectsCirculating
    /\ \E pc \in {"waiting", "waitingFor"} : Block(c, pc)

GetAction(c) == Get(c) \/ GetWoken(c) \/ GetElapsed(c)

\* The three actions of get() enter, leave or stay.
LEMMA GetCases ==
    ASSUME IInv, NEW c \in Clients, GetAction(c)
    PROVE  \/ Enters(c) /\ (CreateNew(c) \/ CreateFails(c) \/ TakeExisting(c))
           \/ Leaves(c)
           \/ Stays(c)
<1> USE ObjectsMaxAssumption DEF IInv, TypeOK, EmptyHanded, Enters, Leaves,
        Stays, CheckGetObject, DescructorCalled, Proceed
<1>1. CASE Get(c)
  BY <1>1 DEF Get
<1>2. CASE GetWoken(c)
  BY <1>2 DEF GetWoken
<1>3. CASE GetElapsed(c)
  BY <1>3 DEF GetElapsed
<1> QED
  BY <1>1, <1>2, <1>3 DEF GetAction

-----------------------------------------------------------------------------
\* The invariant holds of a new pool.
LEMMA InitInv == Init => IInv
<1> SUFFICES ASSUME Init PROVE IInv
  OBVIOUS
<1> USE DEF Init
<1>1. Holders = {}
  BY DEF Holders
<1>2. Cardinality(Holders) = 0 /\ IsFiniteSet(objects) /\ Cardinality(objects) = 0
  BY <1>1, NoObjects
<1>3. TypeOK
  BY PoolAssumption DEF TypeOK, GetPCs, HandlerPCs, PoolPCs
<1>4. Waiting = {}
  BY DEF Waiting
<1> QED
  BY <1>1, <1>2, <1>3, <1>4, ObjectsMaxAssumption DEF IInv, FiniteObjects,
     EmptyHanded, LentOnce, CirculatingExact, WithinLimit, NoLostWakeup,
     HandlerEnd, DestroyedEnd, NoGetterForgotten, DescructorCalled

-----------------------------------------------------------------------------
(* The steps that preserve the invariant.                                  *)

\* The parts of the invariant.
LEMMA Parts ==
    ASSUME IInv
    PROVE  /\ TypeOK /\ FiniteObjects /\ EmptyHanded /\ LentOnce
           /\ CirculatingExact /\ WithinLimit /\ NoLostWakeup
           /\ HandlerEnd /\ DestroyedEnd /\ NoGetterForgotten
BY DEF IInv

\* A getter that passes takes one free place and its own wakeup.
LEMMA WakeUsed ==
    ASSUME IInv, NEW c \in Clients, pool' = pool,
           gpc' = [gpc EXCEPT ![c] = "idle"],
           objectsCirculating' = objectsCirculating + 1
    PROVE  NoLostWakeup'
<1> SUFFICES ASSUME Waiting' # {}, pool = "alive"
             PROVE  ObjectsMax - objectsCirculating' <= Cardinality(Woken')
  BY DEF NoLostWakeup, DescructorCalled
<1>1. Waiting' \subseteq Waiting /\ Woken' = Woken \ {c}
  BY DEF IInv, TypeOK, Waiting, Woken, GetPCs
<1>2. ObjectsMax - objectsCirculating <= Cardinality(Woken)
  BY <1>1 DEF IInv, NoLostWakeup, DescructorCalled
<1>3. /\ Woken \in SUBSET Clients /\ Cardinality(Woken) \in Nat
      /\ c \in Woken => Cardinality(Woken \ {c}) = Cardinality(Woken) - 1
      /\ c \notin Woken => Woken \ {c} = Woken
  BY ClientSets DEF Woken
<1>4. objectsCirculating \in Nat /\ ObjectsMax \in Nat
  BY ObjectsMaxAssumption DEF IInv, TypeOK
<1>5. CASE c \in Woken
  <2>1. Cardinality(Woken') = Cardinality(Woken) - 1
    BY <1>1, <1>3, <1>5
  <2> QED
    BY <2>1, <1>2, <1>3, <1>4
<1>6. CASE c \notin Woken
  <2>1. Cardinality(Woken') = Cardinality(Woken)
    BY <1>1, <1>3, <1>6
  <2> QED
    BY <2>1, <1>2, <1>3, <1>4
<1> QED
  BY <1>5, <1>6

\* A getter that stops waiting and is on its way back to the mutex.
LEMMA WakeAdded ==
    ASSUME IInv, NEW c \in Clients, NEW pc \in {"woken", "wokenFor", "elapsed"},
           gpc' = [gpc EXCEPT ![c] = pc], pool' = pool,
           objectsCirculating' \in Nat,
           \/ objectsCirculating' = objectsCirculating
           \/ objectsCirculating' = objectsCirculating - 1 /\ c \in Waiting
    PROVE  NoLostWakeup'
<1> SUFFICES ASSUME Waiting' # {}, pool = "alive"
             PROVE  ObjectsMax - objectsCirculating' <= Cardinality(Woken')
  BY DEF NoLostWakeup, DescructorCalled
<1>1. Waiting' \subseteq Waiting /\ Woken' = Woken \union {c}
  BY DEF IInv, TypeOK, Waiting, Woken, GetPCs
<1>2. ObjectsMax - objectsCirculating <= Cardinality(Woken)
  BY <1>1 DEF IInv, NoLostWakeup, DescructorCalled
<1>3. /\ Woken \in SUBSET Clients /\ Cardinality(Woken) \in Nat
      /\ c \notin Woken => Cardinality(Woken \union {c}) = Cardinality(Woken) + 1
      /\ c \in Woken => Woken \union {c} = Woken
  BY ClientSets DEF Woken
<1>4. c \in Waiting => c \notin Woken
  BY DEF Waiting, Woken
<1>5. objectsCirculating \in Nat /\ ObjectsMax \in Nat
  BY ObjectsMaxAssumption DEF IInv, TypeOK
<1>6. CASE c \in Woken
  <2>1. Cardinality(Woken') = Cardinality(Woken)
    BY <1>1, <1>3, <1>6
  <2>2. objectsCirculating' = objectsCirculating
    BY <1>4, <1>6
  <2> QED
    BY <2>1, <2>2, <1>2
<1>7. CASE c \notin Woken
  <2>1. Cardinality(Woken') = Cardinality(Woken) + 1
    BY <1>1, <1>3, <1>7
  <2> QED
    BY <2>1, <1>2, <1>3, <1>5
<1> QED
  BY <1>6, <1>7

\* A new object, or none, is what get() brings in an empty pool.
LEMMA CreateKeepsInv ==
    ASSUME IInv, NEW c \in Clients, Enters(c), CreateNew(c) \/ CreateFails(c)
    PROVE  IInv'
<1> USE ObjectsMaxAssumption, NoObjectAssumption, PoolAssumption, Parts
<1>1. /\ objects = {} /\ objects' = {} /\ Cardinality(objects) = 0
      /\ IsFiniteSet(objects')
  BY NoObjects DEF CreateNew, CreateFails
<1>2. Holders \in SUBSET Clients /\ c \notin Holders
  BY DEF Holders, Enters
<1>3. TypeOK' /\ EmptyHanded' /\ LentOnce'
  BY <1>1 DEF TypeOK, EmptyHanded, LentOnce, Enters, CreateNew, CreateFails,
     Holders, Unused, GetPCs
<1>4. CirculatingExact'
  <2>1. CASE CreateNew(c)
    <3>1. Holders' = Holders \union {c}
      BY <2>1 DEF Holders, CreateNew, TypeOK, Unused
    <3> QED
      BY <2>1, <3>1, <1>2, ClientSets DEF CreateNew, CirculatingExact, TypeOK
  <2>2. CASE CreateFails(c)
    <3>1. Holders' = Holders
      BY <2>2 DEF Holders, CreateFails
    <3>2. Cardinality(Holders') = Cardinality(Holders)
      BY <3>1
    <3>3. Cardinality(Holders) \in Nat
      BY <1>2, ClientSets
    <3> QED
      BY <2>2, <3>2, <3>3 DEF CreateFails, CirculatingExact, TypeOK
  <2> QED
    BY <2>1, <2>2
<1>5. WithinLimit'
  BY <1>1 DEF WithinLimit, Enters, CreateNew, CreateFails, TypeOK
<1>6. gpc' = [gpc EXCEPT ![c] = "idle"] /\ objectsCirculating' = objectsCirculating + 1
      /\ UNCHANGED <<pool, handler>>
  BY DEF CreateNew, CreateFails
<1>7. NoLostWakeup'
  BY <1>6, WakeUsed DEF TypeOK, Enters
<1> QED
  BY <1>1, <1>3, <1>4, <1>5, <1>6, <1>7 DEF IInv, FiniteObjects, HandlerEnd,
     DestroyedEnd, NoGetterForgotten, Enters, DescructorCalled

\* get() takes an object out of the list.
LEMMA TakeKeepsInv ==
    ASSUME IInv, NEW c \in Clients, Enters(c), TakeExisting(c)
    PROVE  IInv'
<1> USE ObjectsMaxAssumption, NoObjectAssumption, PoolAssumption, Parts
<1>1. PICK o \in objects : /\ held' = [held EXCEPT ![c] = o]
                           /\ objects' = objects \ {o}
                           /\ expired' = IF ResetLifetimeOnGet
                                         THEN expired \ {o} ELSE expired
  BY DEF TakeExisting
<1>2. /\ objectsCirculating' = objectsCirculating + 1
      /\ gpc' = [gpc EXCEPT ![c] = "idle"]
      /\ UNCHANGED <<handler, pool, createFailures>>
  BY DEF TakeExisting
<1>3. Holders \in SUBSET Clients /\ c \notin Holders
  BY DEF Holders, Enters
<1>4. Holders' = Holders \union {c}
  BY <1>1 DEF Holders, TypeOK
<1>5. /\ IsFiniteSet(objects') /\ Cardinality(objects) \in Nat
      /\ Cardinality(objects') = Cardinality(objects) - 1
  BY <1>1, ObjectSets DEF FiniteObjects
<1>6. TypeOK'
  BY <1>1, <1>2 DEF TypeOK, GetPCs
<1>7. EmptyHanded' /\ LentOnce'
  BY <1>1, <1>2 DEF TypeOK, EmptyHanded, LentOnce, Enters, Holders
<1>8. CirculatingExact'
  BY <1>2, <1>3, <1>4, ClientSets DEF CirculatingExact, TypeOK
<1>9. WithinLimit'
  BY <1>2, <1>5 DEF WithinLimit, TypeOK
<1>10. NoLostWakeup'
  BY <1>2, WakeUsed
<1> QED
  BY <1>2, <1>5, <1>6, <1>7, <1>8, <1>9, <1>10 DEF IInv, FiniteObjects,
     HandlerEnd, DestroyedEnd, NoGetterForgotten, Enters, DescructorCalled

\* get() returns empty.
LEMMA LeaveKeepsInv ==
    ASSUME IInv, NEW c \in Clients, Leaves(c)
    PROVE  IInv'
<1> USE ObjectsMaxAssumption, Parts DEF Leaves, LeaveEmpty
<1>1. TypeOK' /\ EmptyHanded' /\ LentOnce'
  BY DEF TypeOK, GetPCs, EmptyHanded, LentOnce, Holders
<1>2. CirculatingExact' /\ WithinLimit'
  BY DEF CirculatingExact, WithinLimit, Holders
<1>3. NoLostWakeup'
  <2>1. Woken' \in SUBSET Clients
    BY DEF Woken
  <2>2. Cardinality(Woken') \in Nat
    BY <2>1, ClientSets
  <2> QED
    BY <2>2 DEF NoLostWakeup, DescructorCalled, TypeOK
<1>4. HandlerEnd' /\ DestroyedEnd'
  BY DEF HandlerEnd, DestroyedEnd, DescructorCalled
<1>5. NoGetterForgotten'
  BY DEF NoGetterForgotten, HasLifetime, Waiting, TypeOK
<1> QED
  BY <1>1, <1>2, <1>3, <1>4, <1>5 DEF IInv, FiniteObjects

\* get() waits because there is no free place.
LEMMA StayKeepsInv ==
    ASSUME IInv, NEW c \in Clients, Stays(c)
    PROVE  IInv'
<1> USE ObjectsMaxAssumption, Parts DEF Stays, Block
<1>1. TypeOK' /\ EmptyHanded' /\ LentOnce'
  BY DEF TypeOK, GetPCs, EmptyHanded, LentOnce, Holders
<1>2. CirculatingExact' /\ WithinLimit'
  BY DEF CirculatingExact, WithinLimit, Holders
<1>3. NoLostWakeup'
  <2>1. Woken' \in SUBSET Clients
    BY DEF Woken
  <2>2. Cardinality(Woken') \in Nat
    BY <2>1, ClientSets
  <2> QED
    BY <2>2 DEF NoLostWakeup, TypeOK
<1>4. HandlerEnd' /\ DestroyedEnd' /\ NoGetterForgotten'
  BY DEF HandlerEnd, DestroyedEnd, NoGetterForgotten, DescructorCalled
<1> QED
  BY <1>1, <1>2, <1>3, <1>4 DEF IInv, FiniteObjects

\* A wait of get() ends by time or spuriously.
LEMMA WakeKeepsInv ==
    ASSUME IInv, NEW c \in Clients, GetTimeout(c) \/ GetSpuriousWakeup(c)
    PROVE  IInv'
<1> USE ObjectsMaxAssumption, Parts
<1>1. PICK pc \in {"woken", "wokenFor", "elapsed"} : Block(c, pc)
  BY DEF GetTimeout, GetSpuriousWakeup, Waiting, Wake
<1>2. gpc[c] # "idle"
  BY DEF GetTimeout, GetSpuriousWakeup, Waiting
<1> USE DEF Block
<1>3. TypeOK' /\ EmptyHanded' /\ LentOnce'
  BY <1>1, <1>2 DEF TypeOK, GetPCs, EmptyHanded, LentOnce, Holders
<1>4. CirculatingExact' /\ WithinLimit'
  BY <1>1 DEF CirculatingExact, WithinLimit, Holders
<1>5. NoLostWakeup'
  BY <1>1, WakeAdded DEF TypeOK
<1>6. HandlerEnd' /\ DestroyedEnd'
  BY <1>1 DEF HandlerEnd, DestroyedEnd, DescructorCalled
<1>7. NoGetterForgotten'
  BY <1>1 DEF NoGetterForgotten, HasLifetime, Waiting, TypeOK
<1> QED
  BY <1>1, <1>3, <1>4, <1>5, <1>6, <1>7 DEF IInv, FiniteObjects

\* An object comes back.
LEMMA ReleaseKeepsInv ==
    ASSUME IInv, NEW c \in Clients, Release(c)
    PROVE  IInv'
<1> USE ObjectsMaxAssumption, NoObjectAssumption, PoolAssumption, Parts
<1>1. /\ held[c] # NoObject
      /\ objects' = objects \/ objects' = objects \union {held[c]}
      /\ objectsCirculating' = objectsCirculating - 1
      /\ held' = [held EXCEPT ![c] = NoObject]
      /\ handler' = HandlerNotified
      /\ UNCHANGED <<expired, pool, createFailures>>
  BY DEF Release
<1>2. Holders \in SUBSET Clients /\ c \in Holders /\ Holders' = Holders \ {c}
  BY <1>1 DEF Holders, TypeOK
<1>3. /\ Cardinality(Holders) \in Nat /\ Cardinality(Holders) > 0
      /\ Cardinality(Holders') = Cardinality(Holders) - 1
  BY <1>2, ClientSets
<1>4. objectsCirculating' \in Nat
  BY <1>1, <1>3 DEF CirculatingExact, TypeOK
<1>5. CirculatingExact'
  BY <1>1, <1>3 DEF CirculatingExact, TypeOK
<1>6. \/ Waiting = {} /\ gpc' = gpc
      \/ \E d \in Waiting, pc \in {"woken", "wokenFor"} :
             gpc' = [gpc EXCEPT ![d] = pc]
  BY DEF Release, Waiting, Wake
<1>7. TypeOK'
  BY <1>1, <1>4, <1>6 DEF TypeOK, GetPCs, HandlerPCs, HandlerNotified, Waiting
<1>8. EmptyHanded' /\ LentOnce'
  <2>1. held[c] \notin objects
    BY <1>2 DEF LentOnce
  <2> QED
    BY <1>1, <1>6, <2>1 DEF EmptyHanded, LentOnce, TypeOK, Holders, Waiting
<1>9. WithinLimit' /\ FiniteObjects'
  <2>1. held[c] \notin objects
    BY <1>2 DEF LentOnce
  <2>2. /\ Cardinality(objects) \in Nat /\ IsFiniteSet(objects \union {held[c]})
        /\ Cardinality(objects \union {held[c]}) = Cardinality(objects) + 1
    BY <2>1, ObjectSets DEF FiniteObjects
  <2>3. IsFiniteSet(objects') /\ Cardinality(objects') <= Cardinality(objects) + 1
    <3>1. Cardinality(objects) <= Cardinality(objects) + 1
      BY <2>2
    <3>2. IsFiniteSet(objects)
      BY DEF FiniteObjects
    <3>3. CASE objects' = objects
      BY <3>1, <3>2, <3>3
    <3>4. CASE objects' = objects \union {held[c]}
      <4>1. Cardinality(objects') = Cardinality(objects) + 1
        BY <2>2, <3>4
      <4> QED
        BY <2>2, <3>4, <4>1
    <3> QED
      BY <1>1, <3>3, <3>4
  <2>4. Cardinality(objects') \in Nat
    BY <2>3, FS_CardinalityType
  <2>5. objectsCirculating \in Nat /\ objectsCirculating' = objectsCirculating - 1
    BY <1>1 DEF TypeOK
  <2> QED
    BY <2>2, <2>3, <2>4, <2>5 DEF WithinLimit, FiniteObjects
<1>10. NoLostWakeup'
  <2>1. CASE Waiting = {} /\ gpc' = gpc
    BY <2>1 DEF NoLostWakeup, Waiting
  <2>2. CASE \E d \in Waiting, pc \in {"woken", "wokenFor"} :
                gpc' = [gpc EXCEPT ![d] = pc]
    <3>1. PICK d \in Waiting, pc \in {"woken", "wokenFor"} :
                gpc' = [gpc EXCEPT ![d] = pc]
      BY <2>2
    <3>2. d \in Clients
      BY DEF Waiting
    <3> QED
      BY <1>1, <1>4, <3>1, <3>2, WakeAdded
  <2> QED
    BY <1>6, <2>1, <2>2
<1>11. HandlerEnd' /\ DestroyedEnd'
  <2>1. handler = "ended" => objectsCirculating = 0
    BY DEF HandlerEnd
  <2>2. handler' \in {"none", "ended"} => handler' = handler
    BY <1>1 DEF HandlerNotified
  <2>3. objectsCirculating # 0
    BY <1>1, <1>4 DEF TypeOK
  <2>4. pool # "destroyed"
    BY DEF Release
  <2> QED
    BY <1>1, <2>1, <2>2, <2>3, <2>4 DEF HandlerEnd, DestroyedEnd, DescructorCalled
<1>12. NoGetterForgotten'
  <2>1. HasLifetime <=> HasLifetime'
    BY <1>1 DEF HasLifetime, HandlerNotified
  <2> QED
    BY <1>1, <1>6, <2>1 DEF NoGetterForgotten, Waiting, TypeOK
<1> QED
  BY <1>5, <1>7, <1>8, <1>9, <1>10, <1>11, <1>12 DEF IInv

\* A lifetime elapses, or the handler's wait ends.
LEMMA TimeKeepsInv ==
    ASSUME IInv,
           \/ \E o \in Objects : Expire(o)
           \/ HandlerTimeout \/ HandlerSpuriousWakeup \/ HandlerStart
    PROVE  IInv'
<1> USE Parts
<1>1. UNCHANGED <<objects, objectsCirculating, held, gpc, pool, createFailures>>
  BY DEF Expire, HandlerTimeout, HandlerSpuriousWakeup, HandlerStart
<1>2. expired' \subseteq Objects /\ handler' \in HandlerPCs
  BY DEF Expire, HandlerTimeout, HandlerSpuriousWakeup, HandlerStart, WaitAgain,
     TypeOK, HandlerPCs
<1>3. /\ handler' = "ended" =>
            handler = "ended" \/ (DescructorCalled /\ objectsCirculating = 0)
      /\ handler \in {"none", "ended"} => handler' = handler
      /\ handler' = "none" => handler = "none"
  <2>1. CASE \E o \in Objects : Expire(o)
    BY <2>1 DEF Expire
  <2>2. CASE HandlerTimeout \/ HandlerSpuriousWakeup
    BY <2>2 DEF HandlerTimeout, HandlerSpuriousWakeup
  <2>3. CASE HandlerStart
    BY <2>3 DEF HandlerStart, WaitAgain
  <2> QED
    BY <2>1, <2>2, <2>3
<1>4. TypeOK' /\ EmptyHanded' /\ LentOnce' /\ FiniteObjects'
  BY <1>1, <1>2 DEF TypeOK, EmptyHanded, LentOnce, FiniteObjects, Holders
<1>5. CirculatingExact' /\ WithinLimit'
  BY <1>1 DEF CirculatingExact, WithinLimit, Holders
<1>6. NoLostWakeup' /\ NoGetterForgotten'
  BY <1>1, <1>3 DEF NoLostWakeup, NoGetterForgotten, HasLifetime, Waiting, Woken,
     DescructorCalled
<1>7. HandlerEnd' /\ DestroyedEnd'
  BY <1>1, <1>3 DEF HandlerEnd, DestroyedEnd, DescructorCalled
<1> QED
  BY <1>4, <1>5, <1>6, <1>7 DEF IInv

\* The handler destroys what is over and wakes all getters.
LEMMA RoundKeepsInv ==
    ASSUME IInv, HandlerRound
    PROVE  IInv'
<1> USE ObjectsMaxAssumption, Parts
<1>1. /\ objects' \in SUBSET objects
      /\ gpc' = [c \in Clients |-> Wake(gpc[c])]
      /\ UNCHANGED <<objectsCirculating, expired, held, pool, createFailures>>
      /\ handler' \in HandlerPCs /\ handler = "woken"
      /\ handler' = "ended" => DescructorCalled /\ objectsCirculating = 0
  BY DEF HandlerRound, NotifyAllGetters, WaitAgain, HandlerPCs
<1>2. /\ IsFiniteSet(objects') /\ Cardinality(objects') <= Cardinality(objects)
      /\ Cardinality(objects') \in Nat /\ Cardinality(objects) \in Nat
  BY <1>1, FS_Subset, FS_CardinalityType DEF FiniteObjects
<1>3. TypeOK'
  BY <1>1 DEF TypeOK, GetPCs, Wake
<1>4. EmptyHanded' /\ LentOnce'
  BY <1>1 DEF EmptyHanded, LentOnce, Holders, TypeOK, Wake
<1>5. CirculatingExact' /\ WithinLimit'
  BY <1>1, <1>2 DEF CirculatingExact, WithinLimit, Holders, TypeOK
<1>6. Waiting' = {}
  BY <1>1 DEF Waiting, Wake
<1>7. HandlerEnd' /\ DestroyedEnd'
  BY <1>1 DEF HandlerEnd, DestroyedEnd, DescructorCalled
<1> QED
  BY <1>2, <1>3, <1>4, <1>5, <1>6, <1>7 DEF IInv, FiniteObjects, NoLostWakeup,
     NoGetterForgotten

\* The destructor.
LEMMA DestroyKeepsInv ==
    ASSUME IInv, DestroyBegin \/ DestroyNotify \/ DestroyJoin
    PROVE  IInv'
<1> USE ObjectsMaxAssumption, Parts
<1>1. /\ UNCHANGED <<objectsCirculating, expired, held, createFailures>>
      /\ objects' = objects \/ objects' = {}
      /\ pool' \in PoolPCs \ {"alive"}
      /\ handler' \in HandlerPCs
      /\ handler' \in {"none", "ended"} \/ handler \in {"none", "ended"} =>
            handler' = handler
      /\ pool' = "destroyed" => handler \in {"none", "ended"}
      /\ gpc' = gpc \/ gpc' = [c \in Clients |-> Wake(gpc[c])]
  BY DEF DestroyBegin, DestroyNotify, DestroyJoin, HandlerNotified, PoolPCs,
     HandlerPCs, TypeOK, NotifyAllGetters
<1>2. IsFiniteSet(objects') /\ Cardinality(objects') <= Cardinality(objects)
      /\ Cardinality(objects') \in Nat /\ Cardinality(objects) \in Nat
  <2>1. IsFiniteSet(objects) /\ Cardinality(objects) \in Nat
    BY FS_CardinalityType DEF FiniteObjects
  <2>2. CASE objects' = objects
    BY <2>1, <2>2
  <2>3. CASE objects' = {}
    BY <2>1, <2>3, NoObjects
  <2> QED
    BY <1>1, <2>2, <2>3
<1>3. TypeOK'
  BY <1>1 DEF TypeOK, GetPCs, Wake
<1>4. EmptyHanded' /\ LentOnce'
  BY <1>1 DEF EmptyHanded, LentOnce, Holders, TypeOK, Wake
<1>5. CirculatingExact' /\ WithinLimit'
  BY <1>1, <1>2 DEF CirculatingExact, WithinLimit, Holders, TypeOK
<1>6. HandlerEnd' /\ DestroyedEnd' /\ NoLostWakeup'
  <2>1. handler = "ended" => objectsCirculating = 0
    BY DEF HandlerEnd
  <2> QED
    BY <1>1, <2>1 DEF HandlerEnd, DestroyedEnd, NoLostWakeup, DescructorCalled
<1>7. NoGetterForgotten'
  BY <1>1 DEF NoGetterForgotten, HasLifetime, DestroyBegin, DestroyNotify,
     DestroyJoin, NotifyAllGetters, Waiting, Wake, TypeOK
<1> QED
  BY <1>2, <1>3, <1>4, <1>5, <1>6, <1>7 DEF IInv, FiniteObjects

\* Every step keeps the invariant.
LEMMA StepInv == IInv /\ [Next]_vars => IInv'
<1> SUFFICES ASSUME IInv, [Next]_vars PROVE IInv'
  OBVIOUS
<1>1. ASSUME NEW c \in Clients, GetAction(c) PROVE IInv'
  BY <1>1, GetCases, CreateKeepsInv, TakeKeepsInv, LeaveKeepsInv, StayKeepsInv
<1>2. ASSUME NEW c \in Clients, Release(c) PROVE IInv'
  BY <1>2, ReleaseKeepsInv
<1>3. ASSUME NEW c \in Clients, GetTimeout(c) \/ GetSpuriousWakeup(c) PROVE IInv'
  BY <1>3, WakeKeepsInv
<1>4. ASSUME \/ \E o \in Objects : Expire(o)
             \/ HandlerTimeout \/ HandlerSpuriousWakeup \/ HandlerStart
      PROVE  IInv'
  BY <1>4, TimeKeepsInv
<1>5. CASE HandlerRound
  BY <1>5, RoundKeepsInv
<1>6. CASE DestroyBegin \/ DestroyNotify \/ DestroyJoin
  BY <1>6, DestroyKeepsInv
<1>7. CASE UNCHANGED vars
  BY <1>7 DEF vars, IInv, TypeOK, FiniteObjects, EmptyHanded, LentOnce,
     CirculatingExact, WithinLimit, NoLostWakeup, HandlerEnd, DestroyedEnd,
     NoGetterForgotten, Holders, Waiting, Woken, DescructorCalled, HasLifetime
<1> QED
  BY <1>1, <1>2, <1>3, <1>4, <1>5, <1>6, <1>7 DEF Next, GetAction, GetStep,
     HandlerStep, DestroyStep, Ended

-----------------------------------------------------------------------------
\* The invariant holds in every state.
LEMMA Invariance == Spec => []IInv
BY InitInv, StepInv, PTL DEF Spec

\* Every variable keeps its type; in particular the unsigned counter of
\* circulating objects never goes below zero while the pool lives.
THEOREM TypeCorrect == Spec => []TypeOK
<1>1. IInv => TypeOK
  BY DEF IInv
<1> QED
  BY <1>1, Invariance, PTL

\* The counter objectsCirculating is exact up to the places that calls of
\* createObject without a result have taken for good.
THEOREM CounterExact == Spec => []CirculatingExact
<1>1. IInv => CirculatingExact
  BY DEF IInv
<1> QED
  BY <1>1, Invariance, PTL

\* Lent and pooled objects together never exceed objectsMax.
THEOREM LimitKept == Spec => []WithinLimit
<1>1. IInv => WithinLimit
  BY DEF IInv
<1> QED
  BY <1>1, Invariance, PTL

\* notify_one in release() is enough: there is a woken getter for every free
\* place as long as any getter is blocked.
THEOREM WakeupsSuffice == Spec => []NoLostWakeup
<1>1. IInv => NoLostWakeup
  BY DEF IInv
<1> QED
  BY <1>1, Invariance, PTL

\* No object is lent twice, nor lent while it is in the list.
THEOREM ExclusiveLending == Spec => []LentOnce
<1>1. IInv => LentOnce
  BY DEF IInv
<1> QED
  BY <1>1, Invariance, PTL

\* The destructor of a pool with a lifetime outlasts the last borrower.
THEOREM DestructorLast == Spec => []BorrowersOutlived
<1>1. IInv => BorrowersOutlived
  <2> SUFFICES ASSUME IInv, HasLifetime, pool = "destroyed" PROVE Holders = {}
    BY DEF BorrowersOutlived
  <2>1. objectsCirculating = 0
    BY DEF IInv, HandlerEnd, DestroyedEnd, HasLifetime
  <2>2. Holders \in SUBSET Clients
    BY DEF Holders
  <2>3. IsFiniteSet(Holders) /\ Cardinality(Holders) \in Nat
    BY <2>2, ClientsAssumption, FS_Subset, FS_CardinalityType
  <2>4. Cardinality(Holders) = 0
    BY <2>1, <2>3 DEF IInv, CirculatingExact, TypeOK
  <2> QED
    BY <2>3, <2>4, FS_EmptySet
<1> QED
  BY <1>1, Invariance, PTL

\* Without a lifetime the destructor leaves no getter blocked.
THEOREM GettersWoken == Spec => []NoGetterForgotten
<1>1. IInv => NoGetterForgotten
  BY DEF IInv
<1> QED
  BY <1>1, Invariance, PTL

-----------------------------------------------------------------------------
(* ObjectPool implements ObjectLending.                                    *)

\* The specification of lending counts with the same operator.
LEMMA SameCardinality == \A S : Lending!Cardinality(S) = Cardinality(S)
BY DEF Cardinality, Lending!Cardinality

\* Before another object is created there is room for it below the limit.
LEMMA RoomToCreate ==
    ASSUME IInv, NEW c \in Clients, Enters(c), objects = {}, ObjectsMax > 0
    PROVE  Cardinality(Lending!Existing) < ObjectsMax
<1> DEFINE lend == [d \in Holders |-> held[d]]
<1>1. /\ IsFiniteSet(Holders) /\ Cardinality(Holders) \in Nat
  <2>1. Holders \in SUBSET Clients
    BY DEF Holders
  <2> QED
    BY <2>1, ClientsAssumption, FS_Subset, FS_CardinalityType
<1>2. lend \in Surjection(Holders, Lending!Existing)
  BY DEF Surjection, Holders, Lending!Existing, Lending!Borrowed
<1>3. /\ IsFiniteSet(Lending!Existing)
      /\ Cardinality(Lending!Existing) <= Cardinality(Holders)
  BY <1>1, <1>2, FS_Surjection
<1>4. Cardinality(Lending!Existing) \in Nat
  BY <1>3, FS_CardinalityType
<1>5. Cardinality(Holders) <= objectsCirculating /\ objectsCirculating < ObjectsMax
  BY <1>1, ObjectsMaxAssumption, PoolAssumption
     DEF IInv, CirculatingExact, TypeOK, Enters
<1> QED
  BY <1>1, <1>3, <1>4, <1>5, ObjectsMaxAssumption DEF IInv, TypeOK

\* A step of the pool is a step of ObjectLending or changes nothing there.
LEMMA LendingStep ==
    ASSUME IInv, [Next]_vars
    PROVE  [Lending!Next]_<<objects, held, Phase>>
<1> DEFINE Stutter  == UNCHANGED <<objects, held, Phase>>
           Abstract == Stutter \/ Lending!Next
<1> USE Parts
<1> SUFFICES Abstract
  OBVIOUS
<1> HIDE DEF Abstract
<1>open. pool = "alive" <=> Phase = "open"
  BY DEF Phase
<1>1. ASSUME NEW c \in Clients, GetAction(c) PROVE Abstract
  <2>1. CASE Enters(c) /\ CreateNew(c)
    <3>1. /\ Phase = "open" /\ UNCHANGED Phase /\ held[c] = NoObject
          /\ objects = {} /\ UNCHANGED objects
          /\ \E o \in Unused : held' = [held EXCEPT ![c] = o]
      BY <2>1 DEF Enters, CreateNew, Phase
    <3>2. Unused \subseteq Objects \ Lending!Existing
      BY DEF Unused, Lending!Existing, Lending!Borrowed
    <3>3. ObjectsMax = 0 \/ Lending!Cardinality(Lending!Existing) < ObjectsMax
      BY <2>1, <3>1, RoomToCreate, SameCardinality, ObjectsMaxAssumption
    <3>4. Lending!Create(c)
      BY <3>1, <3>2, <3>3 DEF Lending!Create
    <3> QED
      BY <3>4 DEF Abstract, Lending!Next
  <2>2. CASE Enters(c) /\ TakeExisting(c)
    <3>1. /\ Phase = "open" /\ UNCHANGED Phase /\ held[c] = NoObject
          /\ \E o \in objects : /\ held' = [held EXCEPT ![c] = o]
                                /\ objects' = objects \ {o}
      BY <2>2 DEF Enters, TakeExisting, Phase
    <3>2. Lending!Lend(c)
      BY <3>1 DEF Lending!Lend
    <3> QED
      BY <3>2 DEF Abstract, Lending!Next
  <2>3. CASE CreateFails(c) \/ Leaves(c) \/ Stays(c)
    BY <2>3 DEF Abstract, CreateFails, Leaves, LeaveEmpty, Stays, Block, Phase,
       HasLifetime
  <2> QED
    BY <1>1, <2>1, <2>2, <2>3, GetCases
<1>2. ASSUME NEW c \in Clients, Release(c) PROVE Abstract
  <2>1. /\ held[c] # NoObject /\ Phase # "gone" /\ UNCHANGED Phase
        /\ held' = [held EXCEPT ![c] = NoObject]
        /\ \/ Phase = "open" /\ objects' = objects \union {held[c]}
           \/ UNCHANGED objects
    BY <1>2 DEF Release, Pooled, DescructorCalled, Phase
  <2>2. Lending!Return(c)
    BY <2>1 DEF Lending!Return
  <2> QED
    BY <2>2 DEF Abstract, Lending!Next
<1>3. ASSUME NEW c \in Clients, GetTimeout(c) \/ GetSpuriousWakeup(c)
      PROVE  Abstract
  BY <1>3 DEF Abstract, GetTimeout, GetSpuriousWakeup, Block, Phase
<1>4. ASSUME \/ \E o \in Objects : Expire(o)
             \/ HandlerTimeout \/ HandlerSpuriousWakeup \/ HandlerStart
      PROVE  Abstract
  BY <1>4 DEF Abstract, Expire, HandlerTimeout, HandlerSpuriousWakeup,
     HandlerStart, WaitAgain, Phase, HasLifetime
<1>5. CASE HandlerRound
  <2>1. objects' \in SUBSET objects /\ UNCHANGED <<held, Phase>>
    BY <1>5 DEF HandlerRound, WaitAgain, Phase, HasLifetime
  <2>2. Lending!Discard
    BY <2>1 DEF Lending!Discard
  <2> QED
    BY <2>2 DEF Abstract, Lending!Next
<1>6. CASE DestroyBegin
  <2>1. Lending!Close
    BY <1>6 DEF DestroyBegin, Phase, Lending!Close
  <2> QED
    BY <2>1 DEF Abstract, Lending!Next
<1>7. CASE DestroyNotify
  BY <1>7 DEF Abstract, DestroyNotify, Phase
<1>8. CASE DestroyJoin /\ handler = "ended"
  <2>1. Holders = {}
    <3>1. objectsCirculating = 0
      BY <1>8 DEF HandlerEnd
    <3>2. Holders \in SUBSET Clients
      BY DEF Holders
    <3>3. IsFiniteSet(Holders) /\ Cardinality(Holders) \in Nat
      BY <3>2, ClientsAssumption, FS_Subset, FS_CardinalityType
    <3>4. Cardinality(Holders) = 0
      BY <3>1, <3>3 DEF CirculatingExact, TypeOK
    <3> QED
      BY <3>3, <3>4, FS_EmptySet
  <2>2. Lending!Borrowed = {}
    BY <2>1 DEF Holders, Lending!Borrowed
  <2>3. Lending!Vanish
    BY <1>8, <2>2 DEF DestroyJoin, Phase, HasLifetime, Lending!Vanish
  <2> QED
    BY <2>3 DEF Abstract, Lending!Next
\* A pool without lifetime only drops the objects in its list.
<1>none. CASE DestroyJoin /\ handler = "none"
  <2>1. objects' \in SUBSET objects /\ UNCHANGED <<held, Phase>>
    BY <1>none DEF DestroyJoin, Phase, HasLifetime
  <2>2. Lending!Discard
    BY <2>1 DEF Lending!Discard
  <2> QED
    BY <2>2 DEF Abstract, Lending!Next
<1>9. CASE UNCHANGED vars
  BY <1>9 DEF Abstract, vars, Phase, HasLifetime
<1> QED
  BY <1>1, <1>2, <1>3, <1>4, <1>5, <1>6, <1>7, <1>8, <1>none, <1>9 DEF Next,
     GetAction, GetStep, HandlerStep, DestroyStep, DestroyJoin, Ended

\* The pool keeps the promise of ObjectLending: exclusive lending within the
\* limit, nothing lent by a pool that is closing, and with a lifetime nothing
\* borrowed from a pool that is gone.
THEOREM RefinesLending == Spec => LendingSpec
<1>1. Init => Lending!Init
  BY DEF Init, Lending!Init, Phase
<1>2. IInv /\ [Next]_vars => [Lending!Next]_<<objects, held, Phase>>
  BY LendingStep
<1> QED
  BY <1>1, <1>2, Invariance, PTL
     DEF Spec, LendingSpec, Lending!Spec, Lending!olVars
=============================================================================
