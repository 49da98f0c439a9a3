------------------------- MODULE SessionPool_proofs -------------------------
(***************************************************************************)
(* What TLAPS proves about SessionPool for every number of clients and     *)
(* keys, every limit, every width of the counts and both kinds of lifetime.*)
(*                                                                         *)
(* IInv carries the limit and the notifications; UseInv, for pools without *)
(* lifetime, adds that whoever holds a key finds its object in the pool.   *)
(* LendInv is what else the pool needs to implement SessionLending.        *)
(***************************************************************************)
EXTENDS SessionPool, FiniteSetTheorems, TLAPS

GetPCs     == {"idle", "waiting", "waitingFor", "woken", "wokenFor", "elapsed"}
HandlerPCs == {"none", "start", "waiting", "waitingFor", "woken", "ended"}
PoolPCs    == {"alive", "notify", "join", "destroyed"}

TypeOK ==
    /\ stored \subseteq Keys
    /\ circulating \in [Keys -> Nat]
    /\ expired \subseteq Keys
    /\ objectsCirculating \in Nat
    /\ held \in [Clients -> Keys \union {NoKey}]
    /\ valid \subseteq Clients
    /\ gpc \in [Clients -> GetPCs]
    /\ wanted \in [Clients -> Keys \union {NoKey}]
    /\ handler \in HandlerPCs
    /\ pool \in PoolPCs
    /\ createFailures \in Nat

\* A client inside get() knows its key and holds nothing yet.
EmptyHanded ==
    \A c \in Clients : gpc[c] # "idle" => held[c] = NoKey /\ wanted[c] \in Keys

\* get() raises the counter only below the limit.
CounterInLimit == ObjectsMax > 0 => objectsCirculating <= ObjectsMax

IInv == TypeOK /\ EmptyHanded /\ CounterInLimit /\ LimitKept /\ NobodyForgotten

-----------------------------------------------------------------------------
(* Cardinalities of sets of clients.                                       *)

\* Sets of clients are finite, and their cardinalities change by one with
\* one client.
LEMMA ClientSets ==
    ASSUME NEW S \in SUBSET Clients, NEW c \in Clients
    PROVE  /\ IsFiniteSet(S) /\ Cardinality(S) \in Nat
           /\ c \notin S => Cardinality(S \union {c}) = Cardinality(S) + 1
           /\ c \in S => /\ Cardinality(S \ {c}) = Cardinality(S) - 1
                         /\ Cardinality(S) > 0
<1>1. IsFiniteSet(S)
  BY ClientsAssumption, FS_Subset
<1>2. Cardinality(S) \in Nat
  BY <1>1, FS_CardinalityType
<1>3. c \notin S => Cardinality(S \union {c}) = Cardinality(S) + 1
  BY <1>1, FS_AddElement
<1>4. c \in S => Cardinality(S \ {c}) = Cardinality(S) - 1
  BY <1>1, FS_RemoveElement
<1>5. c \in S => Cardinality(S) > 0
  BY <1>1, <1>2, FS_EmptySet
<1> QED
  BY <1>1, <1>2, <1>3, <1>4, <1>5

\* Nobody holds anything.
LEMMA NoClients == IsFiniteSet({}) /\ Cardinality({}) = 0
BY FS_EmptySet

\* Who holds or is woken is a client.
LEMMA HoldersFinite == Holders \in SUBSET Clients /\ Woken \in SUBSET Clients
BY DEF Holders, Woken

-----------------------------------------------------------------------------
(* What a step of get() can be, whichever of the three actions it is.      *)

\* get() passes its wait in a pool that is alive.
Enters(c) ==
    /\ held[c] = NoKey
    /\ ObjectsMax = 0 \/ ObjectsMax > objectsCirculating
    /\ pool = "alive"

\* get() returns empty: it was woken by the destructor, or too late.
Leaves(c) ==
    /\ held[c] = NoKey
    /\ DescructorCalled \/ ObjectsMax <= objectsCirculating
    /\ LeaveEmpty(c)

\* get() waits (again) for a free place.
Stays(c, k) ==
    /\ held[c] = NoKey
    /\ pool = "alive" /\ ObjectsMax <= objectsCirculating
    /\ \E pc \in {"waiting", "waitingFor"} : Block(c, k, pc)

GetAction(c) == (\E k \in Keys : Get(c, k)) \/ GetWoken(c) \/ GetElapsed(c)

\* The three actions of get() enter, leave or stay.
LEMMA GetCases ==
    ASSUME IInv, NEW c \in Clients, GetAction(c)
    PROVE  \/ Leaves(c)
           \/ \E k \in Keys :
                 \/ /\ Enters(c)
                    /\ CreateNew(c, k) \/ CreateThrows(c, k) \/ ShareExisting(c, k)
                 \/ Stays(c, k)
<1> USE ObjectsMaxAssumption DEF IInv, TypeOK, EmptyHanded, Enters, Leaves,
        Stays, CheckGetObject, DescructorCalled, Proceed
<1>1. ASSUME NEW k \in Keys, Get(c, k)
      PROVE  \/ Leaves(c)
             \/ /\ Enters(c)
                /\ CreateNew(c, k) \/ CreateThrows(c, k) \/ ShareExisting(c, k)
             \/ Stays(c, k)
  BY <1>1 DEF Get
<1>2. CASE GetWoken(c)
  BY <1>2 DEF GetWoken
<1>3. CASE GetElapsed(c)
  BY <1>3 DEF GetElapsed
<1> QED
  BY <1>1, <1>2, <1>3 DEF GetAction

-----------------------------------------------------------------------------
\* The invariant holds of a new pool.
LEMMA InitInv == Init => IInv
<1> SUFFICES ASSUME Init PROVE IInv
  OBVIOUS
<1> USE DEF Init
<1>1. Holders = {} /\ Waiting = {}
  BY DEF Holders, Waiting
<1>2. Cardinality(Holders) = 0
  BY <1>1, NoClients
<1> QED
  BY <1>1, <1>2, ObjectsMaxAssumption DEF IInv, TypeOK, EmptyHanded,
     CounterInLimit, LimitKept, NobodyForgotten, GetPCs, HandlerPCs, PoolPCs

-----------------------------------------------------------------------------
(* The steps that preserve IInv.                                           *)

\* A getter that passes takes one free place and its own wakeup.
LEMMA WakeUsed ==
    ASSUME IInv, NEW c \in Clients, pool = "alive", pool' = pool,
           gpc' = [gpc EXCEPT ![c] = "idle"],
           objectsCirculating' = objectsCirculating + 1
    PROVE  NobodyForgotten'
<1> SUFFICES ASSUME Waiting' # {}
             PROVE  ObjectsMax - objectsCirculating' <= Cardinality(Woken')
  BY DEF NobodyForgotten, DescructorCalled
<1>1. Waiting' \subseteq Waiting /\ Woken' = Woken \ {c}
  BY DEF IInv, TypeOK, Waiting, Woken, GetPCs
<1>2. ObjectsMax - objectsCirculating <= Cardinality(Woken)
  BY <1>1 DEF IInv, NobodyForgotten, DescructorCalled
<1>3. /\ Cardinality(Woken) \in Nat
      /\ c \in Woken => Cardinality(Woken \ {c}) = Cardinality(Woken) - 1
      /\ c \notin Woken => Woken \ {c} = Woken
  BY ClientSets, HoldersFinite
<1>4. objectsCirculating \in Nat /\ ObjectsMax \in Nat
  BY ObjectsMaxAssumption DEF IInv, TypeOK
<1>5. CASE c \in Woken
  <2>1. Cardinality(Woken') = Cardinality(Woken) - 1
    BY <1>1, <1>3, <1>5
  <2> QED
    BY <2>1, <1>2, <1>3, <1>4
<1>6. CASE c \notin Woken
  <2>1. Cardinality(Woken') = Cardinality(Woken)
    BY <1>1, <1>3, <1>6
  <2> QED
    BY <2>1, <1>2, <1>3, <1>4
<1> QED
  BY <1>5, <1>6

\* A getter that stops waiting and is on its way back to the mutex, after a
\* release or by itself.
LEMMA WakeAdded ==
    ASSUME IInv, NEW c \in Clients, NEW pc \in {"woken", "wokenFor", "elapsed"},
           gpc' = [gpc EXCEPT ![c] = pc], pool' = pool,
           objectsCirculating' \in Nat,
           \/ objectsCirculating' = objectsCirculating
           \/ objectsCirculating' = objectsCirculating - 1 /\ c \in Waiting
    PROVE  Waiting' # {} /\ pool = "alive" =>
               ObjectsMax - objectsCirculating' <= Cardinality(Woken')
<1> SUFFICES ASSUME Waiting' # {}, pool = "alive"
             PROVE  ObjectsMax - objectsCirculating' <= Cardinality(Woken')
  OBVIOUS
<1>1. Waiting' \subseteq Waiting /\ Woken' = Woken \union {c}
  BY DEF IInv, TypeOK, Waiting, Woken, GetPCs
<1>2. ObjectsMax - objectsCirculating <= Cardinality(Woken)
  BY <1>1 DEF IInv, NobodyForgotten, DescructorCalled
<1>3. /\ Cardinality(Woken) \in Nat
      /\ c \notin Woken => Cardinality(Woken \union {c}) = Cardinality(Woken) + 1
      /\ c \in Woken => Woken \union {c} = Woken
  BY ClientSets, HoldersFinite
<1>4. c \in Waiting => c \notin Woken
  BY DEF Waiting, Woken
<1>5. objectsCirculating \in Nat /\ ObjectsMax \in Nat
  BY ObjectsMaxAssumption DEF IInv, TypeOK
<1>6. CASE c \in Woken
  <2>1. Cardinality(Woken') = Cardinality(Woken)
    BY <1>1, <1>3, <1>6
  <2>2. objectsCirculating' = objectsCirculating
    BY <1>4, <1>6
  <2> QED
    BY <2>1, <2>2, <1>2
<1>7. CASE c \notin Woken
  <2>1. Cardinality(Woken') = Cardinality(Woken) + 1
    BY <1>1, <1>3, <1>7
  <2> QED
    BY <2>1, <1>2, <1>3, <1>5
<1> QED
  BY <1>6, <1>7

\* get() lends an object, or createObject() throws.
LEMMA EnterKeepsInv ==
    ASSUME IInv, NEW c \in Clients, NEW k \in Keys, Enters(c),
           CreateNew(c, k) \/ CreateThrows(c, k) \/ ShareExisting(c, k)
    PROVE  IInv'
<1> USE ObjectsMaxAssumption, NoKeyAssumption, SizeModulusAssumption
        DEF IInv, Enters, GetReturns, Lent
<1>1. /\ gpc' = [gpc EXCEPT ![c] = "idle"]
      /\ wanted' = [wanted EXCEPT ![c] = NoKey]
      /\ objectsCirculating' = objectsCirculating + 1
      /\ UNCHANGED <<handler, pool>>
      /\ \/ held' = [held EXCEPT ![c] = k] /\ UNCHANGED createFailures
         \/ UNCHANGED held /\ createFailures' = createFailures + 1
  BY DEF CreateNew, CreateThrows, ShareExisting
<1>2. circulating' \in [Keys -> Nat]
  <2>1. \A n \in Nat : (n + 1) % SizeModulus \in Nat
    OBVIOUS
  <2> QED
    BY <2>1 DEF TypeOK, CreateNew, CreateThrows, ShareExisting
<1>3. stored' \subseteq Keys /\ expired' \subseteq Keys /\ valid' \subseteq Clients
  BY DEF TypeOK, CreateNew, CreateThrows, ShareExisting
<1>4. TypeOK'
  BY <1>1, <1>2, <1>3 DEF TypeOK, GetPCs
<1>5. EmptyHanded' /\ CounterInLimit'
  BY <1>1 DEF TypeOK, EmptyHanded, CounterInLimit
<1>6. LimitKept'
  <2>1. \/ Holders' = Holders \union {c} /\ c \notin Holders /\ UNCHANGED createFailures
        \/ Holders' = Holders /\ createFailures' = createFailures + 1
    BY <1>1 DEF Holders, TypeOK
  <2>2. Cardinality(Holders) \in Nat /\ Cardinality(Holders') \in Nat
    BY <2>1, ClientSets, HoldersFinite
  <2>3. \/ /\ Cardinality(Holders') = Cardinality(Holders) + 1
           /\ UNCHANGED createFailures
        \/ /\ Cardinality(Holders') = Cardinality(Holders)
           /\ createFailures' = createFailures + 1
    BY <2>1, ClientSets, HoldersFinite
  <2> QED
    BY <1>1, <1>4, <1>5, <2>2, <2>3 DEF LimitKept, CounterInLimit, TypeOK
<1>7. NobodyForgotten'
  BY <1>1, WakeUsed
<1> QED
  BY <1>4, <1>5, <1>6, <1>7

\* get() returns empty or waits.
LEMMA BackKeepsInv ==
    ASSUME IInv, NEW c \in Clients,
           Leaves(c) \/ \E k \in Keys : Stays(c, k)
    PROVE  IInv'
<1> USE ObjectsMaxAssumption DEF IInv, Leaves, Stays, LeaveEmpty, GetReturns,
        Block, objectVars
<1>1. TypeOK' /\ EmptyHanded' /\ CounterInLimit'
  BY DEF TypeOK, GetPCs, EmptyHanded, CounterInLimit
<1>2. LimitKept'
  BY DEF LimitKept, Holders
<1>3. NobodyForgotten'
  <2>1. Cardinality(Woken') \in Nat
    <3>1. Woken' \in SUBSET Clients
      BY DEF Woken
    <3> QED
      BY <3>1, ClientSets
  <2> QED
    BY <2>1 DEF NobodyForgotten, DescructorCalled, TypeOK
<1> QED
  BY <1>1, <1>2, <1>3

\* A wait of get() ends by time or spuriously.
LEMMA WakeKeepsInv ==
    ASSUME IInv, NEW c \in Clients, GetTimeout(c) \/ GetSpuriousWakeup(c)
    PROVE  IInv'
<1> USE ObjectsMaxAssumption DEF IInv, Block, objectVars
<1>1. PICK pc \in {"woken", "wokenFor", "elapsed"} : Block(c, wanted[c], pc)
  BY DEF GetTimeout, GetSpuriousWakeup, Waiting, Wake
<1>2. gpc[c] # "idle"
  BY DEF GetTimeout, GetSpuriousWakeup, Waiting
<1>3. TypeOK' /\ EmptyHanded' /\ CounterInLimit'
  BY <1>1, <1>2 DEF TypeOK, GetPCs, EmptyHanded, CounterInLimit
<1>4. LimitKept'
  BY <1>1 DEF LimitKept, Holders
<1>5. NobodyForgotten'
  <2>1. Waiting' # {} /\ pool = "alive" =>
            ObjectsMax - objectsCirculating' <= Cardinality(Woken')
    BY <1>1, WakeAdded DEF TypeOK
  <2> QED
    BY <1>1, <2>1 DEF NobodyForgotten, DescructorCalled
<1> QED
  BY <1>3, <1>4, <1>5

\* A release counts down and wakes one getter and the handler.
LEMMA ReleaseKeepsInv ==
    ASSUME IInv, NEW c \in Clients, Release(c)
    PROVE  IInv'
<1> USE ObjectsMaxAssumption, NoKeyAssumption, SizeModulusAssumption DEF IInv
<1>1. /\ held[c] \in Keys
      /\ objectsCirculating' = objectsCirculating - 1
      /\ held' = [held EXCEPT ![c] = NoKey]
      /\ handler' = HandlerNotified
      /\ UNCHANGED <<expired, wanted, pool, createFailures>>
  BY DEF Release, ReleaseNotify, TypeOK
<1>2. c \in Holders /\ Holders' = Holders \ {c}
  BY <1>1 DEF Holders, TypeOK
<1>3. /\ Cardinality(Holders) \in Nat /\ Cardinality(Holders) > 0
      /\ Cardinality(Holders') = Cardinality(Holders) - 1
  BY <1>2, ClientSets, HoldersFinite
<1>4. objectsCirculating' \in Nat
  BY <1>1, <1>3 DEF LimitKept, TypeOK
<1>5. \/ Waiting = {} /\ gpc' = gpc
      \/ \E d \in Waiting, pc \in {"woken", "wokenFor"} :
             gpc' = [gpc EXCEPT ![d] = pc]
  BY DEF Release, ReleaseNotify, Waiting, Wake
<1>6. circulating' \in [Keys -> Nat]
  <2>1. \A n \in Nat : (n + SizeModulus - 1) % SizeModulus \in Nat
    OBVIOUS
  <2> QED
    BY <2>1 DEF TypeOK, Release
<1>7. stored' \subseteq Keys /\ valid' \subseteq Clients
  BY DEF Release, Erase, TypeOK
<1>8. gpc' \in [Clients -> GetPCs]
  BY <1>5 DEF TypeOK, GetPCs
<1>9. TypeOK'
  BY <1>1, <1>4, <1>6, <1>7, <1>8 DEF TypeOK, HandlerPCs, HandlerNotified
<1>10. EmptyHanded'
  BY <1>1, <1>5 DEF EmptyHanded, TypeOK, Waiting
<1>11. CounterInLimit' /\ LimitKept'
  BY <1>1, <1>3 DEF CounterInLimit, LimitKept, TypeOK
<1>12. NobodyForgotten'
  <2>1. handler' # "waiting"
    BY <1>1 DEF HandlerNotified
  <2>2. Waiting' # {} /\ pool = "alive" =>
            ObjectsMax - objectsCirculating' <= Cardinality(Woken')
    <3>1. CASE Waiting = {} /\ gpc' = gpc
      BY <3>1 DEF Waiting
    <3>2. CASE \E d \in Waiting, pc \in {"woken", "wokenFor"} :
                   gpc' = [gpc EXCEPT ![d] = pc]
      BY <3>2, <1>1, <1>4, WakeAdded DEF Waiting
    <3> QED
      BY <1>5, <3>1, <3>2
  <2> QED
    BY <1>1, <2>1, <2>2 DEF NobodyForgotten, DescructorCalled
<1> QED
  BY <1>9, <1>10, <1>11, <1>12

\* A release of a key that is gone changes nothing but what its client holds.
LEMMA UnknownKeepsInv ==
    ASSUME IInv, NEW c \in Clients, ReleaseUnknown(c)
    PROVE  IInv'
<1> USE ObjectsMaxAssumption, NoKeyAssumption DEF IInv, ReleaseUnknown, objectVars
<1>1. TypeOK' /\ EmptyHanded' /\ CounterInLimit'
  BY DEF TypeOK, EmptyHanded, CounterInLimit
<1>2. LimitKept'
  <2>1. c \in Holders /\ Holders' = Holders \ {c}
    BY DEF Holders, TypeOK
  <2>2. /\ Cardinality(Holders) \in Nat
        /\ Cardinality(Holders') = Cardinality(Holders) - 1
    BY <2>1, ClientSets, HoldersFinite
  <2> QED
    BY <2>2 DEF LimitKept, TypeOK
<1>3. NobodyForgotten'
  BY DEF NobodyForgotten, DescructorCalled, Waiting, Woken
<1> QED
  BY <1>1, <1>2, <1>3

\* The handler and the destructor destroy objects and wake all getters, but
\* change neither the counter nor what is held; the handler blocks without a
\* time limit in a closing pool only while something is lent.
LEMMA CloseKeepsInv ==
    ASSUME IInv,
           HandlerStart \/ HandlerRound \/ DestroyBegin \/ DestroyNotify \/ DestroyJoin
    PROVE  IInv'
<1> USE ObjectsMaxAssumption DEF IInv
<1>1. /\ UNCHANGED <<circulating, expired, objectsCirculating, createFailures,
                     held, wanted>>
      /\ stored' \subseteq stored /\ valid' \subseteq valid
      /\ gpc' = gpc \/ NotifyAllGetters
      /\ pool' \in PoolPCs /\ (pool # "alive" => pool' # "alive")
  BY DEF HandlerStart, HandlerRound, DestroyBegin, DestroyNotify, DestroyJoin,
     Erase, objectVars, clientVars, PoolPCs, TypeOK
<1>2. handler' \in HandlerPCs
  BY DEF HandlerStart, HandlerRound, DestroyBegin, DestroyNotify, DestroyJoin,
     WaitAgain, HandlerNotified, HandlerPCs, TypeOK
<1>3. gpc' \in [Clients -> GetPCs] /\ \A c \in Clients : gpc'[c] = "idle" <=> gpc[c] = "idle"
  BY <1>1 DEF NotifyAllGetters, Wake, GetPCs, TypeOK
<1>4. TypeOK' /\ EmptyHanded' /\ CounterInLimit'
  BY <1>1, <1>2, <1>3 DEF TypeOK, EmptyHanded, CounterInLimit
<1>5. LimitKept'
  BY <1>1 DEF LimitKept, Holders
<1>6. pool' = "alive" /\ Waiting' # {} =>
          ObjectsMax - objectsCirculating' <= Cardinality(Woken')
  <2>1. CASE gpc' = gpc
    BY <2>1, <1>1 DEF NobodyForgotten, DescructorCalled, Waiting, Woken
  <2>2. CASE NotifyAllGetters
    BY <2>2, <1>1 DEF NotifyAllGetters, Wake, Waiting
  <2> QED
    BY <1>1, <2>1, <2>2
<1>7. pool' = "join" /\ handler' = "waiting" => objectsCirculating' > 0
  <2>1. objectsCirculating \in Nat /\ UNCHANGED objectsCirculating
    BY <1>1 DEF TypeOK
  <2>2. CASE HandlerStart \/ HandlerRound
    BY <2>1, <2>2 DEF HandlerStart, HandlerRound, WaitAgain, DescructorCalled
  <2>3. CASE DestroyBegin \/ DestroyNotify \/ DestroyJoin
    BY <2>1, <2>3 DEF DestroyBegin, DestroyNotify, DestroyJoin, HandlerNotified,
       HasLifetime
  <2> QED
    BY <2>2, <2>3
<1> QED
  BY <1>4, <1>5, <1>6, <1>7 DEF NobodyForgotten, DescructorCalled

\* Lifetimes elapse and waits of the handler end.
LEMMA TimeKeepsInv ==
    ASSUME IInv,
           \/ \E k \in Keys : Expire(k)
           \/ HandlerTimeout \/ HandlerSpuriousWakeup \/ UNCHANGED vars
    PROVE  IInv'
<1>1. /\ UNCHANGED <<stored, circulating, objectsCirculating, createFailures,
                     held, valid, gpc, wanted, pool>>
      /\ expired' \subseteq Keys
      /\ handler' = handler \/ handler' = "woken"
  BY DEF Expire, HandlerTimeout, HandlerSpuriousWakeup, vars, objectVars,
     clientVars, IInv, TypeOK
<1> QED
  BY <1>1 DEF IInv, TypeOK, HandlerPCs, EmptyHanded, CounterInLimit, LimitKept,
     NobodyForgotten, Holders, Waiting, Woken, DescructorCalled

\* Every step keeps the invariant.
LEMMA StepInv == IInv /\ [Next]_vars => IInv'
<1> SUFFICES ASSUME IInv, [Next]_vars PROVE IInv'
  OBVIOUS
<1>1. ASSUME NEW c \in Clients, GetAction(c) PROVE IInv'
  <2>1. CASE Leaves(c) \/ \E k \in Keys : Stays(c, k)
    BY <2>1, BackKeepsInv
  <2>2. CASE \E k \in Keys :
                /\ Enters(c)
                /\ CreateNew(c, k) \/ CreateThrows(c, k) \/ ShareExisting(c, k)
    BY <2>2, EnterKeepsInv
  <2> QED
    BY <1>1, <2>1, <2>2, GetCases
<1>2. ASSUME NEW c \in Clients, GiveBack(c) PROVE IInv'
  BY <1>2, ReleaseKeepsInv, UnknownKeepsInv DEF GiveBack
<1>3. ASSUME NEW c \in Clients, GetTimeout(c) \/ GetSpuriousWakeup(c)
      PROVE  IInv'
  BY <1>3, WakeKeepsInv
<1>4. CASE HandlerStep \/ DestroyBegin \/ DestroyStep
  BY <1>4, CloseKeepsInv DEF HandlerStep, DestroyStep
<1>5. CASE \/ \E k \in Keys : Expire(k)
           \/ HandlerTimeout \/ HandlerSpuriousWakeup \/ UNCHANGED vars
  BY <1>5, TimeKeepsInv
<1> QED
  BY <1>1, <1>2, <1>3, <1>4, <1>5 DEF Next, GetAction, GetStep, Ended

\* The invariant holds in every state.
LEMMA Invariance == Spec => []IInv
BY InitInv, StepInv, PTL DEF Spec

-----------------------------------------------------------------------------
\* Every variable keeps its type: the counter of SessionPool, which is
\* unsigned and lowered by every known release, never goes below zero.
THEOREM TypeCorrect == Spec => []TypeOK
BY Invariance, PTL DEF IInv

\* The limit of get() is one on lendings: the counter behind it never says less
\* than the clients hold, whatever the handler destroyed in the meantime.
THEOREM LimitOnLendings == Spec => []LimitKept
BY Invariance, PTL DEF IInv

\* No getter that the counter would let through stays blocked without a woken
\* one for its place, and the handler that a destructor waits for is blocked only
\* because of what the counter says is lent.
THEOREM NotificationsSuffice == Spec => []NobodyForgotten
BY Invariance, PTL DEF IInv

-----------------------------------------------------------------------------
(* Counting with a fixed width.                                            *)

\* Remainders are unique.
LEMMA RemainderUnique ==
    ASSUME NEW m \in Nat \ {0}, NEW q \in Int, NEW p \in Int,
           NEW r \in 0..(m - 1), NEW s \in 0..(m - 1),
           (m * q) + r = (m * p) + s
    PROVE  r = s
<1>1. CASE q > p
  <2>1. q - p >= 1
    BY <1>1
  <2>2. m * (q - p) >= m
    BY <2>1
  <2>3. m * (q - p) = s - r
    OBVIOUS
  <2> QED
    BY <2>2, <2>3
<1>2. CASE p > q
  <2>1. p - q >= 1
    BY <1>2
  <2>2. m * (p - q) >= m
    BY <2>1
  <2>3. m * (p - q) = r - s
    OBVIOUS
  <2> QED
    BY <2>2, <2>3
<1>3. CASE p = q
  BY <1>3
<1> QED
  BY <1>1, <1>2, <1>3

\* A number is a multiple and its remainder.
LEMMA Remainder ==
    ASSUME NEW n \in Nat, NEW m \in Nat \ {0}
    PROVE  /\ (n % m) \in 0..(m - 1)
           /\ \E q \in Int : n = (m * q) + (n % m)
<1>1. (n % m) \in 0..(m - 1)
  OBVIOUS
<1>2. (n \div m) \in Int
  OBVIOUS
<1>3. n = (m * (n \div m)) + (n % m)
  OBVIOUS
<1> QED
  BY <1>1, <1>2, <1>3

\* Numbers that differ by a multiple of m have the same remainder.
LEMMA SameRemainder ==
    ASSUME NEW m \in Nat \ {0}, NEW a \in Nat, NEW b \in Nat, NEW z \in Int,
           a = (m * z) + b
    PROVE  a % m = b % m
<1>1. PICK q \in Int : a = (m * q) + (a % m)
  BY Remainder
<1>2. PICK p \in Int : b = (m * p) + (b % m)
  BY Remainder
<1>r. (a % m) \in 0..(m - 1) /\ (b % m) \in 0..(m - 1)
  BY Remainder
<1>3. (m * q) + (a % m) = (m * (z + p)) + (b % m)
  <2>1. m * (z + p) = (m * z) + (m * p)
    OBVIOUS
  <2> QED
    BY <2>1, <1>1, <1>2, <1>r
<1>4. z + p \in Int
  OBVIOUS
<1> QED
  BY <1>3, <1>4, <1>r, RemainderUnique

\* A counter of a fixed width that follows a number up and down stays its
\* remainder.
LEMMA CounterFollows ==
    ASSUME NEW n \in Nat, NEW m \in Nat \ {0, 1}
    PROVE  /\ 1 % m = 1
           /\ ((n % m) + 1) % m = (n + 1) % m
           /\ n > 0 => ((n % m) + m - 1) % m = (n - 1) % m
<1>1. PICK q \in Int : n = (m * q) + (n % m)
  BY Remainder
<1>2. (n % m) \in Nat
  BY Remainder
<1>3. ((n % m) + 1) % m = (n + 1) % m
  <2>1. n + 1 = (m * q) + ((n % m) + 1)
    BY <1>1, <1>2
  <2>2. n + 1 \in Nat /\ (n % m) + 1 \in Nat
    BY <1>2
  <2> QED
    BY ZenonT(30), <2>1, <2>2, SameRemainder
<1>4. ASSUME n > 0 PROVE ((n % m) + m - 1) % m = (n - 1) % m
  <2>1. n - 1 = (m * (q - 1)) + ((n % m) + m - 1)
    <3>1. m * (q - 1) = (m * q) - m
      OBVIOUS
    <3> QED
      BY <3>1, <1>1, <1>2
  <2>2. (n % m) + m - 1 \in Nat /\ n - 1 \in Nat /\ q - 1 \in Int
    BY <1>2, <1>4
  <2>3. PICK a \in Nat, b \in Nat, z \in Int :
            a = n - 1 /\ b = (n % m) + m - 1 /\ z = q - 1
    BY <2>2
  <2>4. a = (m * z) + b
    BY <2>1, <2>3
  <2>5. a % m = b % m
    BY <2>4, SameRemainder
  <2> QED
    BY <2>3, <2>5
<1>5. 1 % m = 1
  OBVIOUS
<1> QED
  BY <1>3, <1>4, <1>5

-----------------------------------------------------------------------------
(* Pools without lifetime.                                                 *)

\* Nothing expires, so that nothing is destroyed before the pool: what a client
\* holds is there.
KeysStored ==
    ~HasLifetime /\ pool # "destroyed" =>
        expired = {} /\ \A c \in Holders : held[c] \in stored

UseInv == KeysStored /\ UseIsCounted

\* Counts are exact in a new pool.
LEMMA UseInit == Init => UseInv
<1> SUFFICES ASSUME Init PROVE UseInv
  OBVIOUS
<1>1. Holders = {} /\ stored = {} /\ expired = {} /\ valid = {}
  BY DEF Init, Holders
<1> QED
  BY <1>1 DEF UseInv, KeysStored, UseIsCounted

\* The handler exists or not from the beginning, and nothing is after the
\* destructor.
LEMMA SamePool ==
    ASSUME IInv, [Next]_vars
    PROVE  /\ HasLifetime' <=> HasLifetime
           /\ pool' # "destroyed" => pool # "destroyed"
<1> USE DEF HasLifetime, IInv, TypeOK
<1>1. ASSUME NEW c \in Clients, GetAction(c)
      PROVE  UNCHANGED <<handler, pool>>
  BY <1>1, GetCases DEF Leaves, LeaveEmpty, GetReturns, Stays, Block, CreateNew,
     CreateThrows, ShareExisting, Lent
<1>2. ASSUME NEW c \in Clients, GiveBack(c)
      PROVE  UNCHANGED pool /\ (handler' = handler \/ handler' = HandlerNotified)
  BY <1>2 DEF GiveBack, Release, ReleaseUnknown, ReleaseNotify
<1>3. ASSUME NEW c \in Clients, GetTimeout(c) \/ GetSpuriousWakeup(c)
      PROVE  UNCHANGED <<handler, pool>>
  BY <1>3 DEF GetTimeout, GetSpuriousWakeup, Block
<1>4. ASSUME HandlerStep \/ HandlerTimeout \/ HandlerSpuriousWakeup
      PROVE  UNCHANGED pool /\ handler # "none" /\ handler' # "none"
  BY <1>4 DEF HandlerStep, HandlerStart, HandlerRound, WaitAgain, HandlerTimeout,
     HandlerSpuriousWakeup
<1>5. ASSUME NEW k \in Keys, Expire(k) PROVE UNCHANGED <<handler, pool>>
  BY <1>5 DEF Expire
<1>6. ASSUME DestroyBegin \/ DestroyStep
      PROVE  /\ pool # "destroyed"
             /\ handler' = handler \/ handler' = HandlerNotified
  BY <1>6 DEF DestroyBegin, DestroyStep, DestroyNotify, DestroyJoin
<1>7. CASE UNCHANGED vars
  BY <1>7 DEF vars
<1> QED
  BY <1>1, <1>2, <1>3, <1>4, <1>5, <1>6, <1>7 DEF Next, GetAction, GetStep,
     Ended, HandlerNotified

\* Who is a user of a key, and in all, after one client has got it.
LEMMA KeyTaken ==
    ASSUME IInv, NEW c \in Clients, NEW k \in Keys, held[c] = NoKey,
           held' = [held EXCEPT ![c] = k]
    PROVE  /\ Holders' = Holders \union {c}
           /\ HoldersOf(k)' = HoldersOf(k) \union {c} /\ c \notin HoldersOf(k)
           /\ \A j \in Keys \ {k} : HoldersOf(j)' = HoldersOf(j)
BY NoKeyAssumption DEF IInv, TypeOK, Holders, HoldersOf

\* The counts after one client has got a key whose count was right, and after
\* one has given it back.
LEMMA CountsUpAndDown ==
    ASSUME NEW c \in Clients, NEW S \in SUBSET Clients
    PROVE  /\ c \notin S =>
                 ((Cardinality(S) % SizeModulus) + 1) % SizeModulus
                 = Cardinality(S \union {c}) % SizeModulus
           /\ c \in S =>
                 ((Cardinality(S) % SizeModulus) + SizeModulus - 1) % SizeModulus
                 = Cardinality(S \ {c}) % SizeModulus
<1>1. Cardinality(S) \in Nat
  BY ClientSets
<1>2. CASE c \notin S
  <2>1. Cardinality(S \union {c}) = Cardinality(S) + 1
    BY <1>2, ClientSets
  <2> QED
    BY <2>1, <1>1, <1>2, CounterFollows, SizeModulusAssumption
<1>3. CASE c \in S
  <2>1. Cardinality(S \ {c}) = Cardinality(S) - 1 /\ Cardinality(S) > 0
    BY <1>3, ClientSets
  <2> QED
    BY <2>1, <1>1, <1>3, CounterFollows, SizeModulusAssumption
<1> QED
  BY <1>2, <1>3

\* get() lends an object of a pool without lifetime.
LEMMA EnterKeepsUse ==
    ASSUME IInv, UseInv, NEW c \in Clients, NEW k \in Keys, Enters(c), ~HasLifetime,
           CreateNew(c, k) \/ CreateThrows(c, k) \/ ShareExisting(c, k)
    PROVE  UseInv'
<1> USE DEF Enters, Lent, GetReturns
<1>1. ~HasLifetime' /\ pool' = pool /\ pool # "destroyed"
  BY DEF HasLifetime, CreateNew, CreateThrows, ShareExisting
<1>2. /\ expired = {} /\ Holders = valid /\ \A d \in Holders : held[d] \in stored
      /\ \A j \in stored : circulating[j] = Cardinality(HoldersOf(j)) % SizeModulus
  BY <1>1 DEF UseInv, KeysStored, UseIsCounted
<1>3. CASE CreateThrows(c, k)
  BY <1>1, <1>2, <1>3 DEF CreateThrows, UseInv, KeysStored, UseIsCounted, Holders,
     HoldersOf
<1>4. CASE CreateNew(c, k)
  <2>1. /\ Holders' = Holders \union {c} /\ valid' = valid \union {c}
        /\ HoldersOf(k)' = HoldersOf(k) \union {c}
        /\ \A j \in Keys \ {k} : HoldersOf(j)' = HoldersOf(j)
    BY <1>4, KeyTaken DEF CreateNew
  <2>2. HoldersOf(k) = {}
    BY <1>2, <1>4, NoKeyAssumption DEF CreateNew, Holders, HoldersOf
  <2>3. Cardinality(HoldersOf(k)') = 1
    <3>1. HoldersOf(k)' = {} \union {c}
      BY <2>1, <2>2
    <3> QED
      BY <3>1, NoClients, ClientSets
  <2>4. circulating'[k] = Cardinality(HoldersOf(k)') % SizeModulus
    BY <2>3, <1>4, CounterFollows, SizeModulusAssumption DEF CreateNew, IInv, TypeOK
  <2>5. \A j \in stored : circulating'[j] = Cardinality(HoldersOf(j)') % SizeModulus
    BY <2>1, <1>2, <1>4 DEF CreateNew, IInv, TypeOK
  <2>6. \A j \in stored' : circulating'[j] = Cardinality(HoldersOf(j)') % SizeModulus
    BY <2>4, <2>5, <1>4 DEF CreateNew
  <2>7. expired' = {} /\ \A d \in Holders' : held'[d] \in stored'
    BY <1>2, <1>4, <2>1 DEF CreateNew, IInv, TypeOK
  <2> QED
    BY <1>2, <2>1, <2>6, <2>7 DEF UseInv, KeysStored, UseIsCounted
<1>5. CASE ShareExisting(c, k)
  <2>1. /\ Holders' = Holders \union {c} /\ valid' = valid \union {c}
        /\ HoldersOf(k)' = HoldersOf(k) \union {c} /\ c \notin HoldersOf(k)
        /\ \A j \in Keys \ {k} : HoldersOf(j)' = HoldersOf(j)
    BY <1>5, KeyTaken DEF ShareExisting
  <2>2. circulating'[k] = Cardinality(HoldersOf(k)') % SizeModulus
    <3>1. HoldersOf(k) \in SUBSET Clients
      BY DEF HoldersOf
    <3>2. circulating'[k] = (circulating[k] + 1) % SizeModulus
      BY <1>5 DEF ShareExisting, IInv, TypeOK
    <3>3. circulating[k] = Cardinality(HoldersOf(k)) % SizeModulus
      BY <1>2, <1>5 DEF ShareExisting
    <3> QED
      BY <3>1, <3>2, <3>3, <2>1, CountsUpAndDown
  <2>3. \A j \in stored : circulating'[j] = Cardinality(HoldersOf(j)') % SizeModulus
    BY <2>1, <2>2, <1>2, <1>5 DEF ShareExisting, IInv, TypeOK
  <2>4. /\ expired' = {} /\ stored' = stored
        /\ \A d \in Holders' : held'[d] \in stored'
    BY <1>2, <1>5, <2>1 DEF ShareExisting, IInv, TypeOK
  <2> QED
    BY <1>2, <2>1, <2>3, <2>4 DEF UseInv, KeysStored, UseIsCounted
<1> QED
  BY <1>3, <1>4, <1>5

\* A release in a pool without lifetime.
LEMMA ReleaseKeepsUse ==
    ASSUME IInv, UseInv, NEW c \in Clients, GiveBack(c), ~HasLifetime
    PROVE  UseInv'
<1>1. pool # "destroyed" /\ held[c] # NoKey /\ c \in Holders
  BY DEF GiveBack, Release, ReleaseUnknown, Holders
<1>2. /\ expired = {} /\ Holders = valid /\ \A d \in Holders : held[d] \in stored
      /\ \A j \in stored : circulating[j] = Cardinality(HoldersOf(j)) % SizeModulus
  BY <1>1 DEF UseInv, KeysStored, UseIsCounted
<1>3. Release(c) /\ held[c] \in stored
  BY <1>1, <1>2 DEF GiveBack, ReleaseUnknown
<1>4. /\ held' = [held EXCEPT ![c] = NoKey] /\ expired' = {} /\ stored' = stored
      /\ valid' = {d \in valid : held'[d] # NoKey}
      /\ circulating' = [circulating EXCEPT ![held[c]] =
                            (@ + SizeModulus - 1) % SizeModulus]
  <2>1. Erase({})
    BY <1>2, <1>3 DEF Release
  <2> QED
    BY <1>2, <1>3, <2>1 DEF Release, Erase
<1>5. Holders' = Holders \ {c} /\ valid' = Holders'
  BY <1>2, <1>4 DEF IInv, TypeOK, Holders
<1>6. \A j \in stored : circulating'[j] = Cardinality(HoldersOf(j)') % SizeModulus
  <2> SUFFICES ASSUME NEW j \in stored
               PROVE  circulating'[j] = Cardinality(HoldersOf(j)') % SizeModulus
    OBVIOUS
  <2>1. CASE j = held[c]
    <3>1. /\ HoldersOf(j) \in SUBSET Clients /\ c \in HoldersOf(j)
          /\ HoldersOf(j)' = HoldersOf(j) \ {c}
      BY <2>1, <1>1, <1>4 DEF HoldersOf, IInv, TypeOK
    <3>2. circulating'[j] = (circulating[j] + SizeModulus - 1) % SizeModulus
      BY <2>1, <1>4 DEF IInv, TypeOK
    <3> QED
      BY <3>1, <3>2, <1>2, CountsUpAndDown
  <2>2. CASE j # held[c]
    <3>1. HoldersOf(j)' = HoldersOf(j)
      BY <2>2, <1>4, NoKeyAssumption DEF HoldersOf, IInv, TypeOK
    <3>2. circulating'[j] = circulating[j]
      BY <2>2, <1>4 DEF IInv, TypeOK
    <3> QED
      BY <3>1, <3>2, <1>2
  <2> QED
    BY <2>1, <2>2
<1>7. \A d \in Holders' : held'[d] \in stored'
  BY <1>2, <1>4, <1>5 DEF IInv, TypeOK, Holders
<1> QED
  BY <1>4, <1>5, <1>6, <1>7 DEF UseInv, KeysStored, UseIsCounted

\* Every step keeps the counts exact.
LEMMA UseStep == IInv /\ UseInv /\ [Next]_vars => UseInv'
<1> SUFFICES ASSUME IInv, UseInv, [Next]_vars, ~HasLifetime, pool' # "destroyed"
             PROVE  UseInv'
  BY SamePool DEF UseInv, KeysStored, UseIsCounted
<1>1. ASSUME NEW c \in Clients, NEW k \in Keys, Enters(c),
             CreateNew(c, k) \/ CreateThrows(c, k) \/ ShareExisting(c, k)
      PROVE  UseInv'
  BY <1>1, EnterKeepsUse
<1>2. ASSUME NEW c \in Clients, GiveBack(c) PROVE UseInv'
  BY <1>2, ReleaseKeepsUse
\* Nothing else is left to happen that changes keys, objects or counts.
<1>3. ASSUME UNCHANGED <<stored, circulating, expired, held, valid>>
      PROVE  UseInv'
  BY <1>3, SamePool DEF UseInv, KeysStored, UseIsCounted, Holders, HoldersOf
<1>4. ASSUME NEW c \in Clients, Leaves(c) \/ \E k \in Keys : Stays(c, k)
      PROVE  UNCHANGED <<stored, circulating, expired, held, valid>>
  BY <1>4 DEF Leaves, LeaveEmpty, Stays, Block, objectVars
<1>5. ASSUME NEW c \in Clients, GetTimeout(c) \/ GetSpuriousWakeup(c)
      PROVE  UNCHANGED <<stored, circulating, expired, held, valid>>
  BY <1>5 DEF GetTimeout, GetSpuriousWakeup, Block, objectVars
<1>6. ASSUME DestroyBegin \/ DestroyNotify \/ UNCHANGED vars
      PROVE  UNCHANGED <<stored, circulating, expired, held, valid>>
  BY <1>6 DEF DestroyBegin, DestroyNotify, objectVars, clientVars, vars
<1>7. /\ ~HandlerStep /\ ~HandlerTimeout /\ ~HandlerSpuriousWakeup
      /\ ~DestroyJoin /\ \A k \in Keys : ~Expire(k)
  BY DEF HandlerStep, HandlerStart, HandlerRound, HandlerTimeout,
     HandlerSpuriousWakeup, DestroyJoin, Expire, HasLifetime
<1>8. ASSUME NEW c \in Clients, GetAction(c) PROVE UseInv'
  BY <1>8, <1>1, <1>3, <1>4, GetCases
<1> QED
  BY <1>2, <1>3, <1>5, <1>6, <1>7, <1>8 DEF Next, GetAction, GetStep, DestroyStep,
     Ended

\* Without a lifetime no client's pointer dangles before the pool is destroyed,
\* and the count of a key, which has a fixed width, is the number of its users.
THEOREM UsersCounted == Spec => []UseIsCounted
<1>1. IInv /\ UseInv => UseIsCounted
  BY DEF UseInv
<1> QED
  BY <1>1, UseInit, UseStep, Invariance, PTL DEF Spec

-----------------------------------------------------------------------------
(* SessionPool implements SessionLending.                                  *)

\* A usable pointer is one to the object under its key.
ValidStored == \A c \in valid : held[c] \in stored

\* The handler ends only after the destructor has been called and when nothing
\* is lent any more, and the destructor waits for its end.
HandlerEnds ==
    /\ handler = "ended" => DescructorCalled /\ objectsCirculating = 0
    /\ pool = "destroyed" => handler \in {"none", "ended"}

LendInv == ValidStored /\ HandlerEnds

\* Nothing is usable in a new pool, and its handler has not ended.
LEMMA LendInit == Init => LendInv
BY DEF Init, LendInv, ValidStored, HandlerEnds

\* Who holds something is counted.
LEMMA HoldingCounts ==
    ASSUME IInv, objectsCirculating = 0
    PROVE  Holders = {}
<1>1. Holders \in SUBSET Clients
  BY DEF Holders
<1>2. IsFiniteSet(Holders) /\ Cardinality(Holders) \in Nat
  BY <1>1, ClientsAssumption, FS_Subset, FS_CardinalityType
<1>3. Cardinality(Holders) = 0
  BY <1>2 DEF IInv, TypeOK, LimitKept
<1> QED
  BY <1>2, <1>3, FS_EmptySet

\* Objects that are destroyed take the pointers to them along.
LEMMA ErasedKeepsValid ==
    ASSUME ValidStored, NEW gone, Erase(gone),
           \A c \in valid : held'[c] \in {held[c], NoKey}
    PROVE  ValidStored'
BY DEF ValidStored, Erase

\* A release keeps pointers and the end of the handler as they are.
LEMMA ReleaseKeepsLend ==
    ASSUME IInv, LendInv, NEW c \in Clients, GiveBack(c)
    PROVE  LendInv'
<1> USE DEF IInv, TypeOK
<1>1. c \in Holders /\ pool # "destroyed" /\ UNCHANGED pool
  BY DEF GiveBack, Release, ReleaseUnknown, Holders
<1>2. handler # "ended"
  BY <1>1, HoldingCounts DEF LendInv, HandlerEnds
<1>3. handler' # "ended"
  BY <1>2 DEF GiveBack, Release, ReleaseUnknown, ReleaseNotify, HandlerNotified
<1>4. HandlerEnds'
  BY <1>1, <1>3 DEF HandlerEnds
<1>5. held' = [held EXCEPT ![c] = NoKey]
  BY DEF GiveBack, Release, ReleaseUnknown
<1>6. \A d \in valid : held'[d] \in {held[d], NoKey}
  BY <1>5
<1>7. CASE ReleaseUnknown(c)
  BY <1>4, <1>7 DEF ReleaseUnknown, objectVars, LendInv, ValidStored
<1>8. CASE Release(c)
  <2>1. PICK gone : Erase(gone)
    BY <1>8 DEF Release
  <2>2. ValidStored'
    BY <2>1, <1>6, ErasedKeepsValid DEF LendInv
  <2> QED
    BY <2>2, <1>4 DEF LendInv
<1> QED
  BY <1>7, <1>8 DEF GiveBack

\* Every step keeps the pointers that are usable and the end of the handler.
LEMMA LendStep == IInv /\ LendInv /\ [Next]_vars => LendInv'
<1> SUFFICES ASSUME IInv, LendInv, [Next]_vars PROVE LendInv'
  OBVIOUS
<1> USE DEF IInv, TypeOK, LendInv
<1>1. ASSUME NEW c \in Clients, NEW k \in Keys, Enters(c),
             CreateNew(c, k) \/ CreateThrows(c, k) \/ ShareExisting(c, k)
      PROVE  LendInv'
  <2>1. pool' = pool /\ pool = "alive" /\ handler' = handler
    BY <1>1 DEF Enters, CreateNew, CreateThrows, ShareExisting, Lent, GetReturns
  <2>2. HandlerEnds'
    BY <2>1 DEF HandlerEnds, DescructorCalled
  <2>3. ValidStored'
    BY <1>1 DEF ValidStored, CreateNew, CreateThrows, ShareExisting, Lent
  <2> QED
    BY <2>2, <2>3
<1>2. ASSUME UNCHANGED <<stored, held, valid, objectsCirculating, handler, pool>>
      PROVE  LendInv'
  BY <1>2 DEF ValidStored, HandlerEnds, DescructorCalled
<1>3. ASSUME NEW c \in Clients, Leaves(c) \/ \E k \in Keys : Stays(c, k)
      PROVE  UNCHANGED <<stored, held, valid, objectsCirculating, handler, pool>>
  BY <1>3 DEF Leaves, LeaveEmpty, GetReturns, Stays, Block, objectVars
<1>4. ASSUME NEW c \in Clients, GetTimeout(c) \/ GetSpuriousWakeup(c)
      PROVE  UNCHANGED <<stored, held, valid, objectsCirculating, handler, pool>>
  BY <1>4 DEF GetTimeout, GetSpuriousWakeup, Block, objectVars
<1>5. ASSUME NEW c \in Clients, GetAction(c) PROVE LendInv'
  BY <1>5, <1>1, <1>2, <1>3, GetCases
<1>6. ASSUME NEW c \in Clients, GiveBack(c) PROVE LendInv'
  BY <1>6, ReleaseKeepsLend
<1>7. ASSUME NEW k \in Keys, Expire(k)
      PROVE  UNCHANGED <<stored, held, valid, objectsCirculating, handler, pool>>
  BY <1>7 DEF Expire, clientVars
<1>8. CASE HandlerRound
  <2>1. /\ UNCHANGED <<held, objectsCirculating, pool>> /\ pool # "destroyed"
        /\ handler' = "ended" => DescructorCalled /\ objectsCirculating = 0
    BY <1>8 DEF HandlerRound, WaitAgain, HandlerEnds
  <2>2. PICK gone : Erase(gone)
    BY <1>8 DEF HandlerRound
  <2>3. ValidStored'
    BY <2>1, <2>2, ErasedKeepsValid
  <2>4. HandlerEnds'
    BY <2>1 DEF HandlerEnds, DescructorCalled
  <2> QED
    BY <2>3, <2>4
<1>9. CASE HandlerStart \/ HandlerTimeout \/ HandlerSpuriousWakeup
  <2>1. UNCHANGED <<stored, held, valid, objectsCirculating, pool>>
    BY <1>9 DEF HandlerStart, HandlerTimeout, HandlerSpuriousWakeup, objectVars,
       clientVars
  <2>2. /\ pool # "destroyed"
        /\ handler' = "ended" => DescructorCalled /\ objectsCirculating = 0
    BY <1>9 DEF HandlerStart, HandlerTimeout, HandlerSpuriousWakeup, WaitAgain,
       HandlerEnds
  <2> QED
    BY <2>1, <2>2 DEF ValidStored, HandlerEnds, DescructorCalled
<1>10. CASE DestroyBegin \/ DestroyNotify
  <2>1. UNCHANGED <<stored, held, valid, objectsCirculating>>
    BY <1>10 DEF DestroyBegin, DestroyNotify, objectVars, clientVars
  <2>2. /\ pool' # "alive" /\ pool' # "destroyed"
        /\ handler' = "ended" => handler = "ended"
    BY <1>10 DEF DestroyBegin, DestroyNotify, HandlerNotified
  <2> QED
    BY <2>1, <2>2 DEF ValidStored, HandlerEnds, DescructorCalled
<1>11. CASE DestroyJoin
  <2>1. /\ UNCHANGED <<held, handler, objectsCirculating>>
        /\ pool' = "destroyed" /\ handler \in {"none", "ended"} /\ Erase(stored)
    BY <1>11 DEF DestroyJoin
  <2>2. ValidStored'
    BY <2>1, ErasedKeepsValid
  <2>3. HandlerEnds'
    BY <2>1 DEF HandlerEnds, DescructorCalled
  <2> QED
    BY <2>2, <2>3
<1>12. ASSUME UNCHANGED vars
       PROVE  UNCHANGED <<stored, held, valid, objectsCirculating, handler, pool>>
  BY <1>12 DEF vars, objectVars, clientVars
<1> QED
  BY <1>2, <1>4, <1>5, <1>6, <1>7, <1>8, <1>9, <1>10, <1>11, <1>12 DEF Next,
     GetAction, GetStep, HandlerStep, DestroyStep, Ended

\* The specification of lending counts with the same operator.
LEMMA SameCardinality == \A S : Lending!Cardinality(S) = Cardinality(S)
BY DEF Cardinality, Lending!Cardinality

\* What is lent there is what clients hold.
LEMMA BorrowersHold == Lending!Borrowers = Holders
BY DEF Lending!Borrowers, Holders

\* What changes in a step that changes nothing there.
Still == UNCHANGED <<stored, held, valid, Phase, ~HasLifetime>>

\* A client that passes its wait borrows a key, within the limit.
LEMMA LendsOne ==
    ASSUME IInv, NEW c \in Clients, NEW k \in Keys, Enters(c),
           CreateNew(c, k) \/ ShareExisting(c, k)
    PROVE  Lending!Lend(c, k)
<1> USE DEF IInv, TypeOK
<1>1. /\ Phase = "open" /\ UNCHANGED Phase /\ held[c] = NoKey
      /\ (~HasLifetime)' = ~HasLifetime
  BY DEF Enters, CreateNew, ShareExisting, Lent, GetReturns, Phase, HasLifetime
<1>2. /\ held' = [held EXCEPT ![c] = k] /\ stored' = stored \union {k}
      /\ valid' = valid \union {c}
  BY DEF CreateNew, ShareExisting, Lent
<1>3. ObjectsMax = 0 \/ Lending!Cardinality(Lending!Borrowers) < ObjectsMax
  <2>1. Cardinality(Holders) \in Nat
    BY HoldersFinite, ClientSets
  <2>2. Cardinality(Holders) <= objectsCirculating
    BY <2>1 DEF LimitKept
  <2> QED
    BY <2>1, <2>2, ObjectsMaxAssumption, SameCardinality, BorrowersHold DEF Enters
<1> QED
  BY <1>1, <1>2, <1>3 DEF Lending!Lend

\* A client that gives its key back takes at most this object along, and none
\* that has to last.
LEMMA ReturnsOne ==
    ASSUME IInv, UseInv, LendInv, NEW c \in Clients, GiveBack(c)
    PROVE  Lending!Return(c)
<1> USE DEF IInv, TypeOK
<1>1. /\ held[c] # NoKey /\ pool # "destroyed" /\ UNCHANGED pool
      /\ held' = [held EXCEPT ![c] = NoKey]
  BY DEF GiveBack, Release, ReleaseUnknown
<1>2. (~HasLifetime)' = ~HasLifetime
  BY DEF GiveBack, Release, ReleaseUnknown, ReleaseNotify, HandlerNotified,
     HasLifetime
<1>3. Phase # "gone" /\ UNCHANGED Phase
  BY <1>1 DEF Phase
<1>4. \E keys \in SUBSET {held[c]} :
         (keys # {} => Phase = "open") /\ Lending!Drop(keys)
  <2>1. CASE ReleaseUnknown(c)
    <3>1. stored' = stored \ {}
      BY <2>1 DEF ReleaseUnknown, objectVars
    <3>2. valid' = {d \in valid : held'[d] \notin {} \union {NoKey}}
      BY <2>1, <1>1, NoKeyAssumption DEF ReleaseUnknown, LendInv, ValidStored
    <3>3. Lending!Drop({})
      BY <3>1, <3>2 DEF Lending!Drop
    <3> QED
      BY <3>3
  <2>2. CASE Release(c) /\ Erase({})
    <3>1. Lending!Drop({})
      BY <2>2 DEF Erase, Lending!Drop
    <3> QED
      BY <3>1
  <2>3. CASE Release(c) /\ Erase({held[c]}) /\ held[c] \in expired /\ pool = "alive"
    <3>1. HasLifetime
      BY <2>3, <1>1 DEF UseInv, KeysStored
    <3>2. Lending!Drop({held[c]})
      BY <2>3, <3>1 DEF Erase, Lending!Drop
    <3>3. Phase = "open"
      BY <2>3 DEF Phase
    <3> QED
      BY <3>2, <3>3
  <2> QED
    BY <2>1, <2>2, <2>3 DEF GiveBack, Release, DescructorCalled
<1> QED
  BY <1>1, <1>2, <1>3, <1>4 DEF Lending!Return

\* A step of the pool is a step of SessionLending or changes nothing there.
LEMMA LendingStep ==
    ASSUME IInv, UseInv, LendInv, [Next]_vars
    PROVE  Still \/ Lending!Next
<1> USE DEF IInv, TypeOK
<1>1. ASSUME NEW c \in Clients, GetAction(c) PROVE Still \/ Lending!Next
  <2>1. ASSUME NEW k \in Keys, Enters(c), CreateNew(c, k) \/ ShareExisting(c, k)
        PROVE  Lending!Next
    BY <2>1, LendsOne DEF Lending!Next
  <2>2. ASSUME NEW k \in Keys, CreateThrows(c, k) \/ Leaves(c) \/ Stays(c, k)
        PROVE  Still
    BY <2>2 DEF Still, CreateThrows, Leaves, LeaveEmpty, GetReturns, Stays, Block,
       objectVars, Phase, HasLifetime
  <2>3. ASSUME Leaves(c) PROVE Still
    BY <2>3 DEF Still, Leaves, LeaveEmpty, GetReturns, objectVars, Phase,
       HasLifetime
  <2> QED
    BY <1>1, <2>1, <2>2, <2>3, GetCases
<1>2. ASSUME NEW c \in Clients, GiveBack(c) PROVE Lending!Next
  BY <1>2, ReturnsOne DEF Lending!Next
<1>3. ASSUME NEW c \in Clients, GetTimeout(c) \/ GetSpuriousWakeup(c) PROVE Still
  BY <1>3 DEF Still, GetTimeout, GetSpuriousWakeup, Block, objectVars, Phase,
     HasLifetime
<1>4. ASSUME \/ \E k \in Keys : Expire(k)
             \/ HandlerTimeout \/ HandlerSpuriousWakeup \/ HandlerStart
      PROVE  Still
  BY <1>4 DEF Still, Expire, HandlerTimeout, HandlerSpuriousWakeup, HandlerStart,
     WaitAgain, objectVars, clientVars, Phase, HasLifetime
<1>5. CASE HandlerRound
  <2>1. /\ UNCHANGED <<held, Phase>> /\ Phase # "gone" /\ HasLifetime
        /\ (~HasLifetime)' = ~HasLifetime
    BY <1>5 DEF HandlerRound, WaitAgain, Phase, HasLifetime, LendInv, HandlerEnds
  <2>2. PICK gone \in SUBSET stored : Erase(gone)
    BY <1>5 DEF HandlerRound
  <2>3. Lending!Drop(gone)
    BY <2>1, <2>2 DEF Erase, Lending!Drop
  <2>4. Lending!Discard
    BY <2>1, <2>2, <2>3 DEF Lending!Discard
  <2> QED
    BY <2>4 DEF Lending!Next
<1>6. CASE DestroyBegin
  <2>1. Lending!Close
    BY <1>6 DEF DestroyBegin, objectVars, clientVars, Phase, HasLifetime,
       Lending!Close
  <2> QED
    BY <2>1 DEF Lending!Next
<1>7. CASE DestroyNotify
  BY <1>7 DEF Still, DestroyNotify, HandlerNotified, objectVars, Phase, HasLifetime
<1>8. CASE DestroyJoin
  <2>1. /\ Phase = "closing" /\ Phase' = "gone" /\ UNCHANGED held
        /\ (~HasLifetime)' = ~HasLifetime
    BY <1>8 DEF DestroyJoin, Phase, HasLifetime
  <2>2. ~HasLifetime \/ Lending!Borrowers = {}
    <3>1. HasLifetime => objectsCirculating = 0
      BY <1>8 DEF DestroyJoin, HasLifetime, LendInv, HandlerEnds
    <3> QED
      BY <3>1, HoldingCounts, BorrowersHold
  <2>3. stored' = {} /\ valid' = {}
    BY <1>8, <2>1 DEF DestroyJoin, Erase, LendInv, ValidStored
  <2>4. Lending!Vanish
    BY <2>1, <2>2, <2>3 DEF Lending!Vanish
  <2> QED
    BY <2>4 DEF Lending!Next
<1>9. ASSUME UNCHANGED vars PROVE Still
  BY <1>9 DEF Still, vars, objectVars, clientVars, Phase, HasLifetime
<1> QED
  BY <1>1, <1>2, <1>3, <1>4, <1>5, <1>6, <1>7, <1>8, <1>9 DEF Next, GetAction,
     GetStep, HandlerStep, DestroyStep, Ended

\* The pool keeps the promise of SessionLending: one object per key for all its
\* users, lendings within the limit, no object taken from its users by a pool
\* without lifetime, and nothing borrowed from one with a lifetime when it is gone.
THEOREM RefinesLending == Spec => LendingSpec
<1>1. Init => Lending!Init
  BY DEF Init, Lending!Init, Phase
<1>2. IInv /\ UseInv /\ LendInv /\ [Next]_vars
          => [Lending!Next]_<<stored, held, valid, Phase, ~HasLifetime>>
  BY LendingStep DEF Still
<1> QED
  BY <1>1, <1>2, UseInit, UseStep, LendInit, LendStep, Invariance, PTL
     DEF Spec, LendingSpec, Lending!Spec, Lending!slVars
=============================================================================
