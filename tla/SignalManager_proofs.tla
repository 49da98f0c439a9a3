------------------------- MODULE SignalManager_proofs -------------------------
(***************************************************************************)
(* What TLAPS proves about SignalManager for every number of users,        *)
(* threads and signals, wherever signals interrupt.                        *)
(*                                                                         *)
(* ServingInv: one thread serves the manager.  RegistryInv: the registry   *)
(* knows users that have a handler, and a function that is being called is *)
(* protected by registryMutex.  CaughtInv: the keys of the registry tell   *)
(* what is in the table.                                                   *)
(***************************************************************************)
EXTENDS SignalManager, FiniteSetTheorems, TLAPS

UserPCs == {"idle", "direct", "test", "spawned", "waitStart", "wokenStart", "register",
            "owner", "erase", "notify", "waitEnd", "await"}
RunPCs  == {"none", "start", "lockCV", "test", "take", "block", "waiting", "invoke",
            "invoking", "end", "reset", "ending"}
Holders == Threads \union {NoOne}

PcOK ==
    /\ pc \in [Threads -> UserPCs \union RunPCs]
    /\ \A u \in Users : pc[u] \in UserPCs
    /\ \A r \in RunThreads : pc[r] \in RunPCs

RegistryOK ==
    /\ instance \in BOOLEAN
    /\ registry \in [Signals -> SUBSET Users] /\ keys \subseteq Signals
    /\ table \in [Signals -> SUBSET Entries]
    /\ sig \in [Users -> Signals]

\* What the thread in run() takes from the queue are signals, and what it
\* invokes are functions of users.
ListOK ==
    /\ messages \in Seq(Signals \union {End})
    /\ todo \in [RunThreads -> SUBSET (Users \union Signals)]
    /\ \A r \in RunThreads : pc[r] = "invoke" => todo[r] \subseteq Signals
    /\ current \in [RunThreads -> Users \union {NoOne}]

MutexOK ==
    /\ instanceMutex \in Holders /\ registryMutex \in Holders
    /\ messagesMutex \in Holders /\ newMessageCVMutex \in Holders

TypeOK == PcOK /\ RegistryOK /\ ListOK /\ MutexOK /\ failures \in Nat

\* There is a thread in run() only if there is a manager, and no second one.
ServingInv ==
    /\ \A r, s \in Serving : r = s
    /\ Serving # {} => instance

\* Handlers in the registry exist; those that are called, or about to be, are in
\* the registry, which their caller has locked.
RegistryInv ==
    /\ ~instance => keys = {} /\ \A s \in Signals : registry[s] = {}
    /\ \A s \in Signals : \A u \in registry[s] :
          pc[u] \in {"owner", "erase"} /\ sig[u] = s
    /\ \A u \in Users : pc[u] = "notify" => registryMutex = u
    /\ \A r \in RunThreads :
          IF pc[r] = "invoking"
          THEN /\ registryMutex = r
               /\ todo[r] \subseteq UNION {registry[s] : s \in Signals}
               /\ current[r] # NoOne => \E s \in Signals : current[r] \in registry[s]
          ELSE current[r] = NoOne

\* A key has a handler, unless sigaction() has failed.
CaughtInv ==
    /\ CaughtIfRegistered
    /\ failures = 0 => \A s \in Signals : s \in keys <=> registry[s] # {}

IInv == TypeOK /\ ServingInv /\ RegistryInv /\ CaughtInv

-----------------------------------------------------------------------------
\* The invariant holds at the beginning.
LEMMA InitInv == Init => IInv
<1> SUFFICES ASSUME Init PROVE IInv
  OBVIOUS
<1> USE ThreadsAssumption DEF Init, Threads
<1>1. TypeOK
  <2>1. PcOK
    BY DEF PcOK, UserPCs, RunPCs
  <2>2. RegistryOK
    BY DEF RegistryOK, Entries
  <2>3. ListOK
    BY <2>1 DEF ListOK
  <2> QED
    BY <2>1, <2>2, <2>3 DEF TypeOK, MutexOK, Holders
<1>2. Serving = {}
  BY DEF Serving
<1>3. ServingInv
  BY <1>2 DEF ServingInv
<1>4. RegistryInv
  BY DEF RegistryInv
<1>5. CaughtInv
  BY DEF CaughtInv, CaughtIfRegistered, TableOf
<1> QED
  BY <1>1, <1>3, <1>4, <1>5 DEF IInv

\* A notification wakes one thread at most, which goes on where its wait ends.
Awakes(t) ==
    \/ pc'[t] = pc[t]
    \/ pc[t] = "waitStart" /\ pc'[t] = "wokenStart"
    \/ pc[t] = "waitEnd" /\ pc'[t] = "await"
    \/ pc[t] = "waiting" /\ pc'[t] = "lockCV"

Moves(t, where) ==
    /\ pc' \in [Threads -> UserPCs \union RunPCs]
    /\ pc'[t] = where
    /\ \A o \in Threads \ {t} : Awakes(o)

\* The thread that notifies goes on to where.
LEMMA Notified ==
    ASSUME PcOK, NEW t \in Threads, NEW where \in UserPCs \union RunPCs,
           pc[t] \notin {"waitStart", "waitEnd", "waiting"},
           NotifyOne([pc EXCEPT ![t] = where])
    PROVE  Moves(t, where)
<1> USE DEF PcOK, Moves, Awakes
<1>1. CASE Blocked = {}
  BY <1>1 DEF NotifyOne
<1>2. ASSUME NEW b \in Blocked, pc' = [pc EXCEPT ![t] = where, ![b] = Woken(b)]
      PROVE  Moves(t, where)
  BY <1>2 DEF Blocked, Woken, UserPCs, RunPCs
<1> QED
  BY <1>1, <1>2 DEF NotifyOne

\* A signal frame notifies.
LEMMA NotifiedFromFrame ==
    ASSUME PcOK, NotifyOne(pc)
    PROVE  pc' \in [Threads -> UserPCs \union RunPCs] /\ \A o \in Threads : Awakes(o)
<1> USE DEF PcOK, Awakes
<1>1. CASE Blocked = {}
  BY <1>1 DEF NotifyOne
<1>2. ASSUME NEW b \in Blocked, pc' = [pc EXCEPT ![b] = Woken(b)]
      PROVE  pc' \in [Threads -> UserPCs \union RunPCs] /\ \A o \in Threads : Awakes(o)
  BY <1>2 DEF Blocked, Woken, UserPCs, RunPCs
<1> QED
  BY <1>1, <1>2 DEF NotifyOne

-----------------------------------------------------------------------------
(* The steps of users. *)

\* The steps of users go to places of their own.
LEMMA UserPc ==
    ASSUME PcOK, NEW u \in Users, UserStep(u)
    PROVE  PcOK'
<1> USE ThreadsAssumption
    DEF PcOK, UserPCs, RunPCs, Moves, Awakes, At, Goto, Threads, manager, mutexes,
        frames, locals
<1>1. ASSUME NEW s \in Signals, CreateDirect(u, s) PROVE PcOK'
  BY <1>1 DEF CreateDirect, InstallEntry
<1>2. CASE DestroyDirect(u)
  BY <1>2 DEF DestroyDirect, RemoveEntry
<1>3. ASSUME NEW s \in Signals, Install(u, s) PROVE PcOK'
  BY <1>3 DEF Install
<1>4. CASE InstallFound(u)
  BY <1>4 DEF InstallFound
<1>5. CASE InstallSpawn(u)
  <2>1. PICK r \in RunThreads :
           pc[r] = "none" /\ pc' = [pc EXCEPT ![u] = "spawned", ![r] = "start"]
    BY <1>5 DEF InstallSpawn
  <2> QED
    BY <1>5, <2>1 DEF InstallSpawn
<1>6. CASE InstallSpawnFails(u)
  BY <1>6 DEF InstallSpawnFails
<1>7. CASE InstallWait(u)
  BY <1>7 DEF InstallWait
<1>8. CASE InstallWoken(u)
  BY <1>8 DEF InstallWoken
<1>9. CASE Register(u)
  BY <1>9 DEF Register, InstallEntry
<1>10. CASE RegisterFails(u)
  BY <1>10 DEF RegisterFails
<1>11. CASE InstanceGone(u)
  BY <1>11 DEF InstanceGone
<1>12. CASE Remove(u)
  BY <1>12 DEF Remove
<1>13. CASE RemoveErase(u)
  BY <1>13 DEF RemoveErase, Erase, RemoveEntry
<1>14. CASE RemoveNotify(u)
  <2>1. Moves(u, "await")
    <3>1. NotifyOne([pc EXCEPT ![u] = "await"]) /\ pc[u] = "notify"
      BY <1>14 DEF RemoveNotify, At
    <3> HIDE DEF Moves
    <3> QED
      BY <3>1, Notified DEF UserPCs, RunPCs, Threads
  <2> QED
    BY <1>14, <2>1 DEF RemoveNotify
<1>15. CASE RemoveAwait(u)
  BY <1>15 DEF RemoveAwait
<1> QED
  BY <1>1, <1>2, <1>3, <1>4, <1>5, <1>6, <1>7, <1>8, <1>9, <1>10, <1>11, <1>12,
     <1>13, <1>14, <1>15 DEF UserStep

\* The steps of users keep the types of the registry and the table.
LEMMA UserRegistry ==
    ASSUME RegistryOK, NEW u \in Users, UserStep(u)
    PROVE  RegistryOK'
<1> USE ThreadsAssumption
    DEF RegistryOK, Entries, TableOf, At, Goto, Threads, manager, mutexes, frames,
        locals
<1>1. ASSUME NEW s \in Signals, CreateDirect(u, s) PROVE RegistryOK'
  BY <1>1 DEF CreateDirect, InstallEntry
<1>2. CASE DestroyDirect(u)
  BY <1>2 DEF DestroyDirect, RemoveEntry
<1>3. ASSUME NEW s \in Signals, Install(u, s) PROVE RegistryOK'
  BY <1>3 DEF Install
<1>4. CASE Register(u)
  BY <1>4 DEF Register, InstallEntry
<1>5. CASE RegisterFails(u)
  BY <1>5 DEF RegisterFails
<1>6. CASE RemoveErase(u)
  BY <1>6 DEF RemoveErase, Erase, RemoveEntry
<1>7. CASE instance' \in BOOLEAN /\ UNCHANGED <<registry, keys, table, sig>>
  BY <1>7
<1> QED
  BY <1>1, <1>2, <1>3, <1>4, <1>5, <1>6, <1>7 DEF UserStep, InstallFound,
     InstallSpawn, InstallSpawnFails, InstallWait, InstallWoken, InstanceGone,
     Remove, RemoveNotify, RemoveAwait

\* The steps of users keep the types of the queue and what is taken from it.
LEMMA UserLists ==
    ASSUME PcOK, RegistryOK, ListOK, RegistryInv, NEW u \in Users, UserStep(u)
    PROVE  ListOK'
<1> USE ThreadsAssumption
    DEF PcOK, RunPCs, UserPCs, ListOK, Moves, Awakes, At, Goto, Threads, manager,
        mutexes, frames, locals
<1>1. ASSUME NEW s \in Signals, CreateDirect(u, s) PROVE ListOK'
  BY <1>1 DEF CreateDirect, InstallEntry
<1>2. ASSUME NEW s \in Signals, Install(u, s) PROVE ListOK'
  BY <1>2 DEF Install
<1>3. CASE InstallSpawn(u)
  <2>1. PICK r \in RunThreads :
           pc[r] = "none" /\ pc' = [pc EXCEPT ![u] = "spawned", ![r] = "start"]
    BY <1>3 DEF InstallSpawn
  <2> QED
    BY <1>3, <2>1 DEF InstallSpawn
<1>4. CASE InstallSpawnFails(u)
  BY <1>4 DEF InstallSpawnFails
<1>5. CASE RemoveErase(u)
  <2>1. messages' = messages \/ messages' = Append(messages, End)
    BY <1>5 DEF RemoveErase, Erase
  <2>2. messages' \in Seq(Signals \union {End})
    BY <2>1
  <2>3. UNCHANGED <<todo, current>> /\ \A r \in RunThreads : pc'[r] = pc[r]
    BY <1>5 DEF RemoveErase, Erase
  <2> QED
    BY <2>2, <2>3
<1>6. CASE RemoveNotify(u)
  <2>1. Moves(u, "await")
    <3>1. NotifyOne([pc EXCEPT ![u] = "await"]) /\ pc[u] = "notify"
      BY <1>6 DEF RemoveNotify, At
    <3> HIDE DEF Moves
    <3> QED
      BY <3>1, Notified DEF UserPCs, RunPCs, Threads
  <2> QED
    BY <1>6, <2>1 DEF RemoveNotify
<1>7. CASE UNCHANGED <<messages, todo, current>> /\ \A r \in RunThreads : pc'[r] = pc[r]
  BY <1>7
<1> QED
  BY <1>1, <1>2, <1>3, <1>4, <1>5, <1>6, <1>7 DEF UserStep, DestroyDirect,
     InstallFound, InstallWait, InstallWoken, Register, RegisterFails, InstanceGone,
     Remove, RemoveAwait

\* The steps of users lock for a thread.
LEMMA UserMutexes ==
    ASSUME MutexOK, NEW u \in Users, UserStep(u)
    PROVE  MutexOK'
BY DEF MutexOK, Holders, Threads, mutexes, UserStep, CreateDirect, InstallEntry,
     DestroyDirect, RemoveEntry, Install, InstallFound, InstallSpawn,
     InstallSpawnFails, InstallWait, InstallWoken, Register, InstallEntry,
     RegisterFails, InstanceGone, Remove, RemoveErase, Erase, RemoveEntry,
     RemoveNotify, RemoveAwait

\* The steps of users leave one thread to serve.
LEMMA UserServe ==
    ASSUME PcOK, ServingInv, NEW u \in Users, UserStep(u)
    PROVE  ServingInv'
<1> USE ThreadsAssumption
    DEF PcOK, UserPCs, RunPCs, ServingInv, Serving, Moves, Awakes, At, Goto,
        Threads, manager, mutexes, frames, locals
<1>1. ASSUME NEW s \in Signals, CreateDirect(u, s) PROVE ServingInv'
  BY <1>1 DEF CreateDirect, InstallEntry
<1>2. CASE DestroyDirect(u)
  BY <1>2 DEF DestroyDirect, RemoveEntry
<1>3. ASSUME NEW s \in Signals, Install(u, s) PROVE ServingInv'
  BY <1>3 DEF Install
<1>4. CASE InstallFound(u)
  BY <1>4 DEF InstallFound
<1>5. CASE InstallSpawn(u)
  <2>1. PICK r \in RunThreads :
           pc[r] = "none" /\ pc' = [pc EXCEPT ![u] = "spawned", ![r] = "start"]
    BY <1>5 DEF InstallSpawn
  <2> QED
    BY <1>5, <2>1 DEF InstallSpawn
<1>6. CASE InstallSpawnFails(u)
  BY <1>6 DEF InstallSpawnFails
<1>7. CASE InstallWait(u)
  BY <1>7 DEF InstallWait
<1>8. CASE InstallWoken(u)
  BY <1>8 DEF InstallWoken
<1>9. CASE Register(u)
  BY <1>9 DEF Register, InstallEntry
<1>10. CASE RegisterFails(u)
  BY <1>10 DEF RegisterFails
<1>11. CASE InstanceGone(u)
  BY <1>11 DEF InstanceGone
<1>12. CASE Remove(u)
  BY <1>12 DEF Remove
<1>13. CASE RemoveErase(u)
  BY <1>13 DEF RemoveErase, Erase, RemoveEntry
<1>14. CASE RemoveNotify(u)
  <2>1. Moves(u, "await")
    <3>1. NotifyOne([pc EXCEPT ![u] = "await"]) /\ pc[u] = "notify"
      BY <1>14 DEF RemoveNotify, At
    <3> HIDE DEF Moves
    <3> QED
      BY <3>1, Notified DEF UserPCs, RunPCs, Threads
  <2> QED
    BY <1>14, <2>1 DEF RemoveNotify
<1>15. CASE RemoveAwait(u)
  BY <1>15 DEF RemoveAwait
<1> QED
  BY <1>1, <1>2, <1>3, <1>4, <1>5, <1>6, <1>7, <1>8, <1>9, <1>10, <1>11, <1>12,
     <1>13, <1>14, <1>15 DEF UserStep

\* The steps of users keep the registry in order.
LEMMA UserRegistered ==
    ASSUME PcOK, RegistryOK, ListOK, ServingInv, RegistryInv, NEW u \in Users, UserStep(u)
    PROVE  RegistryInv'
<1> USE ThreadsAssumption
    DEF PcOK, RegistryOK, ListOK, UserPCs, RunPCs, ServingInv, Serving, RegistryInv,
        Moves, Awakes, At, Goto, Threads, manager, mutexes, frames, locals
<1>1. ASSUME NEW s \in Signals, CreateDirect(u, s) PROVE RegistryInv'
  BY <1>1 DEF CreateDirect, InstallEntry
<1>2. CASE DestroyDirect(u)
  BY <1>2 DEF DestroyDirect, RemoveEntry
<1>3. ASSUME NEW s \in Signals, Install(u, s) PROVE RegistryInv'
  BY <1>3 DEF Install
<1>4. CASE InstallFound(u)
  BY <1>4 DEF InstallFound
<1>5. CASE InstallSpawn(u)
  <2>1. PICK r \in RunThreads :
           pc[r] = "none" /\ pc' = [pc EXCEPT ![u] = "spawned", ![r] = "start"]
    BY <1>5 DEF InstallSpawn
  <2> QED
    BY <1>5, <2>1 DEF InstallSpawn
<1>6. CASE InstallSpawnFails(u)
  BY <1>6 DEF InstallSpawnFails
<1>7. CASE InstallWait(u)
  BY <1>7 DEF InstallWait
<1>8. CASE InstallWoken(u)
  BY <1>8 DEF InstallWoken
<1>9. CASE Register(u)
  BY <1>9 DEF Register, InstallEntry
<1>10. CASE RegisterFails(u)
  BY <1>10 DEF RegisterFails
<1>11. CASE InstanceGone(u)
  BY <1>11 DEF InstanceGone
<1>12. CASE Remove(u)
  BY SMTT(30), <1>12 DEF Remove
<1>13. CASE RemoveErase(u)
  BY <1>13 DEF RemoveErase, Erase, RemoveEntry
<1>14. CASE RemoveNotify(u)
  <2>1. Moves(u, "await")
    <3>1. NotifyOne([pc EXCEPT ![u] = "await"]) /\ pc[u] = "notify"
      BY <1>14 DEF RemoveNotify, At
    <3> HIDE DEF Moves
    <3> QED
      BY <3>1, Notified DEF UserPCs, RunPCs, Threads
  <2> QED
    BY ZenonT(30), <1>14, <2>1 DEF RemoveNotify
<1>15. CASE RemoveAwait(u)
  BY <1>15 DEF RemoveAwait
<1> QED
  BY <1>1, <1>2, <1>3, <1>4, <1>5, <1>6, <1>7, <1>8, <1>9, <1>10, <1>11, <1>12,
     <1>13, <1>14, <1>15 DEF UserStep

\* The steps of users keep the table in step with the registry.
LEMMA UserCaught ==
    ASSUME RegistryOK, failures \in Nat, CaughtInv, NEW u \in Users, UserStep(u)
    PROVE  CaughtInv'
<1> USE ThreadsAssumption
    DEF RegistryOK, CaughtInv, CaughtIfRegistered, TableOf, Entries, At, Goto,
        Threads, manager, mutexes, frames, locals
<1>1. ASSUME NEW s \in Signals, CreateDirect(u, s) PROVE CaughtInv'
  BY <1>1 DEF CreateDirect, InstallEntry
<1>2. CASE DestroyDirect(u)
  BY <1>2 DEF DestroyDirect, RemoveEntry
<1>3. CASE InstallSpawnFails(u)
  BY <1>3 DEF InstallSpawnFails
<1>4. CASE Register(u)
  <2> HIDE DEF TableOf
  <2>1. sig[u] \in Signals /\ \A s \in Signals : TableOf(s) \in Signals
    BY DEF TableOf
  <2>2. UNCHANGED failures
    BY <1>4 DEF Register
  <2>3. /\ registry' = [registry EXCEPT ![sig[u]] = registry[sig[u]] \union {u}]
        /\ keys' = keys \union {sig[u]}
    BY <1>4 DEF Register
  <2>4. CASE sig[u] \in keys
    <3>1. UNCHANGED table
      BY <1>4, <2>4 DEF Register
    <3> QED
      BY <2>1, <2>2, <2>3, <2>4, <3>1
  <2>5. CASE sig[u] \notin keys
    <3>1. table' = [table EXCEPT ![TableOf(sig[u])] = table[TableOf(sig[u])] \union {sig[u]}]
      BY <1>4, <2>5 DEF Register, InstallEntry
    <3>2. \A s \in Signals : s \in table'[TableOf(s)] <=> s \in table[TableOf(s)] \/ s = sig[u]
      BY <2>1, <3>1
    <3>3. \A s \in Signals : registry'[s] # {} <=> registry[s] # {} \/ s = sig[u]
      BY <2>1, <2>3
    <3> QED
      BY <2>1, <2>2, <2>3, <3>2, <3>3
  <2> QED
    BY <2>4, <2>5
<1>5. CASE RegisterFails(u)
  BY <1>5 DEF RegisterFails
<1>6. CASE RemoveErase(u)
  BY <1>6 DEF RemoveErase, Erase, RemoveEntry
<1>7. CASE UNCHANGED <<registry, keys, table, failures>>
  BY <1>7
<1> QED
  BY <1>1, <1>2, <1>3, <1>4, <1>5, <1>6, <1>7 DEF UserStep, Install, InstallFound,
     InstallSpawn, InstallWait, InstallWoken, InstanceGone, Remove, RemoveNotify,
     RemoveAwait

-----------------------------------------------------------------------------
(* The steps of run(). *)

\* The steps of run() go to places of their own.
LEMMA RunPc ==
    ASSUME PcOK, NEW r \in RunThreads, RunStep(r)
    PROVE  PcOK'
<1> USE ThreadsAssumption
    DEF PcOK, UserPCs, RunPCs, Moves, Awakes, At, Goto, Threads, manager, mutexes,
        frames, locals
<1>1. CASE Start(r)
  <2>1. Moves(r, "lockCV")
    <3>1. NotifyOne([pc EXCEPT ![r] = "lockCV"]) /\ pc[r] = "start"
      BY <1>1 DEF Start, At
    <3> HIDE DEF Moves
    <3> QED
      BY <3>1, Notified DEF UserPCs, RunPCs, Threads
  <2> QED
    BY <1>1, <2>1 DEF Start
<1>2. CASE LockCV(r)
  BY <1>2 DEF LockCV
<1>3. CASE TestMessages(r)
  BY <1>3 DEF TestMessages
<1>4. CASE Take(r)
  BY <1>4 DEF Take
<1>5. CASE Block(r)
  BY <1>5 DEF Block
<1>6. CASE InvokeLock(r)
  BY <1>6 DEF InvokeLock
<1>7. CASE Invoke(r)
  BY <1>7 DEF Invoke
<1>8. CASE TestEnd(r)
  BY <1>8 DEF TestEnd
<1>9. CASE Reset(r)
  BY <1>9 DEF Reset
<1>10. CASE EndNotify(r)
  <2>1. Moves(r, "none")
    <3>1. NotifyOne([pc EXCEPT ![r] = "none"]) /\ pc[r] = "ending"
      BY <1>10 DEF EndNotify, At
    <3> HIDE DEF Moves
    <3> QED
      BY <3>1, Notified DEF UserPCs, RunPCs, Threads
  <2> QED
    BY <1>10, <2>1 DEF EndNotify
<1> QED
  BY <1>1, <1>2, <1>3, <1>4, <1>5, <1>6, <1>7, <1>8, <1>9, <1>10 DEF RunStep

\* The steps of run() keep the types of the registry and the table.
LEMMA RunRegistry ==
    ASSUME RegistryOK, NEW r \in RunThreads, RunStep(r)
    PROVE  RegistryOK'
<1> USE ThreadsAssumption
    DEF RegistryOK, Entries, TableOf, At, Goto, Threads, manager, mutexes, frames,
        locals
<1>1. CASE Reset(r)
  BY <1>1 DEF Reset
<1>2. CASE instance' \in BOOLEAN /\ UNCHANGED <<registry, keys, table, sig>>
  BY <1>2
<1> QED
  BY <1>1, <1>2 DEF RunStep, Start, LockCV, TestMessages, Take, Block, InvokeLock,
     Invoke, TestEnd, EndNotify

\* The steps of run() keep the types of the queue and what is taken from it.
LEMMA RunLists ==
    ASSUME PcOK, RegistryOK, ListOK, RegistryInv, NEW r \in RunThreads, RunStep(r)
    PROVE  ListOK'
<1> USE ThreadsAssumption
    DEF PcOK, RunPCs, UserPCs, ListOK, Moves, Awakes, At, Goto, Threads, manager,
        mutexes, frames, locals
<1>1. CASE Start(r)
  <2>1. Moves(r, "lockCV")
    <3>1. NotifyOne([pc EXCEPT ![r] = "lockCV"]) /\ pc[r] = "start"
      BY <1>1 DEF Start, At
    <3> HIDE DEF Moves
    <3> QED
      BY <3>1, Notified DEF UserPCs, RunPCs, Threads
  <2> QED
    BY <1>1, <2>1 DEF Start
<1>2. CASE LockCV(r)
  BY <1>2 DEF LockCV
<1>3. CASE TestMessages(r)
  BY <1>3 DEF TestMessages
<1>4. CASE Take(r)
  <2>1. UNCHANGED current /\ \A s \in RunThreads \ {r} : pc'[s] = pc[s]
    BY <1>4 DEF Take
  <2>2. CASE messages = <<>>
    <3>1. UNCHANGED <<messages, todo>> /\ pc'[r] = "block"
      BY <1>4, <2>2 DEF Take
    <3> QED
      BY <2>1, <3>1
  <2>3. CASE messages # <<>>
    <3>1. /\ Head(messages) \in Signals \union {End}
          /\ Tail(messages) \in Seq(Signals \union {End})
      BY <2>3
    <3>2. messages' = Tail(messages)
      BY <1>4, <2>3 DEF Take
    <3>3. todo' = [todo EXCEPT ![r] = IF Head(messages) = End THEN {} ELSE {Head(messages)}]
      BY <1>4, <2>3 DEF Take
    <3>4. todo' \in [RunThreads -> SUBSET (Users \union Signals)] /\ todo'[r] \subseteq Signals
      BY <3>1, <3>3
    <3>5. \A s \in RunThreads \ {r} : todo'[s] = todo[s]
      BY <3>3
    <3> QED
      BY <2>1, <3>1, <3>2, <3>4, <3>5
  <2> QED
    BY <2>2, <2>3
<1>5. CASE Block(r)
  BY <1>5 DEF Block
<1>6. CASE InvokeLock(r)
  <2>1. UNCHANGED <<messages, current>>
    BY <1>6 DEF InvokeLock
  <2>2. \A s \in RunThreads : pc'[s] = "invoke" => s # r /\ pc[s] = "invoke"
    BY <1>6 DEF InvokeLock
  <2>3. UNION {registry[s] : s \in todo[r]} \subseteq Users
    BY <1>6 DEF InvokeLock, RegistryOK
  <2>4. todo' = [todo EXCEPT ![r] = UNION {registry[s] : s \in todo[r]}]
    BY <1>6 DEF InvokeLock
  <2> QED
    BY <2>1, <2>2, <2>3, <2>4
<1>7. CASE Invoke(r)
  <2>1. UNCHANGED messages /\ \A s \in RunThreads : pc'[s] = "invoke" => pc[s] = "invoke"
    BY <1>7 DEF Invoke
  <2>2. CASE todo[r] = {}
    BY <1>7, <2>1, <2>2 DEF Invoke
  <2>3. ASSUME NEW v \in todo[r] \intersect Users, current' = [current EXCEPT ![r] = v],
               todo' = [todo EXCEPT ![r] = todo[r] \ {v}], UNCHANGED pc
        PROVE  ListOK'
    BY <2>1, <2>3
  <2>4. todo[r] \subseteq Users
    BY <1>7 DEF Invoke, RegistryInv, RegistryOK
  <2> QED
    BY <1>7, <2>2, <2>3, <2>4 DEF Invoke
<1>8. CASE TestEnd(r)
  BY <1>8 DEF TestEnd
<1>9. CASE Reset(r)
  BY <1>9 DEF Reset
<1>10. CASE EndNotify(r)
  <2>1. Moves(r, "none")
    <3>1. NotifyOne([pc EXCEPT ![r] = "none"]) /\ pc[r] = "ending"
      BY <1>10 DEF EndNotify, At
    <3> HIDE DEF Moves
    <3> QED
      BY <3>1, Notified DEF UserPCs, RunPCs, Threads
  <2> QED
    BY <1>10, <2>1 DEF EndNotify
<1> QED
  BY <1>1, <1>2, <1>3, <1>4, <1>5, <1>6, <1>7, <1>8, <1>9, <1>10 DEF RunStep

\* The steps of run() lock for a thread.
LEMMA RunMutexes ==
    ASSUME MutexOK, NEW r \in RunThreads, RunStep(r)
    PROVE  MutexOK'
BY DEF MutexOK, Holders, Threads, mutexes, RunStep, Start, LockCV, TestMessages,
     Take, Block, InvokeLock, Invoke, TestEnd, Reset, EndNotify

\* The steps of run() leave one thread to serve.
LEMMA RunServe ==
    ASSUME PcOK, ServingInv, NEW r \in RunThreads, RunStep(r)
    PROVE  ServingInv'
<1> USE ThreadsAssumption
    DEF PcOK, UserPCs, RunPCs, ServingInv, Serving, Moves, Awakes, At, Goto,
        Threads, manager, mutexes, frames, locals
<1>1. CASE Start(r)
  <2>1. Moves(r, "lockCV")
    <3>1. NotifyOne([pc EXCEPT ![r] = "lockCV"]) /\ pc[r] = "start"
      BY <1>1 DEF Start, At
    <3> HIDE DEF Moves
    <3> QED
      BY <3>1, Notified DEF UserPCs, RunPCs, Threads
  <2> QED
    BY <1>1, <2>1 DEF Start
<1>2. CASE LockCV(r)
  BY <1>2 DEF LockCV
<1>3. CASE TestMessages(r)
  BY <1>3 DEF TestMessages
<1>4. CASE Take(r)
  BY <1>4 DEF Take
<1>5. CASE Block(r)
  BY <1>5 DEF Block
<1>6. CASE InvokeLock(r)
  BY <1>6 DEF InvokeLock
<1>7. CASE Invoke(r)
  BY <1>7 DEF Invoke
<1>8. CASE TestEnd(r)
  BY <1>8 DEF TestEnd
<1>9. CASE Reset(r)
  BY <1>9 DEF Reset
<1>10. CASE EndNotify(r)
  <2>1. Moves(r, "none")
    <3>1. NotifyOne([pc EXCEPT ![r] = "none"]) /\ pc[r] = "ending"
      BY <1>10 DEF EndNotify, At
    <3> HIDE DEF Moves
    <3> QED
      BY <3>1, Notified DEF UserPCs, RunPCs, Threads
  <2> QED
    BY <1>10, <2>1 DEF EndNotify
<1> QED
  BY <1>1, <1>2, <1>3, <1>4, <1>5, <1>6, <1>7, <1>8, <1>9, <1>10 DEF RunStep

\* The steps of run() keep the registry in order.
LEMMA RunRegistered ==
    ASSUME PcOK, RegistryOK, ListOK, ServingInv, RegistryInv, NEW r \in RunThreads, RunStep(r)
    PROVE  RegistryInv'
<1> USE ThreadsAssumption
    DEF PcOK, RegistryOK, ListOK, UserPCs, RunPCs, ServingInv, Serving, RegistryInv,
        Moves, Awakes, At, Goto, Threads, manager, mutexes, frames, locals
<1>1. CASE Start(r)
  <2>1. Moves(r, "lockCV")
    <3>1. NotifyOne([pc EXCEPT ![r] = "lockCV"]) /\ pc[r] = "start"
      BY <1>1 DEF Start, At
    <3> HIDE DEF Moves
    <3> QED
      BY <3>1, Notified DEF UserPCs, RunPCs, Threads
  <2>2. UNCHANGED <<instance, keys, registry, sig, registryMutex, todo, current>> /\ pc[r] = "start"
    BY <1>1 DEF Start
  <2>3. \A u \in Users : pc[u] \in {"owner", "erase"} => pc'[u] = pc[u]
    BY <2>1
  <2>4. \A u \in Users : pc'[u] = "notify" => pc[u] = "notify"
    BY <2>1
  <2>5. \A s \in RunThreads : pc'[s] = "invoking" <=> pc[s] = "invoking"
    BY <2>1, <2>2
  <2> QED
    BY <2>2, <2>3, <2>4, <2>5
<1>2. CASE LockCV(r)
  BY <1>2 DEF LockCV
<1>3. CASE TestMessages(r)
  BY <1>3 DEF TestMessages
<1>4. CASE Take(r)
  BY <1>4 DEF Take
<1>5. CASE Block(r)
  BY <1>5 DEF Block
<1>6. CASE InvokeLock(r)
  BY <1>6 DEF InvokeLock
<1>7. CASE Invoke(r)
  BY <1>7 DEF Invoke
<1>8. CASE TestEnd(r)
  BY <1>8 DEF TestEnd
<1>9. CASE Reset(r)
  BY SMTT(30), <1>9 DEF Reset
<1>10. CASE EndNotify(r)
  <2>1. Moves(r, "none")
    <3>1. NotifyOne([pc EXCEPT ![r] = "none"]) /\ pc[r] = "ending"
      BY <1>10 DEF EndNotify, At
    <3> HIDE DEF Moves
    <3> QED
      BY <3>1, Notified DEF UserPCs, RunPCs, Threads
  <2> QED
    BY SMTT(30), <1>10, <2>1 DEF EndNotify
<1> QED
  BY <1>1, <1>2, <1>3, <1>4, <1>5, <1>6, <1>7, <1>8, <1>9, <1>10 DEF RunStep

\* The steps of run() keep the table in step with the registry.
LEMMA RunCaught ==
    ASSUME RegistryOK, failures \in Nat, CaughtInv, NEW r \in RunThreads, RunStep(r)
    PROVE  CaughtInv'
<1> USE ThreadsAssumption
    DEF RegistryOK, CaughtInv, CaughtIfRegistered, TableOf, Entries, At, Goto,
        Threads, manager, mutexes, frames, locals
<1>1. CASE Reset(r)
  BY <1>1 DEF Reset
<1>2. CASE UNCHANGED <<registry, keys, table, failures>>
  BY <1>2
<1> QED
  BY <1>1, <1>2 DEF RunStep, Start, LockCV, TestMessages, Take, Block, InvokeLock,
     Invoke, TestEnd, EndNotify

-----------------------------------------------------------------------------
(* The steps of signals. *)

\* The steps of signals go to places of their own.
LEMMA SignalPc ==
    ASSUME PcOK, NEW t \in Threads, SignalStep(t)
    PROVE  PcOK'
<1> USE ThreadsAssumption
    DEF PcOK, UserPCs, RunPCs, Moves, Awakes, At, Goto, Threads, manager, mutexes,
        frames, locals
<1>1. ASSUME NEW s \in Signals, Raise(t, s) PROVE PcOK'
  BY <1>1 DEF Raise
<1>2. CASE CallDirect(t)
  BY <1>2 DEF CallDirect
<1>3. CASE CallManager(t)
  BY <1>3 DEF CallManager
<1>4. CASE PushMessage(t)
  <2>1. UNCHANGED pc \/ NotifyOne(pc)
    BY <1>4 DEF PushMessage
  <2>2. pc' \in [Threads -> UserPCs \union RunPCs] /\ \A o \in Threads : Awakes(o)
    BY <2>1, NotifiedFromFrame
  <2> QED
    BY <1>4, <2>2 DEF PushMessage
<1>5. CASE Return(t)
  BY <1>5 DEF Return
<1>6. CASE SpuriousWakeup(t)
  BY <1>6 DEF SpuriousWakeup, Blocked, Woken
<1> QED
  BY <1>1, <1>2, <1>3, <1>4, <1>5, <1>6 DEF SignalStep

\* The steps of signals keep the types of the registry and the table.
LEMMA SignalRegistry ==
    ASSUME RegistryOK, NEW t \in Threads, SignalStep(t)
    PROVE  RegistryOK'
<1> USE ThreadsAssumption
    DEF RegistryOK, Entries, TableOf, At, Goto, Threads, manager, mutexes, frames,
        locals
<1>1. CASE instance' \in BOOLEAN /\ UNCHANGED <<registry, keys, table, sig>>
  BY <1>1
<1> QED
  BY <1>1 DEF SignalStep, Raise, CallDirect, CallManager, PushMessage, Return,
     SpuriousWakeup

\* The steps of signals keep the types of the queue and what is taken from it.
LEMMA SignalLists ==
    ASSUME PcOK, RegistryOK, ListOK, RegistryInv, NEW t \in Threads, SignalStep(t)
    PROVE  ListOK'
<1> USE ThreadsAssumption
    DEF PcOK, RunPCs, UserPCs, ListOK, Moves, Awakes, At, Goto, Threads, manager,
        mutexes, frames, locals
<1>1. ASSUME NEW s \in Signals, Raise(t, s) PROVE ListOK'
  BY <1>1 DEF Raise
<1>2. CASE CallDirect(t)
  BY <1>2 DEF CallDirect
<1>3. CASE CallManager(t)
  BY <1>3 DEF CallManager
<1>4. CASE PushMessage(t)
  <2>1. UNCHANGED pc \/ NotifyOne(pc)
    BY <1>4 DEF PushMessage
  <2>2. \A o \in Threads : Awakes(o)
    BY <2>1, NotifiedFromFrame
  <2>3. UNCHANGED messages \/ \E s \in Signals : messages' = Append(messages, s)
    BY <1>4 DEF PushMessage
  <2>4. messages' \in Seq(Signals \union {End})
    BY <2>3
  <2>5. UNCHANGED <<todo, current>>
    BY <1>4 DEF PushMessage
  <2>6. \A r \in RunThreads : pc'[r] = "invoke" => pc[r] = "invoke"
    BY <2>2
  <2> QED
    BY <2>4, <2>5, <2>6
<1>5. CASE Return(t)
  BY <1>5 DEF Return
<1>6. CASE SpuriousWakeup(t)
  BY <1>6 DEF SpuriousWakeup, Blocked, Woken
<1> QED
  BY <1>1, <1>2, <1>3, <1>4, <1>5, <1>6 DEF SignalStep

\* The steps of signals lock for a thread.
LEMMA SignalMutexes ==
    ASSUME MutexOK, NEW t \in Threads, SignalStep(t)
    PROVE  MutexOK'
BY DEF MutexOK, Holders, Threads, mutexes, SignalStep, Raise, CallDirect,
     CallManager, PushMessage, Return, SpuriousWakeup, Blocked, Woken

\* The steps of signals leave one thread to serve.
LEMMA SignalServe ==
    ASSUME PcOK, ServingInv, NEW t \in Threads, SignalStep(t)
    PROVE  ServingInv'
<1> USE ThreadsAssumption
    DEF PcOK, UserPCs, RunPCs, ServingInv, Serving, Moves, Awakes, At, Goto,
        Threads, manager, mutexes, frames, locals
<1>1. ASSUME NEW s \in Signals, Raise(t, s) PROVE ServingInv'
  BY <1>1 DEF Raise
<1>2. CASE CallDirect(t)
  BY <1>2 DEF CallDirect
<1>3. CASE CallManager(t)
  BY <1>3 DEF CallManager
<1>4. CASE PushMessage(t)
  <2>1. UNCHANGED pc \/ NotifyOne(pc)
    BY <1>4 DEF PushMessage
  <2>2. pc' \in [Threads -> UserPCs \union RunPCs] /\ \A o \in Threads : Awakes(o)
    BY <2>1, NotifiedFromFrame
  <2> QED
    BY <1>4, <2>2 DEF PushMessage
<1>5. CASE Return(t)
  BY <1>5 DEF Return
<1>6. CASE SpuriousWakeup(t)
  BY <1>6 DEF SpuriousWakeup, Blocked, Woken
<1> QED
  BY <1>1, <1>2, <1>3, <1>4, <1>5, <1>6 DEF SignalStep

\* The steps of signals keep the registry in order.
LEMMA SignalRegistered ==
    ASSUME PcOK, RegistryOK, ListOK, ServingInv, RegistryInv, NEW t \in Threads, SignalStep(t)
    PROVE  RegistryInv'
<1> USE ThreadsAssumption
    DEF PcOK, RegistryOK, ListOK, UserPCs, RunPCs, ServingInv, Serving, RegistryInv,
        Moves, Awakes, At, Goto, Threads, manager, mutexes, frames, locals
<1>1. ASSUME NEW s \in Signals, Raise(t, s) PROVE RegistryInv'
  BY <1>1 DEF Raise
<1>2. CASE CallDirect(t)
  BY <1>2 DEF CallDirect
<1>3. CASE CallManager(t)
  BY <1>3 DEF CallManager
<1>4. CASE PushMessage(t)
  <2>1. UNCHANGED pc \/ NotifyOne(pc)
    BY <1>4 DEF PushMessage
  <2>2. \A o \in Threads : Awakes(o)
    BY <2>1, NotifiedFromFrame
  <2>3. UNCHANGED <<instance, keys, registry, sig, registryMutex, todo, current>>
    BY <1>4 DEF PushMessage
  <2>4. \A u \in Users : pc[u] \in {"owner", "erase"} => pc'[u] = pc[u]
    BY <2>2
  <2>5. \A u \in Users : pc'[u] = "notify" => pc[u] = "notify"
    BY <2>2
  <2>6. \A r \in RunThreads : pc'[r] = "invoking" <=> pc[r] = "invoking"
    BY <2>2
  <2> QED
    BY <2>3, <2>4, <2>5, <2>6
<1>5. CASE Return(t)
  BY <1>5 DEF Return
<1>6. CASE SpuriousWakeup(t)
  BY <1>6 DEF SpuriousWakeup, Blocked, Woken
<1> QED
  BY <1>1, <1>2, <1>3, <1>4, <1>5, <1>6 DEF SignalStep

\* The steps of signals keep the table in step with the registry.
LEMMA SignalCaught ==
    ASSUME RegistryOK, failures \in Nat, CaughtInv, NEW t \in Threads, SignalStep(t)
    PROVE  CaughtInv'
<1> USE ThreadsAssumption
    DEF RegistryOK, CaughtInv, CaughtIfRegistered, TableOf, Entries, At, Goto,
        Threads, manager, mutexes, frames, locals
<1>1. CASE UNCHANGED <<registry, keys, table, failures>>
  BY <1>1
<1> QED
  BY <1>1 DEF SignalStep, Raise, CallDirect, CallManager, PushMessage, Return,
     SpuriousWakeup

-----------------------------------------------------------------------------
(* The invariant and what follows from it. *)

\* Only failures are counted up.
LEMMA NextCounts ==
    ASSUME failures \in Nat, [Next]_vars
    PROVE  failures' \in Nat
<1>1. ASSUME NEW u \in Users, UserStep(u) PROVE failures' \in Nat
    BY <1>1 DEF UserStep, CreateDirect, DestroyDirect, Install, InstallFound,
     InstallSpawn,
     InstallSpawnFails, InstallWait, InstallWoken, Register, RegisterFails, InstanceGone,
     Remove, RemoveErase, Erase, RemoveNotify, RemoveAwait
<1>2. ASSUME NEW r \in RunThreads, RunStep(r) PROVE failures' \in Nat
  BY <1>2 DEF RunStep, Start, LockCV, TestMessages, Take, Block, InvokeLock, Invoke,
     TestEnd, Reset, EndNotify
<1>3. ASSUME NEW t \in Threads, SignalStep(t) PROVE failures' \in Nat
    BY <1>3 DEF SignalStep, Raise, CallDirect, CallManager, PushMessage, Return,
     SpuriousWakeup
<1> QED
  BY <1>1, <1>2, <1>3 DEF Next, vars

\* Every step keeps the invariant.
LEMMA NextInv ==
    ASSUME IInv, [Next]_vars
    PROVE  IInv'
<1>1. failures' \in Nat
  BY NextCounts DEF IInv, TypeOK
<1>2. ASSUME NEW u \in Users, UserStep(u) PROVE IInv'
    BY <1>1, <1>2, UserPc, UserRegistry, UserLists, UserMutexes, UserServe,
     UserRegistered,
     UserCaught DEF IInv, TypeOK
<1>3. ASSUME NEW r \in RunThreads, RunStep(r) PROVE IInv'
  BY <1>1, <1>3, RunPc, RunRegistry, RunLists, RunMutexes, RunServe, RunRegistered,
     RunCaught DEF IInv, TypeOK
<1>4. ASSUME NEW t \in Threads, SignalStep(t) PROVE IInv'
  BY <1>1, <1>4, SignalPc, SignalRegistry, SignalLists, SignalMutexes, SignalServe,
     SignalRegistered, SignalCaught DEF IInv, TypeOK
<1>5. CASE UNCHANGED vars
  <2> USE <1>5 DEF vars, manager, mutexes, locals, frames
  <2>1. TypeOK'
    BY DEF IInv, TypeOK, PcOK, RegistryOK, ListOK, MutexOK
  <2>2. ServingInv' /\ RegistryInv'
    BY DEF IInv, ServingInv, Serving, RegistryInv
  <2>3. CaughtInv'
    BY DEF IInv, CaughtInv, CaughtIfRegistered
  <2> QED
    BY <2>1, <2>2, <2>3 DEF IInv
<1> QED
  BY <1>2, <1>3, <1>4, <1>5 DEF Next

\* Signal manager: the three invariants hold in every state.
THEOREM Invariant == Spec => []IInv
<1>1. IInv /\ [Next]_vars => IInv'
  BY NextInv
<1> QED
  BY InitInv, <1>1, PTL DEF Spec

\* Types: messages are signals or the end, mutexes are held by threads, the
\* registry holds users, and every thread is at a place of its program.
THEOREM TypeCorrect == Spec => []TypeOK
<1>1. IInv => TypeOK
  BY DEF IInv
<1> QED
  BY Invariant, <1>1, PTL

\* ThreadManager: a function is called only while its handler is installed, so
\* that it never runs after ~ThreadHandler() has returned.
THEOREM CalledWhileOwned == Spec => []InvokedWhileInstalled
<1>1. ASSUME IInv PROVE InvokedWhileInstalled
  <2> SUFFICES ASSUME NEW r \in RunThreads, current[r] # NoOne
               PROVE  pc[current[r]] \in {"owner", "erase"}
    BY DEF InvokedWhileInstalled
  <2>1. PICK s \in Signals : current[r] \in registry[s]
    BY <1>1 DEF IInv, RegistryInv
  <2> QED
    BY <1>1, <2>1 DEF IInv, RegistryInv
<1> QED
  BY Invariant, <1>1, PTL

\* ThreadManager: at most one thread is in run() with a manager, and none when
\* the manager is gone.
THEOREM OneServer == Spec => []OneRunThread
<1>1. ASSUME IInv PROVE OneRunThread
  <2>1. CASE Serving = {}
    BY <2>1, FS_EmptySet DEF OneRunThread
  <2>2. ASSUME NEW r \in Serving PROVE OneRunThread
    <3>1. Serving = {r}
      BY <1>1, <2>2 DEF IInv, ServingInv
    <3>2. Cardinality(Serving) = 1
      BY <3>1, FS_Singleton
    <3> QED
      BY <1>1, <3>2 DEF OneRunThread, IInv, ServingInv
  <2> QED
    BY <2>1, <2>2
<1> QED
  BY Invariant, <1>1, PTL

\* Registry and SignalHandler: while no sigaction() has failed a signal has
\* handlers exactly if the table leads to the manager.
THEOREM CaughtExactly == Spec => []CaughtIfRegistered
<1>1. IInv => CaughtIfRegistered
  BY DEF IInv, CaughtInv
<1> QED
  BY Invariant, <1>1, PTL

===============================================================================
