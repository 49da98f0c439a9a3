--------------------------- MODULE SignalManager ---------------------------
(***************************************************************************)
(* zsystem4esl::system::signal with zsystem::SignalHandler: handlers for   *)
(* POSIX signals.  A direct handler is called where the signal interrupts. *)
(* For a threaded one a ThreadManager, made for the first and removed      *)
(* after the last, turns signals into messages that a detached thread      *)
(* hands to the functions.                                                 *)
(*                                                                         *)
(* A signal interrupts a thread anywhere: its frame lies over the thread,  *)
(* which goes on when the frame is done, and locks mutexes for the thread. *)
(* All waits are on newMessageCV.  A null pointer that is followed is a    *)
(* fault and ends the program.                                             *)
(***************************************************************************)
EXTENDS Naturals, FiniteSets, Sequences

CONSTANTS
    Users,       \* threads that create and destroy a handler each
    RunThreads,  \* identities of threads in ThreadManager::run()
    Signals,     \* signals that createHandler() knows
    NoOne,       \* no thread, no handler
    MaxRaised,   \* how many signals are raised
    MaxFailures  \* how often sigaction() or the start of a thread fails

ASSUME ThreadsAssumption ==
    /\ IsFiniteSet(Users) /\ IsFiniteSet(RunThreads)
    /\ Users \intersect RunThreads = {} /\ NoOne \notin Users \union RunThreads
    /\ Signals \intersect Users = {}
    /\ "child" \in Signals => "ill" \in Signals
ASSUME BoundsAssumption == MaxRaised \in Nat /\ MaxFailures \in Nat

VARIABLES
    instance,          \* whether there is a ThreadManager
    registry,          \* [Signals -> SUBSET Users], its handlers of a signal
    keys,              \* signals that have an entry in registry
    messages,          \* ThreadManager::messages, End: nullptr
    instanceMutex, registryMutex, messagesMutex, newMessageCVMutex, \* holders
    table,             \* [Signals -> what saHandler calls], see Entries
    pc,                \* [Threads -> where the thread is]
    sig,               \* [Users -> signal of the user's handler]
    todo,              \* [RunThreads -> handlers still to invoke]
    current,           \* [RunThreads -> handler being invoked]
    frame,             \* [Threads -> entries the signal frame has to call]
    inFrame,           \* [Threads -> "none", "calls" or "locked" instanceMutex]
    fault,
    raised, failures   \* what MaxRaised and MaxFailures bound

manager == <<instance, registry, keys>>
mutexes == <<instanceMutex, registryMutex, messagesMutex, newMessageCVMutex>>
frames  == <<frame, inFrame, raised>>
locals  == <<sig, todo, current>>
vars == <<manager, messages, mutexes, table, pc, locals, frames, fault, failures>>

Threads == Users \union RunThreads
End     == "end"

\* A table entry is a user's direct handler, or the manager's for a signal.
Entries == Users \union Signals

\* Handlers of child are kept, and installed, with those of ill.
TableOf(s) == IF s = "child" THEN "ill" ELSE s

\* Run threads that use the manager.
Serving == {r \in RunThreads : pc[r] \notin {"none", "ending"}}

Init ==
    /\ instance = FALSE
    /\ registry = [s \in Signals |-> {}] /\ keys = {}
    /\ messages = <<>>
    /\ instanceMutex = NoOne /\ registryMutex = NoOne
    /\ messagesMutex = NoOne /\ newMessageCVMutex = NoOne
    /\ table = [s \in Signals |-> {}]
    /\ pc = [t \in Threads |-> IF t \in Users THEN "idle" ELSE "none"]
    /\ sig \in {[u \in Users |-> s] : s \in Signals}
    /\ todo = [r \in RunThreads |-> {}] /\ current = [r \in RunThreads |-> NoOne]
    /\ frame = [t \in Threads |-> {}] /\ inFrame = [t \in Threads |-> "none"]
    /\ fault = FALSE /\ raised = 0 /\ failures = 0

\* Thread t is at a place of its program and no signal handler lies over it.
At(t, where)   == pc[t] = where /\ inFrame[t] = "none" /\ ~fault
Goto(t, where) == pc' = [pc EXCEPT ![t] = where]

Blocked == {t \in Threads : pc[t] \in {"waitStart", "waitEnd", "waiting"}}
Woken(t) == CASE pc[t] = "waitStart" -> "wokenStart"
              [] pc[t] = "waitEnd" -> "await"
              [] pc[t] = "waiting" -> "lockCV"

\* newMessageCV.notify_one(), f is pc after the step's own move.
NotifyOne(f) ==
    IF Blocked = {} THEN pc' = f
    ELSE \E t \in Blocked : pc' = [f EXCEPT ![t] = Woken(t)]

\* SignalHandler::install() and remove() of entry e for signal s.
InstallEntry(e, s) == table' = [table EXCEPT ![TableOf(s)] = @ \union {e}]
RemoveEntry(e, s)  == table' = [table EXCEPT ![TableOf(s)] = @ \ {e}]

-----------------------------------------------------------------------------
(* Direct handlers.  SignalHandler.h asks its users not to change handlers *)
(* while a signal may be handled.                                          *)

CreateDirect(u, s) ==
    /\ At(u, "idle") /\ \A t \in Threads : inFrame[t] = "none"
    /\ InstallEntry(u, s)
    /\ sig' = [sig EXCEPT ![u] = s]
    /\ Goto(u, "direct")
    /\ UNCHANGED <<manager, messages, mutexes, todo, current, frames, fault, failures>>

DestroyDirect(u) ==
    /\ At(u, "direct") /\ \A t \in Threads : inFrame[t] = "none"
    /\ RemoveEntry(u, sig[u])
    /\ Goto(u, "idle")
    /\ UNCHANGED <<manager, messages, mutexes, locals, frames, fault, failures>>

-----------------------------------------------------------------------------
(* installThreadHandler()                                                  *)

Install(u, s) ==
    /\ At(u, "idle") /\ instanceMutex = NoOne
    /\ sig' = [sig EXCEPT ![u] = s]
    /\ instanceMutex' = u
    /\ Goto(u, "test")
    /\ UNCHANGED <<manager, messages, registryMutex, messagesMutex, newMessageCVMutex, table,
                   todo, current, frames, fault, failures>>

InstallFound(u) ==
    /\ At(u, "test") /\ instance
    /\ Goto(u, "register")
    /\ UNCHANGED <<manager, messages, mutexes, table, locals, frames, fault, failures>>

\* A new manager and its thread; the thread may notify before u waits.
InstallSpawn(u) ==
    /\ At(u, "test") /\ ~instance /\ newMessageCVMutex = NoOne
    /\ instance' = TRUE
    /\ messages' = <<>>
    /\ newMessageCVMutex' = u
    /\ \E r \in RunThreads : pc[r] = "none" /\ pc' = [pc EXCEPT ![u] = "spawned", ![r] = "start"]
    /\ UNCHANGED <<registry, keys, instanceMutex, registryMutex, messagesMutex, table,
                   locals, frames, fault, failures>>

\* std::thread throws: a manager without a thread stays.
InstallSpawnFails(u) ==
    /\ At(u, "test") /\ ~instance /\ newMessageCVMutex = NoOne
    /\ failures < MaxFailures /\ failures' = failures + 1
    /\ instance' = TRUE
    /\ messages' = <<>>
    /\ instanceMutex' = NoOne
    /\ Goto(u, "idle")
    /\ UNCHANGED <<registry, keys, registryMutex, messagesMutex, newMessageCVMutex, table,
                   locals, frames, fault>>

InstallWait(u) ==
    /\ At(u, "spawned")
    /\ newMessageCVMutex' = NoOne
    /\ Goto(u, "waitStart")
    /\ UNCHANGED <<manager, messages, instanceMutex, registryMutex, messagesMutex, table, locals,
                   frames, fault, failures>>

InstallWoken(u) ==
    /\ At(u, "wokenStart") /\ newMessageCVMutex = NoOne
    /\ Goto(u, "register")
    /\ UNCHANGED <<manager, messages, mutexes, table, locals, frames, fault, failures>>

\* Mutant: the first handler of a signal is not made known to SignalHandler.
RegisterUncaught(u) ==
    /\ At(u, "register") /\ instance /\ registryMutex = NoOne
    /\ keys' = keys \union {sig[u]}
    /\ registry' = [registry EXCEPT ![sig[u]] = @ \union {u}]
    /\ instanceMutex' = NoOne
    /\ Goto(u, "owner")
    /\ UNCHANGED <<instance, messages, registryMutex, messagesMutex,
                   newMessageCVMutex, table, sig, todo, current, frames, fault, failures>>

Register(u) ==
    /\ At(u, "register") /\ instance /\ registryMutex = NoOne
    /\ keys' = keys \union {sig[u]}
    /\ IF sig[u] \in keys THEN UNCHANGED table ELSE InstallEntry(sig[u], sig[u])
    /\ registry' = [registry EXCEPT ![sig[u]] = @ \union {u}]
    /\ instanceMutex' = NoOne
    /\ Goto(u, "owner")
    /\ UNCHANGED <<instance, messages, registryMutex, messagesMutex,
                   newMessageCVMutex, sig, todo, current, frames, fault, failures>>

\* sigaction() fails for the first handler in a table: the key stays, without
\* handlers and without an entry in the table.
RegisterFails(u) ==
    /\ At(u, "register") /\ instance /\ registryMutex = NoOne
    /\ sig[u] \notin keys /\ table[TableOf(sig[u])] = {}
    /\ failures < MaxFailures /\ failures' = failures + 1
    /\ keys' = keys \union {sig[u]}
    /\ instanceMutex' = NoOne
    /\ Goto(u, "idle")
    /\ UNCHANGED <<instance, registry, messages, registryMutex, messagesMutex,
                   newMessageCVMutex, table, locals, frames, fault>>

-----------------------------------------------------------------------------
(* ~ThreadHandler() and uninstallThreadHandler()                           *)

Remove(u) ==
    /\ At(u, "owner") /\ instanceMutex = NoOne
    /\ \/ instance /\ instanceMutex' = u /\ Goto(u, "erase")
       \/ ~instance /\ Goto(u, "idle") /\ UNCHANGED instanceMutex
    /\ UNCHANGED <<manager, messages, registryMutex, messagesMutex, newMessageCVMutex, table,
                   locals, frames, fault, failures>>

\* What is left when u is erased; its signal's entry goes with the last handler.
Erase(u, lock) ==
    LET s     == sig[u]
        left  == registry[s] \ {u}
        keys1 == IF left = {} THEN keys \ {s} ELSE keys
    IN  /\ At(u, "erase") /\ instance /\ lock
        /\ registry' = [registry EXCEPT ![s] = left]
        /\ keys' = keys1
        /\ IF s \in keys \ keys1 THEN RemoveEntry(s, s) ELSE UNCHANGED table
        /\ \/ /\ keys1 = {} /\ messagesMutex = NoOne
              /\ messages' = Append(messages, End)
              /\ registryMutex' = u
              /\ Goto(u, "notify")
              /\ UNCHANGED instanceMutex
           \/ /\ keys1 # {}
              /\ instanceMutex' = NoOne
              /\ Goto(u, "idle")
              /\ UNCHANGED <<messages, registryMutex>>
        /\ UNCHANGED <<instance, messagesMutex, newMessageCVMutex, locals, frames,
                       fault, failures>>

\* Mutant: registryMutex is not locked.
RemoveEraseUnlocked(u) == Erase(u, TRUE)

RemoveErase(u) == Erase(u, registryMutex = NoOne)

RemoveNotify(u) ==
    /\ At(u, "notify")
    /\ NotifyOne([pc EXCEPT ![u] = "await"])
    /\ instanceMutex' = NoOne /\ registryMutex' = NoOne
    /\ UNCHANGED <<manager, messages, messagesMutex, newMessageCVMutex, table, locals, frames,
                   fault, failures>>

\* The destructor looks whether the manager is gone, and waits for it.
RemoveAwait(u) ==
    /\ At(u, "await") /\ newMessageCVMutex = NoOne
    /\ Goto(u, IF instance THEN "waitEnd" ELSE "idle")
    /\ UNCHANGED <<manager, messages, mutexes, table, locals, frames, fault, failures>>

-----------------------------------------------------------------------------
(* ThreadManager::run()                                                    *)

Start(r) ==
    /\ At(r, "start")
    /\ NotifyOne([pc EXCEPT ![r] = "lockCV"])
    /\ UNCHANGED <<manager, messages, mutexes, table, locals, frames, fault, failures>>

LockCV(r) ==
    /\ At(r, "lockCV") /\ newMessageCVMutex = NoOne
    /\ newMessageCVMutex' = r
    /\ Goto(r, "test")
    /\ UNCHANGED <<manager, messages, instanceMutex, registryMutex, messagesMutex, table, locals,
                   frames, fault, failures>>

TestMessages(r) ==
    /\ At(r, "test") /\ messagesMutex = NoOne
    /\ messagesMutex' = r
    /\ Goto(r, "take")
    /\ UNCHANGED <<manager, messages, instanceMutex, registryMutex, newMessageCVMutex, table,
                   locals, frames, fault, failures>>

Take(r) ==
    /\ At(r, "take")
    /\ messagesMutex' = NoOne
    /\ \/ /\ messages = <<>>
          /\ Goto(r, "block")
          /\ UNCHANGED <<messages, todo>>
       \/ /\ messages # <<>>
          /\ messages' = Tail(messages)
          /\ LET m == Head(messages) IN
             /\ Goto(r, IF m = End THEN "end" ELSE "invoke")
             /\ todo' = [todo EXCEPT ![r] = IF m = End THEN {} ELSE {m}]
    /\ UNCHANGED <<manager, instanceMutex, registryMutex, newMessageCVMutex, table, sig, current,
                   frames, fault, failures>>

Block(r) ==
    /\ At(r, "block")
    /\ newMessageCVMutex' = NoOne
    /\ Goto(r, "waiting")
    /\ UNCHANGED <<manager, messages, instanceMutex, registryMutex, messagesMutex, table, locals,
                   frames, fault, failures>>

\* The handlers of the signal in todo are looked up with registryMutex held.
InvokeLock(r) ==
    /\ At(r, "invoke") /\ registryMutex = NoOne
    /\ registryMutex' = r
    /\ todo' = [todo EXCEPT ![r] = UNION {registry[s] : s \in todo[r]}]
    /\ Goto(r, "invoking")
    /\ UNCHANGED <<manager, messages, instanceMutex, messagesMutex, newMessageCVMutex, table, sig,
                   current, frames, fault, failures>>

\* One function after the other; what it throws is dropped.
Invoke(r) ==
    /\ At(r, "invoking")
    /\ \/ \E u \in todo[r] :
             /\ current' = [current EXCEPT ![r] = u]
             /\ todo' = [todo EXCEPT ![r] = @ \ {u}]
             /\ UNCHANGED <<registryMutex, pc>>
       \/ /\ todo[r] = {}
          /\ current' = [current EXCEPT ![r] = NoOne]
          /\ registryMutex' = NoOne
          /\ Goto(r, "test")
          /\ UNCHANGED todo
    /\ UNCHANGED <<manager, messages, instanceMutex, messagesMutex, newMessageCVMutex, table, sig,
                   frames, fault, failures>>

TestEnd(r) ==
    /\ At(r, "end") /\ registryMutex = NoOne
    /\ Goto(r, IF keys = {} THEN "reset" ELSE "test")
    /\ UNCHANGED <<manager, messages, mutexes, table, locals, frames, fault, failures>>

\* Mutant: the thread goes on after it has removed the manager.
ResetAndGoOn(r) ==
    /\ At(r, "reset")
    /\ instance' = FALSE
    /\ registry' = [s \in Signals |-> {}] /\ keys' = {}
    /\ table' = [s \in Signals |-> table[s] \intersect Users]
    /\ messages' = <<>>
    /\ newMessageCVMutex' = NoOne
    /\ Goto(r, "lockCV")
    /\ UNCHANGED <<instanceMutex, registryMutex, messagesMutex, locals, frames, fault,
                   failures>>

\* With the manager goes its registry, and every entry of it in the table.
\* A mutex that is destroyed while somebody holds it is a fault.
Reset(r) ==
    /\ At(r, "reset")
    /\ instance' = FALSE
    /\ registry' = [s \in Signals |-> {}] /\ keys' = {}
    /\ table' = [s \in Signals |-> table[s] \intersect Users]
    /\ messages' = <<>>
    /\ newMessageCVMutex' = NoOne
    /\ fault' = (registryMutex # NoOne \/ messagesMutex # NoOne)
    /\ Goto(r, "ending")
    /\ UNCHANGED <<instanceMutex, registryMutex, messagesMutex, locals, frames,
                   failures>>

EndNotify(r) ==
    /\ At(r, "ending")
    /\ NotifyOne([pc EXCEPT ![r] = "none"])
    /\ UNCHANGED <<manager, messages, mutexes, table, locals, frames, fault, failures>>

SpuriousWakeup(t) ==
    /\ t \in Blocked /\ ~fault
    /\ Goto(t, Woken(t))
    /\ UNCHANGED <<manager, messages, mutexes, table, locals, frames, fault, failures>>

-----------------------------------------------------------------------------
(* Signals                                                                 *)

\* Signal s interrupts t: saHandler() is installed as long as s has entries.
Raise(t, s) ==
    /\ ~fault /\ raised < MaxRaised
    /\ pc[t] # "none" /\ inFrame[t] = "none" /\ table[s] # {}
    /\ raised' = raised + 1
    /\ frame' = [frame EXCEPT ![t] = table[s]]
    /\ inFrame' = [inFrame EXCEPT ![t] = "calls"]
    /\ UNCHANGED <<manager, messages, mutexes, table, pc, locals, fault, failures>>

CallDirect(t) ==
    /\ ~fault /\ inFrame[t] = "calls"
    /\ \E u \in frame[t] \intersect Users : frame' = [frame EXCEPT ![t] = @ \ {u}]
    /\ UNCHANGED <<manager, messages, mutexes, table, pc, locals, inFrame, raised, fault,
                   failures>>

\* ThreadManager::signalHandler() locks instanceMutex, whoever holds it ...
CallManager(t) ==
    /\ ~fault /\ inFrame[t] = "calls" /\ frame[t] \intersect Signals # {}
    /\ instanceMutex = NoOne
    /\ instanceMutex' = t
    /\ inFrame' = [inFrame EXCEPT ![t] = "locked"]
    /\ UNCHANGED <<manager, messages, registryMutex, messagesMutex, newMessageCVMutex, table, pc,
                   locals, frame, raised, fault, failures>>

\* ... and then messagesMutex of an instance it takes for granted.
PushMessage(t) ==
    /\ ~fault /\ inFrame[t] = "locked"
    /\ \E s \in frame[t] \intersect Signals :
          \/ /\ instance /\ messagesMutex = NoOne
             /\ messages' = Append(messages, s)
             /\ NotifyOne(pc)
             /\ frame' = [frame EXCEPT ![t] = @ \ {s}]
             /\ inFrame' = [inFrame EXCEPT ![t] = "calls"]
             /\ instanceMutex' = NoOne
             /\ UNCHANGED fault
          \/ /\ ~instance
             /\ fault' = TRUE
             /\ UNCHANGED <<messages, pc, frame, inFrame, instanceMutex>>
    /\ UNCHANGED <<manager, registryMutex, messagesMutex, newMessageCVMutex, table, locals,
                   raised, failures>>

Return(t) ==
    /\ ~fault /\ inFrame[t] = "calls" /\ frame[t] = {}
    /\ inFrame' = [inFrame EXCEPT ![t] = "none"]
    /\ UNCHANGED <<manager, messages, mutexes, table, pc, locals, frame, raised, fault, failures>>

\* The manager is gone between the test of instance and its use.
InstanceGone(u) ==
    /\ pc[u] \in {"register", "erase"} /\ At(u, pc[u]) /\ ~instance
    /\ fault' = TRUE
    /\ UNCHANGED <<manager, messages, mutexes, table, pc, locals, frames, failures>>

UserStep(u) ==
    \/ \E s \in Signals : CreateDirect(u, s) \/ Install(u, s)
    \/ DestroyDirect(u)
    \/ InstallFound(u) \/ InstallSpawn(u) \/ InstallSpawnFails(u) \/ InstallWait(u)
    \/ InstallWoken(u) \/ Register(u) \/ RegisterFails(u) \/ InstanceGone(u)
    \/ Remove(u) \/ RemoveErase(u) \/ RemoveNotify(u) \/ RemoveAwait(u)

RunStep(r) ==
    \/ Start(r) \/ LockCV(r) \/ TestMessages(r) \/ Take(r) \/ Block(r) \/ InvokeLock(r)
    \/ Invoke(r) \/ TestEnd(r) \/ Reset(r) \/ EndNotify(r)

SignalStep(t) ==
    \/ \E s \in Signals : Raise(t, s)
    \/ CallDirect(t) \/ CallManager(t) \/ PushMessage(t) \/ Return(t) \/ SpuriousWakeup(t)

Next ==
    \/ \E u \in Users : UserStep(u)
    \/ \E r \in RunThreads : RunStep(r)
    \/ \E t \in Threads : SignalStep(t)

Spec == Init /\ [][Next]_vars

-----------------------------------------------------------------------------
\* A function is invoked only while its handler exists: the destructor of a
\* ThreadHandler returns only when its function is over and not called again.
InvokedWhileInstalled ==
    \A r \in RunThreads : current[r] # NoOne => pc[current[r]] \in {"owner", "erase"}

\* One thread at most serves the manager, and none serves one that is gone.
OneRunThread ==
    /\ Cardinality(Serving) <= 1
    /\ Serving # {} => instance

\* A signal has handlers in the registry exactly if its table has the entry
\* that leads to them, unless a sigaction() has failed.
CaughtIfRegistered ==
    failures = 0 =>
        \A s \in Signals : registry[s] # {} <=> s \in table[TableOf(s)]
=============================================================================
