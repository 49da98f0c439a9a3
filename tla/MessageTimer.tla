---------------------------- MODULE MessageTimer ----------------------------
(***************************************************************************)
(* esl::utility::MessageTimer: run() makes the calling thread the runner,  *)
(* which hands every message whose time has come to the message handler.   *)
(* Other threads add messages and stop the runner; so may the handler.     *)
(*                                                                         *)
(* The runner holds newMessageMutex all the time except while it waits,    *)
(* also while it is in the handler, which is why a thread that is the      *)
(* runner (runThreadId) must not lock it again.  messageTypesMutex guards  *)
(* single statements only and needs no variable.  runThreadId is read and  *)
(* written without a lock: a read finds the last value written.            *)
(*                                                                         *)
(* Of time points a model needs only which have passed; two messages of    *)
(* one priority whose time has come are taken in any order.  Messages      *)
(* without a key are messages with a key nobody else has, and a movable    *)
(* message has a timer greater than 0.                                     *)
(***************************************************************************)
EXTENDS Naturals, FiniteSets

CONSTANTS
    Runners,   \* threads that call run()
    Clients,   \* threads that call addMessage() and stop()
    Messages,  \* messages they add
    NoOne,     \* no thread, no message
    KeyOf,     \* [Messages -> key]: a message replaces one with its key
    Priority,  \* [Messages -> priority]
    Movable,   \* messages added with moveable
    MaxAdds,   \* how many messages are added
    MaxThrows, \* how often the message handler may throw
    MaxOverlaps \* how often run() may begin while another run() has not ended

ASSUME ThreadsAssumption ==
    /\ IsFiniteSet(Runners) /\ Runners \intersect Clients = {}
    /\ NoOne \notin Runners \union Clients \union Messages
ASSUME MessagesAssumption ==
    /\ DOMAIN KeyOf = Messages
    /\ Priority \in [Messages -> Nat] /\ Movable \subseteq Messages
    /\ MaxAdds \in Nat /\ MaxThrows \in Nat /\ MaxOverlaps \in Nat

VARIABLES
    running,         \* MessageTimer::running
    runThreadId,     \* MessageTimer::runThreadId, NoOne: thread::id()
    newMessageMutex, \* holder
    messageTypes,    \* messages in the list MessageTimer::messageTypes
    due,             \* those of them whose timePoint is not in the future
    pc,              \* [Runners \union Clients -> where the thread is]
    state,           \* [Runners -> local variable of run()]
    message,         \* [threads -> the message in the handler or to be added]
    adds, throws, overlaps \* what MaxAdds, MaxThrows and MaxOverlaps bound

listVars    == <<messageTypes, due, adds>>
threadVars  == <<pc, state, message>>
failureVars == <<throws, overlaps>>
vars == <<running, runThreadId, newMessageMutex, listVars, threadVars, failureVars>>

Threads == Runners \union Clients

RunPCs == {"register", "lock", "test", "block", "waiting", "waitingFor", "woken",
           "look", "handle", "handlerAdds", "handlerStops", "plan", "leave"}

Inside  == {t \in Runners : pc[t] \in RunPCs}
Blocked == {t \in Runners : pc[t] \in {"waiting", "waitingFor"}}

Init ==
    /\ running = FALSE
    /\ runThreadId = NoOne
    /\ newMessageMutex = NoOne
    /\ messageTypes = {} /\ due = {}
    /\ pc = [t \in Threads |-> "idle"]
    /\ state = [t \in Runners |-> "noWait"]
    /\ message = [t \in Threads |-> NoOne]
    /\ adds = 0 /\ throws = 0 /\ overlaps = 0

Goto(t, where) == pc' = [pc EXCEPT ![t] = where]

\* newMessage.notify_one() by a thread that goes on to where.
NotifyOneAndGoto(t, where) ==
    IF Blocked = {}
    THEN Goto(t, where)
    ELSE \E r \in Blocked : pc' = [pc EXCEPT ![r] = "woken", ![t] = where]

-----------------------------------------------------------------------------
(* addMessage() and stop(), by clients and by the handler                  *)

\* The message replaces one with its key; its time may have passed already.
AddMessageType(t, m, where) ==
    /\ \E passed \in BOOLEAN :
          LET same == {n \in messageTypes : KeyOf[n] = KeyOf[m]} IN
          /\ messageTypes' = (messageTypes \ same) \union {m}
          /\ due' = (due \ same) \union IF passed THEN {m} ELSE {}
    /\ NotifyOneAndGoto(t, where)

\* Mutant: addMessage() never locks newMessageMutex.
AddMessageUnlocked(t, m) ==
    /\ pc[t] = "idle" /\ adds < MaxAdds
    /\ adds' = adds + 1
    /\ AddMessageType(t, m, "idle")
    /\ UNCHANGED <<running, runThreadId, newMessageMutex, state, message, failureVars>>

AddMessage(t, m) ==
    /\ pc[t] = "idle" /\ adds < MaxAdds
    /\ adds' = adds + 1
    /\ message' = [message EXCEPT ![t] = m]
    /\ Goto(t, "adds")
    /\ UNCHANGED <<running, runThreadId, newMessageMutex, messageTypes, due, state,
                   failureVars>>

AddMessageLocked(t) ==
    /\ pc[t] \in {"adds", "handlerAdds"}
    /\ newMessageMutex = NoOne
    /\ AddMessageType(t, message[t], IF pc[t] = "adds" THEN "idle" ELSE "handle")
    /\ message' = [message EXCEPT ![t] = NoOne]
    /\ UNCHANGED <<running, runThreadId, newMessageMutex, adds, state, failureVars>>

Stop(t) ==
    /\ pc[t] = "idle"
    /\ running' = FALSE
    /\ Goto(t, "stops")
    /\ UNCHANGED <<runThreadId, newMessageMutex, listVars, state, message, failureVars>>

\* Mutant: stop() does not wait for newMessageMutex before it notifies.
StopUnlocked(t) ==
    /\ pc[t] \in {"stops", "handlerStops"}
    /\ NotifyOneAndGoto(t, IF pc[t] = "stops" THEN "idle" ELSE "handle")
    /\ UNCHANGED <<running, runThreadId, newMessageMutex, listVars, state, message,
                   failureVars>>

StopLocked(t) ==
    /\ pc[t] \in {"stops", "handlerStops"}
    /\ newMessageMutex = NoOne
    /\ NotifyOneAndGoto(t, IF pc[t] = "stops" THEN "idle" ELSE "handle")
    /\ UNCHANGED <<running, runThreadId, newMessageMutex, listVars, state, message,
                   failureVars>>

\* A handler that is not called by the thread runThreadId tells locks the
\* mutex although its own thread holds it.
HandlerAdds(t, m) ==
    /\ pc[t] = "handle" /\ adds < MaxAdds
    /\ adds' = adds + 1
    /\ \/ /\ runThreadId = t
          /\ AddMessageType(t, m, "handle")
          /\ UNCHANGED message
       \/ /\ runThreadId # t
          /\ message' = [message EXCEPT ![t] = m]
          /\ Goto(t, "handlerAdds")
          /\ UNCHANGED <<messageTypes, due>>
    /\ UNCHANGED <<running, runThreadId, newMessageMutex, state, failureVars>>

HandlerStops(t) ==
    /\ pc[t] = "handle"
    /\ running' = FALSE
    /\ \/ runThreadId = t /\ NotifyOneAndGoto(t, "handle")
       \/ runThreadId # t /\ Goto(t, "handlerStops")
    /\ UNCHANGED <<runThreadId, newMessageMutex, listVars, state, message, failureVars>>

-----------------------------------------------------------------------------
(* run()                                                                   *)

\* A call that finds the timer running returns false and changes nothing.  One
\* that comes after stop() but before the runner has left begins nevertheless.
Run(t) ==
    /\ pc[t] = "idle"
    /\ ~running
    /\ running' = TRUE
    /\ \/ Inside = {} /\ UNCHANGED overlaps
       \/ Inside # {} /\ overlaps < MaxOverlaps /\ overlaps' = overlaps + 1
    /\ Goto(t, "register")
    /\ UNCHANGED <<runThreadId, newMessageMutex, listVars, state, message, throws>>

\* Mutant: run() forgets to note which thread it runs in.
RegisterNobody(t) ==
    /\ pc[t] = "register"
    /\ Goto(t, "lock")
    /\ UNCHANGED <<running, runThreadId, newMessageMutex, listVars, state, message,
                   failureVars>>

Register(t) ==
    /\ pc[t] = "register"
    /\ runThreadId' = t
    /\ Goto(t, "lock")
    /\ UNCHANGED <<running, newMessageMutex, listVars, state, message, failureVars>>

LockNewMessage(t) ==
    /\ pc[t] = "lock"
    /\ newMessageMutex = NoOne
    /\ newMessageMutex' = t
    /\ state' = [state EXCEPT ![t] = "noWait"]
    /\ Goto(t, "test")
    /\ UNCHANGED <<running, runThreadId, listVars, message, failureVars>>

\* The first look at running.
Test(t) ==
    /\ pc[t] = "test"
    /\ Goto(t, IF ~running THEN "leave"
               ELSE IF state[t] = "noWait" THEN "look" ELSE "block")
    /\ UNCHANGED <<running, runThreadId, newMessageMutex, listVars, state, message,
                   failureVars>>

\* The wait begins.  running may have become FALSE since it was looked at, but
\* the notification of stop() needs newMessageMutex and comes later.
Block(t) ==
    /\ pc[t] = "block"
    /\ newMessageMutex' = NoOne
    /\ Goto(t, IF state[t] = "wait" THEN "waiting" ELSE "waitingFor")
    /\ UNCHANGED <<running, runThreadId, listVars, state, message, failureVars>>

Timeout(t) ==
    /\ pc[t] = "waitingFor"
    /\ Goto(t, "woken")
    /\ UNCHANGED <<running, runThreadId, newMessageMutex, listVars, state, message,
                   failureVars>>

SpuriousWakeup(t) ==
    /\ pc[t] = "waiting"
    /\ Goto(t, "woken")
    /\ UNCHANGED <<running, runThreadId, newMessageMutex, listVars, state, message,
                   failureVars>>

Resume(t) ==
    /\ pc[t] = "woken"
    /\ newMessageMutex = NoOne
    /\ newMessageMutex' = t
    /\ Goto(t, "look")
    /\ UNCHANGED <<running, runThreadId, listVars, state, message, failureVars>>

\* The second look at running; then the most important message whose time has
\* come is taken out, and all movable ones start their timers again.
Look(t) ==
    /\ pc[t] = "look"
    /\ \/ /\ ~running
          /\ Goto(t, "leave")
          /\ UNCHANGED <<messageTypes, due, message>>
       \/ /\ running /\ due = {}
          /\ Goto(t, "plan")
          /\ UNCHANGED <<messageTypes, due, message>>
       \/ /\ running
          /\ \E m \in due :
                /\ \A n \in due : Priority[n] <= Priority[m]
                /\ messageTypes' = messageTypes \ {m}
                /\ due' = due \ (Movable \union {m})
                /\ message' = [message EXCEPT ![t] = m]
          /\ Goto(t, "handle")
    /\ UNCHANGED <<running, runThreadId, newMessageMutex, adds, state, failureVars>>

HandlerReturns(t) ==
    /\ pc[t] = "handle"
    /\ message' = [message EXCEPT ![t] = NoOne]
    /\ Goto(t, "plan")
    /\ UNCHANGED <<running, runThreadId, newMessageMutex, listVars, state, failureVars>>

\* The exception leaves run(), which unlocks newMessageMutex and nothing else.
HandlerThrows(t) ==
    /\ pc[t] = "handle"
    /\ throws < MaxThrows
    /\ throws' = throws + 1
    /\ newMessageMutex' = NoOne
    /\ message' = [message EXCEPT ![t] = NoOne]
    /\ Goto(t, "idle")
    /\ UNCHANGED <<running, runThreadId, listVars, state, overlaps>>

\* Mutant: no regard to messages whose time has come while one was handled.
PlanWaiting(t) ==
    /\ pc[t] = "plan"
    /\ state' = [state EXCEPT ![t] = IF messageTypes = due THEN "wait" ELSE "waitFor"]
    /\ Goto(t, "test")
    /\ UNCHANGED <<running, runThreadId, newMessageMutex, listVars, message, failureVars>>

Plan(t) ==
    /\ pc[t] = "plan"
    /\ state' = [state EXCEPT ![t] = IF messageTypes = {} THEN "wait"
                                     ELSE IF due = {} THEN "waitFor" ELSE "noWait"]
    /\ Goto(t, "test")
    /\ UNCHANGED <<running, runThreadId, newMessageMutex, listVars, message, failureVars>>

Leave(t) ==
    /\ pc[t] = "leave"
    /\ runThreadId' = NoOne
    /\ newMessageMutex' = NoOne
    /\ Goto(t, "idle")
    /\ UNCHANGED <<running, listVars, state, message, failureVars>>

-----------------------------------------------------------------------------
(* Time goes by.                                                           *)
Elapse(m) ==
    /\ m \in messageTypes \ due
    /\ due' = due \union {m}
    /\ UNCHANGED <<running, runThreadId, newMessageMutex, messageTypes, adds,
                   threadVars, failureVars>>

RunStep(t) ==
    \/ Register(t) \/ LockNewMessage(t) \/ Test(t) \/ Block(t) \/ Resume(t)
    \/ Look(t) \/ HandlerReturns(t) \/ Plan(t) \/ Leave(t)

CallStep(t) == AddMessageLocked(t) \/ StopLocked(t)

Next ==
    \/ \E t \in Clients : Stop(t) \/ \E m \in Messages : AddMessage(t, m)
    \/ \E t \in Threads : CallStep(t)
    \/ \E t \in Runners : \/ Run(t) \/ RunStep(t) \/ Timeout(t) \/ SpuriousWakeup(t)
                          \/ HandlerStops(t) \/ HandlerThrows(t)
                          \/ \E m \in Messages : HandlerAdds(t, m)
    \/ \E m \in Messages : Elapse(m)

Spec == Init /\ [][Next]_vars

(* A thread that can go on does so and obtains a mutex that is free again  *)
(* and again; a wait with a time limit ends, and the handler returns.      *)
Fairness ==
    /\ \A t \in Threads : SF_vars(CallStep(t))
    /\ \A t \in Runners : SF_vars(RunStep(t)) /\ WF_vars(Timeout(t))

FairSpec == Spec /\ Fairness

-----------------------------------------------------------------------------
(* What holds as long as no run() begins before another one has ended.     *)

\* A runner that waits without a time limit has nothing to wait for but the
\* next call of addMessage() or the rest of a call of stop().
NothingForgotten ==
    \A t \in Runners :
        pc[t] = "waiting" /\ overlaps = 0 =>
            /\ messageTypes = {}
            /\ running \/ \E c \in Clients : pc[c] = "stops"

\* No thread waits for newMessageMutex while it holds it, which blocks it and
\* everybody else for ever.
NoSelfDeadlock ==
    \A t \in Runners :
        pc[t] \in {"handlerAdds", "handlerStops"} /\ overlaps = 0 =>
            newMessageMutex # t

\* As long as there is a runner, a message whose time has come is handed over,
\* replaced, or starts its timer again.
DueLeaves ==
    \A m \in Messages :
        m \in due ~> m \notin due \/ Inside = {} \/ overlaps > 0

\* After stop() the runner returns, whatever it was doing.
StopEndsRun == ~running /\ Inside # {} ~> Inside = {} \/ overlaps > 0

(* The refinement mapping: a message is being handled while a runner is in *)
(* the handler, also when the handler blocks.                              *)
Handling == \E t \in Runners : pc[t] \in {"handle", "handlerAdds", "handlerStops"}
Timed    == INSTANCE TimedMessages WITH pending <- messageTypes, busy <- Handling

\* The timer keeps what TimedMessages promises, also when runs overlap: messages
\* are replaced by key, handed over in the order of their priority, each once,
\* and one after the other.
TimedSpec == Timed!Spec
=============================================================================
