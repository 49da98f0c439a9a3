------------------------ MODULE MessageTimer_proofs ------------------------
(***************************************************************************)
(* What TLAPS proves about MessageTimer for every number of threads and    *)
(* messages, every choice of keys and priorities, and every bound.         *)
(*                                                                         *)
(* Who holds newMessageMutex follows from where the runners are (MutexInv),*)
(* whatever the callers do.  The rest holds until the first run() that     *)
(* begins before another one has ended (AloneInv): the runner is the       *)
(* thread runThreadId tells, its handler therefore never blocks, and what  *)
(* it saw before its wait is still so, because others need the mutex to    *)
(* change it.  Of overlapping runs MutexInv is still enough to show that   *)
(* the timer implements TimedMessages.                                     *)
(***************************************************************************)
EXTENDS MessageTimer, TLAPS

HoldingPCs == {"test", "block", "look", "handle", "handlerAdds", "handlerStops",
               "plan", "leave"}

TypeOK ==
    /\ running \in BOOLEAN
    /\ runThreadId \in Runners \union {NoOne}
    /\ newMessageMutex \in Runners \union {NoOne}
    /\ messageTypes \subseteq Messages
    /\ due \subseteq messageTypes
    /\ pc \in [Threads -> RunPCs \union {"idle", "adds", "stops"}]
    /\ \A t \in Runners : pc[t] \in RunPCs \union {"idle"}
    /\ \A t \in Clients : pc[t] \in {"idle", "adds", "stops"}
    /\ state \in [Runners -> {"noWait", "wait", "waitFor"}]
    /\ message \in [Threads -> Messages \union {NoOne}]
    /\ \A t \in Threads : pc[t] \in {"adds", "handlerAdds"} => message[t] \in Messages
    /\ adds \in Nat /\ throws \in Nat /\ overlaps \in Nat

\* The holder of newMessageMutex is the runner that has locked it.
MutexInv == \A t \in Runners : newMessageMutex = t <=> pc[t] \in HoldingPCs

\* There is one runner, and it has told who it is.
OneRunner ==
    \A s \in Inside : /\ \A t \in Inside : s = t
                      /\ pc[s] # "register" => runThreadId = s

HandlerGoesOn == \A t \in Runners : pc[t] \notin {"handlerAdds", "handlerStops"}

\* A runner on its way into a wait without a limit has an empty list behind it.
NothingListed ==
    \A t \in Runners :
        /\ pc[t] \in {"test", "block"} /\ state[t] = "wait" => messageTypes = {}
        /\ pc[t] = "waiting" => messageTypes = {}

\* Whoever stopped the timer since the runner looked is still to notify it.
StopPending ==
    \A t \in Runners :
        pc[t] \in {"block", "waiting"} =>
            running \/ \E c \in Clients : pc[c] = "stops"

Alone == OneRunner /\ HandlerGoesOn /\ NothingListed /\ StopPending

AloneInv == overlaps = 0 => Alone

IInv == TypeOK /\ MutexInv /\ AloneInv

-----------------------------------------------------------------------------
\* The invariant holds at the beginning.
LEMMA InitInv == Init => IInv
<1> SUFFICES ASSUME Init PROVE IInv
  OBVIOUS
<1> USE ThreadsAssumption DEF Init, Threads
<1>1. \A t \in Threads : pc[t] = "idle" /\ message[t] = NoOne
  OBVIOUS
<1>2. TypeOK
  BY <1>1 DEF TypeOK, RunPCs
<1>3. MutexInv
  BY <1>1 DEF MutexInv, HoldingPCs
<1>4. AloneInv
  BY <1>1 DEF AloneInv, Alone, OneRunner, HandlerGoesOn, NothingListed,
     StopPending, RunPCs, Inside
<1> QED
  BY <1>2, <1>3, <1>4 DEF IInv

\* A notification wakes a waiting runner, if there is one, and nobody else moves
\* but the thread that notifies.
LEMMA Notified ==
    ASSUME TypeOK, NEW t \in Threads, NEW where, pc[t] \notin {"waiting", "waitingFor"},
           NotifyOneAndGoto(t, where)
    PROVE  /\ pc'[t] = where
           /\ \A s \in Threads \ {t} :
                 pc'[s] = pc[s] \/ (s \in Blocked /\ pc'[s] = "woken")
           /\ \A s \in Blocked : Blocked = {s} => pc'[s] = "woken"
           /\ pc' = [s \in Threads |-> pc'[s]]
<1>1. Blocked \subseteq Threads \ {t}
  BY DEF Blocked, Threads
<1>2. pc = [s \in Threads |-> pc[s]]
  BY DEF TypeOK
<1>3. CASE Blocked = {}
  BY <1>2, <1>3 DEF NotifyOneAndGoto, Goto
<1>4. CASE Blocked # {}
  <2>1. PICK r \in Blocked : pc' = [pc EXCEPT ![r] = "woken", ![t] = where]
    BY <1>4 DEF NotifyOneAndGoto
  <2>2. r # t /\ r \in Threads
    BY <1>1
  <2> QED
    BY <1>2, <2>1, <2>2
<1> QED
  BY <1>3, <1>4

-----------------------------------------------------------------------------
(* The steps of a runner in which nobody notifies it.                      *)

RunnerAlone(t) ==
    Run(t) \/ RunStep(t) \/ Timeout(t) \/ SpuriousWakeup(t) \/ HandlerThrows(t)

\* They keep the types.
LEMMA RunnerTyped ==
    ASSUME IInv, NEW t \in Runners, RunnerAlone(t) PROVE TypeOK'
<1> USE ThreadsAssumption
    DEF IInv, TypeOK, RunPCs, Threads, Goto, listVars, failureVars
<1>1. CASE Register(t)
  BY <1>1 DEF Register
<1>2. CASE LockNewMessage(t)
  BY <1>2 DEF LockNewMessage
<1>3. CASE Test(t)
  BY <1>3 DEF Test
<1>4. CASE Block(t)
  BY <1>4 DEF Block
<1>5. CASE Resume(t)
  BY <1>5 DEF Resume
<1>6. CASE Look(t)
  BY <1>6 DEF Look
<1>7. CASE HandlerReturns(t)
  BY <1>7 DEF HandlerReturns
<1>8. CASE Plan(t)
  BY <1>8 DEF Plan
<1>9. CASE Leave(t)
  BY <1>9 DEF Leave
<1>10. CASE Timeout(t)
  BY <1>10 DEF Timeout
<1>11. CASE SpuriousWakeup(t)
  BY <1>11 DEF SpuriousWakeup
<1>12. CASE HandlerThrows(t)
  BY <1>12 DEF HandlerThrows
<1>13. CASE Run(t)
  BY <1>13 DEF Run
<1> QED
  BY <1>1, <1>2, <1>3, <1>4, <1>5, <1>6, <1>7, <1>8, <1>9, <1>10, <1>11,
     <1>12, <1>13 DEF RunnerAlone, RunStep

\* They lock and unlock as they go.
LEMMA RunnerLocks ==
    ASSUME IInv, NEW t \in Runners, RunnerAlone(t) PROVE MutexInv'
<1> USE ThreadsAssumption
    DEF IInv, TypeOK, MutexInv, HoldingPCs, Threads, Goto, listVars, failureVars
<1>1. CASE Register(t)
  BY <1>1 DEF Register
<1>2. CASE LockNewMessage(t)
  BY <1>2 DEF LockNewMessage
<1>3. CASE Test(t)
  BY <1>3 DEF Test
<1>4. CASE Block(t)
  BY <1>4 DEF Block
<1>5. CASE Resume(t)
  BY <1>5 DEF Resume
<1>6. CASE Look(t)
  BY <1>6 DEF Look
<1>7. CASE HandlerReturns(t)
  BY <1>7 DEF HandlerReturns
<1>8. CASE Plan(t)
  BY <1>8 DEF Plan
<1>9. CASE Leave(t)
  BY <1>9 DEF Leave
<1>10. CASE Timeout(t)
  BY <1>10 DEF Timeout
<1>11. CASE SpuriousWakeup(t)
  BY <1>11 DEF SpuriousWakeup
<1>12. CASE HandlerThrows(t)
  BY <1>12 DEF HandlerThrows
<1>13. CASE Run(t)
  BY <1>13 DEF Run
<1> QED
  BY <1>1, <1>2, <1>3, <1>4, <1>5, <1>6, <1>7, <1>8, <1>9, <1>10, <1>11,
     <1>12, <1>13 DEF RunnerAlone, RunStep

\* As long as nobody overlaps, they keep what the runner relies on.
LEMMA RunnerIsOne ==
    ASSUME IInv, NEW t \in Runners, RunnerAlone(t), overlaps' = 0
    PROVE  Alone'
<1> USE ThreadsAssumption
    DEF IInv, TypeOK, AloneInv, Alone, OneRunner, HandlerGoesOn, NothingListed,
        StopPending, Inside, RunPCs, Threads, Goto, listVars, failureVars
<1>1. CASE Register(t)
  BY <1>1 DEF Register
<1>2. CASE LockNewMessage(t)
  BY <1>2 DEF LockNewMessage
<1>3. CASE Test(t)
  BY <1>3 DEF Test
<1>4. CASE Block(t)
  BY <1>4 DEF Block
<1>5. CASE Resume(t)
  BY <1>5 DEF Resume
<1>6. CASE Look(t)
  BY <1>6 DEF Look
<1>7. CASE HandlerReturns(t)
  BY <1>7 DEF HandlerReturns
<1>8. CASE Plan(t)
  BY <1>8 DEF Plan
<1>9. CASE Leave(t)
  BY <1>9 DEF Leave
<1>10. CASE Timeout(t)
  BY <1>10 DEF Timeout
<1>11. CASE SpuriousWakeup(t)
  BY <1>11 DEF SpuriousWakeup
<1>12. CASE HandlerThrows(t)
  BY <1>12 DEF HandlerThrows
<1>13. CASE Run(t)
  BY <1>13 DEF Run
<1> QED
  BY <1>1, <1>2, <1>3, <1>4, <1>5, <1>6, <1>7, <1>8, <1>9, <1>10, <1>11,
     <1>12, <1>13 DEF RunnerAlone, RunStep

-----------------------------------------------------------------------------
(* The other steps.                                                        *)

\* Calls that begin, and time that goes by, change nothing the runner relies on.
Begins(t) == Stop(t) \/ \E m \in Messages : AddMessage(t, m)

\* Clients begin their calls.
LEMMA BeginsInv == ASSUME IInv, NEW t \in Clients, Begins(t) PROVE IInv'
<1> USE ThreadsAssumption
    DEF Begins, Stop, AddMessage, Goto, Threads, listVars, failureVars
<1>1. TypeOK'
  <2>1. CASE Stop(t)
    BY <2>1 DEF IInv, TypeOK, RunPCs
  <2>2. ASSUME NEW m \in Messages, AddMessage(t, m) PROVE TypeOK'
    BY <2>2 DEF IInv, TypeOK, RunPCs
  <2> QED
    BY <2>1, <2>2
<1>2. MutexInv'
  BY DEF IInv, TypeOK, MutexInv, HoldingPCs
<1>3. AloneInv'
  BY DEF IInv, TypeOK, AloneInv, Alone, OneRunner, HandlerGoesOn, NothingListed,
     StopPending, Inside, RunPCs
<1> QED
  BY <1>1, <1>2, <1>3 DEF IInv

\* Time goes by.
LEMMA ElapseInv == ASSUME IInv, NEW m \in Messages, Elapse(m) PROVE IInv'
<1> USE DEF Elapse, threadVars, failureVars
<1>1. TypeOK'
  BY DEF IInv, TypeOK
<1>2. MutexInv'
  BY DEF IInv, MutexInv
<1>3. AloneInv'
  BY DEF IInv, AloneInv, Alone, OneRunner, HandlerGoesOn, NothingListed,
     StopPending, Inside
<1> QED
  BY <1>1, <1>2, <1>3 DEF IInv

\* What a call of another thread needs: nobody holds the mutex.
LEMMA CallInv == ASSUME IInv, NEW t \in Threads, CallStep(t) PROVE IInv'
<1>1. newMessageMutex = NoOne /\ pc[t] \notin {"waiting", "waitingFor"}
  BY DEF CallStep, AddMessageLocked, StopLocked
<1>2. \A r \in Runners : pc[r] \notin HoldingPCs
  BY <1>1, ThreadsAssumption DEF IInv, MutexInv
<1>3. t \in Clients /\ t \notin Runners /\ pc[t] \in {"adds", "stops"}
  BY <1>2, ThreadsAssumption
     DEF IInv, TypeOK, CallStep, AddMessageLocked, StopLocked, Threads, RunPCs,
         HoldingPCs
<1>4. NotifyOneAndGoto(t, "idle")
  BY <1>3 DEF CallStep, AddMessageLocked, StopLocked, AddMessageType
<1>5. /\ pc'[t] = "idle"
      /\ \A s \in Threads \ {t} :
            pc'[s] = pc[s] \/ (s \in Blocked /\ pc'[s] = "woken")
      /\ \A s \in Blocked : Blocked = {s} => pc'[s] = "woken"
      /\ pc' = [s \in Threads |-> pc'[s]]
  BY <1>1, <1>4, Notified DEF IInv
<1>6. UNCHANGED <<running, runThreadId, newMessageMutex, adds, state, failureVars>>
  BY DEF CallStep, AddMessageLocked, StopLocked, listVars
<1>7. /\ messageTypes' \subseteq Messages /\ due' \subseteq messageTypes'
      /\ message' \in [Threads -> Messages \union {NoOne}]
      /\ \A s \in Threads \ {t} : message'[s] = message[s]
  BY DEF CallStep, AddMessageLocked, StopLocked, listVars, AddMessageType, IInv, TypeOK
<1>8. TypeOK'
  BY <1>3, <1>5, <1>6, <1>7, ThreadsAssumption
     DEF IInv, TypeOK, Threads, Blocked, RunPCs, failureVars
<1>9. MutexInv'
  BY <1>2, <1>3, <1>5, <1>6 DEF IInv, MutexInv, Threads, Blocked, HoldingPCs
<1>10. AloneInv'
  <2> SUFFICES ASSUME overlaps = 0 PROVE Alone'
    BY <1>6 DEF AloneInv, failureVars
  <2>1. Alone
    BY DEF IInv, AloneInv
  <2>2. Inside' = Inside
    BY <1>3, <1>5, ThreadsAssumption DEF Inside, Threads, Blocked, RunPCs
  <2>3. \A r \in Runners : pc'[r] \notin {"waiting", "test", "block", "register"}
                             \/ (pc'[r] = pc[r] /\ pc[r] = "register")
    <3>1. \A r \in Blocked : Blocked = {r}
      BY <2>1 DEF Alone, OneRunner, Inside, Blocked, RunPCs
    <3> QED
      BY <3>1, <1>2, <1>3, <1>5 DEF Threads, Blocked, HoldingPCs
  <2>4. OneRunner'
    BY <1>3, <1>5, <1>6, <2>1, <2>2 DEF Alone, OneRunner, Inside, Threads, Blocked
  <2>5. HandlerGoesOn'
    BY <1>3, <1>5, <2>1 DEF Alone, HandlerGoesOn, Threads
  <2>6. NothingListed' /\ StopPending'
    BY <2>3 DEF NothingListed, StopPending
  <2> QED
    BY <2>4, <2>5, <2>6 DEF Alone
<1> QED
  BY <1>8, <1>9, <1>10 DEF IInv

\* The handler: recognised as the runner it calls at once, with nobody waiting;
\* what it would block on matters only when there are two runners.
HandlerCalls(t) == HandlerStops(t) \/ \E m \in Messages : HandlerAdds(t, m)

\* Calls of the handler.
LEMMA HandlerInv == ASSUME IInv, NEW t \in Runners, HandlerCalls(t) PROVE IInv'
<1> USE ThreadsAssumption
<1>1. pc[t] = "handle" /\ t \in Inside /\ t \in Threads
  BY DEF HandlerCalls, HandlerStops, HandlerAdds, Threads, Inside, RunPCs
<1>2. UNCHANGED <<runThreadId, newMessageMutex, state, throws, overlaps>>
  BY DEF HandlerCalls, HandlerStops, HandlerAdds, failureVars
<1>3. \/ NotifyOneAndGoto(t, "handle") /\ UNCHANGED message
      \/ /\ runThreadId # t
         /\ Goto(t, "handlerStops") /\ UNCHANGED message
      \/ /\ runThreadId # t /\ Goto(t, "handlerAdds")
         /\ \E m \in Messages : message' = [message EXCEPT ![t] = m]
  BY DEF HandlerCalls, HandlerStops, HandlerAdds, AddMessageType
<1>4. /\ running' \in BOOLEAN /\ adds' \in Nat
      /\ messageTypes' \subseteq Messages /\ due' \subseteq messageTypes'
  <2>1. CASE HandlerStops(t)
    BY <2>1 DEF HandlerStops, listVars, IInv, TypeOK
  <2>2. ASSUME NEW m \in Messages, HandlerAdds(t, m)
        PROVE  /\ running' \in BOOLEAN /\ adds' \in Nat
               /\ messageTypes' \subseteq Messages /\ due' \subseteq messageTypes'
    BY <2>2 DEF HandlerAdds, AddMessageType, IInv, TypeOK
  <2> QED
    BY <2>1, <2>2 DEF HandlerCalls
<1>5. /\ pc'[t] \in {"handle", "handlerAdds", "handlerStops"}
      /\ pc'[t] = "handle" \/ runThreadId # t
      /\ \A s \in Threads \ {t} :
            pc'[s] = pc[s] \/ (s \in Blocked /\ pc'[s] = "woken")
      /\ pc' = [s \in Threads |-> pc'[s]]
  <2>1. CASE NotifyOneAndGoto(t, "handle")
    BY <1>1, <2>1, Notified DEF IInv
  <2>2. ASSUME NEW where \in {"handlerAdds", "handlerStops"}, Goto(t, where), runThreadId # t
        PROVE  /\ pc'[t] = where
               /\ \A s \in Threads \ {t} : pc'[s] = pc[s]
               /\ pc' = [s \in Threads |-> pc'[s]]
    BY <1>1, <2>2 DEF Goto, IInv, TypeOK
  <2> QED
    BY <1>3, <2>1, <2>2
<1>6. /\ message' \in [Threads -> Messages \union {NoOne}]
      /\ \A s \in Threads : pc'[s] \in {"adds", "handlerAdds"} => message'[s] \in Messages
  <2>1. CASE UNCHANGED message /\ pc'[t] # "handlerAdds"
    BY <1>5, <2>1 DEF IInv, TypeOK, Blocked
  <2>2. CASE \E m \in Messages : message' = [message EXCEPT ![t] = m]
    BY <1>1, <1>5, <2>2 DEF IInv, TypeOK, Blocked
  <2>3. NotifyOneAndGoto(t, "handle") => pc'[t] = "handle"
    BY <1>1, Notified DEF IInv
  <2>4. Goto(t, "handlerStops") => pc'[t] = "handlerStops"
    BY <1>1 DEF Goto, IInv, TypeOK
  <2> QED
    BY <1>3, <2>1, <2>2, <2>3, <2>4
<1>7. TypeOK'
  BY <1>1, <1>2, <1>4, <1>5, <1>6 DEF IInv, TypeOK, Threads, Blocked, RunPCs
<1>8. MutexInv'
  BY <1>1, <1>2, <1>5 DEF IInv, MutexInv, Threads, Blocked, HoldingPCs
<1>9. AloneInv'
  <2> SUFFICES ASSUME overlaps = 0 PROVE Alone'
    BY <1>2 DEF AloneInv
  <2>1. \A s \in Inside : s = t
    BY <1>1 DEF IInv, AloneInv, Alone, OneRunner
  <2>2. runThreadId = t /\ pc'[t] = "handle"
    BY <1>1, <1>5 DEF IInv, AloneInv, Alone, OneRunner
  <2>3. Blocked = {}
    BY <1>1, <2>1 DEF Inside, Blocked, RunPCs
  <2>4. \A s \in Threads : pc'[s] = pc[s]
    BY <1>1, <1>5, <2>2, <2>3
  <2>5. \A s \in Runners : pc'[s] \in RunPCs => s = t
    BY <2>1, <2>4 DEF Inside, Threads
  <2> QED
    BY <1>2, <2>2, <2>5 DEF Alone, OneRunner, HandlerGoesOn, NothingListed, StopPending,
       Inside, RunPCs
<1> QED
  BY <1>7, <1>8, <1>9 DEF IInv

-----------------------------------------------------------------------------
\* The three parts of the invariant hold in every state.
THEOREM Invariant == Spec => []IInv
<1>1. Init => IInv
  BY InitInv
<1>2. IInv /\ [Next]_vars => IInv'
  <2> SUFFICES ASSUME IInv, [Next]_vars PROVE IInv'
    OBVIOUS
  <2>1. ASSUME NEW t \in Clients, Begins(t) PROVE IInv'
    BY <2>1, BeginsInv
  <2>2. ASSUME NEW t \in Threads, CallStep(t) PROVE IInv'
    BY <2>2, CallInv
  <2>3. ASSUME NEW t \in Runners, RunnerAlone(t) PROVE IInv'
    BY <2>3, RunnerTyped, RunnerLocks, RunnerIsOne DEF IInv, AloneInv
  <2>4. ASSUME NEW t \in Runners, HandlerCalls(t) PROVE IInv'
    BY <2>4, HandlerInv
  <2>5. ASSUME NEW m \in Messages, Elapse(m) PROVE IInv'
    BY <2>5, ElapseInv
  <2>6. CASE UNCHANGED vars
    BY <2>6 DEF IInv, TypeOK, MutexInv, AloneInv, Alone, OneRunner, HandlerGoesOn,
       NothingListed, StopPending, Inside, vars, listVars, threadVars, failureVars
  <2> QED
    BY <2>1, <2>2, <2>3, <2>4, <2>5, <2>6
    DEF Next, Begins, RunnerAlone, HandlerCalls
<1> QED
  BY <1>1, <1>2, PTL DEF Spec

\* The variables keep their types, a thread that adds a message has it at hand,
\* and what is due is in the list.
THEOREM TypeCorrect == Spec => []TypeOK
<1>1. IInv => TypeOK
  BY DEF IInv
<1> QED
  BY <1>1, Invariant, PTL

\* newMessageMutex is held by the runner that is between its lock and its unlock
\* or wait, and by nobody else, also when runners overlap.
THEOREM MutexHolder == Spec => []MutexInv
<1>1. IInv => MutexInv
  BY DEF IInv
<1> QED
  BY <1>1, Invariant, PTL

\* No message and no stop is missed by the wait without predicate.
THEOREM NothingMissed == Spec => []NothingForgotten
<1>1. IInv => NothingForgotten
  BY DEF IInv, AloneInv, Alone, NothingListed, StopPending, NothingForgotten
<1> QED
  BY <1>1, Invariant, PTL

\* The handler never locks the mutex its own thread holds.
THEOREM NoDoubleLock == Spec => []NoSelfDeadlock
<1>1. IInv => NoSelfDeadlock
  BY DEF IInv, AloneInv, Alone, HandlerGoesOn, NoSelfDeadlock
<1> QED
  BY <1>1, Invariant, PTL

-----------------------------------------------------------------------------
(* MessageTimer implements TimedMessages.                                  *)

HandlerPCs == {"handle", "handlerAdds", "handlerStops"}

\* Who is in the handler holds newMessageMutex, so that it is alone there.
LEMMA OneHandles ==
    ASSUME MutexInv, NEW s \in Runners, NEW t \in Runners, pc[s] \in HandlerPCs,
           pc[t] \in HoldingPCs
    PROVE  s = t
BY DEF MutexInv, HandlerPCs, HoldingPCs

\* Nobody enters or leaves the handler.
LEMMA SameHandling ==
    ASSUME \A t \in Runners : pc[t] \in HandlerPCs <=> pc'[t] \in HandlerPCs
    PROVE  Handling' = Handling
BY DEF Handling, HandlerPCs

\* What changes in a step that changes nothing there.
Still == UNCHANGED <<messageTypes, due, Handling>>

\* A message that is added replaces the one with its key.
LEMMA AddsOne ==
    ASSUME NEW m \in Messages, NEW t, NEW where, AddMessageType(t, m, where),
           Handling' = Handling
    PROVE  Timed!Next
<1>1. Timed!Add(m)
  BY DEF AddMessageType, Timed!Add
<1> QED
  BY <1>1 DEF Timed!Next

\* Calls of clients, and the rest of calls that wait for the mutex: a handler
\* that waits for it never gets it.
LEMMA CallImplements ==
    ASSUME IInv, NEW t \in Threads, CallStep(t)
    PROVE  Still \/ Timed!Next
<1> USE DEF IInv
<1>1. newMessageMutex = NoOne /\ pc[t] \in {"adds", "handlerAdds", "stops", "handlerStops"}
  BY DEF CallStep, AddMessageLocked, StopLocked
<1>2. t \notin Runners
  BY <1>1, ThreadsAssumption DEF MutexInv, HoldingPCs, TypeOK, RunPCs
<1>3. PICK where : NotifyOneAndGoto(t, where)
  BY DEF CallStep, AddMessageLocked, StopLocked, AddMessageType
<1>4. Handling' = Handling
  <2>1. \A s \in Threads \ {t} : pc'[s] = pc[s] \/ (s \in Blocked /\ pc'[s] = "woken")
    BY <1>1, <1>3, Notified
  <2> QED
    BY <1>2, <2>1, SameHandling DEF Blocked, Threads, HandlerPCs
<1>5. CASE AddMessageLocked(t)
  <2>1. message[t] \in Messages
    BY <1>1, <1>2, <1>5 DEF AddMessageLocked, TypeOK
  <2> QED
    BY <1>4, <1>5, <2>1, AddsOne DEF AddMessageLocked
<1>6. CASE StopLocked(t)
  BY <1>4, <1>6 DEF StopLocked, listVars, Still
<1> QED
  BY <1>5, <1>6 DEF CallStep

\* The handler adds a message, or blocks for ever, or stops the timer.
LEMMA HandlerImplements ==
    ASSUME IInv, NEW t \in Runners, HandlerCalls(t)
    PROVE  Still \/ Timed!Next
<1> USE DEF IInv
<1>1. pc[t] = "handle" /\ t \in Threads
  BY DEF HandlerCalls, HandlerStops, HandlerAdds, Threads
<1>2. Handling' = Handling
  <2>1. /\ pc'[t] \in HandlerPCs
        /\ \A s \in Threads \ {t} : pc'[s] = pc[s] \/ (s \in Blocked /\ pc'[s] = "woken")
    <3>1. CASE NotifyOneAndGoto(t, "handle")
      BY <1>1, <3>1, Notified DEF HandlerPCs
    <3>2. CASE Goto(t, "handlerAdds") \/ Goto(t, "handlerStops")
      BY <1>1, <3>2 DEF Goto, TypeOK, HandlerPCs
    <3> QED
      BY <3>1, <3>2 DEF HandlerCalls, HandlerStops, HandlerAdds, AddMessageType
  <2> QED
    BY <1>1, <2>1, SameHandling DEF Blocked, Threads, HandlerPCs
<1>3. CASE HandlerStops(t)
  BY <1>2, <1>3 DEF HandlerStops, listVars, Still
<1>4. ASSUME NEW m \in Messages, HandlerAdds(t, m) PROVE Still \/ Timed!Next
  <2>1. CASE AddMessageType(t, m, "handle")
    BY <1>2, <2>1, AddsOne
  <2>2. CASE UNCHANGED <<messageTypes, due>>
    BY <1>2, <2>2 DEF Still
  <2> QED
    BY <1>4, <2>1, <2>2 DEF HandlerAdds
<1> QED
  BY <1>3, <1>4 DEF HandlerCalls

\* A runner hands a message over only when nobody is in the handler.
LEMMA RunnerImplements ==
    ASSUME IInv, NEW t \in Runners, RunnerAlone(t)
    PROVE  Still \/ Timed!Next
<1> USE DEF IInv
<1>1. t \in Threads /\ pc \in [Threads -> RunPCs \union {"idle", "adds", "stops"}]
      /\ Runners \subseteq Threads
  BY DEF Threads, TypeOK
<1>2. CASE \/ Run(t) \/ Register(t) \/ LockNewMessage(t) \/ Test(t) \/ Block(t) \/ Resume(t)
           \/ Plan(t) \/ Leave(t) \/ Timeout(t) \/ SpuriousWakeup(t)
  <2>1. UNCHANGED listVars /\ pc[t] \notin HandlerPCs
    BY <1>2 DEF Run, Register, LockNewMessage, Test, Block, Resume, Plan, Leave, Timeout,
       SpuriousWakeup, HandlerPCs
  <2>2. pc'[t] \notin HandlerPCs /\ \A s \in Threads \ {t} : pc'[s] = pc[s]
    BY <1>1, <1>2 DEF Run, Register, LockNewMessage, Test, Block, Resume, Plan, Leave, Timeout,
       SpuriousWakeup, HandlerPCs, Goto
  <2>3. Handling' = Handling
    BY <1>1, <2>1, <2>2, SameHandling
  <2> QED
    BY <2>1, <2>3 DEF Still, listVars
<1>3. CASE Look(t)
  <2>1. pc[t] = "look" /\ pc[t] \in HoldingPCs /\ pc[t] \notin HandlerPCs
    BY <1>3 DEF Look, HoldingPCs, HandlerPCs
  <2>2. Handling = FALSE
    BY <2>1, OneHandles DEF Handling, HandlerPCs
  <2>3. CASE UNCHANGED <<messageTypes, due>> /\ (Goto(t, "leave") \/ Goto(t, "plan"))
    <3>1. pc'[t] \notin HandlerPCs /\ \A s \in Threads \ {t} : pc'[s] = pc[s]
      BY <1>1, <2>3 DEF HandlerPCs, Goto
    <3>2. Handling' = Handling
      BY <1>1, <2>1, <3>1, SameHandling
    <3> QED
      BY <2>3, <3>2 DEF Still
  <2>4. ASSUME NEW m \in due, \A n \in due : Priority[n] <= Priority[m],
               messageTypes' = messageTypes \ {m}, due' = due \ (Movable \union {m}),
               Goto(t, "handle")
        PROVE  Timed!Next
    <3>1. pc'[t] = "handle"
      BY <1>1, <2>4 DEF Goto
    <3>2. Handling' = TRUE
      BY <3>1 DEF Handling
    <3>3. Timed!HandOver(m)
      BY <2>2, <2>4, <3>2 DEF Timed!HandOver
    <3>4. m \in Messages
      BY DEF TypeOK
    <3> QED
      BY <3>3, <3>4 DEF Timed!Next
  <2> QED
    BY <1>3, <2>3, <2>4 DEF Look
<1>4. CASE HandlerReturns(t) \/ HandlerThrows(t)
  <2>1. /\ pc[t] = "handle" /\ pc'[t] \notin HandlerPCs
        /\ \A s \in Threads \ {t} : pc'[s] = pc[s]
        /\ UNCHANGED <<messageTypes, due>>
    BY <1>1, <1>4 DEF HandlerReturns, HandlerThrows, Goto, HandlerPCs, listVars
  <2>2. Handling = TRUE
    BY <2>1 DEF Handling
  <2>3. Handling' = FALSE
    <3>1. \A s \in Runners \ {t} : pc[s] \notin HandlerPCs
      BY <2>1, OneHandles DEF HoldingPCs
    <3> QED
      BY <1>1, <2>1, <3>1 DEF Handling, HandlerPCs
  <2>4. Timed!Finish
    BY <2>1, <2>2, <2>3 DEF Timed!Finish
  <2> QED
    BY <2>4 DEF Timed!Next
<1> QED
  BY <1>2, <1>3, <1>4 DEF RunnerAlone, RunStep

\* A step of the timer is a step of TimedMessages or changes nothing there.
LEMMA TimedStep ==
    ASSUME IInv, [Next]_vars
    PROVE  Still \/ Timed!Next
<1>1. ASSUME NEW t \in Clients, Begins(t) PROVE Still
  <2>1. UNCHANGED <<messageTypes, due>> /\ \E where : Goto(t, where)
    BY <1>1 DEF Begins, Stop, AddMessage, listVars
  <2>2. \A s \in Runners : pc'[s] = pc[s]
    BY <2>1, ThreadsAssumption DEF Goto, IInv, TypeOK, Threads
  <2>3. Handling' = Handling
    BY <2>2, SameHandling
  <2> QED
    BY <2>1, <2>3 DEF Still
<1>2. ASSUME NEW t \in Threads, CallStep(t) PROVE Still \/ Timed!Next
  BY <1>2, CallImplements
<1>3. ASSUME NEW t \in Runners, RunnerAlone(t) PROVE Still \/ Timed!Next
  BY <1>3, RunnerImplements
<1>4. ASSUME NEW t \in Runners, HandlerCalls(t) PROVE Still \/ Timed!Next
  BY <1>4, HandlerImplements
<1>5. ASSUME NEW m \in Messages, Elapse(m) PROVE Timed!Next
  <2>1. UNCHANGED pc
    BY <1>5 DEF Elapse, threadVars
  <2>2. Handling' = Handling
    BY <2>1, SameHandling
  <2>3. Timed!Elapse(m)
    BY <1>5, <2>2 DEF Elapse, Timed!Elapse
  <2> QED
    BY <2>3 DEF Timed!Next
<1>6. ASSUME UNCHANGED vars PROVE Still
  BY <1>6 DEF vars, listVars, threadVars, Still, Handling
<1> QED
  BY <1>1, <1>2, <1>3, <1>4, <1>5, <1>6
  DEF Next, Begins, RunnerAlone, HandlerCalls

\* The timer keeps the promise of TimedMessages, for any number of runners that
\* overlap in any way: by key, by priority, each message once for every time it
\* was added, and one at a time.
THEOREM RefinesTimed == Spec => TimedSpec
<1>1. Init => Timed!Init
  <2>1. Init => \A t \in Runners : pc[t] = "idle"
    BY DEF Init, Threads
  <2> QED
    BY <2>1 DEF Init, Timed!Init, Handling
<1>2. IInv /\ [Next]_vars => [Timed!Next]_<<messageTypes, due, Handling>>
  BY TimedStep DEF Still
<1> QED
  BY <1>1, <1>2, Invariant, PTL DEF Spec, TimedSpec, Timed!Spec, Timed!tmVars
=============================================================================
