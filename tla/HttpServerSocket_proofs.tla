----------------------- MODULE HttpServerSocket_proofs -----------------------
(***************************************************************************)
(* What TLAPS proves about HttpServerSocket for every number of callers,   *)
(* requests and daemons, and every key store.                              *)
(*                                                                         *)
(* The steps of callers leave requests alone, and the steps of requests    *)
(* leave the socket alone: SocketInv is about the first, RequestInv about  *)
(* the second, and ServedInv says that requests belong to running daemons. *)
(* CertificateInv says what a connection got from the key store.           *)
(***************************************************************************)
EXTENDS HttpServerSocket, SequenceTheorems, WellFoundedInduction, TLAPS

CallerPCs == ListenPCs \union ReleasePCs \union {"idle", "wait", "blocked", "gone"}

SocketTypeOK ==
    /\ daemonPtr \in used \union {NoOne}
    /\ onReleasedHandler \in Callers \union {NoOne}
    /\ destroyed \in BOOLEAN
    /\ pc \in [Callers -> CallerPCs]
    /\ sync \in [Callers -> BOOLEAN]
    /\ stopping \in [Callers -> used \union {NoOne}]
    /\ used \subseteq Daemons /\ running \subseteq used
    /\ handlerOf \in [Daemons -> Callers \union {NoOne}]
    /\ overlapped \in BOOLEAN /\ fault \in BOOLEAN

\* The thread that destroys the socket is alone with it.
DestroyInv ==
    /\ destroyed =>
          \E c \in Callers : /\ pc[c] \in {"stopping", "gone"}
                             /\ \A o \in Callers \ {c} : pc[o] = "idle"
    /\ ~destroyed => \A c \in Callers : pc[c] # "gone"

BusyPCs == ListenPCs \union ReleasePCs

\* While calls come one after the other, the socket knows its daemon ...
KnownInv ==
    /\ \A c, o \in Callers : pc[c] \in BusyPCs /\ pc[o] \in BusyPCs => c = o
    /\ running \subseteq {daemonPtr}
    /\ \A c \in Callers :
          /\ pc[c] \in {"start", "clear", "gone"} => running = {}
          /\ pc[c] = "start" => daemonPtr = NoOne
          /\ pc[c] = "stop" => daemonPtr # NoOne
          /\ pc[c] = "stopping" => stopping[c] = daemonPtr /\ daemonPtr # NoOne

\* ... and the handler that goes with it.
HandlerInv ==
    /\ \A c \in Callers :
          /\ pc[c] \in {"stopping", "clear", "handler"} /\ ~destroyed =>
                stopping[c] # NoOne /\ handlerOf[stopping[c]] = onReleasedHandler
          /\ pc[c] \in {"started", "check", "assign"} /\ daemonPtr # NoOne =>
                handlerOf[daemonPtr] = IF sync[c] THEN NoOne ELSE c
    /\ daemonPtr # NoOne =>
          \/ handlerOf[daemonPtr] = onReleasedHandler
          \/ \E c \in Callers : pc[c] \in {"started", "check", "assign"}
    /\ \A pair \in called : pair[1] \in used /\ pair[2] = handlerOf[pair[1]]

SocketInv ==
    /\ SocketTypeOK /\ DestroyInv /\ WaiterWillBeNotified
    /\ ~overlapped => KnownInv /\ HandlerInv

-----------------------------------------------------------------------------
\* The socket begins without a daemon.
LEMMA SocketInit == Init => SocketInv
<1> SUFFICES ASSUME Init PROVE SocketInv
  OBVIOUS
<1> USE CallersAssumption DEF Init
<1>1. SocketTypeOK
  BY DEF SocketTypeOK, CallerPCs
<1>2. DestroyInv /\ WaiterWillBeNotified
  BY DEF DestroyInv, WaiterWillBeNotified
<1>3. KnownInv /\ HandlerInv
  BY DEF KnownInv, HandlerInv, BusyPCs, ListenPCs, ReleasePCs
<1> QED
  BY <1>1, <1>2, <1>3 DEF SocketInv

-----------------------------------------------------------------------------
(* The steps of the callers.                                               *)

\* They keep the types.
LEMMA CallerTyped ==
    ASSUME SocketTypeOK, NEW c \in Callers, CallerStep(c)
    PROVE  SocketTypeOK'
<1> USE CallersAssumption
    DEF SocketTypeOK, CallerPCs, ListenPCs, ReleasePCs, At, Goto, socket,
        callers, daemons
<1>1. ASSUME NEW blocking \in BOOLEAN, Listen(c, blocking) PROVE SocketTypeOK'
  BY <1>1 DEF Listen, Busy
<1>2. CASE ListenStart(c)
  BY <1>2 DEF ListenStart
<1>3. CASE ListenNotify(c)
  BY <1>3 DEF ListenNotify, NotifyAll
<1>4. CASE ListenCheck(c)
  BY <1>4 DEF ListenCheck, Leave
<1>5. CASE ListenAssign(c)
  BY <1>5 DEF ListenAssign
<1>6. CASE Wait(c)
  BY <1>6 DEF Wait
<1>7. CASE WaitTest(c)
  BY <1>7 DEF WaitTest, Leave
<1>8. CASE WaitWakes(c)
  BY <1>8 DEF WaitWakes
<1>9. CASE Release(c)
  BY <1>9 DEF Release, Busy
<1>10. CASE ReleaseStop(c)
  BY <1>10 DEF ReleaseStop
<1>11. CASE ReleaseStopped(c)
  BY <1>11 DEF ReleaseStopped
<1>12. CASE ReleaseClear(c)
  BY <1>12 DEF ReleaseClear
<1>13. CASE ReleaseHandler(c)
  BY <1>13 DEF ReleaseHandler
<1>14. CASE ReleaseNotify(c)
  BY <1>14 DEF ReleaseNotify, NotifyAll
<1>15. CASE Destroy(c)
  BY <1>15 DEF Destroy
<1> QED
  BY <1>1, <1>2, <1>3, <1>4, <1>5, <1>6, <1>7, <1>8, <1>9, <1>10, <1>11, <1>12,
     <1>13, <1>14, <1>15 DEF CallerStep

\* Nobody uses a socket that is destroyed.
LEMMA DestroyedAlone ==
    ASSUME SocketTypeOK, DestroyInv, NEW c \in Callers, CallerStep(c)
    PROVE  DestroyInv'
<1> USE CallersAssumption
    DEF SocketTypeOK, CallerPCs, DestroyInv, ListenPCs, ReleasePCs, At, Goto,
        socket, callers, daemons
<1>1. ASSUME NEW blocking \in BOOLEAN, Listen(c, blocking) PROVE DestroyInv'
  BY <1>1 DEF Listen, Busy
<1>2. CASE ListenStart(c)
  BY <1>2 DEF ListenStart
<1>3. CASE ListenNotify(c)
  BY <1>3 DEF ListenNotify, NotifyAll
<1>4. CASE ListenCheck(c)
  BY <1>4 DEF ListenCheck, Leave
<1>5. CASE ListenAssign(c)
  BY <1>5 DEF ListenAssign
<1>6. CASE Wait(c)
  BY <1>6 DEF Wait
<1>7. CASE WaitTest(c)
  BY <1>7 DEF WaitTest, Leave
<1>8. CASE WaitWakes(c)
  BY <1>8 DEF WaitWakes
<1>9. CASE Release(c)
  BY <1>9 DEF Release, Busy
<1>10. CASE ReleaseStop(c)
  BY <1>10 DEF ReleaseStop
<1>11. CASE ReleaseStopped(c)
  BY <1>11 DEF ReleaseStopped
<1>12. CASE ReleaseClear(c)
  BY <1>12 DEF ReleaseClear
<1>13. CASE ReleaseHandler(c)
  BY <1>13 DEF ReleaseHandler
<1>14. CASE ReleaseNotify(c)
  BY <1>14 DEF ReleaseNotify, NotifyAll
<1>15. CASE Destroy(c)
  BY <1>15 DEF Destroy
<1> QED
  BY <1>1, <1>2, <1>3, <1>4, <1>5, <1>6, <1>7, <1>8, <1>9, <1>10, <1>11, <1>12,
     <1>13, <1>14, <1>15 DEF CallerStep

\* Who waits is going to be notified.
LEMMA NotifiedStep ==
    ASSUME SocketTypeOK, WaiterWillBeNotified, NEW c \in Callers, CallerStep(c)
    PROVE  WaiterWillBeNotified'
<1> USE CallersAssumption
    DEF SocketTypeOK, CallerPCs, WaiterWillBeNotified, At, Goto, socket,
        callers, daemons
<1>1. ASSUME NEW blocking \in BOOLEAN, Listen(c, blocking) PROVE WaiterWillBeNotified'
  BY <1>1 DEF Listen, Busy
<1>2. CASE ListenStart(c)
  BY <1>2 DEF ListenStart
<1>3. CASE ListenNotify(c)
  BY <1>3 DEF ListenNotify, NotifyAll
<1>4. CASE ListenCheck(c)
  BY <1>4 DEF ListenCheck, Leave
<1>5. CASE ListenAssign(c)
  BY <1>5 DEF ListenAssign
<1>6. CASE Wait(c)
  BY <1>6 DEF Wait
<1>7. CASE WaitTest(c)
  BY <1>7 DEF WaitTest, Leave
<1>8. CASE WaitWakes(c)
  BY <1>8 DEF WaitWakes
<1>9. CASE Release(c)
  BY <1>9 DEF Release, Busy
<1>10. CASE ReleaseStop(c)
  BY <1>10 DEF ReleaseStop
<1>11. CASE ReleaseStopped(c)
  BY <1>11 DEF ReleaseStopped
<1>12. CASE ReleaseClear(c)
  BY <1>12 DEF ReleaseClear
<1>13. CASE ReleaseHandler(c)
  BY <1>13 DEF ReleaseHandler
<1>14. CASE ReleaseNotify(c)
  BY <1>14 DEF ReleaseNotify, NotifyAll
<1>15. CASE Destroy(c)
  BY <1>15 DEF Destroy
<1> QED
  BY <1>1, <1>2, <1>3, <1>4, <1>5, <1>6, <1>7, <1>8, <1>9, <1>10, <1>11, <1>12,
     <1>13, <1>14, <1>15 DEF CallerStep

\* One call after the other, the socket knows its daemon.
LEMMA Known ==
    ASSUME SocketTypeOK, DestroyInv, ~overlapped', KnownInv, NEW c \in Callers, CallerStep(c)
    PROVE  KnownInv'
<1> USE CallersAssumption
    DEF SocketTypeOK, DestroyInv, KnownInv, CallerPCs, BusyPCs, ListenPCs,
        ReleasePCs, At, Goto, socket, callers, daemons
<1>1. ASSUME NEW blocking \in BOOLEAN, Listen(c, blocking) PROVE KnownInv'
  <2>1. CASE UNCHANGED <<pc, sync, overlapped>>
    BY <1>1, <2>1 DEF Listen
  <2>2. CASE daemonPtr = NoOne /\ Goto(c, "start") /\ overlapped' = (overlapped \/ Busy(c))
    <3>1. running = {}
      BY <2>2
    <3>2. \A o \in Callers \ {c} : pc[o] \notin BusyPCs
      BY <2>2 DEF Busy
    <3> QED
      BY <1>1, <2>2, <3>1, <3>2 DEF Listen
  <2> QED
    BY <1>1, <2>1, <2>2 DEF Listen
<1>2. CASE ListenStart(c)
  BY <1>2 DEF ListenStart
<1>3. CASE ListenNotify(c)
  BY <1>3 DEF ListenNotify, NotifyAll
<1>4. CASE ListenCheck(c)
  BY <1>4 DEF ListenCheck, Leave
<1>5. CASE ListenAssign(c)
  BY <1>5 DEF ListenAssign
<1>6. CASE Wait(c)
  BY <1>6 DEF Wait
<1>7. CASE WaitTest(c)
  BY <1>7 DEF WaitTest, Leave
<1>8. CASE WaitWakes(c)
  BY <1>8 DEF WaitWakes
<1>9. CASE Release(c)
  BY ZenonT(30), <1>9 DEF Release, Busy
<1>10. CASE ReleaseStop(c)
  BY <1>10 DEF ReleaseStop
<1>11. CASE ReleaseStopped(c)
  BY <1>11 DEF ReleaseStopped
<1>12. CASE ReleaseClear(c)
  BY <1>12 DEF ReleaseClear
<1>13. CASE ReleaseHandler(c)
  BY <1>13 DEF ReleaseHandler
<1>14. CASE ReleaseNotify(c)
  BY <1>14 DEF ReleaseNotify, NotifyAll
<1>15. CASE Destroy(c)
  BY <1>15 DEF Destroy
<1> QED
  BY <1>1, <1>2, <1>3, <1>4, <1>5, <1>6, <1>7, <1>8, <1>9, <1>10, <1>11, <1>12,
     <1>13, <1>14, <1>15 DEF CallerStep

\* One call after the other, the socket knows the handler.
LEMMA Handled ==
    ASSUME SocketTypeOK, DestroyInv, ~overlapped', KnownInv, HandlerInv, NEW c \in Callers, CallerStep(c)
    PROVE  HandlerInv'
<1> USE CallersAssumption
    DEF SocketTypeOK, DestroyInv, KnownInv, HandlerInv, CallerPCs, BusyPCs,
        ListenPCs, ReleasePCs, At, Goto, socket, callers, daemons
<1>1. ASSUME NEW blocking \in BOOLEAN, Listen(c, blocking) PROVE HandlerInv'
  BY <1>1 DEF Listen, Busy
<1>2. CASE ListenStart(c)
  BY <1>2 DEF ListenStart
<1>3. CASE ListenNotify(c)
  BY <1>3 DEF ListenNotify, NotifyAll
<1>4. CASE ListenCheck(c)
  BY <1>4 DEF ListenCheck, Leave
<1>5. CASE ListenAssign(c)
  BY <1>5 DEF ListenAssign
<1>6. CASE Wait(c)
  BY <1>6 DEF Wait
<1>7. CASE WaitTest(c)
  BY <1>7 DEF WaitTest, Leave
<1>8. CASE WaitWakes(c)
  BY <1>8 DEF WaitWakes
<1>9. CASE Release(c)
  BY <1>9 DEF Release, Busy
<1>10. CASE ReleaseStop(c)
  BY <1>10 DEF ReleaseStop
<1>11. CASE ReleaseStopped(c)
  BY <1>11 DEF ReleaseStopped
<1>12. CASE ReleaseClear(c)
  BY <1>12 DEF ReleaseClear
<1>13. CASE ReleaseHandler(c)
  BY <1>13 DEF ReleaseHandler
<1>14. CASE ReleaseNotify(c)
  BY <1>14 DEF ReleaseNotify, NotifyAll
<1>15. CASE Destroy(c)
  BY <1>15 DEF Destroy
<1> QED
  BY <1>1, <1>2, <1>3, <1>4, <1>5, <1>6, <1>7, <1>8, <1>9, <1>10, <1>11, <1>12,
     <1>13, <1>14, <1>15 DEF CallerStep

\* The callers keep their invariant.
LEMMA CallersKeep ==
    ASSUME SocketInv, NEW c \in Callers, CallerStep(c) PROVE SocketInv'
<1>1. overlapped => overlapped'
  BY DEF CallerStep, Listen, ListenStart, ListenNotify, ListenCheck, ListenAssign, Wait,
     WaitTest, WaitWakes, Release, ReleaseStop, ReleaseStopped, ReleaseClear,
     ReleaseHandler, ReleaseNotify, Destroy
<1> QED
  BY <1>1, CallerTyped, DestroyedAlone, NotifiedStep, Known, Handled DEF SocketInv

\* Requests leave the socket alone.
LEMMA RequestsKeepSocket ==
    ASSUME SocketInv, UNCHANGED <<socket, callers, daemons, overlapped, fault>>
    PROVE  SocketInv'
<1> USE DEF socket, callers, daemons
<1>1. SocketTypeOK' /\ DestroyInv' /\ WaiterWillBeNotified'
  BY DEF SocketInv, SocketTypeOK, DestroyInv, WaiterWillBeNotified
<1>2. ~overlapped => KnownInv' /\ HandlerInv'
  BY DEF SocketInv, KnownInv, HandlerInv
<1> QED
  BY <1>1, <1>2 DEF SocketInv

-----------------------------------------------------------------------------
(* Requests                                                                *)

\* The response MHD took is the first in the queue.
IsRequest(q) ==
    /\ q = [state |-> q.state, daemon |-> q.daemon, name |-> q.name,
            certificate |-> q.certificate, context |-> q.context, input |-> q.input,
            left |-> q.left, ended |-> q.ended, queue |-> q.queue, sent |-> q.sent,
            accepted |-> q.accepted, threw |-> q.threw]
    /\ q.state \in {"none", "first", "calls", "refused", "done"}
    /\ q.left \in Nat /\ q.queue \in Seq(Responses)
    /\ q.context \in BOOLEAN /\ q.input \in BOOLEAN /\ q.ended \in BOOLEAN
    /\ q.sent \in BOOLEAN /\ q.threw \in BOOLEAN
    /\ q.accepted \in Responses \union {NoOne}
    /\ q.sent <=> q.accepted # NoOne
    /\ q.accepted # NoOne => q.queue # <<>> /\ q.accepted = Head(q.queue)

\* What becomes of a request: see Answered.
Progress(q) ==
    /\ q.state \in {"none", "first"} =>
          q.queue = <<>> /\ ~q.ended /\ q.accepted = NoOne
    /\ q.state = "calls" /\ q.ended => q.accepted # NoOne
    /\ q.state = "refused" => q.queue = <<>> \/ q.threw

RequestInv ==
    /\ req = [r \in Requests |-> req[r]]
    /\ \A r \in Requests : IsRequest(req[r]) /\ Progress(req[r])

\* Requests that are not over belong to a running daemon.
ServedInv ==
    \A r \in Requests :
        req[r].state \in {"first", "calls", "refused"} => req[r].daemon \in running

\* The certificate that a client gets, if it has asked for a name.
Certified(name, certificate) ==
    name # NoName => name \in Hostnames /\ certificate = BestCertificate(name, store)

\* The key store stays, and so does what each connection got from it.
CertificateInv ==
    /\ store \in KeyStores
    /\ \A r \in Requests : Certified(req[r].name, req[r].certificate)

\* The connection of a request does not change ...
SameClient(p, q) ==
    p.daemon = q.daemon /\ p.name = q.name /\ p.certificate = q.certificate

\* ... and sending responses does not change this much either.
Keeps(p, q) ==
    p.state = q.state /\ p.ended = q.ended /\ p.threw = q.threw /\ SameClient(p, q)

\* A new request, with nothing in it.
LEMMA NewRequest == IsRequest(NoRequest) /\ Progress(NoRequest)
BY DEF IsRequest, Progress, NoRequest

\* Responses go to the end of the queue.
LEMMA Queued ==
    ASSUME NEW q, IsRequest(q), NEW more \in Seq(Responses)
    PROVE  /\ IsRequest(Queue(q, more))
           /\ Keeps(Queue(q, more), q)
           /\ Queue(q, more).accepted = q.accepted
           /\ more # <<>> => Queue(q, more).queue # <<>>
<1>1. q.queue \o more \in Seq(Responses)
  BY DEF IsRequest
<1>2. q.queue # <<>> => Head(q.queue \o more) = Head(q.queue) /\ q.queue \o more # <<>>
  BY DEF IsRequest
<1>3. more # <<>> => q.queue \o more # <<>>
  BY DEF IsRequest
<1>4. Queue(q, more) = [q EXCEPT !.queue = q.queue \o more]
  BY DEF Queue
<1>5. IsRequest([q EXCEPT !.queue = q.queue \o more])
  <2> DEFINE longer == q.queue \o more
  <2>1. /\ longer \in Seq(Responses)
        /\ q.queue # <<>> => Head(longer) = Head(q.queue) /\ longer # <<>>
    BY <1>1, <1>2
  <2> HIDE DEF longer
  <2>2. [q EXCEPT !.queue = longer]
        = [state |-> q.state, daemon |-> q.daemon, name |-> q.name,
           certificate |-> q.certificate, context |-> q.context, input |-> q.input,
           left |-> q.left, ended |-> q.ended, queue |-> longer, sent |-> q.sent,
           accepted |-> q.accepted, threw |-> q.threw]
    BY DEF IsRequest
  <2> DEFINE new == [q EXCEPT !.queue = longer]
  <2>3. /\ new.state = q.state /\ new.daemon = q.daemon /\ new.name = q.name
        /\ new.certificate = q.certificate /\ new.context = q.context
        /\ new.input = q.input /\ new.left = q.left /\ new.ended = q.ended
        /\ new.queue = longer /\ new.sent = q.sent /\ new.accepted = q.accepted
        /\ new.threw = q.threw
    BY <2>2
  <2> HIDE DEF new
  <2>4. q.accepted # NoOne => longer # <<>> /\ q.accepted = Head(longer)
    BY <2>1 DEF IsRequest
  <2>5. IsRequest(new)
    BY <2>1, <2>2, <2>3, <2>4 DEF IsRequest, new
  <2> QED
    BY <2>5 DEF new, longer
<1>6. /\ Queue(q, more).queue = q.queue \o more
      /\ Queue(q, more).accepted = q.accepted
      /\ Keeps(Queue(q, more), q)
  BY <1>4 DEF IsRequest, Keeps, SameClient
<1> QED
  BY <1>3, <1>4, <1>5, <1>6

\* sendQueue() takes the first response, if MHD does.
LEMMA Sent ==
    ASSUME NEW q, IsRequest(q)
    PROVE  /\ IsRequest(SendQueue(q))
           /\ Keeps(SendQueue(q), q)
           /\ q.queue # <<>> /\ q.ended => SendQueue(q).accepted # NoOne
<1>1. q.queue # <<>> => Head(q.queue) \in Responses
  BY DEF IsRequest
<1> QED
  BY ZenonT(30), <1>1, CallersAssumption DEF IsRequest, SendQueue, Takes, Keeps, SameClient

\* What a handler sends are responses.
LEMMA OwnResponses ==
    ASSUME NEW q, NEW own \in Own(q) PROVE own \in Seq(Responses)
<1> DEFINE room == MaxOwn - Len(SelectSeq(q.queue, LAMBDA a : a = "own"))
<1>1. own \in {[i \in 1..n |-> "own"] : n \in 0..room}
  BY DEF Own
<1> HIDE DEF room
<1>2. PICK n \in 0..room : own = [i \in 1..n |-> "own"]
  BY <1>1
<1> QED
  BY <1>2 DEF Responses

\* A page is a queue of one response.
LEMMA Pages == \A page \in Responses : <<page>> \in Seq(Responses) /\ <<page>> # <<>>
OBVIOUS

States == {"none", "first", "calls", "refused", "done"}

\* The other fields change one by one.
LEMMA Updated ==
    ASSUME NEW q, IsRequest(q), NEW state \in States, NEW n \in Nat, NEW b \in BOOLEAN
    PROVE  /\ IsRequest([q EXCEPT !.state = state])
           /\ IsRequest([q EXCEPT !.left = n])
           /\ IsRequest([q EXCEPT !.context = b])
           /\ IsRequest([q EXCEPT !.input = b])
           /\ IsRequest([q EXCEPT !.ended = b])
           /\ IsRequest([q EXCEPT !.threw = b])
<1>1. IsRequest([q EXCEPT !.state = state])
  BY DEF IsRequest, States
<1>2. IsRequest([q EXCEPT !.left = n])
  BY DEF IsRequest
<1>3. IsRequest([q EXCEPT !.context = b]) /\ IsRequest([q EXCEPT !.input = b])
  BY SMTT(30) DEF IsRequest
<1>4. IsRequest([q EXCEPT !.ended = b]) /\ IsRequest([q EXCEPT !.threw = b])
  BY SMTT(30) DEF IsRequest
<1> QED
  BY <1>1, <1>2, <1>3, <1>4

\* The call of MHD returns, with MHD_NO ...
LEMMA Refused ==
    ASSUME NEW q, IsRequest(q), q.queue = <<>> \/ q.threw
    PROVE  IsRequest(Refuse(q)) /\ Progress(Refuse(q)) /\ SameClient(Refuse(q), q)
<1>1. IsRequest(Refuse(q))
  BY Updated DEF Refuse, States
<1>2. /\ Refuse(q).state = "refused"
      /\ (Refuse(q).queue = <<>> \/ Refuse(q).threw)
      /\ SameClient(Refuse(q), q)
  BY DEF Refuse, IsRequest, SameClient
<1> QED
  BY <1>1, <1>2 DEF Progress

\* ... or MHD_YES.
LEMMA Called ==
    ASSUME NEW q, IsRequest(q), q.ended => q.accepted # NoOne
    PROVE  IsRequest(Calls(q)) /\ Progress(Calls(q)) /\ SameClient(Calls(q), q)
<1>1. IsRequest(Calls(q))
  BY Updated DEF Calls, States
<1>2. /\ Calls(q).state = "calls"
      /\ (Calls(q).ended => Calls(q).accepted # NoOne)
      /\ SameClient(Calls(q), q)
  BY DEF Calls, IsRequest, SameClient
<1> QED
  BY <1>1, <1>2 DEF Progress

\* A page is queued only if the queue is empty.
LEMMA QueuedIfEmpty ==
    ASSUME NEW q, IsRequest(q), NEW page \in Responses
    PROVE  /\ IsRequest(QueueIfEmpty(q, page))
           /\ Keeps(QueueIfEmpty(q, page), q)
           /\ QueueIfEmpty(q, page).queue # <<>>
<1>1. CASE q.queue = <<>>
  BY <1>1, Pages, Queued DEF QueueIfEmpty
<1>2. CASE q.queue # <<>>
  BY <1>2 DEF QueueIfEmpty, Keeps, SameClient
<1> QED
  BY <1>1, <1>2

-----------------------------------------------------------------------------
\* A set of numbers that is not empty has a least one.
LEMMA LeastNumber ==
    ASSUME NEW S, S \subseteq Nat, S # {}
    PROVE  \E m \in S : \A n \in S : m <= n
<1> DEFINE R == {pair \in Nat \X Nat : pair[1] < pair[2]}
<1>1. IsWellFoundedOn(R, Nat)
  BY NatLessThanWellFounded DEF OpToRel
<1>2. \E m \in S : \A n \in S : <<n, m>> \notin R
  <2> HIDE DEF R
  <2> QED
    BY <1>1, WFMin
<1>3. \A m, n \in Nat : <<n, m>> \notin R => m <= n
  OBVIOUS
<1> QED
  BY <1>2, <1>3

\* A set of numbers that has the first one, and with each the next one, has all
\* of them.
LEMMA AllNumbers ==
    ASSUME NEW S, 0 \in S, \A n \in Nat : n \in S => n + 1 \in S
    PROVE  Nat \subseteq S
<1>1. SUFFICES ASSUME Nat \ S # {} PROVE FALSE
  OBVIOUS
<1>2. PICK m \in Nat \ S : \A n \in Nat \ S : m <= n
  BY <1>1, LeastNumber
<1>3. m - 1 \in Nat /\ m = (m - 1) + 1 /\ ~(m <= m - 1)
  BY <1>2
<1>4. m - 1 \in S
  BY <1>2, <1>3
<1> QED
  BY <1>2, <1>3, <1>4

-----------------------------------------------------------------------------
(* The certificate of a name.                                              *)

\* What mhdSniCallback has found after each entry.
IsFound(f, name, entries, n) ==
    f = [i \in 0..n |-> IF i = 0 THEN NothingFound ELSE Visit(name, f[i - 1], entries[i])]

\* There is such a function for every number of entries.
LEMMA FoundExists ==
    ASSUME NEW name, NEW entries, NEW n \in Nat
    PROVE  \E f : IsFound(f, name, entries, n)
<1> DEFINE S == {k \in Nat : \E f : IsFound(f, name, entries, k)}
<1>1. 0 \in S
  <2>1. IsFound([i \in 0..0 |-> NothingFound], name, entries, 0)
    BY DEF IsFound
  <2> QED
    BY <2>1
<1>2. ASSUME NEW k \in Nat, k \in S PROVE k + 1 \in S
  <2>1. PICK f : IsFound(f, name, entries, k)
    BY <1>2
  <2> DEFINE g == [i \in 0..(k + 1) |-> IF i = k + 1 THEN Visit(name, f[k], entries[k + 1]) ELSE f[i]]
  <2>2. ASSUME NEW i \in 0..(k + 1)
        PROVE  g[i] = IF i = 0 THEN NothingFound ELSE Visit(name, g[i - 1], entries[i])
    <3>1. CASE i = 0
      <4>1. 0 # k + 1 /\ 0 \in 0..k
        OBVIOUS
      <4> QED
        BY <3>1, <4>1, <2>1 DEF IsFound
    <3>2. CASE i = k + 1
      <4>1. i # 0 /\ i - 1 = k /\ k # k + 1 /\ k \in 0..(k + 1)
        BY <3>2
      <4> QED
        BY <3>2, <4>1
    <3>3. CASE i # 0 /\ i # k + 1
      <4>1. i \in 0..k /\ i - 1 \in 0..(k + 1) /\ i - 1 # k + 1
        BY <3>3
      <4>2. f[i] = Visit(name, f[i - 1], entries[i])
        BY <3>3, <4>1, <2>1 DEF IsFound
      <4> QED
        BY <3>3, <4>1, <4>2
    <3> QED
      BY <3>1, <3>2, <3>3
  <2>3. IsFound(g, name, entries, k + 1)
    <3>1. g = [i \in 0..(k + 1) |-> g[i]]
      OBVIOUS
    <3> HIDE DEF g
    <3> QED
      BY <2>2, <3>1 DEF IsFound
  <2>4. k + 1 \in Nat
    OBVIOUS
  <2> QED
    BY <2>3, <2>4
<1>3. Nat \subseteq S
  <2> HIDE DEF S
  <2> QED
    BY <1>1, <1>2, AllNumbers
<1> QED
  BY <1>3

Level(name) == <<"*">> \o Tail(name)

Best(name, offered) ==
    CASE name \in offered -> {name}
      [] name \notin offered /\ Level(name) \in offered -> {Level(name)}
      [] OTHER -> offered \intersect {NoName}

FirstOf(entries, i) == {entries[k] : k \in 1..i}

\* What is found after some entries is the best of them.
Found(name, offered) ==
    [pattern |-> Best(name, offered), perfect |-> IsPerfect(name) /\ name \in offered]

\* The labels of a name, and the one that stands for any.
Labels == STRING \union {"*"}

Names == Seq(Labels) \ {NoName}

\* A name fits itself, the pattern of its level, and the one for all.
LEMMA Fits ==
    ASSUME NEW name \in Names, NEW pattern \in Seq(Labels)
    PROVE  HasMatchingHostname(name, pattern) <=> pattern \in {NoName, Level(name), name}
<1>1. Tail(name) \in Seq(Labels)
  BY DEF Names, NoName
<1>2. Level(name) # NoName /\ Level(name)[1] = "*" /\ Tail(Level(name)) = Tail(name)
  BY <1>1 DEF Level, NoName
<1>3. ASSUME pattern # NoName, pattern[1] = "*", Tail(name) = Tail(pattern)
      PROVE  pattern = Level(name)
  <2>1. pattern = <<pattern[1]>> \o Tail(pattern)
    BY <1>3 DEF NoName
  <2> QED
    BY <1>3, <2>1 DEF Level
<1> QED
  BY <1>2, <1>3 DEF HasMatchingHostname

\* The pattern of a name's level is a name of the same length, and not perfect.
LEMMA Levels ==
    ASSUME NEW name \in Names
    PROVE  /\ Level(name) \in Names /\ ~IsPerfect(Level(name))
           /\ Len(Level(name)) = Len(name) /\ Len(name) \in Nat
           /\ Len(NoName) = 0 /\ Len(name) > 0 /\ ~IsPerfect(NoName)
           /\ ~IsPerfect(name) => name = Level(name)
<1>1. Tail(name) \in Seq(Labels) /\ Len(name) \in Nat /\ Len(name) > 0 /\ Len(Tail(name)) = Len(name) - 1
  BY DEF Names, NoName
<1>2. Level(name) \in Names /\ Level(name)[1] = "*" /\ Len(Level(name)) = Len(name)
  <2>1. Level(name) \in Seq(Labels) /\ Len(Level(name)) = 1 + Len(Tail(name)) /\ Level(name)[1] = "*"
    <3> DEFINE star == "*"
    <3>1. star \in Labels
      BY DEF Labels
    <3> HIDE DEF star
    <3>3. <<star>> \in Seq(Labels) /\ Len(<<star>>) = 1 /\ <<star>>[1] = star
      BY <3>1
    <3>4. Level(name) = <<star>> \o Tail(name)
      BY DEF Level, star
    <3>2. 1 \in 1..(1 + Len(Tail(name)))
      BY <1>1
    <3> QED
      <4>1. /\ Level(name) \in Seq(Labels) /\ Len(Level(name)) = 1 + Len(Tail(name))
            /\ Level(name)[1] = star
        BY <1>1, <3>2, <3>3, <3>4, ConcatProperties
      <4> QED
        BY <4>1 DEF star
  <2> QED
    BY <1>1, <2>1 DEF Names, NoName
<1>3. ASSUME name[1] = "*" PROVE name = Level(name)
  <2>1. name = <<name[1]>> \o Tail(name)
    BY DEF Names, NoName
  <2> QED
    BY <1>3, <2>1 DEF Level
<1>4. Len(NoName) = 0
  BY DEF NoName
<1> QED
  BY <1>1, <1>2, <1>3, <1>4 DEF IsPerfect, Names

\* One more entry: the best is found among one more.
LEMMA VisitBest ==
    ASSUME NEW name \in Names, NEW offered, NEW pattern \in Seq(Labels)
    PROVE  Visit(name, Found(name, offered), pattern) = Found(name, offered \union {pattern})
<1> DEFINE level == Level(name)
           found == Found(name, offered)
           more  == offered \union {pattern}
<1>1. /\ level # NoName /\ name # NoName /\ ~IsPerfect(level) /\ ~IsPerfect(NoName)
      /\ ~IsPerfect(name) => name = level
      /\ HasMatchingHostname(name, pattern) <=> pattern \in {NoName, level, name}
  BY Levels, Fits DEF Names
<1>2. \A p \in {NoName, level, name} :
          /\ Len(level) >= Len(p) /\ Len(name) >= Len(p)
          /\ Len(NoName) >= Len(p) <=> p = NoName
  BY Levels
<1>3. found.pattern = Best(name, offered) /\ found.perfect = (IsPerfect(name) /\ name \in offered)
      /\ found.perfect \in BOOLEAN
  BY DEF Found
<1>4. Best(name, offered) \in {{}, {NoName}, {level}, {name}}
  BY DEF Best
<1>5. CASE found.perfect
  <2>1. Visit(name, found, pattern) = found
    BY <1>5 DEF Visit
  <2>2. name \in offered /\ name \in more /\ IsPerfect(name)
    BY <1>5, <1>3
  <2>3. Found(name, more) = found
    BY <2>2 DEF Found, Best
  <2> QED
    BY <2>1, <2>3
<1>6. CASE pattern \notin {NoName, level, name}
  <2>1. Visit(name, found, pattern) = found
    BY <1>6, <1>1 DEF Visit
  <2>2. (name \in offered <=> name \in more) /\ (level \in offered <=> level \in more)
        /\ offered \intersect {NoName} = more \intersect {NoName}
    BY <1>6
  <2>3. Best(name, offered) = Best(name, more)
    BY <2>2 DEF Best
  <2>4. Found(name, more) = found
    BY <2>2, <2>3 DEF Found
  <2> QED
    BY <2>1, <2>4
<1>7. CASE ~found.perfect /\ pattern = name /\ IsPerfect(name)
  <2>1. Visit(name, found, pattern) = [pattern |-> {name}, perfect |-> TRUE]
    BY <1>7, <1>1 DEF Visit, Better
  <2>2. Found(name, more) = [pattern |-> {name}, perfect |-> TRUE]
    BY <1>7 DEF Found, Best
  <2> QED
    BY <2>1, <2>2
<1>8. CASE ~found.perfect /\ pattern = level
  <2>1. found.pattern = {} \/ \E p \in found.pattern : Len(pattern) >= Len(p)
    BY <1>8, <1>2, <1>3, <1>4
  <2>2. Visit(name, found, pattern) = [pattern |-> {level}, perfect |-> FALSE]
    <3>1. HasMatchingHostname(name, pattern) /\ Better(found, pattern)
      BY <1>8, <1>1, <2>1 DEF Better
    <3>2. IsPerfect(pattern) = FALSE
      BY <1>8, <1>1
    <3> QED
      BY <1>8, <3>1, <3>2 DEF Visit
  <2>3. Best(name, more) = {level}
    BY <1>8, <1>1, <1>3 DEF Best
  <2>4. ~(IsPerfect(name) /\ name \in more)
    BY <1>8, <1>1, <1>3
  <2> QED
    BY <2>2, <2>3, <2>4 DEF Found
<1>9. CASE ~found.perfect /\ pattern = NoName
  <2>1. name \in more <=> name \in offered
    BY <1>9, <1>1
  <2>2. level \in more <=> level \in offered
    BY <1>9, <1>1
  <2>3. ~(IsPerfect(name) /\ name \in more)
    BY <1>9, <1>3, <2>1
  <2>4. CASE name \in offered \/ level \in offered
    <3>1. Best(name, more) = Best(name, offered) /\ Best(name, offered) \in {{level}, {name}}
      BY <2>4, <2>1, <2>2 DEF Best
    <3>2. ~Better(found, pattern)
      BY <3>1, <1>1, <1>2, <1>3, <1>9 DEF Better
    <3>3. Visit(name, found, pattern) = found
      BY <3>2 DEF Visit
    <3> QED
      BY <3>1, <3>3, <2>1 DEF Found
  <2>5. CASE name \notin offered /\ level \notin offered
    <3>1. Best(name, offered) \in {{}, {NoName}} /\ Best(name, more) = {NoName}
      BY <2>5, <2>1, <2>2, <1>9 DEF Best
    <3>2. found.pattern = {} \/ \E p \in found.pattern : Len(pattern) >= Len(p)
      BY <3>1, <1>2, <1>3, <1>9
    <3>3. Visit(name, found, pattern) = [pattern |-> {NoName}, perfect |-> FALSE]
      <4>1. HasMatchingHostname(name, pattern) /\ Better(found, pattern)
        BY <3>2, <1>1, <1>9 DEF Better
      <4>2. IsPerfect(pattern) = FALSE
        BY <1>9, <1>1
      <4> QED
        BY <1>9, <4>1, <4>2 DEF Visit
    <3> QED
      BY <3>1, <3>3, <2>3 DEF Found
  <2> QED
    BY <2>4, <2>5
<1> QED
  BY <1>1, <1>5, <1>6, <1>7, <1>8, <1>9

\* mhdSniCallback finds the best certificate: the name itself, else the pattern
\* of its level, else the one for all.
THEOREM CertificateIsBest ==
    ASSUME NEW name \in Names, NEW entries \in Seq(Seq(Labels))
    PROVE  Certificate(name, entries) = BestCertificate(name, entries)
<1> DEFINE n == Len(entries)
<1>1. n \in Nat /\ \A i \in 1..n : entries[i] \in Seq(Labels)
  OBVIOUS
<1> DEFINE f == CHOOSE h : IsFound(h, name, entries, n)
<1>2. IsFound(f, name, entries, n)
  BY <1>1, FoundExists
<1>3. Certificate(name, entries) = f[n].pattern
  BY DEF Certificate, IsFound
<1> HIDE DEF f
<1> DEFINE S == {i \in Nat : i <= n => f[i] = Found(name, FirstOf(entries, i))}
<1>4. 0 \in S
  <2>1. f[0] = NothingFound
    BY <1>1, <1>2 DEF IsFound
  <2>2. FirstOf(entries, 0) = {}
    BY DEF FirstOf
  <2>3. Found(name, {}) = NothingFound
    BY DEF Found, Best, NothingFound
  <2> QED
    BY <2>1, <2>2, <2>3
<1>5. ASSUME NEW i \in Nat, i \in S PROVE i + 1 \in S
  <2>1. SUFFICES ASSUME i + 1 <= n PROVE f[i + 1] = Found(name, FirstOf(entries, i + 1))
    OBVIOUS
  <2>2. i + 1 \in 0..n /\ i + 1 \in 1..n /\ i + 1 # 0 /\ (i + 1) - 1 = i /\ i <= n
    BY <1>1, <2>1
  <2>3. f[i + 1] = Visit(name, f[i], entries[i + 1])
    BY <2>2, <1>2 DEF IsFound
  <2>4. f[i] = Found(name, FirstOf(entries, i))
    BY <1>5, <2>2
  <2>5. FirstOf(entries, i + 1) = FirstOf(entries, i) \union {entries[i + 1]}
    <3>1. 1..(i + 1) = (1..i) \union {i + 1}
      OBVIOUS
    <3> QED
      BY <3>1 DEF FirstOf
  <2> QED
    <3>1. entries[i + 1] \in Seq(Labels)
      BY <1>1, <2>2
    <3>2. Visit(name, Found(name, FirstOf(entries, i)), entries[i + 1])
             = Found(name, FirstOf(entries, i) \union {entries[i + 1]})
      BY <3>1, VisitBest
    <3> QED
      BY <2>3, <2>4, <2>5, <3>2
<1>6. f[n] = Found(name, FirstOf(entries, n))
  <2>1. Nat \subseteq S
    <3> HIDE DEF S
    <3> QED
      BY <1>4, <1>5, AllNumbers
  <2> QED
    BY <1>1, <2>1
<1>7. FirstOf(entries, n) = ToSet(entries)
  BY DEF FirstOf, ToSet
<1> QED
  BY <1>3, <1>6, <1>7 DEF Found, Best, BestCertificate, Level

\* This is so for every name and key store of the model.
LEMMA CertificateGiven ==
    ASSUME NEW name \in Hostnames, store \in KeyStores
    PROVE  Certificate(name, store) = BestCertificate(name, store)
<1>1. Seq(STRING) \subseteq Seq(Labels)
  BY SeqMonotonic DEF Labels
<1>2. Seq(Seq(STRING)) \subseteq Seq(Seq(Labels))
  BY <1>1, SeqMonotonic
<1> QED
  BY <1>1, <1>2, NamesAssumption, CertificateIsBest DEF Names

-----------------------------------------------------------------------------
(* The steps of requests.                                                  *)

Requested == RequestInv /\ ServedInv /\ CertificateInv

\* A request that is served.
Accepted(q) == q.daemon \in running /\ Certified(q.name, q.certificate)

\* A step that sets the record of one request.
LEMMA SetInv ==
    ASSUME Requested, NEW r \in Requests, NEW record, Set(r, record),
           IsRequest(record), Progress(record),
           record.state \in {"first", "calls", "refused"} => record.daemon \in running,
           Certified(record.name, record.certificate)
    PROVE  Requested'
<1>1. RequestInv' /\ ServedInv'
  BY DEF Requested, RequestInv, ServedInv, Set, daemons
<1>2. CertificateInv'
  BY DEF Requested, RequestInv, CertificateInv, Certified, Set
<1> QED
  BY <1>1, <1>2 DEF Requested

\* A first call of MHD.
LEMMA FirstCallInv ==
    ASSUME Requested, NEW r \in Requests, FirstCall(r) PROVE Requested'
<1> USE DEF Accepted, SameClient
<1> DEFINE q == [req[r] EXCEPT !.context = TRUE]
<1>1. /\ IsRequest(req[r]) /\ req[r].state = "first" /\ req[r].queue = <<>>
      /\ req[r].accepted = NoOne /\ ~req[r].ended /\ Accepted(req[r])
  BY DEF FirstCall, Served, Requested, RequestInv, CertificateInv, Progress
<1>2. IsRequest(q) /\ ~q.ended /\ Accepted(q)
  BY ZenonT(30), <1>1, Updated DEF IsRequest, States
<1>3. ASSUME Set(r, Refuse(req[r])) PROVE Requested'
  BY <1>1, <1>3, Refused, SetInv
<1> HIDE DEF q
<1>4. ASSUME NEW own \in Own(q),
             \/ Set(r, Calls([Queue(q, own) EXCEPT !.input = TRUE]))
             \/ Set(r, Calls(SendQueue(QueueIfEmpty(Queue(q, own), "404"))))
             \/ Set(r, Calls(Queue(q, own \o <<"status">>)))
             \/ Set(r, Refuse([Queue(q, own) EXCEPT !.threw = TRUE]))
      PROVE  Requested'
  <2>1. /\ IsRequest(Queue(q, own)) /\ ~Queue(q, own).ended
        /\ Accepted(Queue(q, own))
    BY <1>2, OwnResponses, Queued DEF Keeps
  <2>2. CASE Set(r, Calls([Queue(q, own) EXCEPT !.input = TRUE]))
    <3> DEFINE p == [Queue(q, own) EXCEPT !.input = TRUE]
    <3>1. IsRequest(p) /\ ~p.ended /\ Accepted(p)
      BY ZenonT(30), <2>1, Updated DEF IsRequest, States
    <3> HIDE DEF p
    <3> QED
      BY <2>2, <3>1, Called, SetInv DEF p
  <2>3. CASE Set(r, Calls(SendQueue(QueueIfEmpty(Queue(q, own), "404"))))
    <3> DEFINE p == SendQueue(QueueIfEmpty(Queue(q, own), "404"))
    <3>1. IsRequest(p) /\ ~p.ended /\ Accepted(p)
      BY <2>1, QueuedIfEmpty, Sent DEF Keeps, Responses
    <3> HIDE DEF p
    <3> QED
      BY <2>3, <3>1, Called, SetInv DEF p
  <2>4. CASE Set(r, Calls(Queue(q, own \o <<"status">>)))
    <3> DEFINE more == own \o <<"status">>
    <3>1. more \in Seq(Responses)
      BY OwnResponses DEF Responses
    <3> HIDE DEF more
    <3>2. /\ IsRequest(Queue(q, more)) /\ ~Queue(q, more).ended
          /\ Accepted(Queue(q, more))
      BY <1>2, <3>1, Queued DEF Keeps
    <3> QED
      BY <2>4, <3>2, Called, SetInv DEF more
  <2>5. CASE Set(r, Refuse([Queue(q, own) EXCEPT !.threw = TRUE]))
    <3> DEFINE p == [Queue(q, own) EXCEPT !.threw = TRUE]
    <3>1. IsRequest(p) /\ p.threw /\ Accepted(p)
      BY ZenonT(30), <2>1, Updated DEF IsRequest, States
    <3> HIDE DEF p
    <3> QED
      BY <2>5, <3>1, Refused, SetInv DEF p
  <2> QED
    BY <1>4, <2>2, <2>3, <2>4, <2>5
<1> QED
  BY <1>3, <1>4 DEF FirstCall, q

\* A later call of MHD: at the end of the body there is an answer.
LEMMA NextCallInv ==
    ASSUME Requested, NEW r \in Requests, NextCall(r) PROVE Requested'
<1> USE DEF Accepted, SameClient
<1> DEFINE q    == [req[r] EXCEPT !.ended = req[r].left = 0]
           rest == [q EXCEPT !.left = IF @ = 0 THEN 0 ELSE @ - 1]
<1>1. /\ IsRequest(req[r]) /\ req[r].state = "calls" /\ Accepted(req[r])
  BY DEF NextCall, Served, Requested, RequestInv, CertificateInv
<1>2. IsRequest(q) /\ q.state = "calls" /\ Accepted(q)
  <2>1. PICK b \in BOOLEAN : b = (req[r].left = 0)
    OBVIOUS
  <2>2. q = [req[r] EXCEPT !.ended = b]
    BY <2>1
  <2> HIDE DEF q
  <2>3. IsRequest(q)
    BY <1>1, <2>2, Updated DEF States
  <2> QED
    BY <1>1, <2>2, <2>3 DEF IsRequest
<1>3. /\ IsRequest(rest) /\ rest.state = "calls" /\ Accepted(rest)
  <2>1. (IF q.left = 0 THEN 0 ELSE q.left - 1) \in Nat
    BY <1>2 DEF IsRequest
  <2>2. rest = [q EXCEPT !.left = IF q.left = 0 THEN 0 ELSE q.left - 1]
    OBVIOUS
  <2> HIDE DEF q, rest
  <2>3. IsRequest(rest)
    BY <1>2, <2>1, <2>2, Updated DEF States
  <2> QED
    BY <1>2, <2>2, <2>3 DEF IsRequest
<1>4. rest.left \in Nat
  BY <1>3 DEF IsRequest
<1> HIDE DEF q, rest
<1>5. ASSUME NEW p, IsRequest(p), p.state = "calls", Accepted(p),
             p.queue # <<>>, Set(r, SendQueue(p))
      PROVE  Requested'
  <2>1. /\ IsRequest(SendQueue(p)) /\ Accepted(SendQueue(p))
        /\ SendQueue(p).state = "calls"
        /\ SendQueue(p).ended => SendQueue(p).accepted # NoOne
    BY <1>5, Sent DEF Keeps
  <2> QED
    BY <1>5, <2>1, SetInv DEF Progress
<1>6. ASSUME Set(r, SendQueue(QueueIfEmpty(rest, "404"))) PROVE Requested'
  <2> DEFINE p == QueueIfEmpty(rest, "404")
  <2>1. IsRequest(p) /\ p.state = "calls" /\ Accepted(p) /\ p.queue # <<>>
    BY <1>3, QueuedIfEmpty DEF Keeps, Responses
  <2> HIDE DEF p
  <2> QED
    BY <1>5, <1>6, <2>1 DEF p
<1>7. ASSUME NEW own \in Own(q), Set(r, Answer(Queue(rest, own))) PROVE Requested'
  <2> DEFINE p == Queue(rest, own)
  <2>1. IsRequest(p) /\ p.state = "calls" /\ Accepted(p)
    BY <1>3, OwnResponses, Queued DEF Keeps
  <2> HIDE DEF p
  <2>2. CASE p.queue = <<>>
    BY <1>7, <2>1, <2>2, Refused, SetInv DEF p, Answer
  <2>3. CASE p.queue # <<>>
    BY <1>5, <1>7, <2>1, <2>3 DEF p, Answer
  <2> QED
    BY <2>2, <2>3
<1>8. ASSUME NEW own \in Own(q), NEW n \in {q.left, rest.left}, ~q.ended,
             Set(r, [Queue(q, own) EXCEPT !.left = n])
      PROVE  Requested'
  <2> DEFINE p == [Queue(q, own) EXCEPT !.left = n]
  <2>1. n \in Nat
    BY <1>2, <1>4 DEF IsRequest
  <2>2. IsRequest(Queue(q, own)) /\ Keeps(Queue(q, own), q)
    BY <1>2, OwnResponses, Queued
  <2>3. IsRequest(p)
    BY <2>1, <2>2, Updated DEF States
  <2>4. p.state = "calls" /\ Accepted(p) /\ ~p.ended
    BY <1>2, <1>8, <2>2 DEF IsRequest, Keeps
  <2> HIDE DEF p
  <2> QED
    BY <1>8, <2>3, <2>4, SetInv DEF p, Progress
<1>9. ASSUME NEW own \in Own(q),
             Set(r, SendQueue(QueueIfEmpty(Queue(q, own), "500")))
      PROVE  Requested'
  <2> DEFINE p == QueueIfEmpty(Queue(q, own), "500")
  <2>1. IsRequest(p) /\ p.state = "calls" /\ Accepted(p) /\ p.queue # <<>>
    BY <1>2, OwnResponses, Queued, QueuedIfEmpty DEF Keeps, Responses
  <2> HIDE DEF p
  <2> QED
    BY <1>5, <1>9, <2>1 DEF p
<1> QED
  BY <1>6, <1>7, <1>8, <1>9 DEF NextCall, q, rest

-----------------------------------------------------------------------------
(* Connections.                                                            *)

\* A request that is over before, or without, anything that happened to it ...
LEMMA Over ==
    ASSUME NEW q, q = NoRequest, NEW name, NEW done,
           done = [q EXCEPT !.state = "done"] \/ done = [q EXCEPT !.state = "done", !.name = name]
    PROVE  /\ IsRequest(done) /\ Progress(done) /\ done.state = "done"
           /\ done.name \in {NoName, name} /\ done.certificate = {}
<1>1. IsRequest(q) /\ q.name = NoName /\ q.certificate = {}
  BY NewRequest DEF NoRequest
<1>2. /\ done.state = "done" /\ IsRequest(done)
      /\ done.name \in {NoName, name} /\ done.certificate = {}
  BY <1>1 DEF IsRequest
<1> QED
  BY <1>2 DEF Progress

First(d, name, certificate, n) ==
    [NoRequest EXCEPT !.state = "first", !.daemon = d, !.name = name,
                      !.certificate = certificate, !.left = n]

\* ... and one that begins.
LEMMA Begun ==
    ASSUME NEW d, NEW name, NEW certificate, NEW n \in Nat
    PROVE  LET first == First(d, name, certificate, n) IN
           /\ IsRequest(first) /\ Progress(first)
           /\ first.daemon = d /\ first.name = name /\ first.certificate = certificate
<1> DEFINE q == NoRequest
<1> SUFFICES ASSUME NEW first,
                    first = [q EXCEPT !.state = "first", !.daemon = d, !.name = name,
                                      !.certificate = certificate, !.left = n]
             PROVE  /\ IsRequest(first) /\ Progress(first) /\ first.daemon = d
                    /\ first.name = name /\ first.certificate = certificate
  BY DEF First
<1>1. IsRequest(q) /\ q.queue = <<>> /\ ~q.ended /\ q.accepted = NoOne
  BY NewRequest DEF Progress, NoRequest
<1>2. /\ first.queue = q.queue /\ first.sent = q.sent /\ first.accepted = q.accepted
      /\ first.ended = q.ended /\ first.threw = q.threw /\ first.context = q.context
      /\ first.input = q.input /\ first.left \in Nat /\ first.state = "first"
      /\ first.daemon = d /\ first.name = name /\ first.certificate = certificate
  BY <1>1 DEF IsRequest
<1>3. first = [state |-> first.state, daemon |-> first.daemon, name |-> first.name,
        certificate |-> first.certificate, context |-> first.context, input |-> first.input,
        left |-> first.left, ended |-> first.ended, queue |-> first.queue,
        sent |-> first.sent, accepted |-> first.accepted, threw |-> first.threw]
  BY <1>1 DEF IsRequest
<1>4. IsRequest(first)
  BY <1>1, <1>2, <1>3 DEF IsRequest
<1> QED
  BY <1>1, <1>2, <1>4 DEF Progress

\* A client connects to a daemon that runs, or is turned away.
LEMMA ConnectInv ==
    ASSUME Requested, NEW r \in Requests, Connect(r) PROVE Requested'
<1>1. PICK d \in running, name \in Hostnames, n \in 0..MaxChunks :
         LET found == Certificate(name, store) IN
         IF found = {} THEN Set(r, [NoRequest EXCEPT !.state = "done", !.name = name])
         ELSE Set(r, [NoRequest EXCEPT !.state = "first", !.daemon = d, !.name = name,
                                       !.certificate = found, !.left = n])
  BY DEF Connect
<1> DEFINE found  == Certificate(name, store)
           done   == [NoRequest EXCEPT !.state = "done", !.name = name]
           first  == [NoRequest EXCEPT !.state = "first", !.daemon = d, !.name = name,
                                       !.certificate = found, !.left = n]
<1>2. /\ IsRequest(done) /\ Progress(done) /\ done.state = "done"
      /\ done.name \in {NoName, name} /\ done.certificate = {}
  BY Over
<1>3. /\ IsRequest(first) /\ Progress(first)
      /\ first.daemon = d /\ first.name = name /\ first.certificate = found
  <2> HIDE DEF found
  <2>1. n \in Nat
    BY BoundsAssumption
  <2>2. first = First(d, name, found, n)
    BY DEF First
  <2> HIDE DEF first
  <2> QED
    BY <2>1, <2>2, Begun
<1>4. (found = {} /\ Set(r, done)) \/ Set(r, first)
  BY <1>1
<1>5. found = BestCertificate(name, store)
  BY CertificateGiven DEF Requested, CertificateInv
<1> HIDE DEF done, first, found
<1>6. Certified(first.name, first.certificate)
  BY <1>3, <1>5 DEF Certified
<1>7. found = {} => Certified(done.name, done.certificate)
  BY <1>2, <1>5 DEF Certified
<1> QED
  BY <1>2, <1>3, <1>4, <1>6, <1>7, SetInv

\* A request is over.
LEMMA CompleteInv ==
    ASSUME Requested, NEW r \in Requests, Complete(r) PROVE Requested'
<1> DEFINE done == [NoRequest EXCEPT !.state = "done"]
<1>1. IsRequest(done) /\ Progress(done) /\ done.state = "done"
  BY Over
<1>2. done.name = NoName
  BY DEF NoRequest
<1>3. Set(r, done)
  BY DEF Complete
<1> HIDE DEF done
<1>4. Certified(done.name, done.certificate)
  BY <1>2 DEF Certified
<1> QED
  BY <1>1, <1>3, <1>4, SetInv

\* A daemon ends when its requests have.
LEMMA CallersKeepRequests ==
    ASSUME SocketTypeOK, Requested, NEW c \in Callers, CallerStep(c) PROVE Requested'
<1>1. UNCHANGED <<req, store>>
  BY DEF CallerStep, Listen, ListenStart, ListenNotify, ListenCheck, ListenAssign, Wait,
     WaitTest, WaitWakes, Release, ReleaseStop, ReleaseStopped, ReleaseClear,
     ReleaseHandler, ReleaseNotify, Destroy
<1>2. CASE running \subseteq running'
  BY <1>1, <1>2 DEF Requested, RequestInv, ServedInv, CertificateInv, Certified
<1>3. CASE ReleaseStopped(c)
  BY <1>1, <1>3 DEF ReleaseStopped, Active, Requested, RequestInv, ServedInv,
     CertificateInv, Certified
<1>4. running \subseteq running' \/ ReleaseStopped(c)
  BY DEF CallerStep, Listen, ListenStart, ListenNotify, ListenCheck, ListenAssign, Wait,
     WaitTest, WaitWakes, Release, ReleaseStop, ReleaseClear,
     ReleaseHandler, ReleaseNotify, Destroy, daemons
<1> QED
  BY <1>2, <1>3, <1>4

-----------------------------------------------------------------------------
IInv == SocketInv /\ Requested

\* What callers and requests rely on holds in every state.
THEOREM Invariant == Spec => []IInv
<1>1. Init => IInv
  BY SocketInit, NewRequest
     DEF Init, IInv, Requested, RequestInv, ServedInv, CertificateInv, Certified, NoRequest
<1>2. IInv /\ [Next]_vars => IInv'
  <2> SUFFICES ASSUME IInv, [Next]_vars PROVE IInv'
    OBVIOUS
  <2>1. ASSUME NEW c \in Callers, CallerStep(c) PROVE IInv'
    BY <2>1, CallersKeep, CallersKeepRequests DEF IInv, SocketInv
  <2>2. ASSUME NEW r \in Requests, RequestStep(r) PROVE IInv'
    <3>1. UNCHANGED <<socket, callers, daemons, overlapped, fault>>
      BY <2>2 DEF RequestStep, Connect, FirstCall, NextCall, Complete, Set
    <3>2. Requested'
      BY <2>2, ConnectInv, FirstCallInv, NextCallInv, CompleteInv DEF IInv, RequestStep
    <3> QED
      BY <3>1, <3>2, RequestsKeepSocket DEF IInv
  <2>3. CASE UNCHANGED vars
    <3>1. Requested'
      BY <2>3 DEF vars, daemons, IInv, Requested, RequestInv, ServedInv, CertificateInv,
         Certified
    <3> QED
      BY <2>3, <3>1, RequestsKeepSocket DEF vars, IInv
  <2> QED
    BY <2>1, <2>2, <2>3 DEF Next
<1> QED
  BY <1>1, <1>2, PTL DEF Spec

\* Daemons that run, are stopped or pointed to have been started, and every
\* thread is at a place of the code.
THEOREM TypeCorrect == Spec => []SocketTypeOK
<1>1. IInv => SocketTypeOK
  BY DEF IInv, SocketInv
<1> QED
  BY <1>1, Invariant, PTL

\* No notification of wait() is lost, however calls overlap.
THEOREM NoLostNotification == Spec => []WaiterWillBeNotified
<1>1. IInv => WaiterWillBeNotified
  BY DEF IInv, SocketInv
<1> QED
  BY <1>1, Invariant, PTL

\* The destructor outlives the requests, unless calls overlapped.
THEOREM SocketOutlivesRequests == Spec => []RequestsOutlived
<1>1. IInv => RequestsOutlived
  BY DEF IInv, SocketInv, KnownInv, Requested, ServedInv, RequestsOutlived
<1> QED
  BY <1>1, Invariant, PTL

\* release() calls the handler of the daemon it stops, unless calls overlapped.
THEOREM RightHandlerCalled == Spec => []ReleasedHandlerCalled
<1>1. IInv => ReleasedHandlerCalled
  BY DEF IInv, SocketInv, HandlerInv, ReleasedHandlerCalled
<1> QED
  BY <1>1, Invariant, PTL

\* Every request that comes to its end is answered by the first response, or
\* refused.
THEOREM RequestsAnswered == Spec => []Answered
<1>1. IInv => Answered
  BY DEF IInv, Requested, RequestInv, IsRequest, Progress, Answered
<1> QED
  BY <1>1, Invariant, PTL

\* Every client gets the best certificate of the key store for its name.
THEOREM BestCertificateGiven == Spec => []CertificateFits
<1>1. IInv => CertificateFits
  BY DEF IInv, Requested, CertificateInv, Certified, CertificateFits
<1> QED
  BY <1>1, Invariant, PTL

==============================================================================
