-------------------------- MODULE HttpServerSocket --------------------------
(***************************************************************************)
(* mhd4esl::com::http::server: a Socket that threads of the program start  *)
(* (listen), stop (release) and wait for, and the requests that threads of *)
(* libmicrohttpd (MHD, external) bring to it in several calls each.        *)
(*                                                                         *)
(* waitNotifyMutex guards single steps.  daemonPtr is also read without    *)
(* it.  A daemon that is stopped twice is a fault and ends the program.    *)
(***************************************************************************)
EXTENDS ServerName, FiniteSets, TLC

CONSTANTS
    Callers,     \* threads of the program, also the names of their handlers
    Requests,
    Daemons,     \* identities of what MHD_start_daemon returns
    NoOne,       \* no daemon, no handler
    Hostnames,   \* names that TLS clients ask for
    KeyStores,   \* the key store is one of these sequences of patterns
    MaxChunks,   \* of a request's body
    MaxOwn       \* responses a request handler sends for a request

\* What a request can be answered with: by its handler, or a page of the socket.
Responses == {"own", "status", "404", "500"}

ASSUME CallersAssumption ==
    IsFiniteSet(Callers) /\ NoOne \notin Callers \union Daemons \union Responses
ASSUME NamesAssumption ==
    Hostnames \subseteq Seq(STRING) \ {NoName} /\ KeyStores \subseteq Seq(Seq(STRING))
ASSUME BoundsAssumption == MaxChunks \in Nat /\ MaxOwn \in Nat

VARIABLES
    daemonPtr,
    onReleasedHandler, \* who passed it to listen(); the request handlers are alike
    destroyed,     \* ~Socket() is over
    pc,            \* [Callers -> where the thread is]
    sync,          \* [Callers -> whether it called the blocking listen()]
    stopping,      \* [Callers -> daemon the thread stops]
    running,       \* daemons that serve requests
    used,          \* daemons that have been started
    handlerOf,     \* [Daemons -> handler to call when it is released]
    called,        \* of <<daemon, handler>>: calls of onReleasedHandler
    overlapped,    \* a listen() or release() began while another one was going on
    fault,
    req,           \* [Requests -> record, see NoRequest]
    early,         \* MHD takes a response before the body is complete
    store          \* the key store

socket  == <<daemonPtr, onReleasedHandler, destroyed>>
callers == <<pc, sync, stopping>>
daemons == <<running, used, handlerOf, called>>
vars == <<socket, callers, daemons, overlapped, fault, req, early, store>>

ListenPCs  == {"start", "started", "check", "assign"}
ReleasePCs == {"stop", "stopping", "clear", "handler", "notify"}

\* certificate: of the connection; left: chunks of the body MHD still has; ended:
\* it has called with no data at the end of the body; queue, sent: of Connection;
\* accepted: response MHD has taken; threw: the handler threw at its first call.
NoRequest ==
    [state |-> "none", daemon |-> NoOne, name |-> NoName, certificate |-> {}, context |-> FALSE,
     input |-> FALSE, left |-> 0, ended |-> FALSE, queue |-> <<>>, sent |-> FALSE,
     accepted |-> NoOne, threw |-> FALSE]

Init ==
    /\ daemonPtr = NoOne /\ onReleasedHandler = NoOne
    /\ destroyed = FALSE
    /\ pc = [c \in Callers |-> "idle"] /\ sync = [c \in Callers |-> FALSE]
    /\ stopping = [c \in Callers |-> NoOne]
    /\ running = {} /\ used = {} /\ handlerOf = [d \in Daemons |-> NoOne]
    /\ called = {} /\ overlapped = FALSE /\ fault = FALSE
    /\ req = [r \in Requests |-> NoRequest]
    /\ early \in BOOLEAN /\ store \in KeyStores

At(c, where)   == pc[c] = where /\ ~fault
Goto(c, where) == pc' = [pc EXCEPT ![c] = where]

Leave(c)       == Goto(c, "idle") /\ sync' = [sync EXCEPT ![c] = FALSE]

\* waitCondVar.notify_all(): who waits looks again.
NotifyAll(f) == pc' = [c \in Callers |-> IF f[c] = "blocked" THEN "wait" ELSE f[c]]

-----------------------------------------------------------------------------
(* listen()                                                                *)

\* Another thread is inside listen() or release().
Busy(c) == \E o \in Callers \ {c} : pc[o] \in ListenPCs \union ReleasePCs

Listen(c, blocking) ==
    /\ At(c, "idle") /\ ~destroyed
    /\ \/ /\ daemonPtr # NoOne                      \* throws
          /\ UNCHANGED <<pc, sync, overlapped>>
       \/ /\ daemonPtr = NoOne
          /\ sync' = [sync EXCEPT ![c] = blocking]
          /\ overlapped' = (overlapped \/ Busy(c))
          /\ Goto(c, "start")
    /\ UNCHANGED <<daemonPtr, onReleasedHandler, destroyed, stopping, daemons, fault, req, early,
                   store>>

\* MHD_start_daemon(): the port must be free; daemonPtr is overwritten anyway.
ListenStart(c) ==
    /\ At(c, "start")
    /\ \/ \E d \in Daemons \ used :
             /\ running = {}
             /\ daemonPtr' = d
             /\ running' = {d} /\ used' = used \union {d}
             /\ handlerOf' = [handlerOf EXCEPT ![d] = IF sync[c] THEN NoOne ELSE c]
             /\ UNCHANGED called
       \/ /\ daemonPtr' = NoOne
          /\ UNCHANGED daemons
    /\ Goto(c, "started")
    /\ UNCHANGED <<onReleasedHandler, destroyed, sync, stopping, overlapped, fault,
                   req, early, store>>

ListenNotify(c) ==
    /\ At(c, "started")
    /\ NotifyAll([pc EXCEPT ![c] = "check"])
    /\ UNCHANGED <<socket, sync, stopping, daemons, overlapped, fault, req, early, store>>

\* Throws if there is no daemon (any more).
ListenCheck(c) ==
    /\ At(c, "check")
    /\ IF daemonPtr = NoOne THEN Leave(c) ELSE Goto(c, "assign") /\ UNCHANGED sync
    /\ UNCHANGED <<socket, stopping, daemons, overlapped, fault, req, early, store>>

\* Mutant: the handler of an earlier listen() stays.
ListenAssignKeeping(c) ==
    /\ At(c, "assign")
    /\ onReleasedHandler' = IF sync[c] THEN onReleasedHandler ELSE c
    /\ Goto(c, IF sync[c] THEN "wait" ELSE "idle")
    /\ UNCHANGED <<daemonPtr, destroyed, sync, stopping, daemons, overlapped, fault, req, early,
                   store>>

\* The blocking listen() passes no handler and goes on with wait(0).
ListenAssign(c) ==
    /\ At(c, "assign")
    /\ onReleasedHandler' = IF sync[c] THEN NoOne ELSE c
    /\ Goto(c, IF sync[c] THEN "wait" ELSE "idle")
    /\ UNCHANGED <<daemonPtr, destroyed, sync, stopping, daemons, overlapped,
                   fault, req, early, store>>

-----------------------------------------------------------------------------
(* wait(), with and without a limit                                        *)

Wait(c) ==
    /\ At(c, "idle") /\ ~destroyed
    /\ Goto(c, "wait")
    /\ UNCHANGED <<socket, sync, stopping, daemons, overlapped, fault, req, early, store>>

\* Under waitNotifyMutex: return, or wait to be notified.
WaitTest(c) ==
    /\ At(c, "wait")
    /\ IF daemonPtr = NoOne THEN Leave(c) ELSE Goto(c, "blocked") /\ UNCHANGED sync
    /\ UNCHANGED <<socket, stopping, daemons, overlapped, fault, req, early, store>>

\* A limit that is over, or a spurious wakeup.
WaitWakes(c) ==
    /\ At(c, "blocked")
    /\ \/ Goto(c, "wait")
       \/ ~sync[c] /\ Goto(c, "idle")
    /\ UNCHANGED <<socket, sync, stopping, daemons, overlapped, fault, req, early, store>>

-----------------------------------------------------------------------------
(* release() and the destructor                                            *)

Release(c) ==
    /\ At(c, "idle") /\ ~destroyed /\ daemonPtr # NoOne
    /\ overlapped' = (overlapped \/ Busy(c))
    /\ Goto(c, "stop")
    /\ UNCHANGED <<socket, sync, stopping, daemons, fault, req, early, store>>

\* MHD_stop_daemon(daemonPtr), which is read again: nothing for a null pointer,
\* and undefined for a daemon that somebody else stops or has stopped.
ReleaseStop(c) ==
    /\ At(c, "stop")
    /\ \/ /\ daemonPtr = NoOne /\ Goto(c, "clear")
          /\ UNCHANGED <<stopping, fault>>
       \/ /\ daemonPtr \in running \ {stopping[o] : o \in Callers}
          /\ stopping' = [stopping EXCEPT ![c] = daemonPtr]
          /\ Goto(c, "stopping")
          /\ UNCHANGED fault
       \/ /\ daemonPtr # NoOne
          /\ daemonPtr \notin running \ {stopping[o] : o \in Callers}
          /\ fault' = TRUE
          /\ UNCHANGED <<pc, stopping>>
    /\ UNCHANGED <<socket, sync, daemons, overlapped, req, early, store>>

Active(d) == {r \in Requests : req[r].daemon = d /\ req[r].state \notin {"none", "done"}}

\* MHD has closed the connections and joined its threads.
ReleaseStopped(c) ==
    /\ At(c, "stopping") /\ Active(stopping[c]) = {}
    /\ running' = running \ {stopping[c]}
    /\ Goto(c, IF destroyed THEN "gone" ELSE "clear")
    /\ UNCHANGED <<socket, sync, stopping, used, handlerOf, called, overlapped, fault, req, early,
                   store>>

\* Mutant: nobody is notified.
ReleaseClearSilent(c) ==
    /\ At(c, "clear")
    /\ daemonPtr' = NoOne
    /\ Goto(c, "idle")
    /\ UNCHANGED <<onReleasedHandler, destroyed, sync, stopping, daemons,
                   overlapped, fault, req, early, store>>

ReleaseClear(c) ==
    /\ At(c, "clear")
    /\ daemonPtr' = NoOne
    /\ Goto(c, "handler")
    /\ UNCHANGED <<onReleasedHandler, destroyed, sync, stopping, daemons,
                   overlapped, fault, req, early, store>>

\* The handler that is assigned now, if there is one.
ReleaseHandler(c) ==
    /\ At(c, "handler")
    /\ called' = called \union {<<stopping[c], onReleasedHandler>>}
    /\ stopping' = [stopping EXCEPT ![c] = NoOne]
    /\ Goto(c, "notify")
    /\ UNCHANGED <<socket, sync, running, used, handlerOf, overlapped, fault, req, early, store>>

ReleaseNotify(c) ==
    /\ At(c, "notify")
    /\ NotifyAll([pc EXCEPT ![c] = "idle"])
    /\ UNCHANGED <<socket, sync, stopping, daemons, overlapped, fault, req, early, store>>

\* Mutant: the destructor leaves the daemon alone.
DestroyRunning(c) ==
    /\ At(c, "idle") /\ ~destroyed
    /\ \A o \in Callers \ {c} : pc[o] = "idle"
    /\ destroyed' = TRUE
    /\ Goto(c, "gone")
    /\ UNCHANGED <<daemonPtr, onReleasedHandler, sync, stopping, daemons,
                   overlapped, fault, req, early, store>>

\* The program destroys the socket when no thread uses it any more.
Destroy(c) ==
    /\ At(c, "idle") /\ ~destroyed
    /\ \A o \in Callers \ {c} : pc[o] = "idle"
    /\ destroyed' = TRUE
    /\ IF daemonPtr = NoOne
       THEN Goto(c, "gone") /\ UNCHANGED stopping
       ELSE Goto(c, "stopping") /\ stopping' = [stopping EXCEPT ![c] = daemonPtr]
    /\ UNCHANGED <<daemonPtr, onReleasedHandler, sync, daemons, overlapped,
                   fault, req, early, store>>

-----------------------------------------------------------------------------
(* Requests.  Set replaces the record of r.                                *)

Set(r, record) ==
    /\ req' = [req EXCEPT ![r] = record]
    /\ UNCHANGED <<socket, callers, daemons, overlapped, fault, early, store>>

Served(r) == ~fault /\ req[r].daemon \in running

\* A client connects; without a certificate the TLS handshake fails.
Connect(r) ==
    /\ ~fault /\ req[r].state = "none"
    /\ \E d \in running \ {stopping[c] : c \in Callers}, name \in Hostnames, n \in 0..MaxChunks :
          LET found == Certificate(name, store) IN
          IF found = {} THEN Set(r, [NoRequest EXCEPT !.state = "done", !.name = name])
          ELSE Set(r, [NoRequest EXCEPT !.state = "first", !.daemon = d, !.name = name,
                                        !.certificate = found, !.left = n])

\* MHD takes a response at the first call, at the end of the body, and earlier
\* if it can; one for each request.
Takes(q) == q.accepted = NoOne /\ (q.state = "first" \/ q.ended \/ early)

\* Mutant: a failure counts as sent.
SendQueueBlindly(q) ==
    IF q.sent \/ q.queue = <<>> THEN q
    ELSE [q EXCEPT !.accepted = IF Takes(q) THEN Head(q.queue) ELSE @, !.sent = TRUE]

\* sendQueue() unless hasResponseSent(): the first one that MHD takes is the
\* answer, the others are refused; if none is taken it is tried again.
SendQueue(q) ==
    IF q.sent \/ q.queue = <<>> \/ ~Takes(q) THEN q
    ELSE [q EXCEPT !.accepted = Head(q.queue), !.sent = TRUE]

Queue(q, responses) == [q EXCEPT !.queue = @ \o responses]

\* The 404 or 500 page is queued if there is nothing else.
QueueIfEmpty(q, page) == IF q.queue = <<>> THEN Queue(q, <<page>>) ELSE q

\* The call returns MHD_YES, and MHD calls again unless it has an answer.
Calls(q) == [q EXCEPT !.state = "calls"]

\* The call returns MHD_NO: the connection is closed.
Refuse(q) == [q EXCEPT !.state = "refused"]

\* What a handler sends in one call, MaxOwn in all for a request.
Own(q) == {[i \in 1..n |-> "own"] : n \in 0..(MaxOwn - Len(SelectSeq(q.queue, LAMBDA a : a = "own")))}

\* mhdAcceptHandler() for a new request: RequestHandler::accept() may send
\* responses before it returns an input or none, or throws.
FirstCall(r) ==
    LET q == [req[r] EXCEPT !.context = TRUE] IN
    /\ Served(r) /\ req[r].state = "first"
    /\ \/ Set(r, Refuse(req[r]))                          \* no RequestContext
       \/ \E own \in Own(q) :
             \/ Set(r, Calls([Queue(q, own) EXCEPT !.input = TRUE]))
             \/ Set(r, Calls(SendQueue(QueueIfEmpty(Queue(q, own), "404"))))
             \/ Set(r, Calls(Queue(q, own \o <<"status">>))) \* exception StatusCode
             \/ Set(r, Refuse([Queue(q, own) EXCEPT !.threw = TRUE]))

\* What accept() does at the end of the body, or when the writer wants no more.
Answer(q) == IF q.queue = <<>> THEN Refuse(q) ELSE SendQueue(q)

\* The next call of MHD, with a chunk of the body or at its end.
NextCall(r) ==
    LET q    == [req[r] EXCEPT !.ended = req[r].left = 0]
        rest == [q EXCEPT !.left = IF @ = 0 THEN 0 ELSE @ - 1]
    IN  /\ Served(r) /\ q.state = "calls" /\ q.accepted = NoOne /\ ~req[r].ended
        /\ \/ ~q.input /\ Set(r, SendQueue(QueueIfEmpty(rest, "404")))
           \/ /\ q.input
              /\ \E own \in Own(q) :
                    \/ Set(r, Answer(Queue(rest, own)))     \* the end, or npos
                    \/ /\ ~q.ended
                       /\ \E n \in {q.left, rest.left} :    \* consumed all or nothing
                             Set(r, [Queue(q, own) EXCEPT !.left = n])
                    \/ Set(r, SendQueue(QueueIfEmpty(Queue(q, own), "500")))

\* mhdRequestCompletedHandler(): answered, refused, or the connection is lost,
\* timed out or closed by MHD_stop_daemon().
Complete(r) ==
    /\ Served(r) /\ req[r].state \in {"first", "calls", "refused"}
    /\ Set(r, [NoRequest EXCEPT !.state = "done"])

CallerStep(c) ==
    \/ \E blocking \in BOOLEAN : Listen(c, blocking)
    \/ ListenStart(c) \/ ListenNotify(c) \/ ListenCheck(c) \/ ListenAssign(c)
    \/ Wait(c) \/ WaitTest(c) \/ WaitWakes(c)
    \/ Release(c) \/ ReleaseStop(c) \/ ReleaseStopped(c) \/ ReleaseClear(c)
    \/ ReleaseHandler(c) \/ ReleaseNotify(c) \/ Destroy(c)

RequestStep(r) == Connect(r) \/ FirstCall(r) \/ NextCall(r) \/ Complete(r)

Next ==
    \/ \E c \in Callers : CallerStep(c)
    \/ \E r \in Requests : RequestStep(r)

Spec == Init /\ [][Next]_vars

-----------------------------------------------------------------------------
\* Nobody waits in wait() for a daemon that is gone, unless who has to notify
\* him is on its way: no notification is lost.
WaiterWillBeNotified ==
    daemonPtr = NoOne /\ (\E c \in Callers : pc[c] = "blocked") =>
        fault \/ \E c \in Callers : pc[c] \in {"started", "handler", "notify"}

\* When the destructor is over no request uses the socket, unless a listen()
\* that began during another one has made it forget a daemon.
RequestsOutlived ==
    \A r \in Requests :
        req[r].state \in {"first", "calls", "refused"} =>
            /\ overlapped \/ \A c \in Callers : pc[c] # "gone"
            /\ req[r].daemon \in running

\* release() calls the handler that was given to the listen() whose daemon it
\* stops, or none if this was the blocking listen(), as long as such calls
\* come one after the other.
ReleasedHandlerCalled ==
    ~overlapped => \A pair \in called : pair[2] = handlerOf[pair[1]]

\* After the call for the end of the body a request is answered by the first
\* response queued for it, or refused; it is refused only if there is none,
\* its handler threw, or it has no context.
Answered ==
    \A r \in Requests : LET q == req[r] IN
        /\ q.ended /\ q.state = "calls" => q.accepted # NoOne
        /\ q.accepted # NoOne => q.accepted = Head(q.queue)
        /\ q.state = "refused" => q.queue = <<>> \/ q.threw

\* The best certificate of the key store, and no request without one.
CertificateFits ==
    \A r \in Requests :
        req[r].name # NoName => req[r].certificate = BestCertificate(req[r].name, store)
=============================================================================
