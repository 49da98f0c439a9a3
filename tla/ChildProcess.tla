---------------------------- MODULE ChildProcess ----------------------------
(***************************************************************************)
(* zsystem4esl::system::process::Process and zsystem::Process: execute()   *)
(* starts a child and passes data between the program's readers and writers *)
(* and the child's streams until the child ends.  Every stream has a       *)
(* producer (its adapter reads from a Reader of the program), a consumer   *)
(* (its adapter writes to a Writer), or both.  Another thread sends        *)
(* signals to the child.                                                   *)
(*                                                                         *)
(* Pipes block; poll() reports a pipe as writable when MaxBufferSize bytes *)
(* fit, so that no write blocks.  The program ignores SIGPIPE.             *)
(***************************************************************************)
EXTENDS IOAdapters, FiniteSets

CONSTANTS
    Setups,    \* streams in the order of their handles: sequences of Kinds
    Plans,     \* programs of the child: sequences of <<operation, stream>>
    PipeSize,
    Sources,   \* how many bytes a Reader has
    MaxSignals \* signals to the child and to the program

Kinds      == {"in", "out", "both"}
Operations == {"write", "drain", "close"}

ASSUME SizesAssumption ==
    /\ PipeSize \in Nat /\ MaxBufferSize <= PipeSize
    /\ Sources \subseteq Nat /\ MaxSignals \in Nat

ASSUME ProgramsAssumption ==
    Setups \subseteq Seq(Kinds) /\ Plans \subseteq Seq(Operations \X Nat)

VARIABLES
    kinds, total, \* of the streams; how many bytes their Readers have
    stalls,       \* a Reader may have nothing now, a Writer may take less or end, both throw
    calm,         \* no stream is "both", the child closes its streams only at its end
    plan, written, \* of the child: what it still does, bytes it wrote to a stream
    child,        \* "none", "runs", "zombie" (ended), "reaped"
    open,         \* streams whose descriptor the parent has open
    childOpen,    \* ... and the child
    toChild, fromChild, \* content of the pipes
    producer, consumer, \* adapters of the streams
    source,       \* bytes the Readers have given
    taken,        \* bytes read from the child
    received, delivered, \* what the child and the Writers got
    shortIn, shortOut,   \* which of the bytes came with a short read
    pc, results, processed, \* of execute(), parentRun(), parentProcess()
    processPtr, pid,     \* whether they are set
    handle, fault, signals \* what sendSignal() got from getHandle()

setup    == <<kinds, total, stalls, calm>>
program  == <<plan, written, child>>
pipes    == <<toChild, fromChild, open, childOpen>>
adapters == <<producer, consumer, source, taken, delivered, shortIn, shortOut>>
parent   == <<pc, results, processed>>
handles  == <<processPtr, pid>>
signaler == <<handle, fault, signals>>
vars == <<setup, program, pipes, received, adapters, parent, handles, signaler>>

Streams == DOMAIN kinds
Produces(s) == kinds[s] \in {"in", "both"}
Consumes(s) == kinds[s] \in {"out", "both"}
Possible(op, s) ==
    s \in Streams /\ (op = "drain" => Produces(s)) /\ (op = "write" => Consumes(s))
ForAll(x)   == [s \in Streams |-> x]

Init ==
    /\ kinds \in Setups /\ total \in Sources /\ plan \in Plans
    /\ \A i \in DOMAIN plan : Possible(plan[i][1], plan[i][2])
    /\ stalls \in BOOLEAN
    /\ calm = ~(\E s \in Streams : kinds[s] = "both" \/ <<"close", s>> \in ToSet(plan))
    /\ written = ForAll(0) /\ child = "none"
    /\ open = {} /\ childOpen = {} /\ toChild = ForAll(<<>>) /\ fromChild = ForAll(<<>>)
    /\ producer = ForAll(NewAdapter) /\ consumer = ForAll(NewAdapter)
    /\ source = ForAll(0) /\ taken = ForAll(0)
    /\ received = ForAll(<<>>) /\ delivered = ForAll(<<>>)
    /\ shortIn = ForAll({}) /\ shortOut = ForAll({})
    /\ pc = "execute" /\ results = <<>> /\ processed = FALSE
    /\ processPtr = FALSE /\ pid = FALSE
    /\ handle = FALSE /\ signals = 0 /\ fault = FALSE

-----------------------------------------------------------------------------
(* The child (external): its program and what the kernel does for it       *)

\* The child ends, its descriptors are closed.
End == child' = "zombie" /\ childOpen' = {} /\ plan' = <<>>

\* A write to a pipe nobody reads from kills the child.
ChildWrite(s) ==
    /\ IF s \in open
       THEN /\ Len(fromChild[s]) < PipeSize
            /\ fromChild' = [fromChild EXCEPT ![s] = Append(@, written[s] + 1)]
            /\ written' = [written EXCEPT ![s] = @ + 1]
            /\ plan' = Tail(plan)
            /\ UNCHANGED <<child, childOpen>>
       ELSE End /\ UNCHANGED <<fromChild, written>>
    /\ UNCHANGED <<toChild, received>>

\* Reads until the end of the stream, one byte in a step.
ChildDrain(s) ==
    /\ \/ /\ toChild[s] # <<>>
          /\ toChild' = [toChild EXCEPT ![s] = Tail(@)]
          /\ received' = [received EXCEPT ![s] = Append(@, Head(toChild[s]))]
          /\ UNCHANGED plan
       \/ /\ toChild[s] = <<>> /\ s \notin open
          /\ plan' = Tail(plan)
          /\ UNCHANGED <<toChild, received>>
    /\ UNCHANGED <<child, childOpen, fromChild, written>>

ChildClose(s) ==
    /\ childOpen' = childOpen \ {s}
    /\ plan' = Tail(plan)
    /\ UNCHANGED <<child, toChild, fromChild, received, written>>

ChildStep ==
    /\ child = "runs"
    /\ \/ plan = <<>> /\ End /\ UNCHANGED <<toChild, fromChild, received, written>>
       \/ /\ plan # <<>>
          /\ LET op == plan[1][1] s == plan[1][2] IN
             \/ op = "write" /\ ChildWrite(s)
             \/ op = "drain" /\ ChildDrain(s)
             \/ op = "close" /\ ChildClose(s)
    /\ UNCHANGED <<setup, open, adapters, parent, handles, signaler>>

-----------------------------------------------------------------------------
(* execute()                                                               *)

Goto(where) == pc' = where /\ UNCHANGED <<results, processed>>

\* zsystem4esl publishes the process for sendSignal().
Execute ==
    /\ pc = "execute"
    /\ processPtr' = TRUE
    /\ Goto("fork")
    /\ UNCHANGED <<setup, program, pipes, received, adapters, pid, signaler>>

\* The pipes, and the child; the parent closes the child's ends.
Fork ==
    /\ pc = "fork"
    /\ child' = "runs" /\ pid' = TRUE
    /\ open' = Streams /\ childOpen' = Streams
    /\ Goto("poll")
    /\ UNCHANGED <<setup, plan, written, toChild, fromChild, received, adapters, processPtr, signaler>>

\* pipe2() or fork() fails, or a Reader or a Writer throws: the descriptors are
\* closed, nothing is reset.
Throw ==
    /\ pc = "fork" \/ (pc = "process" /\ results # <<>> /\ stalls)
    /\ open' = {}
    /\ Goto("threw")
    /\ UNCHANGED <<setup, program, toChild, fromChild, childOpen, received, adapters, handles,
                   signaler>>

-----------------------------------------------------------------------------
(* parentPoll()                                                            *)

\* revents: at its end a socket is readable, a pipe is only hung up.
CanWrite(s) == Produces(s) /\ Len(toChild[s]) + MaxBufferSize <= PipeSize
CanRead(s)  == Consumes(s) /\ (fromChild[s] # <<>> \/ (kinds[s] = "both" /\ s \notin childOpen))
HungUp(s)   == s \notin childOpen

\* The order of the handles.
InOrder(S) ==
    CHOOSE f \in [1..Cardinality(S) -> S] : \A i, j \in DOMAIN f : i < j => f[i] < f[j]

Poll ==
    /\ pc = "poll"
    /\ open # {} => \E s \in open : CanWrite(s) \/ CanRead(s) \/ HungUp(s)
    /\ LET ready == InOrder({s \in open : CanWrite(s) \/ CanRead(s)}) IN
       results' = [i \in DOMAIN ready |->
                      [stream |-> ready[i], out |-> CanWrite(ready[i]), in |-> CanRead(ready[i])]]
    /\ processed' = FALSE
    /\ pc' = "process"
    /\ UNCHANGED <<setup, program, pipes, received, adapters, handles, signaler>>

-----------------------------------------------------------------------------
(* parentProcess()                                                         *)

\* The outcome of a call: the adapter, how many bytes came in, which went out,
\* and what is returned, a size or success.
Outcome(a, in, out, returns) == [adapter |-> a, in |-> in, out |-> out, returns |-> returns]

\* ProducerReader, when it has asked its Reader: everything it has is written,
\* or nothing if the child has closed its end.
WriteOut(s, a, in) ==
    IF a.currentBufferSize = 0 THEN Outcome(a, in, <<>>, "none")
    ELSE IF s \in childOpen
         THEN Outcome(Written(a, a.currentBufferSize), in, Pending(a), "some")
         ELSE Outcome([a EXCEPT !.isWriterEOF = TRUE], in, <<>>, "npos")

\* How many bytes the Reader gives: what it has, or less if it stalls.
ReadSizes(s) ==
    LET rest == total - source[s]
        all  == IF rest < MaxBufferSize THEN rest ELSE MaxBufferSize
    IN  IF stalls THEN 0..all ELSE {all}

Produce(s) ==
    LET a == producer[s] IN
    IF a.isWriterEOF THEN {Outcome(a, 0, <<>>, "npos")}
    ELSE IF ~Reads(a) THEN {WriteOut(s, a, 0)}
    ELSE IF source[s] = total THEN {Outcome([a EXCEPT !.isReaderEOF = TRUE], 0, <<>>, "npos")}
    ELSE {WriteOut(s, ReadBytes(a, [i \in 1..n |-> source[s] + i]), n) : n \in ReadSizes(s)}

\* ConsumerWriter, when it has read: the Writer takes what it is given, or less
\* or nothing for ever if it stalls.
WriteIn(a, in) ==
    LET n == a.currentBufferSize IN
    IF n = 0 THEN {Outcome(a, in, <<>>, TRUE)}
    ELSE {Outcome(Written(a, k), in, SubSeq(Pending(a), 1, k), TRUE) :
             k \in IF stalls THEN 0..n ELSE {n}}
         \union IF stalls THEN {Outcome([a EXCEPT !.isWriterEOF = TRUE], in, <<>>, FALSE)} ELSE {}

\* At the end of the stream 0 bytes are read, which is a success.
Consume(s) ==
    LET a == consumer[s]
        n == IF Len(fromChild[s]) < MaxBufferSize THEN Len(fromChild[s]) ELSE MaxBufferSize
    IN  IF a.isWriterEOF THEN {Outcome(a, 0, <<>>, FALSE)}
        ELSE IF ~Reads(a) THEN WriteIn(a, 0)
        ELSE WriteIn(ReadBytes(a, SubSeq(fromChild[s], 1, n)), n)

\* The bytes of a read that did not fill the buffer.
Short(from, n) == IF n < MaxBufferSize THEN (from + 1)..(from + n) ELSE {}

\* A producer that wrote nothing makes one forget what was processed before.
Processed(r, p, c) ==
    \/ r.in /\ c.returns
    \/ IF r.out THEN p.returns # "none" ELSE processed

ProcessStream(r, p, c) ==
    LET s == r.stream IN
    /\ producer' = [producer EXCEPT ![s] = p.adapter]
    /\ consumer' = [consumer EXCEPT ![s] = c.adapter]
    /\ source' = [source EXCEPT ![s] = @ + p.in] /\ taken' = [taken EXCEPT ![s] = @ + c.in]
    /\ toChild' = [toChild EXCEPT ![s] = @ \o p.out]
    /\ fromChild' = [fromChild EXCEPT ![s] = SubSeq(@, c.in + 1, Len(@))]
    /\ delivered' = [delivered EXCEPT ![s] = @ \o c.out]
    /\ shortOut' = [shortOut EXCEPT ![s] = @ \union Short(source[s], p.in)]
    /\ shortIn' = [shortIn EXCEPT ![s] = @ \union Short(taken[s], c.in)]
    /\ processed' = Processed(r, p, c)
    /\ open' = IF (r.out => p.returns = "npos") /\ (r.in => ~c.returns) THEN open \ {s} ELSE open

Process ==
    /\ pc = "process" /\ results # <<>>
    /\ LET r == Head(results) s == r.stream IN
       \E p \in IF r.out THEN Produce(s) ELSE {Outcome(producer[s], 0, <<>>, "npos")} :
          \E c \in IF r.in THEN Consume(s) ELSE {Outcome(consumer[s], 0, <<>>, FALSE)} :
             ProcessStream(r, p, c)
    /\ results' = Tail(results)
    /\ UNCHANGED <<setup, program, childOpen, received, pc, handles, signaler>>

-----------------------------------------------------------------------------
(* parentRun()                                                             *)

\* Mutant: the child is waited for after every round.
EndRoundWaiting ==
    /\ pc = "process" /\ results = <<>>
    /\ Goto("waitpid")
    /\ UNCHANGED <<setup, program, pipes, received, adapters, handles, signaler>>

EndRound ==
    /\ pc = "process" /\ results = <<>>
    /\ Goto(IF processed THEN "poll" ELSE "waitpid")
    /\ UNCHANGED <<setup, program, pipes, received, adapters, handles, signaler>>

Waitpid ==
    /\ pc = "waitpid" /\ child = "zombie"
    /\ child' = "reaped"
    /\ Goto("reaped")
    /\ UNCHANGED <<setup, plan, written, pipes, received, adapters, handles, signaler>>

\* A signal to the program ends the wait (EINTR): another round.
WaitInterrupted ==
    /\ pc = "waitpid" /\ signals < MaxSignals
    /\ signals' = signals + 1
    /\ Goto("poll")
    /\ UNCHANGED <<setup, program, pipes, received, adapters, handles, handle, fault>>

ForgetPid ==
    /\ pc = "reaped"
    /\ pid' = FALSE
    /\ open' = {}
    /\ Goto("returning")
    /\ UNCHANGED <<setup, program, toChild, fromChild, childOpen, received, adapters, processPtr,
                   signaler>>

\* Mutant: the pointer stays.
ReturnPublished ==
    /\ pc = "returning"
    /\ Goto("done")
    /\ UNCHANGED <<setup, program, pipes, received, adapters, handles, signaler>>

\* The process, which is a local variable, is gone after this step.
Return ==
    /\ pc = "returning"
    /\ processPtr' = FALSE
    /\ Goto("done")
    /\ UNCHANGED <<setup, program, pipes, received, adapters, pid, signaler>>

-----------------------------------------------------------------------------
(* sendSignal() of another thread                                          *)

\* getHandle() follows processPtr, whatever it points to.
GetHandle ==
    /\ ~handle /\ ~fault /\ signals < MaxSignals
    /\ signals' = signals + 1
    /\ IF processPtr /\ pc \in {"threw", "done"}
       THEN fault' = TRUE /\ UNCHANGED handle
       ELSE handle' = (processPtr /\ pid) /\ UNCHANGED fault
    /\ UNCHANGED <<setup, program, pipes, received, adapters, parent, handles>>

\* A signal that ends the child, if it is still there.
Kill ==
    /\ handle
    /\ handle' = FALSE
    /\ IF child = "runs" THEN End ELSE UNCHANGED <<child, childOpen, plan>>
    /\ UNCHANGED <<setup, written, toChild, fromChild, open, received, adapters, parent, handles,
                   fault, signals>>

ParentStep ==
    Execute \/ Fork \/ Poll \/ Process \/ EndRound \/ Waitpid \/ ForgetPid \/ Return

Next == ParentStep \/ WaitInterrupted \/ Throw \/ ChildStep \/ GetHandle \/ Kill

Spec == Init /\ [][Next]_vars

\* The program's thread and the child run on.
FairSpec == Spec /\ WF_vars(ParentStep) /\ WF_vars(ChildStep)

-----------------------------------------------------------------------------
AllDelivered == \A s \in Streams : Consumes(s) => Len(delivered[s]) = written[s]

\* The bytes of every stream arrive in their order, none is left out or comes
\* twice; one that came with a read that did not fill the adapter's buffer may
\* have become another.  Whatever the child has written before it ended has
\* arrived when it has been waited for, if nothing stalls and the child closes
\* nothing before its end.
BytesKept ==
    /\ \A s \in Streams :
        /\ Len(received[s]) <= source[s] /\ Len(delivered[s]) <= taken[s]
        /\ \A i \in DOMAIN received[s] : received[s][i] = i \/ i \in shortOut[s]
        /\ \A i \in DOMAIN delivered[s] : delivered[s][i] = i \/ i \in shortIn[s]
    /\ calm /\ ~stalls /\ pc \in {"reaped", "returning", "done"} => AllDelivered

\* getHandle() follows a pointer to a process that is gone only if execute()
\* threw.
DanglingOnlyAfterThrow == fault => pc = "threw"

\* execute() returns, and then the Writers have got all that the child wrote, if
\* its program ends when its streams are served, nothing stalls and the child
\* closes nothing before its end.
ExecuteReturns ==
    (pc = "fork" /\ calm /\ ~stalls) ~> pc = "threw" \/ (pc = "done" /\ AllDelivered)

\* "In case we are reading from the child, we have to return from waitpid,
\* otherwise it might lead to a deadlock in case the child does not terminate
\* because its output is not being consumed": the child is not waited for while
\* it waits for its output to be read.
AwaitedChildCanWrite ==
    pc = "waitpid" /\ child = "runs" /\ plan # <<>> =>
        ~(plan[1][1] = "write" /\ Len(fromChild[plan[1][2]]) = PipeSize)
=============================================================================
