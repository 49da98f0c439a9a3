------------------------------ MODULE Logbook ------------------------------
(***************************************************************************)
(* logbook::Logbook with Writer and StreamBuffer: several threads write    *)
(* messages.  One that finds the logbook free owns it (loggerMutex) until  *)
(* its writer is destroyed and writes through a common stream; the others  *)
(* write to streams of their own, which are queued in unblockedBuffer.     *)
(* The expressions that make a message may log themselves, so that a       *)
(* thread has a stack of writers; loggerMutex is recursive.                *)
(*                                                                         *)
(* configMutex guards single steps.  Appenders are used with loggerMutex   *)
(* held, but currentLocation is changed by setLevel() without it.          *)
(***************************************************************************)
EXTENDS Appenders, FiniteSets

CONSTANTS
    Threads,
    Messages,
    NoOne,         \* no thread
    Text,          \* [Messages -> sequence of BOOLEAN]: characters, TRUE ends a line
    LevelOf,       \* [Messages -> 1..5], trace to error
    MaxDepth,      \* of a thread's stack of writers
    MaxSetLevels,  \* how often setLevel() is called
    RecordLevelOf  \* [{"memBuffer", "oStream"} -> RecordLevels]

ASSUME ThreadsAssumption == IsFiniteSet(Threads) /\ NoOne \notin Threads
ASSUME MessagesAssumption ==
    /\ Text \in [Messages -> Seq(BOOLEAN)] /\ Silent \notin Messages
    /\ LevelOf \in [Messages -> 1..5]
    /\ RecordLevelOf \in [{"memBuffer", "oStream"} -> RecordLevels]
    /\ MaxDepth \in Nat /\ MaxSetLevels \in Nat

VARIABLES
    isUnblocked,      \* setting, fixed before the first message
    level,            \* configured level of all type names, 6: silent
    owner, locks,     \* holder of loggerMutex, how many of its writers lock it
    currentLocation,
    streamBuffer,     \* characters written to oStream and not flushed
    unblockedBuffer,  \* of [location, text]
    stack,            \* [Threads -> sequence of writers, the outermost first]
    pc,               \* [Threads -> "put", or a step of the release of the last writer]
    memBuffer, oStream, \* the appenders
    created,          \* [Messages -> how the writer was created], see Creation
    writes,           \* what the appenders were given, in this order
    disturbed,        \* messages during which currentLocation was changed
    stranded,         \* a try_lock() failed when the owner had flushed already
    setLevels

config  == <<isUnblocked, level, setLevels>>
outputs == <<memBuffer, oStream, writes>>
logbookVars == <<config, owner, locks, currentLocation, streamBuffer, unblockedBuffer, stack, pc,
          outputs, created, disturbed, stranded>>

OpenBy(t)   == {stack[t][i].message : i \in DOMAIN stack[t]}
Owned(t)    == {stack[t][i].message : i \in {j \in DOMAIN stack[t] : stack[t][j].isOwner}}
Top(t)      == Last(stack[t])
Char(m, i)  == [of |-> m, at |-> i, nl |-> Text[m][i]]

LogbookInit ==
    /\ isUnblocked \in BOOLEAN /\ level \in {1, 4} /\ setLevels = 0
    /\ owner = NoOne /\ locks = 0
    /\ currentLocation = [of |-> Silent, enabled |-> TRUE]
    /\ streamBuffer = <<>> /\ unblockedBuffer = <<>>
    /\ stack = [t \in Threads |-> <<>>] /\ pc = [t \in Threads |-> "put"]
    /\ memBuffer = InitMemBuffer /\ oStream = InitOStream
    /\ created = [m \in {} |-> m] /\ writes = <<>> /\ disturbed = {} /\ stranded = FALSE

\* isLoggingEnabled(): what is configured for a type name, which is error
\* alone for a level that is none of the first four.
IsLoggingEnabled(m) == level <= LevelOf[m]

\* write(): every appender gets the text with a location and records it or not.
WriteTo(appenders, w) ==
    [memBuffer |-> IF Records(RecordLevelOf["memBuffer"], w.location)
                   THEN MemBufferWrite(appenders.memBuffer, w.location, w.text)
                   ELSE appenders.memBuffer,
     oStream |-> IF Records(RecordLevelOf["oStream"], w.location)
                 THEN OStreamWrite(appenders.oStream, w.location, w.text)
                 ELSE appenders.oStream]

WriteAll(ws) ==
    LET after[n \in 0..Len(ws)] ==
            IF n = 0 THEN [memBuffer |-> memBuffer, oStream |-> oStream]
            ELSE WriteTo(after[n - 1], ws[n])
    IN  /\ memBuffer' = after[Len(ws)].memBuffer /\ oStream' = after[Len(ws)].oStream
        /\ writes' = writes \o ws

Goto(t, where) == pc' = [pc EXCEPT ![t] = where]

-----------------------------------------------------------------------------
\* createWriter() by an owner: the new location replaces that of a message
\* the thread is still writing.  Stream::operator() tells the function apart
\* by the message, so that two messages have different locations.
CreateOwner(t, m) ==
    /\ owner \in {NoOne, t}
    /\ owner' = t /\ locks' = locks + 1
    /\ currentLocation' = [of |-> m, enabled |-> IsLoggingEnabled(m)]
    /\ stack' = [stack EXCEPT ![t] = Append(@, [message |-> m, isOwner |-> TRUE, put |-> 0,
                                                enabled |-> IsLoggingEnabled(m)])]
    /\ disturbed' = disturbed \union Owned(t)

\* createWriter() while another thread owns the logbook.
CreateUnblocked(t, m) ==
    /\ isUnblocked /\ owner \notin {NoOne, t}
    /\ stack' = [stack EXCEPT ![t] = Append(@, [message |-> m, isOwner |-> FALSE, put |-> 0,
                                                enabled |-> IsLoggingEnabled(m)])]
    /\ UNCHANGED <<owner, locks, currentLocation, disturbed>>

\* Who writes a message, and which messages this thread had completed before.
Creation(t) ==
    [thread |-> t, isOwner |-> owner \in {NoOne, t},
     after |-> {n \in DOMAIN created : created[n].thread = t} \ OpenBy(t)]

\* A thread begins a message, maybe in the middle of another one.
CreateWriter(t, m) ==
    /\ pc[t] = "put" /\ Len(stack[t]) < MaxDepth
    /\ m \notin DOMAIN created
    /\ CreateOwner(t, m) \/ CreateUnblocked(t, m)
    /\ created' = [n \in DOMAIN created \union {m} |-> IF n = m THEN Creation(t) ELSE created[n]]
    /\ UNCHANGED <<config, streamBuffer, unblockedBuffer, pc, outputs, stranded>>

\* One character; the end of a line is std::endl, which flushes the stream.
PutChar(t) ==
    /\ pc[t] = "put" /\ stack[t] # <<>>
    /\ LET w == Top(t) char == Char(w.message, w.put + 1) IN
       /\ w.put < Len(Text[w.message])
       /\ stack' = [stack EXCEPT ![t] = Append(Front(@), [w EXCEPT !.put = @ + 1])]
       /\ IF ~w.isOwner THEN UNCHANGED <<streamBuffer, outputs>>
          ELSE IF char.nl
          THEN /\ WriteAll(<<[location |-> currentLocation, text |-> Append(streamBuffer, char)]>>)
               /\ streamBuffer' = <<>>
          ELSE /\ streamBuffer' = Append(streamBuffer, char)
               /\ UNCHANGED outputs
    /\ UNCHANGED <<config, owner, locks, currentLocation, unblockedBuffer, pc, created, disturbed, stranded>>

-----------------------------------------------------------------------------
(* ~Writer() and releaseWriter()                                           *)

\* Mutant: an owner does not flush the buffer.
DestroyUnflushed(t) ==
    /\ pc[t] = "put" /\ stack[t] # <<>>
    /\ LET w == Top(t) IN
       /\ w.put = Len(Text[w.message])
       /\ Goto(t, IF w.isOwner THEN "unlock" ELSE "push")
       /\ IF w.isOwner /\ streamBuffer # <<>>
          THEN /\ WriteAll(<<[location |-> currentLocation, text |-> streamBuffer]>>)
               /\ streamBuffer' = <<>>
          ELSE UNCHANGED <<streamBuffer, outputs>>
    /\ UNCHANGED <<config, owner, locks, currentLocation, unblockedBuffer, stack, created,
                   disturbed, stranded>>

\* The stream is flushed.
DestroyWriter(t) ==
    /\ pc[t] = "put" /\ stack[t] # <<>>
    /\ LET w == Top(t) IN
       /\ w.put = Len(Text[w.message])
       /\ Goto(t, IF w.isOwner THEN "flush" ELSE "push")
       /\ IF w.isOwner /\ streamBuffer # <<>>
          THEN /\ WriteAll(<<[location |-> currentLocation, text |-> streamBuffer]>>)
               /\ streamBuffer' = <<>>
          ELSE UNCHANGED <<streamBuffer, outputs>>
    /\ UNCHANGED <<config, owner, locks, currentLocation, unblockedBuffer, stack, created,
                   disturbed, stranded>>

\* Mutant: the text is queued with the owner's location.
PushWithCurrent(t) ==
    /\ pc[t] = "push"
    /\ LET m == Top(t).message IN
       unblockedBuffer' = Append(unblockedBuffer,
           [location |-> currentLocation, text |-> [i \in DOMAIN Text[m] |-> Char(m, i)]])
    /\ Goto(t, "try")
    /\ UNCHANGED <<config, owner, locks, currentLocation, streamBuffer, stack, outputs, created,
                   disturbed, stranded>>

PushUnblocked(t) ==
    /\ pc[t] = "push"
    /\ LET w == Top(t) m == w.message IN
       unblockedBuffer' = Append(unblockedBuffer,
           [location |-> [of |-> m, enabled |-> w.enabled],
            text |-> [i \in DOMAIN Text[m] |-> Char(m, i)]])
    /\ Goto(t, "try")
    /\ UNCHANGED <<config, owner, locks, currentLocation, streamBuffer, stack, outputs, created,
                   disturbed, stranded>>

\* try_lock(): if it fails somebody else has to write the buffer.
TryLock(t) ==
    /\ pc[t] = "try"
    /\ \/ /\ owner \in {NoOne, t}
          /\ owner' = t /\ locks' = locks + 1
          /\ Goto(t, "flush")
          /\ UNCHANGED <<stack, stranded>>
       \/ /\ owner \notin {NoOne, t}
          /\ stack' = [stack EXCEPT ![t] = Front(@)]
          /\ Goto(t, "put")
          /\ stranded' = (stranded \/ (pc[owner] = "unlock" /\ locks = 1))
          /\ UNCHANGED <<owner, locks>>
    /\ UNCHANGED <<config, currentLocation, streamBuffer, unblockedBuffer, outputs, created,
                   disturbed>>

\* Mutant: the newest first.
FlushReversed(t) ==
    /\ pc[t] = "flush"
    /\ WriteAll(Reverse(unblockedBuffer))
    /\ unblockedBuffer' = <<>>
    /\ stranded' = FALSE
    /\ Goto(t, "unlock")
    /\ UNCHANGED <<config, owner, locks, streamBuffer, stack, created, currentLocation, disturbed>>

\* flushBuffer(): the queued texts are written with their locations, the last
\* of which stays current for what the thread writes next.
FlushBuffer(t) ==
    /\ pc[t] = "flush"
    /\ WriteAll(unblockedBuffer)
    /\ unblockedBuffer' = <<>>
    /\ IF unblockedBuffer = <<>> THEN UNCHANGED <<currentLocation, disturbed>>
       ELSE /\ currentLocation' = Last(unblockedBuffer).location
            /\ disturbed' = disturbed \union (Owned(t) \ {Top(t).message})
    /\ stranded' = FALSE
    /\ Goto(t, "unlock")
    /\ UNCHANGED <<config, owner, locks, streamBuffer, stack, created>>

Unlock(t) ==
    /\ pc[t] = "unlock"
    /\ locks' = locks - 1
    /\ owner' = IF locks = 1 THEN NoOne ELSE t
    /\ stack' = [stack EXCEPT ![t] = Front(@)]
    /\ Goto(t, "put")
    /\ UNCHANGED <<config, currentLocation, streamBuffer, unblockedBuffer, outputs, created,
                   disturbed, stranded>>

\* setLevel(): locks configMutex only, and resets the location an owner uses.
SetLevel(l) ==
    /\ setLevels < MaxSetLevels
    /\ setLevels' = setLevels + 1
    /\ level' = l
    /\ currentLocation' = [of |-> Silent, enabled |-> TRUE]
    /\ disturbed' = disturbed \union UNION {Owned(t) : t \in Threads}
    /\ UNCHANGED <<isUnblocked, owner, locks, streamBuffer, unblockedBuffer, stack, pc, outputs,
                   created, stranded>>

ReleaseStep(t) ==
    DestroyWriter(t) \/ PushUnblocked(t) \/ TryLock(t) \/ FlushBuffer(t) \/ Unlock(t)

LogbookNext ==
    \/ \E t \in Threads : \/ \E m \in Messages : CreateWriter(t, m)
                          \/ PutChar(t) \/ ReleaseStep(t)
    \/ \E l \in {1, 6} : SetLevel(l)

LogbookSpec == LogbookInit /\ [][LogbookNext]_logbookVars

-----------------------------------------------------------------------------
\* Everything that has left the writers: with the appenders, in the common
\* stream, in the queue.
Pieces == writes \o <<[location |-> currentLocation, text |-> streamBuffer]>> \o unblockedBuffer

Places(pieces)     == UNION {{i} \X DOMAIN pieces[i].text : i \in DOMAIN pieces}
CharAt(pieces, p)  == pieces[p[1]].text[p[2]]
Before(p, q)       == p[1] < q[1] \/ (p[1] = q[1] /\ p[2] < q[2])
Characters(pieces) == {CharAt(pieces, p) : p \in Places(pieces)}

\* Of two places each.
Earlier(pieces) ==
    {<<CharAt(pieces, pair[1]), CharAt(pieces, pair[2])>> :
        pair \in {pq \in Places(pieces) \X Places(pieces) : Before(pq[1], pq[2])}}

\* How many characters the i-th writer of t has given away: a writer that is
\* not an owner keeps them until its text is queued.
Given(t, i) ==
    IF stack[t][i].isOwner \/ (i = Len(stack[t]) /\ pc[t] \notin {"put", "push"})
    THEN stack[t][i].put ELSE 0

Positions(m) == {c.at : c \in {d \in Characters(Pieces) : d.of = m}}

\* Every character given away is in one place, and its message in order.
NothingLost ==
    /\ \A pair \in Earlier(Pieces) : pair[1].of = pair[2].of => pair[1].at < pair[2].at
    /\ \A t \in Threads : \A i \in DOMAIN stack[t] :
          Positions(stack[t][i].message) = 1..Given(t, i)
    /\ \A m \in DOMAIN created \ UNION {OpenBy(t) : t \in Threads} :
          Positions(m) = 1..Len(Text[m])

\* The appenders get a message before the end of one its thread had completed
\* earlier only if the earlier one was queued and the later one was not.
OrderKept ==
    \A m \in DOMAIN created : \A n \in created[m].after :
        \/ ~created[n].isOwner /\ created[m].isOwner
        \/ \A c \in Characters(writes) :
              c.of = m => \A i \in 1..Len(Text[n]) : <<Char(n, i), c>> \in Earlier(writes)

\* What is logged arrives, once and in order.
Delivered == NothingLost /\ OrderKept

\* Text is written with the location of its message, unless during this
\* message setLevel() was called, its thread logged something else, or a
\* queue was flushed at the end of what it logged.
RightLocation ==
    \A i \in DOMAIN writes : \A j \in DOMAIN writes[i].text :
        LET m == writes[i].text[j].of IN
        m \in disturbed \/ writes[i].location.of = m

\* What is queued will be flushed by somebody: by who tries, or by an owner
\* that has not flushed yet.  Else it waits for the next message, and this is
\* so only after a try_lock() failed between an owner's flush and unlock().
QueueHasFlusher ==
    unblockedBuffer # <<>> =>
        \/ stranded
        \/ \E t \in Threads : pc[t] = "try"
        \/ owner # NoOne /\ (pc[owner] # "unlock" \/ locks > 1)

Whole(l) == <<[header |-> l.of]>> \o l.line \o <<LineEnd>>

\* A line that has begun.
Begun(l) == IF l.line = <<>> THEN <<>> ELSE <<[header |-> l.of]>> \o l.line

\* The stream shows every line recorded after a header for its location, and
\* the ring the last MaxLines complete ones, cut at MaxColumns.
LinesAreWhole ==
    LET all == LinesOf(writes, RecordLevelOf["oStream"], 0)
        complete == Front(LinesOf(writes, RecordLevelOf["memBuffer"], MaxColumns))
        n == IF Len(complete) < MaxLines THEN Len(complete) ELSE MaxLines
    IN  /\ oStream.out
              = FlattenSeq([i \in 1..(Len(all) - 1) |-> Whole(all[i])]) \o Begun(Last(all))
        /\ [i \in DOMAIN BufferedLines(memBuffer) |->
               [of |-> BufferedLines(memBuffer)[i].location.of,
                line |-> BufferedLines(memBuffer)[i].line]]
           = SubSeq(complete, Len(complete) - n + 1, Len(complete))
=============================================================================
