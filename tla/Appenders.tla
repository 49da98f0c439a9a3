----------------------------- MODULE Appenders -----------------------------
(***************************************************************************)
(* What the appenders of common4esl::monitoring make of the pieces of text *)
(* they are given: MemBufferAppender keeps the last lines in a ring,       *)
(* OStreamAppender writes to streams (one here) and puts the layout's text *)
(* before every line.                                                      *)
(*                                                                         *)
(* A character is a record with the message it comes from and nl, whether  *)
(* it ends a line.  A location is a record of what equal() compares (of)   *)
(* and enabled.                                                            *)
(***************************************************************************)
EXTENDS Naturals, Sequences, SequencesExt

CONSTANTS
    MaxLines,    \* setting of MemBufferAppender
    MaxColumns,  \* the same; 0 is no limit
    Silent       \* what equal() sees in a default location

ASSUME SettingsAssumption == MaxLines \in Nat \ {0} /\ MaxColumns \in Nat

RecordLevels == {"off", "all", "selected"}

\* write() of both returns at once if this is false.
Records(recordLevel, location) ==
    \/ recordLevel = "all"
    \/ recordLevel = "selected" /\ location.enabled

Default == [of |-> Silent, enabled |-> TRUE]

-----------------------------------------------------------------------------
(* MemBufferAppender                                                       *)

\* Lines that are complete are those from rowConsumer to before rowProducer.
InitMemBuffer ==
    [entries |-> [i \in 0..MaxLines |-> [location |-> Default, line |-> <<>>]],
     rowProducer |-> 0, rowConsumer |-> 0, columnsProducer |-> 0]

\* Mutant: the producer runs into the consumer.
NewlineOver(b) ==
    LET next == (b.rowProducer + 1) % (MaxLines + 1) IN
    [b EXCEPT !.rowProducer = next, !.columnsProducer = 0, !.entries[next].line = <<>>]

\* newline(): a full ring loses its oldest line.
Newline(b) ==
    LET next == (b.rowProducer + 1) % (MaxLines + 1) IN
    [b EXCEPT !.rowProducer = next,
              !.rowConsumer = IF @ = next THEN (@ + 1) % (MaxLines + 1) ELSE @,
              !.columnsProducer = 0,
              !.entries[next].line = <<>>]

\* write(ptr, size) of one character: what goes beyond the last column is cut.
Put(b, char) ==
    IF MaxColumns # 0 /\ b.columnsProducer = MaxColumns THEN b
    ELSE [b EXCEPT !.entries[b.rowProducer].line = Append(@, char),
                   !.columnsProducer = @ + 1]

At(b, location) == [b EXCEPT !.entries[b.rowProducer].location = location]

\* A line that has begun ends where the location changes.
Relocated(b, location) ==
    IF b.entries[b.rowProducer].location.of = location.of THEN b
    ELSE At(IF b.columnsProducer > 0 THEN Newline(b) ELSE b, location)

Buffered(b, location, char) ==
    IF char.nl THEN At(Newline(b), location) ELSE Put(b, char)

\* write(location, str, len)
MemBufferWrite(b, location, text) ==
    LET after[n \in 0..Len(text)] ==
            IF n = 0 THEN Relocated(b, location)
            ELSE Buffered(after[n - 1], location, text[n])
    IN  after[Len(text)]

\* The lines flush() writes, oldest first.
BufferedLines(b) ==
    LET n == (b.rowProducer + MaxLines + 1 - b.rowConsumer) % (MaxLines + 1) IN
    [i \in 1..n |-> b.entries[(b.rowConsumer + i - 1) % (MaxLines + 1)]]

-----------------------------------------------------------------------------
(* OStreamAppender                                                         *)

InitOStream == [out |-> <<>>, isFirstCharacterInLine |-> TRUE, lastLocation |-> Default]

\* The layout's text for a location, at the beginning of a line.
Header(location) == [header |-> location.of]
LineEnd          == [header |-> "end"]

Moved(o, location) ==
    IF o.lastLocation.of = location.of THEN o
    ELSE [o EXCEPT !.out = IF o.isFirstCharacterInLine THEN @ ELSE Append(@, LineEnd),
                   !.isFirstCharacterInLine = TRUE,
                   !.lastLocation = location]

Printed(o, location, char) ==
    [o EXCEPT !.out = @ \o (IF o.isFirstCharacterInLine THEN <<Header(location)>> ELSE <<>>)
                        \o (IF char.nl THEN <<LineEnd>> ELSE <<char>>),
              !.isFirstCharacterInLine = char.nl]

OStreamWrite(o, location, text) ==
    LET after[n \in 0..Len(text)] ==
            IF n = 0 THEN Moved(o, location)
            ELSE Printed(after[n - 1], location, text[n])
    IN  after[Len(text)]

-----------------------------------------------------------------------------
(* What a reader expects of both: lines, each of one location, of all that *)
(* was written.  writes is a sequence of [location, text].                 *)

NewLine(of) == [of |-> of, line |-> <<>>]

Cut(line, columns) ==
    IF columns = 0 \/ Len(line) <= columns THEN line ELSE SubSeq(line, 1, columns)

\* The last line has begun: it is kept and another one begins if it has
\* characters of another location.
LineFor(lines, of) ==
    IF Last(lines).line # <<>> /\ Last(lines).of # of THEN Append(lines, NewLine(of))
    ELSE Append(Front(lines), [of |-> of, line |-> Last(lines).line])

LineWith(lines, char, columns) ==
    IF char.nl THEN Append(lines, NewLine(Last(lines).of))
    ELSE Append(Front(lines), [of |-> Last(lines).of,
                               line |-> Cut(Append(Last(lines).line, char), columns)])

LinesAfter(lines, w, columns) ==
    LET after[n \in 0..Len(w.text)] ==
            IF n = 0 THEN LineFor(lines, w.location.of)
            ELSE LineWith(after[n - 1], w.text[n], columns)
    IN  after[Len(w.text)]

\* The lines of those writes that are recorded, cut at columns.
LinesOf(writes, recordLevel, columns) ==
    LET lines[n \in 0..Len(writes)] ==
            IF n = 0 THEN <<NewLine(Silent)>>
            ELSE IF Records(recordLevel, writes[n].location)
                 THEN LinesAfter(lines[n - 1], writes[n], columns)
                 ELSE lines[n - 1]
    IN  lines[Len(writes)]
=============================================================================
