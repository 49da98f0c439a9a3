----------------------------- MODULE IOAdapters -----------------------------
(***************************************************************************)
(* The buffer of esl::io::ProducerReader, the producer that an Output makes *)
(* of a Reader, and of ConsumerWriter, the consumer that an Input makes of *)
(* a Writer (the variant that is compiled, without ESL_1_6).               *)
(*                                                                         *)
(* What was read lies at the beginning of the buffer; what is written is   *)
(* taken from its end, so that the two agree only after a full read.       *)
(***************************************************************************)
EXTENDS Naturals, Sequences, SequencesExt

CONSTANTS
    MaxBufferSize,
    Junk           \* content of the buffer that was never read

ASSUME BufferAssumption == MaxBufferSize \in Nat \ {0}

NewAdapter ==
    [buffer |-> [i \in 1..MaxBufferSize |-> Junk], currentBufferSize |-> 0,
     isReaderEOF |-> FALSE, isWriterEOF |-> FALSE]

\* The reader is asked only if nothing is left of what it gave before.
Reads(a) == a.currentBufferSize = 0 /\ ~a.isReaderEOF

ReadBytes(a, bytes) ==
    [a EXCEPT !.buffer = bytes \o SubSeq(@, Len(bytes) + 1, MaxBufferSize),
              !.currentBufferSize = Len(bytes)]

\* What is passed to the writer, if it is called.
Pending(a) == SubSeq(a.buffer, MaxBufferSize - a.currentBufferSize + 1, MaxBufferSize)

\* Mutant: what was written counts as pending.
WrittenAgain(a, n) == [a EXCEPT !.currentBufferSize = IF n = 0 THEN @ ELSE @ - 1]

Written(a, n) == [a EXCEPT !.currentBufferSize = @ - n]
=============================================================================
