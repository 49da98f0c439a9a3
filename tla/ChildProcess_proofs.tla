------------------------- MODULE ChildProcess_proofs -------------------------
(***************************************************************************)
(* What TLAPS proves about ChildProcess for every number of streams, every *)
(* program of the child, and buffers and pipes of every size.              *)
(*                                                                         *)
(* OutInv and InInv say where every byte of a stream is, to the child and  *)
(* from it; PipeInv that what poll() has reported still holds when it is   *)
(* used; HandleInv what execute() has published.  EndInv says that, if     *)
(* nothing stalls, a round in which nothing is processed comes only after  *)
(* the end of the child and with nothing left in its pipes.                *)
(***************************************************************************)
EXTENDS ChildProcess, FiniteSetTheorems, SequenceTheorems, WellFoundedInduction, TLAPS

\* What is in a buffer or a pipe: the number of a byte in its stream, or what
\* lay in a buffer that was never filled.
Bytes == Nat \union {Junk}

Adapters ==
    [buffer : [1..MaxBufferSize -> Bytes], currentBufferSize : 0..MaxBufferSize,
     isReaderEOF : BOOLEAN, isWriterEOF : BOOLEAN]

PollResults == [stream : Streams, out : BOOLEAN, in : BOOLEAN]

BytesType ==
    /\ written \in [Streams -> Nat] /\ taken \in [Streams -> Nat]
    /\ source \in [Streams -> 0..total]
    /\ toChild \in [Streams -> Seq(Bytes)] /\ fromChild \in [Streams -> Seq(Bytes)]
    /\ producer \in [Streams -> Adapters] /\ consumer \in [Streams -> Adapters]
    /\ received \in [Streams -> Seq(Bytes)] /\ delivered \in [Streams -> Seq(Bytes)]
    /\ shortIn \in [Streams -> SUBSET Nat] /\ shortOut \in [Streams -> SUBSET Nat]

TypeOK ==
    /\ kinds \in Seq(Kinds) /\ total \in Nat /\ stalls \in BOOLEAN /\ calm \in BOOLEAN
    /\ plan \in Seq(Operations \X Streams)
    /\ child \in {"none", "runs", "zombie", "reaped"}
    /\ open \in SUBSET Streams /\ childOpen \in SUBSET Streams
    /\ BytesType
    /\ pc \in {"execute", "fork", "poll", "process", "waitpid", "reaped", "returning", "done",
               "threw"}
    /\ results \in Seq(PollResults) /\ processed \in BOOLEAN
    /\ processPtr \in BOOLEAN /\ pid \in BOOLEAN
    /\ handle \in BOOLEAN /\ fault \in BOOLEAN /\ signals \in 0..MaxSignals

\* Where the bytes of a stream to the child are: what was read is with the
\* child, in the pipe, or stays for ever in the buffer of an adapter whose
\* writer has ended.
Arrives(s, i, byte) == byte = i \/ i \in shortOut[s]

OutInv ==
    \A s \in Streams :
        /\ producer[s].currentBufferSize > 0 => producer[s].isWriterEOF
        /\ source[s] = Len(received[s]) + Len(toChild[s]) + producer[s].currentBufferSize
        /\ \A i \in 1..Len(received[s]) : Arrives(s, i, received[s][i])
        /\ \A i \in 1..Len(toChild[s]) :
              Arrives(s, Len(received[s]) + i, toChild[s][i])

\* Bytes at the end of the buffer, as their stream knows them: those from
\* "from" on, and one that came with a short read may be another.
Holds(a, from, short) ==
    \A i \in 1..a.currentBufferSize :
        LET byte == a.buffer[MaxBufferSize - a.currentBufferSize + i] IN
        byte = from + i \/ from + i \in short

\* ... and of a stream from the child: in the pipe, at the end of the buffer,
\* or delivered.
InInv ==
    \A s \in Streams :
        /\ written[s] = taken[s] + Len(fromChild[s])
        /\ taken[s] = Len(delivered[s]) + consumer[s].currentBufferSize
        /\ \A i \in 1..Len(fromChild[s]) : fromChild[s][i] = taken[s] + i
        /\ Holds(consumer[s], Len(delivered[s]), shortIn[s])
        /\ \A i \in 1..Len(delivered[s]) : delivered[s][i] = i \/ i \in shortIn[s]

\* Between poll() and the write nobody else writes to the pipe.
PipeInv ==
    /\ \A i, j \in 1..Len(results) : i < j => results[i].stream < results[j].stream
    /\ \A i \in 1..Len(results) :
          results[i].out => Len(toChild[results[i].stream]) + MaxBufferSize <= PipeSize
    /\ \A s \in Streams : Len(toChild[s]) <= PipeSize /\ Len(fromChild[s]) <= PipeSize

\* What execute() has published follows from where it is.
HandleInv ==
    /\ pc # "threw" => (processPtr <=> pc \notin {"execute", "done"})
    /\ pc # "threw" => (pid <=> pc \in {"poll", "process", "waitpid", "reaped"})
    /\ pc \in {"execute", "fork"} => child = "none"
    /\ pc \in {"poll", "process", "waitpid"} => child \in {"runs", "zombie"}
    /\ child = "reaped" <=> pc \in {"reaped", "returning", "done"}
    /\ fault => pc = "threw" /\ processPtr

IInv == TypeOK /\ OutInv /\ InInv /\ PipeInv /\ HandleInv

-----------------------------------------------------------------------------
(* Sequences and the order of poll()'s results.                            *)

\* The streams are a finite set of numbers.
LEMMA StreamsFinite ==
    ASSUME kinds \in Seq(Kinds)
    PROVE  Streams = 1..Len(kinds) /\ Streams \subseteq Nat /\ IsFiniteSet(Streams)
<1>1. Streams = 1..Len(kinds) /\ Len(kinds) \in Nat
  BY LenProperties DEF Streams
<1> QED
  BY <1>1, FS_Interval

\* A set of numbers that is not empty has a least one.
LEMMA LeastNumber ==
    ASSUME NEW S, S \subseteq Nat, S # {}
    PROVE  \E m \in S : \A n \in S : m <= n
<1> DEFINE R == {pair \in Nat \X Nat : pair[1] < pair[2]}
<1>1. IsWellFoundedOn(R, Nat)
  BY NatLessThanWellFounded DEF OpToRel
<1>2. \E m \in S : \A n \in S : <<n, m>> \notin R
  <2> HIDE DEF R
  <2> QED
    BY <1>1, WFMin
<1>3. \A m, n \in Nat : <<n, m>> \notin R => m <= n
  OBVIOUS
<1> QED
  BY <1>2, <1>3

\* Numbers in their order.
Ascending(S, f) ==
    f \in [1..Cardinality(S) -> S] /\ \A i, j \in DOMAIN f : i < j => f[i] < f[j]

\* Every finite set of numbers can be put in order: the least number first,
\* then the rest, which is smaller.
LEMMA AscendingExists ==
    ASSUME NEW S, S \subseteq Nat, IsFiniteSet(S)
    PROVE  \E f : Ascending(S, f)
<1> DEFINE Bad == {n \in Nat : \E T \in SUBSET S : Cardinality(T) = n /\ ~\E f : Ascending(T, f)}
<1>1. SUFFICES Bad = {}
  BY <1>1, FS_CardinalityType
<1>2. SUFFICES ASSUME Bad # {} PROVE FALSE
  OBVIOUS
<1>3. PICK n \in Bad : \A k \in Bad : n <= k
  BY <1>2, LeastNumber
<1>4. PICK T \in SUBSET S : Cardinality(T) = n /\ ~\E f : Ascending(T, f)
  BY <1>3
<1>5. IsFiniteSet(T) /\ n \in Nat
  BY <1>3, <1>4, FS_Subset
<1>6. T # {}
  <2>1. ASSUME T = {} PROVE Ascending(T, <<>>)
    BY <2>1, FS_EmptySet DEF Ascending
  <2> QED
    BY <2>1, <1>4
<1>7. PICK m \in T : \A k \in T : m <= k
  BY <1>6, LeastNumber
<1> DEFINE U == T \ {m}
<1>8. Cardinality(U) = n - 1 /\ n >= 1
  <2>1. Cardinality(U) = n - 1 /\ Cardinality(U) \in Nat
    BY <1>4, <1>5, FS_RemoveElement, FS_CardinalityType
  <2> QED
    BY <2>1, <1>5
<1>9. n - 1 \notin Bad
  BY <1>3, <1>5
<1>10. PICK f : Ascending(U, f)
  BY <1>5, <1>8, <1>9
<1> DEFINE g == [i \in 1..n |-> IF i = 1 THEN m ELSE f[i - 1]]
<1>11. \A i \in 2..n : g[i] = f[i - 1] /\ i - 1 \in 1..(n - 1) /\ f[i - 1] \in U
  <2>1. f \in [1..(n - 1) -> U]
    BY <1>8, <1>10 DEF Ascending
  <2>2. \A i \in 2..n : i \in 1..n /\ i # 1 /\ i - 1 \in 1..(n - 1)
    BY <1>5
  <2> QED
    BY <2>1, <2>2
<1>12. g \in [1..n -> T]
  <2>1. \A i \in 1..n : i = 1 \/ i \in 2..n
    BY <1>5
  <2>2. \A i \in 1..n : g[i] \in T
    BY <2>1, <1>11
  <2> QED
    BY <2>2
<1>13. \A i, j \in 1..n : i < j => g[i] < g[j]
  <2>1. \A k \in U : k \in Nat /\ m < k
    BY <1>7
  <2>2. \A i, j \in 1..(n - 1) : i < j => f[i] < f[j]
    BY <1>8, <1>10 DEF Ascending
  <2>3. ASSUME NEW i \in 1..n, NEW j \in 1..n, i < j PROVE g[i] < g[j]
    <3>1. j \in 2..n
      BY <2>3, <1>5
    <3>4. g[j] = f[j - 1] /\ f[j - 1] \in U /\ j - 1 \in 1..(n - 1)
      BY <3>1, <1>11
    <3>2. CASE i = 1
      BY <3>2, <3>4, <2>1, <1>5
    <3>3. CASE i # 1
      <4>1. i \in 2..n /\ i - 1 < j - 1
        BY <3>3, <2>3, <1>5
      <4> QED
        BY <4>1, <3>4, <2>2, <1>11
    <3> QED
      BY <3>2, <3>3
  <2> QED
    BY <2>3
<1>14. Ascending(T, g)
  BY <1>4, <1>12, <1>13 DEF Ascending
<1> QED
  BY <1>4, <1>14

\* The results of poll() come in the order of the streams.
LEMMA InOrderAscends ==
    ASSUME NEW S, S \subseteq Nat, IsFiniteSet(S)
    PROVE  Ascending(S, InOrder(S)) /\ Cardinality(S) \in Nat
BY AscendingExists, FS_CardinalityType DEF InOrder, Ascending

-----------------------------------------------------------------------------
(* Adapters.                                                               *)

\* A new adapter holds nothing.
LEMMA NewAdapterHoldsNothing == NewAdapter \in Adapters /\ NewAdapter.currentBufferSize = 0
BY BufferAssumption DEF NewAdapter, Adapters, Bytes

\* A read puts its bytes at the beginning of the buffer.
LEMMA ReadBytesFills ==
    ASSUME NEW a \in Adapters, NEW bytes \in Seq(Bytes), Len(bytes) <= MaxBufferSize
    PROVE  /\ ReadBytes(a, bytes) \in Adapters
           /\ ReadBytes(a, bytes).currentBufferSize = Len(bytes)
           /\ ReadBytes(a, bytes).isWriterEOF = a.isWriterEOF
           /\ \A i \in 1..Len(bytes) : ReadBytes(a, bytes).buffer[i] = bytes[i]
<1> DEFINE M == MaxBufferSize
           n == Len(bytes)
           rest == SubSeq(a.buffer, n + 1, M)
           filled == bytes \o rest
<1>1. M \in Nat /\ n \in Nat /\ a.buffer \in [1..M -> Bytes]
  BY BufferAssumption DEF Adapters
<1>2. rest \in Seq(Bytes) /\ Len(rest) = M - n
  <2>1. \A i \in (n + 1)..M : a.buffer[i] \in Bytes
    BY <1>1
  <2> QED
    BY <1>1, <2>1, SubSeqProperties
<1>3. /\ filled \in Seq(Bytes) /\ Len(filled) = M
      /\ \A i \in 1..n : filled[i] = bytes[i]
  BY <1>1, <1>2, ConcatProperties
<1>4. filled \in [1..M -> Bytes]
  BY <1>3, LenProperties
<1>5. ReadBytes(a, bytes) = [a EXCEPT !.buffer = filled, !.currentBufferSize = n]
  BY DEF ReadBytes
<1>6. n \in 0..M
  BY <1>1
<1> HIDE DEF filled, n
<1>7. /\ [a EXCEPT !.buffer = filled, !.currentBufferSize = n] \in Adapters
      /\ [a EXCEPT !.buffer = filled, !.currentBufferSize = n].currentBufferSize = n
      /\ [a EXCEPT !.buffer = filled, !.currentBufferSize = n].isWriterEOF = a.isWriterEOF
      /\ [a EXCEPT !.buffer = filled, !.currentBufferSize = n].buffer = filled
  BY <1>4, <1>6 DEF Adapters
<1> QED
  BY <1>3, <1>5, <1>7 DEF n

\* What is pending is what lies at the end of the buffer.
LEMMA PendingIsTheEnd ==
    ASSUME NEW a \in Adapters
    PROVE  /\ Pending(a) \in Seq(Bytes) /\ Len(Pending(a)) = a.currentBufferSize
           /\ \A i \in 1..a.currentBufferSize :
                 Pending(a)[i] = a.buffer[MaxBufferSize - a.currentBufferSize + i]
<1> DEFINE M == MaxBufferSize
           n == a.currentBufferSize
<1>1. M \in Nat /\ n \in 0..M /\ a.buffer \in [1..M -> Bytes]
  BY BufferAssumption DEF Adapters
<1>2. \A i \in (M - n + 1)..M : a.buffer[i] \in Bytes
  BY <1>1
<1> QED
  BY <1>1, <1>2, SubSeqProperties DEF Pending

\* Written bytes are no longer pending, the others stay where they are.
LEMMA WrittenForgets ==
    ASSUME NEW a \in Adapters, NEW n \in 0..a.currentBufferSize
    PROVE  /\ Written(a, n) \in Adapters
           /\ Written(a, n).currentBufferSize = a.currentBufferSize - n
           /\ Written(a, n).buffer = a.buffer
           /\ Written(a, n).isWriterEOF = a.isWriterEOF
BY BufferAssumption DEF Written, Adapters

-----------------------------------------------------------------------------
(* Calls of the adapters.                                                  *)

\* What a read leaves to write is what was read, if it filled the buffer, and
\* otherwise all of it counts as short.
LEMMA ReadHolds ==
    ASSUME NEW a \in Adapters, NEW bytes \in Seq(Bytes), Len(bytes) <= MaxBufferSize,
           NEW from \in Nat, \A i \in 1..Len(bytes) : bytes[i] = from + i
    PROVE  Holds(ReadBytes(a, bytes), from, Short(from, Len(bytes)))
<1> DEFINE n == Len(bytes)
           b == ReadBytes(a, bytes)
<1>1. MaxBufferSize \in Nat /\ n \in Nat
  BY BufferAssumption
<1>2. b.currentBufferSize = n /\ \A i \in 1..n : b.buffer[i] = bytes[i]
  BY ReadBytesFills
<1>3. CASE n = MaxBufferSize
  <2>1. \A i \in 1..n : MaxBufferSize - n + i = i
    BY <1>1, <1>3
  <2> QED
    BY <1>2, <2>1 DEF Holds
<1>4. CASE n < MaxBufferSize
  <2>1. \A i \in 1..n : from + i \in Short(from, n)
    BY <1>1, <1>4 DEF Short
  <2> QED
    BY <1>2, <2>1 DEF Holds
<1> QED
  BY <1>1, <1>3, <1>4

\* ProducerReader writes all that is pending, or nothing and then never again.
LEMMA WriteOutTakesAll ==
    ASSUME NEW a \in Adapters, NEW s, NEW in \in Nat, NEW from \in Nat, NEW short,
           Holds(a, from, short), NEW p, p = WriteOut(s, a, in)
    PROVE  /\ p.adapter \in Adapters /\ p.in = in /\ p.out \in Seq(Bytes)
           /\ p.adapter.currentBufferSize > 0 => p.adapter.isWriterEOF
           /\ Len(p.out) + p.adapter.currentBufferSize = a.currentBufferSize
           /\ \A i \in 1..Len(p.out) : p.out[i] = from + i \/ from + i \in short
<1> DEFINE n == a.currentBufferSize
<1>1. n \in Nat /\ Len(<<>>) = 0 /\ <<>> \in Seq(Bytes)
  BY BufferAssumption, EmptySeq DEF Adapters
<1>2. CASE n = 0
  BY <1>1, <1>2 DEF WriteOut, Outcome
<1>3. CASE n # 0 /\ s \in childOpen
  <2>1. p = [adapter |-> Written(a, n), in |-> in, out |-> Pending(a), returns |-> "some"]
    BY <1>3 DEF WriteOut, Outcome
  <2>2. Written(a, n) \in Adapters /\ Written(a, n).currentBufferSize = 0
    BY <1>1, WrittenForgets
  <2>3. Pending(a) \in Seq(Bytes) /\ Len(Pending(a)) = n
    BY PendingIsTheEnd
  <2>4. \A i \in 1..n : Pending(a)[i] = from + i \/ from + i \in short
    BY PendingIsTheEnd DEF Holds
  <2> QED
    BY <1>1, <2>1, <2>2, <2>3, <2>4
<1>4. CASE n # 0 /\ s \notin childOpen
  <2>1. p = [adapter |-> [a EXCEPT !.isWriterEOF = TRUE], in |-> in, out |-> <<>>,
             returns |-> "npos"]
    BY <1>4 DEF WriteOut, Outcome
  <2> DEFINE b == [a EXCEPT !.isWriterEOF = TRUE]
  <2>2. b \in Adapters /\ b.currentBufferSize = n /\ b.isWriterEOF
    BY DEF Adapters
  <2> HIDE DEF b
  <2>3. p.adapter = b /\ p.in = in /\ p.out = <<>>
    BY <2>1 DEF b
  <2> QED
    BY <1>1, <2>2, <2>3
<1> QED
  BY <1>2, <1>3, <1>4

\* ConsumerWriter passes on a part of what is pending and keeps the rest.
LEMMA WriteInTakesAPart ==
    ASSUME NEW a \in Adapters, NEW in \in Nat, NEW from \in Nat, NEW short,
           Holds(a, from, short), stalls \in BOOLEAN, NEW c \in WriteIn(a, in)
    PROVE  /\ c.adapter \in Adapters /\ c.in = in /\ c.out \in Seq(Bytes)
           /\ c.returns \in BOOLEAN
           /\ Len(c.out) + c.adapter.currentBufferSize = a.currentBufferSize
           /\ \A i \in 1..Len(c.out) : c.out[i] = from + i \/ from + i \in short
           /\ Holds(c.adapter, from + Len(c.out), short)
<1> DEFINE n == a.currentBufferSize
           M == MaxBufferSize
<1>1. n \in Nat /\ M \in Nat /\ n <= M /\ Len(<<>>) = 0 /\ <<>> \in Seq(Bytes)
  BY BufferAssumption, EmptySeq DEF Adapters
<1>2. CASE c = [adapter |-> a, in |-> in, out |-> <<>>, returns |-> TRUE]
  BY <1>1, <1>2 DEF Holds
<1>3. CASE c = [adapter |-> [a EXCEPT !.isWriterEOF = TRUE], in |-> in, out |-> <<>>,
                returns |-> FALSE]
  <2> DEFINE b == [a EXCEPT !.isWriterEOF = TRUE]
  <2>1. b \in Adapters /\ b.currentBufferSize = n /\ b.buffer = a.buffer
    BY DEF Adapters
  <2>2. Holds(b, from, short)
    BY <2>1 DEF Holds
  <2> HIDE DEF b
  <2>3. c.adapter = b /\ c.in = in /\ c.out = <<>> /\ c.returns = FALSE
    BY <1>3 DEF b
  <2>4. from + Len(c.out) = from
    BY <1>1, <2>3
  <2>5. Holds(c.adapter, from + Len(c.out), short)
    BY <2>2, <2>3, <2>4
  <2>6. \A i \in 1..Len(c.out) : FALSE
    BY <1>1, <2>3
  <2>7. c.returns \in BOOLEAN
    BY <2>3
  <2>8. c.adapter \in Adapters /\ c.out \in Seq(Bytes)
    BY <1>1, <2>1, <2>3
  <2>9. Len(c.out) + c.adapter.currentBufferSize = n
    BY <1>1, <2>1, <2>3
  <2> QED
    BY <2>3, <2>5, <2>6, <2>7, <2>8, <2>9
<1>4. ASSUME NEW k \in 0..n,
             c = [adapter |-> Written(a, k), in |-> in, out |-> SubSeq(Pending(a), 1, k),
                  returns |-> TRUE]
      PROVE  /\ c.adapter \in Adapters /\ c.in = in /\ c.out \in Seq(Bytes)
             /\ c.returns \in BOOLEAN
             /\ Len(c.out) + c.adapter.currentBufferSize = n
             /\ \A i \in 1..Len(c.out) : c.out[i] = from + i \/ from + i \in short
             /\ Holds(c.adapter, from + Len(c.out), short)
  <2> DEFINE b == Written(a, k)
             out == SubSeq(Pending(a), 1, k)
  <2>1. /\ b \in Adapters /\ b.currentBufferSize = n - k /\ b.buffer = a.buffer
    BY WrittenForgets
  <2>2. /\ Pending(a) \in Seq(Bytes) /\ Len(Pending(a)) = n
        /\ \A i \in 1..n : Pending(a)[i] = a.buffer[M - n + i]
    BY PendingIsTheEnd
  <2>3. out \in Seq(Bytes) /\ Len(out) = k /\ \A i \in 1..k : out[i] = Pending(a)[i]
    <3>1. \A i \in 1..k : Pending(a)[i] \in Bytes
      BY <1>1, <2>2, ElementOfSeq
    <3>2. /\ out \in Seq(Bytes) /\ Len(out) = IF 1 <= k THEN k - 1 + 1 ELSE 0
          /\ \A i \in 1..(k - 1 + 1) : out[i] = Pending(a)[1 + i - 1]
      BY <1>1, <3>1, SubSeqProperties
    <3> QED
      BY <1>1, <3>2
  <2>4. \A i \in 1..k : out[i] = from + i \/ from + i \in short
    <3>1. \A i \in 1..k : i \in 1..n /\ out[i] = a.buffer[M - n + i]
      BY <1>1, <2>2, <2>3
    <3> QED
      BY <3>1 DEF Holds
  <2>5. Holds(b, from + k, short)
    <3>1. ASSUME NEW i \in 1..(n - k)
          PROVE  LET byte == b.buffer[M - (n - k) + i] IN
                 byte = (from + k) + i \/ (from + k) + i \in short
      <4>1. k + i \in 1..n /\ M - n + (k + i) = M - (n - k) + i /\ from + (k + i) = (from + k) + i
        BY <1>1
      <4> QED
        BY <4>1, <2>1 DEF Holds
    <3> HIDE DEF b
    <3> QED
      BY <3>1, <2>1 DEF Holds
  <2> HIDE DEF b, out
  <2> QED
    BY <1>1, <1>4, <2>1, <2>3, <2>4, <2>5 DEF b, out
<1>5. \/ c = [adapter |-> a, in |-> in, out |-> <<>>, returns |-> TRUE]
      \/ c = [adapter |-> [a EXCEPT !.isWriterEOF = TRUE], in |-> in, out |-> <<>>,
              returns |-> FALSE]
      \/ \E k \in 0..n : c = [adapter |-> Written(a, k), in |-> in,
                              out |-> SubSeq(Pending(a), 1, k), returns |-> TRUE]
  BY <1>1 DEF WriteIn, Outcome
<1> QED
  BY <1>2, <1>3, <1>4, <1>5

\* An outcome p of produce(): what came in goes out in its order, or stays.
Produced(s, p) ==
    /\ p.adapter \in Adapters /\ p.in \in 0..(total - source[s])
    /\ p.out \in Seq(Bytes)
    /\ p.adapter.currentBufferSize > 0 => p.adapter.isWriterEOF
    /\ Len(p.out) + p.adapter.currentBufferSize = producer[s].currentBufferSize + p.in
    /\ Len(p.out) <= MaxBufferSize
    /\ \A i \in 1..Len(p.out) :
          LET k == Len(received[s]) + Len(toChild[s]) + i IN
          p.out[i] = k \/ k \in Short(source[s], p.in)

\* Whatever a Producer does to its stream is as Produced says.
LEMMA ProduceOutcome ==
    ASSUME TypeOK, OutInv, NEW s \in Streams, NEW p \in Produce(s)
    PROVE  Produced(s, p)
<1> DEFINE a == producer[s]
           from == source[s]
<1>1. a \in Adapters /\ from \in 0..total /\ total \in Nat /\ stalls \in BOOLEAN
  BY DEF TypeOK, BytesType
<1>2. /\ a.currentBufferSize \in Nat /\ MaxBufferSize \in Nat
      /\ Len(<<>>) = 0 /\ <<>> \in Seq(Bytes)
  BY <1>1, BufferAssumption, EmptySeq DEF Adapters
<1>10. a.currentBufferSize > 0 => a.isWriterEOF
  BY DEF OutInv
<1>3. /\ Len(received[s]) \in Nat /\ Len(toChild[s]) \in Nat
      /\ from = Len(received[s]) + Len(toChild[s]) + a.currentBufferSize
  BY LenProperties DEF OutInv, TypeOK, BytesType
<1> HIDE DEF a
<1> DEFINE Goal ==
           /\ p.adapter \in Adapters /\ p.in \in 0..(total - from)
           /\ p.out \in Seq(Bytes)
           /\ p.adapter.currentBufferSize > 0 => p.adapter.isWriterEOF
           /\ Len(p.out) + p.adapter.currentBufferSize = a.currentBufferSize + p.in
           /\ Len(p.out) <= MaxBufferSize
           /\ \A i \in 1..Len(p.out) :
                 LET k == Len(received[s]) + Len(toChild[s]) + i IN
                 p.out[i] = k \/ k \in Short(from, p.in)
\* Nothing is read and nothing is written ...
<1>4. ASSUME NEW b \in Adapters, b.currentBufferSize = a.currentBufferSize,
             b.isWriterEOF = a.isWriterEOF,
             p.adapter = b, p.in = 0, p.out = <<>>
      PROVE  Goal
  BY <1>1, <1>2, <1>4, <1>10
\* ... or a part of what is left is read, which is possible only with an empty
\* buffer.
<1>5. ASSUME Reads(a), from # total, NEW n \in ReadSizes(s),
             p = WriteOut(s, ReadBytes(a, [i \in 1..n |-> from + i]), n)
      PROVE  Goal
  <2> DEFINE bytes == [i \in 1..n |-> from + i]
             b == ReadBytes(a, bytes)
  <2>1. n \in 0..(total - from) /\ n <= MaxBufferSize /\ n \in Nat
    BY <1>1, <1>2, <1>5 DEF ReadSizes
  <2>2. /\ bytes \in Seq(Bytes) /\ Len(bytes) = n
        /\ \A i \in 1..Len(bytes) : bytes[i] = from + i
    BY <1>1, <2>1 DEF Bytes
  <2> HIDE DEF bytes
  <2>3. b \in Adapters /\ b.currentBufferSize = n
    BY <1>1, <2>1, <2>2, ReadBytesFills
  <2>4. Holds(b, from, Short(from, n))
    BY <1>1, <2>1, <2>2, ReadHolds
  <2>5. p = WriteOut(s, b, n)
    BY <1>5 DEF bytes
  <2> HIDE DEF b
  <2>6. /\ p.adapter \in Adapters /\ p.in = n /\ p.out \in Seq(Bytes)
        /\ p.adapter.currentBufferSize > 0 => p.adapter.isWriterEOF
        /\ Len(p.out) + p.adapter.currentBufferSize = n
        /\ \A i \in 1..Len(p.out) : p.out[i] = from + i \/ from + i \in Short(from, n)
    BY <1>1, <2>1, <2>3, <2>4, <2>5, WriteOutTakesAll
  <2>7. a.currentBufferSize = 0 /\ from = Len(received[s]) + Len(toChild[s])
    BY <1>2, <1>3, <1>5 DEF Reads
  <2>8. Len(p.out) \in Nat /\ p.adapter.currentBufferSize \in Nat
    BY <2>6, LenProperties DEF Adapters
  <2>9. p.in \in 0..(total - from) /\ Len(p.out) <= MaxBufferSize
    BY <1>2, <2>1, <2>6, <2>8
  <2>10. Len(p.out) + p.adapter.currentBufferSize = a.currentBufferSize + p.in
    BY <2>1, <2>6, <2>7
  <2>11. \A i \in 1..Len(p.out) :
            LET k == Len(received[s]) + Len(toChild[s]) + i IN
            p.out[i] = k \/ k \in Short(from, p.in)
    BY <2>6, <2>7
  <2> QED
    BY <2>6, <2>9, <2>10, <2>11
<1>11. SUFFICES Goal
  BY DEF a, Produced
<1> HIDE DEF Goal
<1>6. CASE a.isWriterEOF
  <2>1. p = Outcome(a, 0, <<>>, "npos")
    BY <1>6 DEF Produce, a
  <2>2. p.adapter = a /\ p.in = 0 /\ p.out = <<>>
    BY <2>1 DEF Outcome
  <2> QED
    BY <1>1, <1>4, <2>2
<1>7. CASE ~a.isWriterEOF /\ ~Reads(a)
  <2>1. a.currentBufferSize = 0
    BY <1>2, <1>7, <1>10
  <2>2. p = Outcome(a, 0, <<>>, "none")
    BY <1>7, <2>1 DEF Produce, WriteOut, a
  <2>3. p.adapter = a /\ p.in = 0 /\ p.out = <<>>
    BY <2>2 DEF Outcome
  <2> QED
    BY <1>1, <1>4, <2>3
<1>8. CASE ~a.isWriterEOF /\ Reads(a) /\ from = total
  <2> DEFINE b == [a EXCEPT !.isReaderEOF = TRUE]
  <2>1. p = Outcome(b, 0, <<>>, "npos")
    BY <1>8 DEF Produce, a
  <2>2. /\ b \in Adapters /\ b.currentBufferSize = a.currentBufferSize
        /\ b.isWriterEOF = a.isWriterEOF
    BY <1>1 DEF Adapters
  <2> HIDE DEF b
  <2>3. p.adapter = b /\ p.in = 0 /\ p.out = <<>>
    BY <2>1 DEF Outcome
  <2> QED
    BY <1>4, <2>2, <2>3
<1>9. CASE ~a.isWriterEOF /\ Reads(a) /\ from # total
  BY <1>5, <1>9 DEF Produce, a
<1> QED
  BY <1>6, <1>7, <1>8, <1>9

\* An outcome c of consume(): what was taken from the pipe goes on in its order,
\* the rest is kept.
Consumed(s, c) ==
    LET d == Len(delivered[s])
        short == shortIn[s] \union Short(taken[s], c.in) IN
    /\ c.adapter \in Adapters /\ c.in \in 0..Len(fromChild[s])
    /\ c.out \in Seq(Bytes)
    /\ c.returns \in BOOLEAN
    /\ Len(c.out) + c.adapter.currentBufferSize = consumer[s].currentBufferSize + c.in
    /\ \A i \in 1..Len(c.out) : c.out[i] = d + i \/ d + i \in short
    /\ Holds(c.adapter, d + Len(c.out), short)

\* Whatever a Consumer does to its stream is as Consumed says.
LEMMA ConsumeOutcome ==
    ASSUME TypeOK, InInv, NEW s \in Streams, NEW c \in Consume(s)
    PROVE  Consumed(s, c)
<1> DEFINE a == consumer[s]
           d == Len(delivered[s])
           pipe == fromChild[s]
           short(n) == shortIn[s] \union Short(taken[s], n)
           Goal ==
               /\ c.adapter \in Adapters /\ c.in \in 0..Len(pipe)
               /\ c.out \in Seq(Bytes)
               /\ c.returns \in BOOLEAN
               /\ Len(c.out) + c.adapter.currentBufferSize = a.currentBufferSize + c.in
               /\ \A i \in 1..Len(c.out) : c.out[i] = d + i \/ d + i \in short(c.in)
               /\ Holds(c.adapter, d + Len(c.out), short(c.in))
<1>1. SUFFICES Goal
  BY DEF Consumed
<1>2. a \in Adapters /\ pipe \in Seq(Bytes) /\ delivered[s] \in Seq(Bytes) /\ stalls \in BOOLEAN
  BY DEF TypeOK, BytesType
<1>3. /\ Len(pipe) \in Nat /\ d \in Nat /\ taken[s] \in Nat
      /\ a.currentBufferSize \in Nat /\ MaxBufferSize \in Nat
  BY <1>2, LenProperties, BufferAssumption DEF TypeOK, BytesType, Adapters
<1>4. /\ taken[s] = d + a.currentBufferSize
      /\ \A i \in 1..Len(pipe) : pipe[i] = taken[s] + i
      /\ Holds(a, d, shortIn[s])
  BY DEF InInv
<1>5. ASSUME NEW b \in Adapters, NEW n \in 0..Len(pipe),
             b.currentBufferSize = a.currentBufferSize + n, Holds(b, d, short(n)),
             c \in WriteIn(b, n)
      PROVE  Goal
  <2> HIDE DEF short, d
  <2>1. n \in Nat
    BY <1>3
  <2>2. /\ c.adapter \in Adapters /\ c.in = n /\ c.out \in Seq(Bytes)
        /\ c.returns \in BOOLEAN
        /\ Len(c.out) + c.adapter.currentBufferSize = b.currentBufferSize
        /\ \A i \in 1..Len(c.out) : c.out[i] = d + i \/ d + i \in short(n)
        /\ Holds(c.adapter, d + Len(c.out), short(n))
    BY <1>2, <1>3, <1>5, <2>1, WriteInTakesAPart
  <2> QED
    BY <1>5, <2>2
\* Nothing is read ...
<1>6. Short(taken[s], 0) = {} /\ short(0) = shortIn[s]
  BY <1>3 DEF Short
<1>7. CASE a.isWriterEOF
  <2>1. c = Outcome(a, 0, <<>>, FALSE)
    BY <1>7 DEF Consume
  <2>2. c.adapter = a /\ c.in = 0 /\ c.out = <<>> /\ c.returns = FALSE
    BY <2>1 DEF Outcome
  <2>3. Len(c.out) = 0 /\ c.out \in Seq(Bytes) /\ d + Len(c.out) = d
    BY <1>3, <2>2, EmptySeq
  <2>4. Holds(c.adapter, d + Len(c.out), short(c.in))
    BY <1>4, <1>6, <2>2, <2>3
  <2>5. c.returns \in BOOLEAN
    BY <2>2
  <2>6. c.in \in 0..Len(pipe) /\ Len(c.out) + c.adapter.currentBufferSize = a.currentBufferSize + c.in
    BY <1>3, <2>2, <2>3
  <2>7. \A i \in 1..Len(c.out) : FALSE
    BY <2>3
  <2> QED
    BY <1>2, <2>2, <2>3, <2>4, <2>5, <2>6, <2>7
<1>8. CASE ~a.isWriterEOF /\ ~Reads(a)
  <2>1. c \in WriteIn(a, 0)
    BY <1>8 DEF Consume
  <2>2. 0 \in 0..Len(pipe) /\ a.currentBufferSize = a.currentBufferSize + 0
    BY <1>3
  <2>3. Holds(a, d, short(0))
    BY <1>4, <1>6
  <2> QED
    BY <1>2, <1>5, <2>1, <2>2, <2>3
\* ... or as much as fits, from the beginning of the pipe.
<1>9. CASE ~a.isWriterEOF /\ Reads(a)
  <2> DEFINE n == IF Len(pipe) < MaxBufferSize THEN Len(pipe) ELSE MaxBufferSize
             bytes == SubSeq(pipe, 1, n)
             b == ReadBytes(a, bytes)
  <2>1. c \in WriteIn(b, n)
    BY <1>9 DEF Consume
  <2>2. n \in 0..Len(pipe) /\ n <= MaxBufferSize /\ n \in Nat
    BY <1>3
  <2> HIDE DEF n
  <2>3. bytes \in Seq(Bytes) /\ Len(bytes) = n /\ \A i \in 1..n : bytes[i] = pipe[i]
    <3>1. \A i \in 1..n : pipe[i] \in Bytes
      BY <1>2, <1>3, <2>2, ElementOfSeq
    <3>2. /\ bytes \in Seq(Bytes) /\ Len(bytes) = IF 1 <= n THEN n - 1 + 1 ELSE 0
          /\ \A i \in 1..(n - 1 + 1) : bytes[i] = pipe[1 + i - 1]
      BY <2>2, <3>1, SubSeqProperties
    <3> QED
      BY <2>2, <3>2
  <2>4. a.currentBufferSize = 0 /\ d = taken[s]
    BY <1>3, <1>4, <1>9 DEF Reads
  <2>5. \A i \in 1..Len(bytes) : bytes[i] = d + i
    BY <1>3, <1>4, <2>2, <2>3, <2>4
  <2> HIDE DEF bytes
  <2>6. b \in Adapters /\ b.currentBufferSize = n
    BY <1>2, <2>2, <2>3, ReadBytesFills
  <2>7. Holds(b, d, Short(d, n))
    BY <1>2, <1>3, <2>2, <2>3, <2>5, ReadHolds
  <2>8. Holds(b, d, short(n))
    BY <2>4, <2>7 DEF Holds
  <2> HIDE DEF b, Goal, short
  <2> QED
    BY <1>3, <1>5, <2>1, <2>2, <2>4, <2>6, <2>8
<1> QED
  BY <1>7, <1>8, <1>9

\* A stream that is not served in one direction keeps its adapter.
LEMMA IdleOutcomes ==
    ASSUME TypeOK, OutInv, InInv, NEW s \in Streams
    PROVE  /\ Produced(s, Outcome(producer[s], 0, <<>>, "npos"))
           /\ Consumed(s, Outcome(consumer[s], 0, <<>>, FALSE))
<1>1. /\ producer[s] \in Adapters /\ consumer[s] \in Adapters
      /\ total \in Nat /\ source[s] \in 0..total /\ MaxBufferSize \in Nat
      /\ taken[s] \in Nat /\ fromChild[s] \in Seq(Bytes) /\ delivered[s] \in Seq(Bytes)
      /\ Len(<<>>) = 0 /\ <<>> \in Seq(Bytes)
  BY BufferAssumption, EmptySeq DEF TypeOK, BytesType
<1>2. /\ Len(fromChild[s]) \in Nat /\ Len(delivered[s]) \in Nat
      /\ producer[s].currentBufferSize \in Nat /\ consumer[s].currentBufferSize \in Nat
  BY <1>1, LenProperties DEF Adapters
<1>3. Produced(s, Outcome(producer[s], 0, <<>>, "npos"))
  <2> DEFINE p == Outcome(producer[s], 0, <<>>, "npos")
  <2>1. p.adapter = producer[s] /\ p.in = 0 /\ p.out = <<>>
    BY DEF Outcome
  <2> HIDE DEF p
  <2>2. p.adapter.currentBufferSize > 0 => p.adapter.isWriterEOF
    BY <2>1 DEF OutInv
  <2>3. /\ p.in \in 0..(total - source[s]) /\ Len(p.out) <= MaxBufferSize
        /\ Len(p.out) + p.adapter.currentBufferSize = producer[s].currentBufferSize + p.in
    BY <1>1, <1>2, <2>1
  <2>4. \A i \in 1..Len(p.out) : FALSE
    BY <1>1, <2>1
  <2>5. p.adapter \in Adapters /\ p.out \in Seq(Bytes)
    BY <1>1, <2>1
  <2> QED
    BY <2>2, <2>3, <2>4, <2>5 DEF Produced, p
<1>4. Consumed(s, Outcome(consumer[s], 0, <<>>, FALSE))
  <2> DEFINE c == Outcome(consumer[s], 0, <<>>, FALSE)
             d == Len(delivered[s])
  <2>1. c.adapter = consumer[s] /\ c.in = 0 /\ c.out = <<>> /\ c.returns = FALSE
    BY DEF Outcome
  <2> HIDE DEF c
  <2>2. shortIn[s] \union Short(taken[s], c.in) = shortIn[s] /\ d + Len(c.out) = d
    BY <1>1, <1>2, <2>1 DEF Short
  <2>3. Holds(c.adapter, d + Len(c.out), shortIn[s] \union Short(taken[s], c.in))
    BY <2>1, <2>2 DEF InInv
  <2>4. c.returns \in BOOLEAN
    BY <2>1
  <2>5. c.in \in 0..Len(fromChild[s]) /\ \A i \in 1..Len(c.out) : FALSE
    BY <1>1, <1>2, <2>1
  <2>6. Len(c.out) + c.adapter.currentBufferSize = consumer[s].currentBufferSize + c.in
    BY <1>1, <1>2, <2>1
  <2>7. c.adapter \in Adapters /\ c.out \in Seq(Bytes)
    BY <1>1, <2>1
  <2> QED
    BY <2>3, <2>4, <2>5, <2>6, <2>7 DEF Consumed, c
<1> QED
  BY <1>3, <1>4

\* So Process() serves one of the streams poll() has reported, in this way.
Serves(r, p, c) ==
    /\ ProcessStream(r, p, c)
    /\ Produced(r.stream, p) /\ Consumed(r.stream, c)
    /\ r.out \/ p.out = <<>>

\* A step of parentProcess() is one stream served.
LEMMA ProcessServes ==
    ASSUME TypeOK, OutInv, InInv, Process
    PROVE  /\ results # <<>> /\ Head(results) \in PollResults
           /\ Head(results).stream \in Streams
           /\ \E p, c : Serves(Head(results), p, c)
<1> DEFINE r == Head(results)
           s == r.stream
<1>1. results # <<>> /\ results \in Seq(PollResults)
  BY DEF Process, TypeOK
<1>2. r \in PollResults
  BY <1>1, HeadTailProperties
<1>3. s \in Streams
  BY <1>2 DEF PollResults
<1>4. PICK p \in IF r.out THEN Produce(s) ELSE {Outcome(producer[s], 0, <<>>, "npos")},
          c \in IF r.in THEN Consume(s) ELSE {Outcome(consumer[s], 0, <<>>, FALSE)} :
             ProcessStream(r, p, c)
  BY DEF Process
<1> HIDE DEF r, s
<1>5. Produced(s, p)
  BY <1>3, <1>4, ProduceOutcome, IdleOutcomes
<1>6. Consumed(s, c)
  BY <1>3, <1>4, ConsumeOutcome, IdleOutcomes
<1>7. r.out \/ p.out = <<>>
  BY <1>4 DEF Outcome
<1>8. Serves(r, p, c)
  BY <1>4, <1>5, <1>6, <1>7 DEF Serves, s
<1> QED
  BY <1>1, <1>2, <1>3, <1>8 DEF r, s

-----------------------------------------------------------------------------
(* The bytes of a stream in a step of Process().                           *)

\* The types of what ProcessStream() changes.
LEMMA ProcessTyped ==
    ASSUME TypeOK, OutInv, InInv, Process
    PROVE  BytesType'
<1> DEFINE r == Head(results)
           s == r.stream
<1>1. s \in Streams /\ r \in PollResults
  BY ProcessServes
<1>2. PICK p, c : Serves(r, p, c)
  BY ProcessServes
<1> HIDE DEF r, s
<1>3. UNCHANGED <<kinds, total, written, received>>
  BY DEF Process, setup, program
<1>4. Streams' = Streams
  BY <1>3 DEF Streams
<1>5. /\ producer' = [producer EXCEPT ![s] = p.adapter]
      /\ consumer' = [consumer EXCEPT ![s] = c.adapter]
      /\ source' = [source EXCEPT ![s] = @ + p.in]
      /\ taken' = [taken EXCEPT ![s] = @ + c.in]
      /\ toChild' = [toChild EXCEPT ![s] = @ \o p.out]
      /\ fromChild' = [fromChild EXCEPT ![s] = SubSeq(@, c.in + 1, Len(@))]
      /\ delivered' = [delivered EXCEPT ![s] = @ \o c.out]
      /\ shortOut' = [shortOut EXCEPT ![s] = @ \union Short(source[s], p.in)]
      /\ shortIn' = [shortIn EXCEPT ![s] = @ \union Short(taken[s], c.in)]
  BY <1>2 DEF Serves, ProcessStream, s
<1>6. /\ p.adapter \in Adapters /\ p.in \in 0..(total - source[s]) /\ p.out \in Seq(Bytes)
      /\ c.adapter \in Adapters /\ c.in \in 0..Len(fromChild[s]) /\ c.out \in Seq(Bytes)
  BY <1>2 DEF Serves, Produced, Consumed, s
<1>7. total \in Nat /\ source[s] \in 0..total /\ taken[s] \in Nat
      /\ fromChild[s] \in Seq(Bytes) /\ toChild[s] \in Seq(Bytes) /\ delivered[s] \in Seq(Bytes)
      /\ Len(fromChild[s]) \in Nat
  BY <1>1, LenProperties DEF TypeOK, BytesType
<1>8. Short(source[s], p.in) \subseteq Nat /\ Short(taken[s], c.in) \subseteq Nat
  BY SMTT(30), <1>6, <1>7 DEF Short
<1>9. source[s] + p.in \in 0..total /\ taken[s] + c.in \in Nat
  BY SMTT(30), <1>6, <1>7
<1>11. toChild[s] \o p.out \in Seq(Bytes) /\ delivered[s] \o c.out \in Seq(Bytes)
  BY <1>6, <1>7, ConcatProperties
<1>10. SubSeq(fromChild[s], c.in + 1, Len(fromChild[s])) \in Seq(Bytes)
  <2>1. \A i \in (c.in + 1)..Len(fromChild[s]) : fromChild[s][i] \in Bytes
    BY <1>6, <1>7, ElementOfSeq
  <2> QED
    BY <1>6, <1>7, <2>1, SubSeqProperties
<1> QED
  BY <1>3, <1>4, <1>5, <1>6, <1>8, <1>9, <1>10, <1>11 DEF TypeOK, BytesType

\* What is written to the child follows what was written before.
LEMMA ProcessKeepsOut ==
    ASSUME TypeOK, OutInv, InInv, Process
    PROVE  OutInv'
<1> DEFINE r == Head(results)
           s == r.stream
<1>1. s \in Streams
  BY ProcessServes
<1>2. PICK p, c : Serves(r, p, c)
  BY ProcessServes
<1> HIDE DEF r, s
<1>3. UNCHANGED <<kinds, received>> /\ Streams' = Streams
  BY DEF Process, setup, Streams
<1>4. /\ producer' = [producer EXCEPT ![s] = p.adapter]
      /\ source' = [source EXCEPT ![s] = @ + p.in]
      /\ toChild' = [toChild EXCEPT ![s] = @ \o p.out]
      /\ shortOut' = [shortOut EXCEPT ![s] = @ \union Short(source[s], p.in)]
  BY <1>2 DEF Serves, ProcessStream, s
<1>5. /\ producer \in [Streams -> Adapters] /\ source \in [Streams -> 0..total]
      /\ toChild \in [Streams -> Seq(Bytes)] /\ shortOut \in [Streams -> SUBSET Nat]
      /\ received \in [Streams -> Seq(Bytes)]
  BY DEF TypeOK, BytesType
<1> SUFFICES ASSUME NEW z \in Streams
             PROVE  /\ producer'[z].currentBufferSize > 0 => producer'[z].isWriterEOF
                    /\ source'[z] = Len(received[z]) + Len(toChild'[z])
                                      + producer'[z].currentBufferSize
                    /\ \A i \in 1..Len(received[z]) :
                          received[z][i] = i \/ i \in shortOut'[z]
                    /\ \A i \in 1..Len(toChild'[z]) :
                          LET k == Len(received[z]) + i IN
                          toChild'[z][i] = k \/ k \in shortOut'[z]
  BY <1>3 DEF OutInv, Arrives
<1>6. CASE z # s
  <2>1. /\ producer'[z] = producer[z] /\ source'[z] = source[z]
        /\ toChild'[z] = toChild[z] /\ shortOut'[z] = shortOut[z]
    BY <1>4, <1>5, <1>6
  <2> QED
    BY <2>1 DEF OutInv, Arrives
<1>7. CASE z = s
  <2>1. /\ producer'[s] = p.adapter /\ source'[s] = source[s] + p.in
        /\ toChild'[s] = toChild[s] \o p.out
        /\ shortOut'[s] = shortOut[s] \union Short(source[s], p.in)
    BY <1>1, <1>4, <1>5
  <2>2. /\ p.adapter \in Adapters /\ p.in \in 0..(total - source[s]) /\ p.out \in Seq(Bytes)
        /\ p.adapter.currentBufferSize > 0 => p.adapter.isWriterEOF
        /\ Len(p.out) + p.adapter.currentBufferSize = producer[s].currentBufferSize + p.in
    BY <1>2 DEF Serves, Produced, s
  <2> DEFINE old == Len(toChild[s])
             new == Len(p.out)
             got == Len(received[s])
  <2>3. /\ old \in Nat /\ new \in Nat /\ got \in Nat
        /\ p.adapter.currentBufferSize \in Nat /\ producer[s].currentBufferSize \in Nat
        /\ source[s] \in Nat /\ p.in \in Nat
    BY SMTT(30), <1>1, <1>5, <2>2, LenProperties DEF Adapters, TypeOK
  <2>4. /\ source[s] = got + old + producer[s].currentBufferSize
        /\ \A i \in 1..got : received[s][i] = i \/ i \in shortOut[s]
        /\ \A i \in 1..old : toChild[s][i] = got + i \/ got + i \in shortOut[s]
    BY <1>1 DEF OutInv, Arrives
  <2>5. \A i \in 1..new : LET k == got + old + i IN
                          p.out[i] = k \/ k \in Short(source[s], p.in)
    BY <1>2 DEF Serves, Produced, s
  <2>6. /\ Len(toChild'[s]) = old + new
        /\ \A i \in 1..(old + new) :
              toChild'[s][i] = IF i <= old THEN toChild[s][i] ELSE p.out[i - old]
    BY <1>1, <1>5, <2>1, <2>2, ConcatProperties
  <2>10. new + p.adapter.currentBufferSize = producer[s].currentBufferSize + p.in
    BY <2>2
  <2>11. source[s] = got + old + producer[s].currentBufferSize
    BY <2>4
  <2> HIDE DEF old, new, got
  <2>12. source[s] + p.in = got + (old + new) + p.adapter.currentBufferSize
    BY <2>3, <2>10, <2>11
  <2>7. source'[s] = got + Len(toChild'[s]) + p.adapter.currentBufferSize
    BY <2>1, <2>6, <2>12
  <2>8. ASSUME NEW i \in 1..(old + new)
        PROVE  toChild'[s][i] = got + i \/ got + i \in shortOut'[s]
    <3>1. CASE i <= old
      <4>1. i \in 1..old /\ toChild'[s][i] = toChild[s][i]
        BY <2>3, <2>6, <3>1
      <4> QED
        BY <2>1, <2>4, <4>1
    <3>2. CASE i > old
      <4>1. i - old \in 1..new /\ got + old + (i - old) = got + i /\ toChild'[s][i] = p.out[i - old]
        BY SMTT(30), <2>3, <2>6, <3>2
      <4> QED
        BY <2>1, <2>5, <4>1
    <3> QED
      BY <2>3, <3>1, <3>2
  <2>9. \A i \in 1..got : received[s][i] = i \/ i \in shortOut'[s]
    BY <2>1, <2>4
  <2> QED
    BY <1>7, <2>1, <2>2, <2>6, <2>7, <2>8, <2>9 DEF got
<1> QED
  BY <1>6, <1>7

\* What is taken from the pipe follows what was taken before, and so does what
\* the Writers get.
LEMMA ProcessKeepsIn ==
    ASSUME TypeOK, OutInv, InInv, Process
    PROVE  InInv'
<1> DEFINE r == Head(results)
           s == r.stream
<1>1. s \in Streams
  BY ProcessServes
<1>2. PICK p, c : Serves(r, p, c)
  BY ProcessServes
<1> HIDE DEF r, s
<1>3. UNCHANGED <<kinds, written>> /\ Streams' = Streams
  BY DEF Process, setup, program, Streams
<1>4. /\ consumer' = [consumer EXCEPT ![s] = c.adapter]
      /\ taken' = [taken EXCEPT ![s] = @ + c.in]
      /\ fromChild' = [fromChild EXCEPT ![s] = SubSeq(@, c.in + 1, Len(@))]
      /\ delivered' = [delivered EXCEPT ![s] = @ \o c.out]
      /\ shortIn' = [shortIn EXCEPT ![s] = @ \union Short(taken[s], c.in)]
  BY <1>2 DEF Serves, ProcessStream, s
<1>5. /\ consumer \in [Streams -> Adapters] /\ taken \in [Streams -> Nat]
      /\ fromChild \in [Streams -> Seq(Bytes)] /\ delivered \in [Streams -> Seq(Bytes)]
      /\ shortIn \in [Streams -> SUBSET Nat] /\ written \in [Streams -> Nat]
  BY DEF TypeOK, BytesType
<1> SUFFICES ASSUME NEW z \in Streams
             PROVE  /\ written[z] = taken'[z] + Len(fromChild'[z])
                    /\ taken'[z] = Len(delivered'[z]) + consumer'[z].currentBufferSize
                    /\ \A i \in 1..Len(fromChild'[z]) : fromChild'[z][i] = taken'[z] + i
                    /\ Holds(consumer'[z], Len(delivered'[z]), shortIn'[z])
                    /\ \A i \in 1..Len(delivered'[z]) :
                          delivered'[z][i] = i \/ i \in shortIn'[z]
  BY <1>3 DEF InInv, Holds
<1>6. CASE z # s
  <2>1. /\ consumer'[z] = consumer[z] /\ taken'[z] = taken[z] /\ shortIn'[z] = shortIn[z]
        /\ fromChild'[z] = fromChild[z] /\ delivered'[z] = delivered[z]
    BY <1>4, <1>5, <1>6
  <2> QED
    BY <2>1 DEF InInv
<1>7. CASE z = s
  <2> DEFINE pipe == fromChild[s]
             old == Len(delivered[s])
             new == Len(c.out)
             short == shortIn[s] \union Short(taken[s], c.in)
  <2>1. /\ consumer'[s] = c.adapter /\ taken'[s] = taken[s] + c.in
        /\ fromChild'[s] = SubSeq(pipe, c.in + 1, Len(pipe))
        /\ delivered'[s] = delivered[s] \o c.out /\ shortIn'[s] = short
    BY <1>1, <1>4, <1>5
  <2>2. /\ c.adapter \in Adapters /\ c.in \in 0..Len(pipe) /\ c.out \in Seq(Bytes)
        /\ new + c.adapter.currentBufferSize = consumer[s].currentBufferSize + c.in
        /\ \A i \in 1..new : c.out[i] = old + i \/ old + i \in short
        /\ Holds(c.adapter, old + new, short)
    BY <1>2 DEF Serves, Consumed, s
  <2>3. /\ old \in Nat /\ new \in Nat /\ taken[s] \in Nat /\ Len(pipe) \in Nat
        /\ c.adapter.currentBufferSize \in Nat /\ consumer[s].currentBufferSize \in Nat
    BY SMTT(30), <1>1, <1>5, <2>2, LenProperties DEF Adapters
  <2>4. c.in \in Nat /\ Len(pipe) \in Nat /\ c.in <= Len(pipe)
    BY <2>2, <2>3
  <2>5. /\ written[s] = taken[s] + Len(pipe)
        /\ taken[s] = old + consumer[s].currentBufferSize
        /\ \A i \in 1..Len(pipe) : pipe[i] = taken[s] + i
        /\ \A i \in 1..old : delivered[s][i] = i \/ i \in shortIn[s]
    BY <1>1 DEF InInv
  <2>6. /\ Len(fromChild'[s]) = Len(pipe) - c.in
        /\ \A i \in 1..(Len(pipe) - c.in) : fromChild'[s][i] = pipe[c.in + i]
    <3>1. \A i \in (c.in + 1)..Len(pipe) : pipe[i] \in Bytes
      BY SMTT(30), <1>1, <1>5, <2>3, <2>4, ElementOfSeq
    <3>2. /\ Len(fromChild'[s]) = IF c.in + 1 <= Len(pipe) THEN Len(pipe) - (c.in + 1) + 1 ELSE 0
          /\ \A i \in 1..(Len(pipe) - (c.in + 1) + 1) :
                fromChild'[s][i] = pipe[(c.in + 1) + i - 1]
      BY SMTT(30), <2>1, <2>3, <2>4, <3>1, SubSeqProperties
    <3>3. Len(pipe) - (c.in + 1) + 1 = Len(pipe) - c.in
      BY <2>4
    <3>4. \A i \in 1..(Len(pipe) - c.in) : (c.in + 1) + i - 1 = c.in + i
      BY <2>3, <2>4
    <3>5. Len(fromChild'[s]) = Len(pipe) - c.in
      BY <2>3, <2>4, <3>2, <3>3
    <3> HIDE DEF pipe
    <3> QED
      BY <3>2, <3>3, <3>4, <3>5
  <2>7. /\ Len(delivered'[s]) = old + new
        /\ \A i \in 1..(old + new) :
              delivered'[s][i] = IF i <= old THEN delivered[s][i] ELSE c.out[i - old]
    BY <1>1, <1>5, <2>1, <2>2, ConcatProperties
  <2>8. /\ taken[s] = old + consumer[s].currentBufferSize
        /\ new + c.adapter.currentBufferSize = consumer[s].currentBufferSize + c.in
    BY <2>2, <2>5
  <2> HIDE DEF pipe, old, new, short
  <2>9. taken[s] + c.in = (old + new) + c.adapter.currentBufferSize
    <3>1. /\ old \in Nat /\ new \in Nat /\ c.in \in Nat
          /\ c.adapter.currentBufferSize \in Nat /\ consumer[s].currentBufferSize \in Nat
      BY <2>3, <2>4
    <3>2. (old + consumer[s].currentBufferSize) + c.in = (old + new) + c.adapter.currentBufferSize
      BY <2>8, <3>1
    <3> QED
      BY <2>8, <3>2
  <2>10. taken[s] + Len(pipe) = (taken[s] + c.in) + (Len(pipe) - c.in)
    BY <2>3, <2>4
  <2>11. \A i \in 1..(Len(pipe) - c.in) :
            c.in + i \in 1..Len(pipe) /\ taken[s] + (c.in + i) = (taken[s] + c.in) + i
    BY SMTT(30), <2>3, <2>4
  <2>12. \A i \in 1..(Len(pipe) - c.in) : fromChild'[s][i] = taken'[s] + i
    BY <2>1, <2>5, <2>6, <2>11
  <2>13. ASSUME NEW i \in 1..(old + new)
         PROVE  delivered'[s][i] = i \/ i \in short
    <3>1. CASE i <= old
      <4>1. i \in 1..old /\ delivered'[s][i] = delivered[s][i]
        BY <2>3, <2>7, <3>1
      <4> QED
        BY <2>5, <4>1 DEF short
    <3>2. CASE i > old
      <4>1. i - old \in 1..new /\ old + (i - old) = i /\ delivered'[s][i] = c.out[i - old]
        BY SMTT(30), <2>3, <2>7, <3>2
      <4> QED
        BY <2>2, <4>1
    <3> QED
      BY <2>3, <3>1, <3>2
  <2>14. Holds(consumer'[s], Len(delivered'[s]), shortIn'[s])
    BY <2>1, <2>2, <2>7
  <2>15. /\ written[s] = taken'[s] + Len(fromChild'[s])
         /\ taken'[s] = Len(delivered'[s]) + consumer'[s].currentBufferSize
    BY <2>1, <2>5, <2>6, <2>7, <2>9, <2>10
  <2> QED
    BY <1>7, <2>1, <2>6, <2>7, <2>12, <2>13, <2>14, <2>15
<1> QED
  BY <1>6, <1>7

-----------------------------------------------------------------------------
(* The bytes of a stream in the other steps.                               *)

\* What the invariants about bytes speak of.
bytes == <<kinds, total, written, toChild, fromChild, producer, consumer, source, taken,
           received, delivered, shortIn, shortOut>>

\* Steps that touch no bytes keep the invariants about bytes.
LEMMA BytesStay ==
    ASSUME TypeOK, OutInv, InInv, UNCHANGED bytes
    PROVE  Streams' = Streams /\ BytesType' /\ OutInv' /\ InInv'
<1>1. Streams' = Streams
  BY DEF bytes, Streams
<1>2. BytesType'
  BY <1>1 DEF bytes, TypeOK, BytesType
<1>3. OutInv'
  BY <1>1 DEF bytes, OutInv, Arrives
<1>4. InInv'
  BY <1>1 DEF bytes, InInv, Holds
<1> QED
  BY <1>1, <1>2, <1>3, <1>4

\* The child writes a byte, or reads one.
WritesByte(s) ==
    /\ Len(fromChild[s]) < PipeSize
    /\ fromChild' = [fromChild EXCEPT ![s] = Append(@, written[s] + 1)]
    /\ written' = [written EXCEPT ![s] = @ + 1]
    /\ UNCHANGED <<toChild, received>>

DrainsByte(s) ==
    /\ toChild[s] # <<>>
    /\ toChild' = [toChild EXCEPT ![s] = Tail(@)]
    /\ received' = [received EXCEPT ![s] = Append(@, Head(toChild[s]))]
    /\ UNCHANGED <<fromChild, written>>

\* Every step of the child is one of these, or leaves the pipes alone.
LEMMA ChildStepKinds ==
    ASSUME TypeOK, ChildStep
    PROVE  /\ UNCHANGED <<kinds, total, producer, consumer, source, taken, delivered, shortIn,
                          shortOut>>
           /\ Streams' = Streams /\ child = "runs"
           /\ plan' \in Seq(Operations \X Streams) /\ child' \in {"runs", "zombie"}
           /\ childOpen' \in SUBSET Streams
           /\ UNCHANGED <<setup, open, parent, handles, signaler>>
           /\ \/ UNCHANGED bytes
              \/ \E s \in Streams : WritesByte(s)
              \/ \E s \in Streams : DrainsByte(s)
<1> DEFINE Ops == Operations \X Streams
<1>1. plan \in Seq(Ops) /\ childOpen \in SUBSET Streams
  BY DEF TypeOK
<1>2. /\ UNCHANGED <<kinds, total, producer, consumer, source, taken, delivered, shortIn, shortOut>>
      /\ UNCHANGED <<setup, open, parent, handles, signaler>>
  BY DEF ChildStep, setup, adapters
<1>3. Streams' = Streams
  BY <1>2 DEF Streams
<1> DEFINE Ended == child' = "zombie" /\ childOpen' = {} /\ plan' = <<>>
           Goal == /\ plan' \in Seq(Ops) /\ child' \in {"runs", "zombie"}
                   /\ childOpen' \in SUBSET Streams
                   /\ \/ UNCHANGED <<toChild, fromChild, received, written>>
                      \/ \E s \in Streams : WritesByte(s)
                      \/ \E s \in Streams : DrainsByte(s)
<1>4. child = "runs"
  BY DEF ChildStep
<1>5. ASSUME Ended, UNCHANGED <<toChild, fromChild, received, written>> PROVE Goal
  BY <1>5, EmptySeq
<1>9. SUFFICES Goal
  BY <1>2, <1>3, <1>4 DEF bytes
<1>6. CASE plan = <<>>
  BY <1>5, <1>6 DEF ChildStep, End
<1>7. CASE plan # <<>>
  <2> DEFINE s == plan[1][2]
  <2>1. /\ s \in Streams /\ Tail(plan) \in Seq(Ops)
    <3>1. plan[1] \in Ops /\ Tail(plan) \in Seq(Ops)
      BY <1>1, <1>7, HeadTailProperties
    <3> QED
      BY <3>1
  <2>2. ChildWrite(s) \/ ChildDrain(s) \/ ChildClose(s)
    BY <1>7 DEF ChildStep
  <2> HIDE DEF s
  <2>3. CASE ChildWrite(s)
    <3>1. CASE s \in open
      BY <1>1, <1>4, <2>1, <2>3, <3>1 DEF ChildWrite, WritesByte
    <3>2. CASE s \notin open
      BY <1>5, <2>3, <3>2 DEF ChildWrite, End
    <3> QED
      BY <3>1, <3>2
  <2>4. CASE ChildDrain(s)
    BY <1>1, <1>4, <2>1, <2>4 DEF ChildDrain, DrainsByte
  <2>5. CASE ChildClose(s)
    BY <1>1, <1>4, <2>1, <2>5 DEF ChildClose
  <2> QED
    BY <2>2, <2>3, <2>4, <2>5
<1> QED
  BY <1>6, <1>7

\* A byte that is written goes to the end of its pipe.
LEMMA WriteKeepsBytes ==
    ASSUME TypeOK, OutInv, InInv, NEW s \in Streams, WritesByte(s), Streams' = Streams,
           UNCHANGED <<total, producer, consumer, source, taken, delivered, shortIn, shortOut>>
    PROVE  BytesType' /\ OutInv' /\ InInv'
<1> DEFINE pipe == fromChild[s]
           w == written[s]
<1>1. /\ fromChild' = [fromChild EXCEPT ![s] = Append(pipe, w + 1)]
      /\ written' = [written EXCEPT ![s] = w + 1]
      /\ UNCHANGED <<toChild, received>>
  BY DEF WritesByte
<1>2. /\ fromChild \in [Streams -> Seq(Bytes)] /\ written \in [Streams -> Nat]
      /\ taken \in [Streams -> Nat]
  BY DEF TypeOK, BytesType
<1>3. /\ pipe \in Seq(Bytes) /\ Len(pipe) \in Nat /\ w \in Nat /\ taken[s] \in Nat
      /\ w + 1 \in Bytes
  BY <1>2, LenProperties DEF Bytes
<1>4. /\ Append(pipe, w + 1) \in Seq(Bytes) /\ Len(Append(pipe, w + 1)) = Len(pipe) + 1
      /\ \A i \in 1..Len(pipe) : Append(pipe, w + 1)[i] = pipe[i]
      /\ Append(pipe, w + 1)[Len(pipe) + 1] = w + 1
  BY <1>3, AppendProperties
<1>5. BytesType'
  <2>1. fromChild' \in [Streams -> Seq(Bytes)] /\ written' \in [Streams -> Nat]
    BY <1>1, <1>2, <1>3, <1>4
  <2> QED
    BY <1>1, <2>1 DEF TypeOK, BytesType
<1>6. OutInv'
  BY <1>1 DEF OutInv, Arrives
<1>7. InInv'
  <2>1. w = taken[s] + Len(pipe) /\ \A i \in 1..Len(pipe) : pipe[i] = taken[s] + i
    BY DEF InInv
  <2>2. written'[s] = taken[s] + Len(fromChild'[s])
    BY <1>1, <1>2, <1>3, <1>4, <2>1
  <2>3. \A i \in 1..Len(fromChild'[s]) : fromChild'[s][i] = taken[s] + i
    <3>1. fromChild'[s] = Append(pipe, w + 1) /\ Len(fromChild'[s]) = Len(pipe) + 1
      BY <1>1, <1>2, <1>4
    <3>2. w + 1 = taken[s] + (Len(pipe) + 1)
      <4>1. taken[s] \in Nat /\ Len(pipe) \in Nat
        BY <1>3
      <4>2. w = taken[s] + Len(pipe)
        BY <2>1
      <4> QED
        BY <4>1, <4>2
    <3>3. \A i \in 1..(Len(pipe) + 1) : i \in 1..Len(pipe) \/ i = Len(pipe) + 1
      BY <1>3
    <3> HIDE DEF pipe, w
    <3> QED
      BY <1>4, <2>1, <3>1, <3>2, <3>3
  <2>4. \A z \in Streams \ {s} : written'[z] = written[z] /\ fromChild'[z] = fromChild[z]
    BY <1>1, <1>2
  <2> QED
    BY <2>2, <2>3, <2>4 DEF InInv, Holds
<1> QED
  BY <1>5, <1>6, <1>7

\* A byte that is read comes from the beginning of its pipe.
LEMMA DrainKeepsBytes ==
    ASSUME TypeOK, OutInv, InInv, NEW s \in Streams, DrainsByte(s), Streams' = Streams,
           UNCHANGED <<total, producer, consumer, source, taken, delivered, shortIn, shortOut>>
    PROVE  BytesType' /\ OutInv' /\ InInv'
<1> DEFINE pipe == toChild[s]
           got == received[s]
<1>1. /\ toChild' = [toChild EXCEPT ![s] = Tail(pipe)] /\ pipe # <<>>
      /\ received' = [received EXCEPT ![s] = Append(got, Head(pipe))]
      /\ UNCHANGED <<fromChild, written>>
  BY DEF DrainsByte
<1>2. /\ toChild \in [Streams -> Seq(Bytes)] /\ received \in [Streams -> Seq(Bytes)]
      /\ producer \in [Streams -> Adapters]
  BY DEF TypeOK, BytesType
<1>3. /\ pipe \in Seq(Bytes) /\ got \in Seq(Bytes) /\ Len(pipe) \in Nat \ {0} /\ Len(got) \in Nat
      /\ producer[s].currentBufferSize \in Nat
  BY <1>1, <1>2, LenProperties, EmptySeq DEF Adapters
<1>4. /\ Head(pipe) \in Bytes /\ Tail(pipe) \in Seq(Bytes) /\ Len(Tail(pipe)) = Len(pipe) - 1
      /\ \A i \in 1..(Len(pipe) - 1) : Tail(pipe)[i] = pipe[i + 1]
      /\ Head(pipe) = pipe[1]
  BY <1>1, <1>3, HeadTailProperties
<1>5. /\ Append(got, Head(pipe)) \in Seq(Bytes) /\ Len(Append(got, Head(pipe))) = Len(got) + 1
      /\ \A i \in 1..Len(got) : Append(got, Head(pipe))[i] = got[i]
      /\ Append(got, Head(pipe))[Len(got) + 1] = pipe[1]
  BY <1>3, <1>4, AppendProperties
<1>6. BytesType'
  BY <1>1, <1>2, <1>4, <1>5 DEF TypeOK, BytesType
<1>7. InInv'
  BY <1>1 DEF InInv, Holds
<1>8. OutInv'
  <2>1. /\ source[s] = Len(got) + Len(pipe) + producer[s].currentBufferSize
        /\ \A i \in 1..Len(got) : got[i] = i \/ i \in shortOut[s]
        /\ \A i \in 1..Len(pipe) : pipe[i] = Len(got) + i \/ Len(got) + i \in shortOut[s]
    BY DEF OutInv, Arrives
  <2>2. /\ toChild'[s] = Tail(pipe) /\ received'[s] = Append(got, Head(pipe))
        /\ Len(toChild'[s]) = Len(pipe) - 1 /\ Len(received'[s]) = Len(got) + 1
    BY <1>1, <1>2, <1>4, <1>5
  <2> HIDE DEF pipe, got
  <2>3. source[s] = Len(received'[s]) + Len(toChild'[s]) + producer[s].currentBufferSize
    <3>1. Len(got) + Len(pipe) = (Len(got) + 1) + (Len(pipe) - 1)
      BY <1>3
    <3> QED
      BY <2>1, <2>2, <3>1
  <2>4. \A i \in 1..Len(received'[s]) : received'[s][i] = i \/ i \in shortOut[s]
    <3>1. \A i \in 1..(Len(got) + 1) : i \in 1..Len(got) \/ i = Len(got) + 1
      BY <1>3
    <3>2. 1 \in 1..Len(pipe)
      BY <1>3
    <3> QED
      BY <1>5, <2>1, <2>2, <3>1, <3>2
  <2>5. \A i \in 1..Len(toChild'[s]) : LET k == Len(received'[s]) + i IN
                                     toChild'[s][i] = k \/ k \in shortOut[s]
    <3>1. \A i \in 1..(Len(pipe) - 1) : i + 1 \in 1..Len(pipe) /\ Len(got) + (i + 1) = (Len(got) + 1) + i
      BY <1>3
    <3> QED
      BY <1>4, <2>1, <2>2, <3>1
  <2>6. \A z \in Streams \ {s} : toChild'[z] = toChild[z] /\ received'[z] = received[z]
    BY <1>1, <1>2
  <2> QED
    BY ZenonT(30), <2>3, <2>4, <2>5, <2>6 DEF OutInv, Arrives
<1> QED
  BY <1>6, <1>7, <1>8

-----------------------------------------------------------------------------
(* What poll() has reported.                                               *)

\* The results are in the order of the streams, and say what fits.
LEMMA PollReports ==
    ASSUME TypeOK, PipeInv, Poll
    PROVE  results' \in Seq(PollResults) /\ PipeInv'
<1> DEFINE R == {s \in open : CanWrite(s) \/ CanRead(s)}
           ready == InOrder(R)
           n == Cardinality(R)
<1>1. /\ results' = [i \in DOMAIN ready |->
                       [stream |-> ready[i], out |-> CanWrite(ready[i]), in |-> CanRead(ready[i])]]
      /\ UNCHANGED <<kinds, toChild, fromChild>>
  BY DEF Poll, setup, pipes
<1>2. R \subseteq Streams /\ R \subseteq Nat /\ IsFiniteSet(R)
  <2>1. R \subseteq Streams
    BY DEF TypeOK
  <2> QED
    BY <2>1, StreamsFinite, FS_Subset DEF TypeOK
<1>3. /\ n \in Nat /\ ready \in [1..n -> R]
      /\ \A i, j \in 1..n : i < j => ready[i] < ready[j]
  BY <1>2, InOrderAscends DEF Ascending
<1> HIDE DEF R, ready, n
<1>4. results' = [i \in 1..n |->
                    [stream |-> ready[i], out |-> CanWrite(ready[i]), in |-> CanRead(ready[i])]]
  BY <1>1, <1>3
<1>5. \A i \in 1..n : ready[i] \in Streams
  BY <1>2, <1>3
<1>6. \A s \in Streams : CanWrite(s) \in BOOLEAN /\ CanRead(s) \in BOOLEAN
  BY DEF CanWrite, CanRead
<1>7. \A i \in 1..n : [stream |-> ready[i], out |-> CanWrite(ready[i]), in |-> CanRead(ready[i])]
                       \in PollResults
  BY <1>5, <1>6 DEF PollResults
<1>8. Streams' = Streams
  BY <1>1 DEF Streams
<1>9. results' \in Seq(PollResults) /\ Len(results') = n
  BY <1>3, <1>4, <1>7
<1>10. \A i \in 1..n : results'[i].stream = ready[i] /\ (results'[i].out => CanWrite(ready[i]))
  BY <1>4
<1>11. PipeInv'
  <2>1. \A i, j \in 1..Len(results') : i < j => results'[i].stream < results'[j].stream
    BY <1>3, <1>9, <1>10
  <2>2. \A i \in 1..Len(results') :
           results'[i].out => Len(toChild[results'[i].stream]) + MaxBufferSize <= PipeSize
    BY <1>9, <1>10 DEF CanWrite
  <2> QED
    BY <1>1, <1>8, <2>1, <2>2 DEF PipeInv
<1> QED
  BY <1>8, <1>9, <1>11 DEF PollResults

\* A step that leaves the results and the pipes alone.
LEMMA PipeStays ==
    ASSUME PipeInv, UNCHANGED <<kinds, results, toChild, fromChild>>
    PROVE  PipeInv'
BY DEF PipeInv, Streams

\* The child writes only if there is room, and makes room when it reads.
LEMMA ChildKeepsPipes ==
    ASSUME TypeOK, PipeInv, ChildStep
    PROVE  PipeInv'
<1>1. /\ UNCHANGED results /\ Streams' = Streams /\ UNCHANGED kinds
      /\ \/ UNCHANGED bytes
         \/ \E s \in Streams : WritesByte(s)
         \/ \E s \in Streams : DrainsByte(s)
  BY ChildStepKinds DEF parent
<1>2. /\ toChild \in [Streams -> Seq(Bytes)] /\ fromChild \in [Streams -> Seq(Bytes)]
      /\ written \in [Streams -> Nat] /\ PipeSize \in Nat /\ MaxBufferSize \in Nat
      /\ results \in Seq(PollResults)
  BY SizesAssumption, BufferAssumption DEF TypeOK, BytesType
<1>3. \A s \in Streams : Len(toChild[s]) \in Nat /\ Len(fromChild[s]) \in Nat
  BY <1>2, LenProperties
<1>4. \A i \in 1..Len(results) : results[i].stream \in Streams
  <2>1. \A i \in 1..Len(results) : results[i] \in PollResults
    BY <1>2, ElementOfSeq
  <2> QED
    BY <2>1 DEF PollResults
<1>5. CASE UNCHANGED bytes
  BY <1>1, <1>5, PipeStays DEF bytes
<1>6. ASSUME NEW s \in Streams, WritesByte(s) PROVE PipeInv'
  <2>1. UNCHANGED toChild /\ fromChild' = [fromChild EXCEPT ![s] = Append(@, written[s] + 1)]
        /\ Len(fromChild[s]) < PipeSize
    BY <1>6 DEF WritesByte
  <2>2. Len(fromChild'[s]) = Len(fromChild[s]) + 1
    <3>1. written[s] + 1 \in Bytes /\ fromChild[s] \in Seq(Bytes)
      BY <1>2 DEF Bytes
    <3> QED
      BY <1>2, <2>1, <3>1, AppendProperties
  <2>3. Len(fromChild'[s]) <= PipeSize
    BY <1>2, <1>3, <2>1, <2>2
  <2>4. \A z \in Streams : z # s => fromChild'[z] = fromChild[z]
    BY <1>2, <2>1
  <2> QED
    BY <1>1, <2>1, <2>3, <2>4 DEF PipeInv
<1>7. ASSUME NEW s \in Streams, DrainsByte(s) PROVE PipeInv'
  <2>1. UNCHANGED fromChild /\ toChild' = [toChild EXCEPT ![s] = Tail(@)] /\ toChild[s] # <<>>
    BY <1>7 DEF DrainsByte
  <2>2. Len(toChild'[s]) = Len(toChild[s]) - 1
    BY <1>2, <2>1, HeadTailProperties
  <2>3. \A z \in Streams : Len(toChild'[z]) <= Len(toChild[z]) /\ Len(toChild'[z]) \in Int
    BY <1>2, <1>3, <2>1, <2>2
  <2>4. \A z \in Streams : Len(toChild[z]) <= PipeSize => Len(toChild'[z]) <= PipeSize
    BY <1>2, <1>3, <2>3
  <2>5. \A z \in Streams : Len(toChild[z]) + MaxBufferSize <= PipeSize
                            => Len(toChild'[z]) + MaxBufferSize <= PipeSize
    BY <1>2, <1>3, <2>3
  <2> QED
    BY <1>1, <1>4, <2>1, <2>4, <2>5 DEF PipeInv
<1> QED
  BY <1>1, <1>5, <1>6, <1>7

\* What is written fits, and streams that are still to be served are others.
LEMMA ProcessKeepsPipes ==
    ASSUME TypeOK, OutInv, InInv, PipeInv, Process
    PROVE  results' \in Seq(PollResults) /\ PipeInv'
<1> DEFINE r == Head(results)
           s == r.stream
           n == Len(results)
<1>1. results # <<>> /\ r \in PollResults /\ s \in Streams
  BY ProcessServes
<1>2. PICK p, c : Serves(r, p, c)
  BY ProcessServes
<1>3. results \in Seq(PollResults) /\ results' = Tail(results) /\ UNCHANGED kinds
  BY DEF Process, setup, TypeOK
<1>4. Streams' = Streams
  BY <1>3 DEF Streams
<1>5. /\ results' \in Seq(PollResults) /\ Len(results') = n - 1 /\ n \in Nat \ {0}
      /\ \A i \in 1..(n - 1) : results'[i] = results[i + 1]
      /\ r = results[1]
  BY <1>1, <1>3, HeadTailProperties, LenProperties, EmptySeq
<1> HIDE DEF r, s, n
<1>6. /\ toChild' = [toChild EXCEPT ![s] = @ \o p.out]
      /\ fromChild' = [fromChild EXCEPT ![s] = SubSeq(@, c.in + 1, Len(@))]
  BY <1>2 DEF Serves, ProcessStream, s
<1>7. /\ toChild \in [Streams -> Seq(Bytes)] /\ fromChild \in [Streams -> Seq(Bytes)]
      /\ PipeSize \in Nat /\ MaxBufferSize \in Nat
  BY SizesAssumption, BufferAssumption DEF TypeOK, BytesType
<1>8. /\ p.out \in Seq(Bytes) /\ Len(p.out) <= MaxBufferSize /\ (r.out \/ p.out = <<>>)
      /\ c.in \in 0..Len(fromChild[s])
  BY <1>2 DEF Serves, Produced, Consumed, s
<1>9. /\ Len(toChild[s]) \in Nat /\ Len(fromChild[s]) \in Nat /\ Len(p.out) \in Nat
  BY <1>1, <1>7, <1>8, LenProperties
<1>10. \A i \in 1..(n - 1) : i + 1 \in 1..n /\ 1 < i + 1
  BY <1>5
<1>11. \A i, j \in 1..n : i < j => results[i].stream < results[j].stream
  BY DEF PipeInv, n
<1>12. /\ 1 \in 1..n
       /\ \A i \in 1..n : results[i].stream \in Streams /\ results[i].stream \in Nat
  <2>1. \A i \in 1..n : results[i] \in PollResults
    BY <1>3, ElementOfSeq DEF n
  <2>2. \A i \in 1..n : results[i].stream \in Streams
    BY <2>1 DEF PollResults
  <2>3. Streams \subseteq Nat
    BY StreamsFinite DEF TypeOK
  <2>4. 1 \in 1..n
    BY <1>5
  <2> QED
    BY <2>2, <2>3, <2>4
<1>13. \A i \in 1..(n - 1) : results'[i].stream # s
  <2>1. ASSUME NEW i \in 1..(n - 1) PROVE results[i + 1].stream # s
    <3>1. results[1].stream < results[i + 1].stream
      BY <1>10, <1>11, <1>12
    <3>2. results[1].stream \in Nat /\ results[i + 1].stream \in Nat
      BY <1>10, <1>12
    <3> QED
      BY <1>5, <3>1, <3>2 DEF s
  <2> QED
    BY <1>5, <2>1
<1>14. \A i, j \in 1..(n - 1) : i < j => results'[i].stream < results'[j].stream
  <2>1. \A i, j \in 1..(n - 1) : i < j => i + 1 < j + 1
    BY <1>5
  <2> QED
    BY <1>5, <1>10, <1>11, <2>1
<1>15. \A i \in 1..(n - 1) :
          results'[i].out => Len(toChild'[results'[i].stream]) + MaxBufferSize <= PipeSize
  <2>1. \A i \in 1..n : results[i].out => Len(toChild[results[i].stream]) + MaxBufferSize <= PipeSize
    BY DEF PipeInv, n
  <2>2. \A i \in 1..(n - 1) : toChild'[results'[i].stream] = toChild[results'[i].stream]
    <3>1. \A i \in 1..(n - 1) : results'[i].stream \in Streams
      BY <1>5, <1>10, <1>12
    <3> QED
      BY <1>6, <1>7, <1>13, <3>1
  <2> QED
    BY <1>5, <1>10, <2>1, <2>2
<1>16. Len(toChild'[s]) <= PipeSize
  <2>1. toChild'[s] = toChild[s] \o p.out /\ Len(toChild'[s]) = Len(toChild[s]) + Len(p.out)
    BY SMTT(30), <1>1, <1>6, <1>7, <1>8, ConcatProperties
  <2>2. CASE r.out
    <3>1. Len(toChild[s]) + MaxBufferSize <= PipeSize
      BY <1>5, <1>12, <2>2 DEF PipeInv, n, s
    <3>2. Len(p.out) <= MaxBufferSize
      BY <1>8
    <3>3. \A k, l, m \in Nat : l <= m /\ k + m <= PipeSize => k + l <= PipeSize
      BY <1>7
    <3> QED
      BY <1>7, <1>9, <2>1, <3>1, <3>2, <3>3
  <2>3. CASE p.out = <<>>
    <3>1. Len(p.out) = 0
      BY <2>3, EmptySeq
    <3>2. Len(toChild[s]) <= PipeSize
      BY <1>1 DEF PipeInv
    <3> QED
      BY <1>9, <2>1, <3>1, <3>2
  <2> QED
    BY <1>8, <2>2, <2>3
<1>17. Len(fromChild'[s]) <= PipeSize
  <2> DEFINE pipe == fromChild[s]
  <2>1. fromChild'[s] = SubSeq(pipe, c.in + 1, Len(pipe))
    BY <1>1, <1>6, <1>7
  <2>2. c.in \in Nat /\ c.in <= Len(pipe) /\ Len(pipe) \in Nat /\ Len(pipe) <= PipeSize
    BY <1>1, <1>8, <1>9 DEF PipeInv
  <2>3. \A i \in (c.in + 1)..Len(pipe) : pipe[i] \in Bytes
    BY <1>1, <1>7, <2>2, ElementOfSeq
  <2>4. Len(fromChild'[s]) =
           IF c.in + 1 <= Len(pipe) THEN Len(pipe) - (c.in + 1) + 1 ELSE 0
    BY <2>1, <2>2, <2>3, SubSeqProperties
  <2> HIDE DEF pipe
  <2> QED
    BY <1>7, <2>2, <2>4
<1>18. \A z \in Streams : z # s => toChild'[z] = toChild[z] /\ fromChild'[z] = fromChild[z]
  BY <1>6, <1>7
<1>19. \A z \in Streams : Len(toChild'[z]) <= PipeSize /\ Len(fromChild'[z]) <= PipeSize
  BY <1>16, <1>17, <1>18 DEF PipeInv
<1> QED
  BY <1>4, <1>5, <1>14, <1>15, <1>19 DEF PipeInv, PollResults

-----------------------------------------------------------------------------
(* The inductive invariant.                                                *)

\* Nothing is under way before execute().
LEMMA InitHolds == Init => IInv
<1> SUFFICES ASSUME Init PROVE IInv
  OBVIOUS
<1>1. /\ kinds \in Seq(Kinds) /\ total \in Nat /\ plan \in Seq(Operations \X Nat)
      /\ stalls \in BOOLEAN /\ calm \in BOOLEAN /\ MaxSignals \in Nat /\ PipeSize \in Nat
  BY SizesAssumption, ProgramsAssumption DEF Init
<1>2. plan \in Seq(Operations \X Streams)
  <2>1. /\ Len(plan) \in Nat /\ DOMAIN plan = 1..Len(plan)
        /\ plan \in [1..Len(plan) -> Operations \X Nat]
    BY <1>1, LenProperties
  <2>2. \A i \in 1..Len(plan) : plan[i][2] \in Streams
    BY <2>1 DEF Init, Possible
  <2>3. \A i \in 1..Len(plan) : plan[i] \in Operations \X Streams
    BY <2>1, <2>2
  <2>4. plan \in [1..Len(plan) -> Operations \X Streams]
    BY <2>1, <2>3
  <2> QED
    BY <2>1, <2>4
<1>3. /\ Len(<<>>) = 0 /\ \A S : <<>> \in Seq(S)
      /\ NewAdapter \in Adapters /\ NewAdapter.currentBufferSize = 0
  BY EmptySeq, NewAdapterHoldsNothing
<1>4. BytesType
  BY <1>1, <1>3 DEF Init, BytesType, ForAll
<1>5. TypeOK
  <2>1. /\ child = "none" /\ open = {} /\ childOpen = {} /\ pc = "execute" /\ results = <<>>
        /\ processed = FALSE /\ processPtr = FALSE /\ pid = FALSE
        /\ handle = FALSE /\ signals = 0 /\ fault = FALSE
    BY DEF Init
  <2>2. results \in Seq(PollResults) /\ signals \in 0..MaxSignals
    BY <1>1, <1>3, <2>1
  <2> QED
    BY <1>1, <1>2, <1>4, <2>1, <2>2 DEF TypeOK
<1>6. OutInv
  BY <1>3 DEF Init, OutInv, ForAll, Arrives
<1>7. InInv
  BY <1>3 DEF Init, InInv, ForAll, Holds
<1>8. PipeInv
  BY <1>1, <1>3 DEF Init, PipeInv, ForAll
<1>9. HandleInv
  BY DEF Init, HandleInv
<1> QED
  BY <1>5, <1>6, <1>7, <1>8, <1>9 DEF IInv

\* The child ends by itself or by a signal; what execute() has published is not
\* its business.
LEMMA ChildKeepsHandles ==
    ASSUME HandleInv, child = "runs", child' \in {"runs", "zombie"},
           UNCHANGED <<pc, processPtr, pid, fault>>
    PROVE  HandleInv'
BY DEF HandleInv

\* The child keeps the invariant.
LEMMA ChildStepKeeps ==
    ASSUME IInv, ChildStep
    PROVE  IInv'
<1> USE DEF IInv
<1>1. /\ UNCHANGED <<kinds, total, producer, consumer, source, taken, delivered, shortIn, shortOut>>
      /\ Streams' = Streams /\ child = "runs"
      /\ plan' \in Seq(Operations \X Streams) /\ child' \in {"runs", "zombie"}
      /\ childOpen' \in SUBSET Streams
      /\ UNCHANGED <<setup, open, parent, handles, signaler>>
      /\ \/ UNCHANGED bytes
         \/ \E s \in Streams : WritesByte(s)
         \/ \E s \in Streams : DrainsByte(s)
  BY ChildStepKinds
<1>2. BytesType' /\ OutInv' /\ InInv'
  BY <1>1, BytesStay, WriteKeepsBytes, DrainKeepsBytes
<1>3. TypeOK'
  BY <1>1, <1>2 DEF TypeOK, setup, parent, handles, signaler, PollResults
<1>4. PipeInv'
  BY ChildKeepsPipes
<1>5. HandleInv'
  BY <1>1, ChildKeepsHandles DEF parent, handles, signaler
<1> QED
  BY <1>2, <1>3, <1>4, <1>5

\* The transfer of one stream keeps the invariant.
LEMMA ProcessKeeps ==
    ASSUME IInv, Process
    PROVE  IInv'
<1> USE DEF IInv
<1> DEFINE r == Head(results)
<1>1. PICK p, c : Serves(r, p, c)
  BY ProcessServes
<1>2. /\ UNCHANGED <<kinds, total, stalls, calm, plan, written, child, childOpen, received, pc,
                     processPtr, pid, handle, fault, signals>>
      /\ Streams' = Streams
  BY DEF Process, setup, program, handles, signaler, Streams
<1>3. processed' \in BOOLEAN /\ open' \subseteq open
  <2> HIDE DEF r
  <2>1. processed' \in BOOLEAN
    BY <1>1 DEF Serves, ProcessStream, Processed, TypeOK
  <2>2. open' \subseteq open
    BY <1>1 DEF Serves, ProcessStream
  <2> QED
    BY <2>1, <2>2
<1>4. BytesType' /\ OutInv' /\ InInv'
  BY ProcessTyped, ProcessKeepsOut, ProcessKeepsIn
<1>5. results' \in Seq(PollResults) /\ PipeInv'
  BY ProcessKeepsPipes
<1>6. PollResults' = PollResults
  BY <1>2 DEF PollResults
<1>7. TypeOK'
  BY <1>2, <1>3, <1>4, <1>5, <1>6 DEF TypeOK
<1>8. HandleInv'
  BY <1>2 DEF HandleInv
<1> QED
  BY <1>4, <1>5, <1>7, <1>8

\* The steps of execute() that do not move bytes.
LEMMA ParentKeeps ==
    ASSUME IInv, Execute \/ Fork \/ Throw \/ Poll \/ EndRound \/ Waitpid \/ WaitInterrupted
                 \/ ForgetPid \/ Return
    PROVE  IInv'
<1> USE DEF IInv, Goto, setup, program, pipes, adapters, parent, handles, signaler
<1>1. UNCHANGED bytes
  BY DEF bytes, Execute, Fork, Throw, Poll, EndRound, Waitpid, WaitInterrupted, ForgetPid, Return
<1>2. Streams' = Streams /\ BytesType' /\ OutInv' /\ InInv'
  BY <1>1, BytesStay
<1>3. PollResults' = PollResults
  BY <1>2 DEF PollResults
<1>4. results' \in Seq(PollResults) /\ PipeInv'
  <2>1. CASE Poll
    BY <2>1, PollReports
  <2>2. CASE ~Poll
    <3>1. UNCHANGED results
      BY <2>2 DEF Execute, Fork, Throw, EndRound, Waitpid, WaitInterrupted, ForgetPid, Return
    <3> QED
      BY <1>1, <3>1, PipeStays DEF bytes, TypeOK
  <2> QED
    BY <2>1, <2>2
<1>5. TypeOK'
  <2> USE <1>1, <1>2, <1>3, <1>4, SizesAssumption DEF TypeOK, bytes
  <2>1. CASE Execute
    BY <2>1 DEF Execute
  <2>2. CASE Fork
    BY <2>2 DEF Fork
  <2>3. CASE Throw
    BY <2>3 DEF Throw
  <2>4. CASE Poll
    BY <2>4 DEF Poll
  <2>5. CASE EndRound
    BY <2>5 DEF EndRound
  <2>6. CASE Waitpid
    BY <2>6 DEF Waitpid
  <2>7. CASE WaitInterrupted
    BY <2>7 DEF WaitInterrupted
  <2>8. CASE ForgetPid
    BY <2>8 DEF ForgetPid
  <2>9. CASE Return
    BY <2>9 DEF Return
  <2> QED
    BY <2>1, <2>2, <2>3, <2>4, <2>5, <2>6, <2>7, <2>8, <2>9
<1>6. HandleInv'
  BY DEF TypeOK, HandleInv, Execute, Fork, Throw, Poll, EndRound, Waitpid, WaitInterrupted,
         ForgetPid, Return
<1> QED
  BY <1>2, <1>4, <1>5, <1>6

\* The thread that sends signals.
LEMMA SignalerKeeps ==
    ASSUME IInv, GetHandle \/ Kill
    PROVE  IInv'
<1> USE DEF IInv, setup, program, pipes, adapters, parent, handles, signaler
<1>1. UNCHANGED bytes /\ UNCHANGED results
  BY DEF bytes, GetHandle, Kill, End
<1>2. Streams' = Streams /\ BytesType' /\ OutInv' /\ InInv'
  BY <1>1, BytesStay
<1>3. PipeInv'
  BY <1>1, PipeStays DEF bytes
<1>4. TypeOK'
  <2> USE <1>1, <1>2, SizesAssumption, EmptySeq DEF TypeOK, bytes, PollResults
  <2>1. CASE GetHandle
    <3>1. handle' \in BOOLEAN /\ fault' \in BOOLEAN
      BY <2>1 DEF GetHandle
    <3>2. signals' \in 0..MaxSignals
      BY <2>1 DEF GetHandle
    <3>3. UNCHANGED <<setup, program, pipes, received, adapters, parent, handles>>
      BY <2>1 DEF GetHandle
    <3> QED
      BY <3>1, <3>2, <3>3
  <2>2. CASE Kill
    <3>1. /\ handle' = FALSE /\ UNCHANGED <<setup, written, toChild, fromChild, open, received,
                                           adapters, parent, handles, fault, signals>>
      BY <2>2 DEF Kill
    <3>2. /\ child' \in {"none", "runs", "zombie", "reaped"} /\ childOpen' \in SUBSET Streams
          /\ plan' \in Seq(Operations \X Streams)
      BY <2>2 DEF Kill, End
    <3> QED
      BY <3>1, <3>2
  <2> QED
    BY <2>1, <2>2
<1>5. HandleInv'
  BY DEF TypeOK, HandleInv, GetHandle, Kill, End
<1> QED
  BY <1>2, <1>3, <1>4, <1>5

\* Every step keeps the invariant.
LEMMA StepKeeps == IInv /\ [Next]_vars => IInv'
<1> SUFFICES ASSUME IInv, [Next]_vars PROVE IInv'
  OBVIOUS
<1>1. CASE UNCHANGED vars
  <2>1. UNCHANGED bytes /\ UNCHANGED results
    BY <1>1 DEF vars, bytes, setup, program, pipes, adapters, parent
  <2>2. Streams' = Streams /\ BytesType' /\ OutInv' /\ InInv'
    BY <2>1, BytesStay DEF IInv
  <2>3. PipeInv'
    BY <2>1, PipeStays DEF bytes, IInv
  <2>4. TypeOK' /\ HandleInv'
    BY <1>1, <2>2 DEF IInv, TypeOK, HandleInv, PollResults, vars, setup, program, pipes, parent,
                      handles, signaler
  <2> QED
    BY <2>2, <2>3, <2>4 DEF IInv
<1>2. CASE Next
  BY <1>2, ChildStepKeeps, ProcessKeeps, ParentKeeps, SignalerKeeps DEF Next, ParentStep
<1> QED
  BY <1>1, <1>2

\* Every reachable state: who knows the process, what poll() has reported, and
\* where every byte is.
THEOREM Inductive == Spec => []IInv
BY InitHolds, StepKeeps, PTL DEF Spec

-----------------------------------------------------------------------------
(* What the child has written is read before it is waited for.             *)

\* The child writes no more to streams somebody reads, and nothing is left.
Drained == \A s \in Streams : Consumes(s) => child # "runs" /\ fromChild[s] = <<>>

\* The producer of a stream has come to its end.
Finished(s) == producer[s].isReaderEOF \/ producer[s].isWriterEOF

\* As long as the child runs it has all its streams open, and a stream to the
\* child is closed with the call that finds its end.
CalmInv ==
    calm =>
        /\ \A s \in Streams : kinds[s] # "both"
        /\ \A i \in 1..Len(plan) : plan[i][1] # "close"
        /\ child = "runs" => childOpen = Streams
        /\ \A s \in Streams : Finished(s) => s \notin open

\* poll() reports streams that have something to do, and they are still open
\* when it is their turn.
ResultsInv ==
    /\ \A i \in 1..Len(results) :
          /\ results[i].out \/ results[i].in
          /\ results[i].out => Produces(results[i].stream)
          /\ results[i].in => Consumes(results[i].stream)
          /\ pc = "process" => results[i].stream \in open
    /\ pc \in {"execute", "fork"} => \A s \in Streams : ~Finished(s)

\* Writers that do not stall leave nothing in the buffers and keep their
\* streams open; a round in which nothing was processed is one in which poll()
\* found nothing, because the child has ended and its pipes are empty.
DrainInv ==
    ~stalls =>
        /\ \A s \in Streams : consumer[s].currentBufferSize = 0 /\ ~consumer[s].isWriterEOF
        /\ calm /\ pc \in {"poll", "process", "waitpid"} =>
              \A s \in Streams : Consumes(s) => s \in open
        /\ /\ calm
           /\ \/ pc \in {"waitpid", "reaped", "returning", "done"}
              \/ pc = "process" /\ ~processed /\ results = <<>>
           => Drained

EndInv == CalmInv /\ ResultsInv /\ DrainInv

\* Nothing has been read or written before execute().
LEMMA EndInit == Init => EndInv
<1> SUFFICES ASSUME Init PROVE EndInv
  OBVIOUS
<1>1. /\ NewAdapter.currentBufferSize = 0 /\ ~NewAdapter.isReaderEOF
      /\ ~NewAdapter.isWriterEOF
  BY DEF NewAdapter
<1>2. /\ \A s \in Streams : producer[s] = NewAdapter /\ consumer[s] = NewAdapter
      /\ pc = "execute" /\ results = <<>> /\ child = "none"
  BY DEF Init, ForAll
<1>3. ASSUME calm
      PROVE  /\ \A s \in Streams : kinds[s] # "both"
             /\ \A i \in 1..Len(plan) : plan[i][1] # "close"
  <2>1. /\ ~(\E s \in Streams : kinds[s] = "both" \/ <<"close", s>> \in ToSet(plan))
        /\ plan \in Seq(Operations \X Nat)
        /\ \A i \in DOMAIN plan : Possible(plan[i][1], plan[i][2])
    BY <1>3, ProgramsAssumption DEF Init
  <2>2. SUFFICES ASSUME NEW i \in 1..Len(plan), plan[i][1] = "close" PROVE FALSE
    BY <2>1
  <2>3. i \in DOMAIN plan /\ plan[i] \in Operations \X Nat
    BY <2>1, <2>2, LenProperties, ElementOfSeq
  <2>4. plan[i] = <<"close", plan[i][2]>> /\ plan[i][2] \in Streams
    BY <2>1, <2>2, <2>3 DEF Possible
  <2>5. plan[i] \in ToSet(plan)
    BY <2>3 DEF ToSet
  <2> QED
    BY <2>1, <2>4, <2>5
<1>4. CalmInv
  BY <1>1, <1>2, <1>3 DEF CalmInv, Finished
<1>5. ResultsInv
  BY <1>1, <1>2, EmptySeq DEF ResultsInv, Finished
<1>6. DrainInv
  BY <1>1, <1>2 DEF DrainInv
<1> QED
  BY <1>4, <1>5, <1>6 DEF EndInv

\* A Producer that comes to its end says so in the same call, and one that does
\* not stall either writes or is at its end.
LEMMA ProduceEnds ==
    ASSUME TypeOK, OutInv, NEW s \in Streams, ~producer[s].isReaderEOF,
           NEW p \in Produce(s)
    PROVE  /\ p.adapter.isReaderEOF \/ p.adapter.isWriterEOF => p.returns = "npos"
           /\ ~stalls => p.returns # "none"
<1> DEFINE a == producer[s]
<1>1. /\ a \in Adapters /\ source[s] \in 0..total /\ total \in Nat
      /\ a.currentBufferSize \in Nat /\ MaxBufferSize \in Nat \ {0}
  BY BufferAssumption DEF TypeOK, BytesType, Adapters
<1>2. a.currentBufferSize > 0 => a.isWriterEOF
  BY DEF OutInv
<1>3. CASE a.isWriterEOF
  BY <1>3 DEF Produce, Outcome
<1>4. CASE ~a.isWriterEOF /\ source[s] = total
  <2>1. Reads(a)
    BY <1>1, <1>2, <1>4 DEF Reads
  <2>2. p = Outcome([a EXCEPT !.isReaderEOF = TRUE], 0, <<>>, "npos")
    BY <1>4, <2>1 DEF Produce
  <2> QED
    BY <2>2 DEF Outcome
<1>5. CASE ~a.isWriterEOF /\ source[s] # total
  <2>1. Reads(a)
    BY <1>1, <1>2, <1>5 DEF Reads
  <2>2. PICK n \in ReadSizes(s) :
           p = WriteOut(s, ReadBytes(a, [i \in 1..n |-> source[s] + i]), n)
    BY <1>5, <2>1 DEF Produce
  <2>3. n \in 0..MaxBufferSize /\ n \in Nat /\ (~stalls => n > 0)
    BY <1>1, <1>5 DEF ReadSizes
  <2> DEFINE new == [i \in 1..n |-> source[s] + i]
             b == ReadBytes(a, new)
  <2>4. new \in Seq(Nat) /\ Len(new) = n
    BY <1>1, <2>3
  <2>5. /\ b.currentBufferSize = n /\ ~b.isWriterEOF /\ ~b.isReaderEOF
    BY <1>1, <1>5, <2>4 DEF ReadBytes, Adapters
  <2>6. p = WriteOut(s, b, n)
    BY <2>2
  <2> HIDE DEF b
  <2>7. CASE n = 0
    BY <2>3, <2>5, <2>6, <2>7 DEF WriteOut, Outcome
  <2>8. CASE n # 0 /\ s \in childOpen
    <3>1. p = Outcome(Written(b, n), n, Pending(b), "some")
      BY <2>5, <2>6, <2>8 DEF WriteOut
    <3>2. ~Written(b, n).isWriterEOF /\ ~Written(b, n).isReaderEOF
      BY <2>5 DEF Written
    <3> QED
      BY <3>1, <3>2 DEF Outcome
  <2>9. CASE n # 0 /\ s \notin childOpen
    BY <2>5, <2>6, <2>9 DEF WriteOut, Outcome
  <2> QED
    BY <2>7, <2>8, <2>9
<1> QED
  BY <1>3, <1>4, <1>5

\* A Writer that does not stall takes what it is given, all of it.
LEMMA WriteInAll ==
    ASSUME ~stalls, NEW a, ~a.isWriterEOF, a.currentBufferSize \in Nat,
           NEW in, NEW c \in WriteIn(a, in)
    PROVE  /\ c.returns = TRUE /\ c.adapter.currentBufferSize = 0
           /\ ~c.adapter.isWriterEOF
<1> DEFINE n == a.currentBufferSize
<1>1. CASE n = 0
  <2>1. c = Outcome(a, in, <<>>, TRUE)
    BY <1>1 DEF WriteIn
  <2> QED
    BY <1>1, <2>1 DEF Outcome
<1>2. CASE n # 0
  <2>1. c = Outcome(Written(a, n), in, SubSeq(Pending(a), 1, n), TRUE)
    BY <1>2 DEF WriteIn
  <2>2. Written(a, n).currentBufferSize = 0 /\ ~Written(a, n).isWriterEOF
    BY DEF Written
  <2> QED
    BY <2>1, <2>2 DEF Outcome
<1> QED
  BY <1>1, <1>2

\* So a Consumer whose Writer does not stall keeps nothing back.
LEMMA ConsumeTakesAll ==
    ASSUME TypeOK, NEW s \in Streams, ~stalls, consumer[s].currentBufferSize = 0,
           ~consumer[s].isWriterEOF, NEW c \in Consume(s)
    PROVE  /\ c.returns = TRUE /\ c.adapter.currentBufferSize = 0
           /\ ~c.adapter.isWriterEOF
<1> DEFINE a == consumer[s]
           n == IF Len(fromChild[s]) < MaxBufferSize THEN Len(fromChild[s])
                ELSE MaxBufferSize
           b == ReadBytes(a, SubSeq(fromChild[s], 1, n))
<1>1. a \in Adapters /\ fromChild[s] \in Seq(Bytes) /\ MaxBufferSize \in Nat
  BY BufferAssumption DEF TypeOK, BytesType
<1>2. CASE ~Reads(a)
  <2>1. c \in WriteIn(a, 0)
    BY <1>2 DEF Consume
  <2>2. a.currentBufferSize \in Nat
    OBVIOUS
  <2> QED
    BY <2>1, <2>2, WriteInAll
<1>3. CASE Reads(a)
  <2>1. c \in WriteIn(b, n)
    BY <1>3 DEF Consume
  <2>2. Len(fromChild[s]) \in Nat
    BY <1>1, LenProperties
  <2>3. Len(SubSeq(fromChild[s], 1, n)) \in Nat
    <3>1. \A i \in 1..n : fromChild[s][i] \in Bytes
      BY <1>1, <2>2, ElementOfSeq
    <3>2. SubSeq(fromChild[s], 1, n) \in Seq(Bytes)
      BY <1>1, <2>2, <3>1, SubSeqProperties
    <3> QED
      BY <3>2, LenProperties
  <2>4. b.currentBufferSize \in Nat /\ ~b.isWriterEOF
    BY <1>1, <2>3 DEF ReadBytes, Adapters
  <2> QED
    BY <2>1, <2>4, WriteInAll
<1> QED
  BY <1>2, <1>3

\* A step of parentProcess() that serves a stream, once more: what its adapters
\* do.
LEMMA ServedHow ==
    ASSUME TypeOK, OutInv, InInv, EndInv, Process
    PROVE  \E p, c : LET r == Head(results) s == r.stream IN
              /\ ProcessStream(r, p, c)
              /\ r.out => p \in Produce(s)
              /\ ~r.out => p.adapter = producer[s]
              /\ r.in => c \in Consume(s)
              /\ ~r.in => c.adapter = consumer[s]
<1> DEFINE r == Head(results)
           s == r.stream
<1>1. PICK p \in IF r.out THEN Produce(s) ELSE {Outcome(producer[s], 0, <<>>, "npos")},
          c \in IF r.in THEN Consume(s) ELSE {Outcome(consumer[s], 0, <<>>, FALSE)} :
             ProcessStream(r, p, c)
  BY DEF Process
<1>2. /\ Outcome(producer[s], 0, <<>>, "npos").adapter = producer[s]
      /\ Outcome(consumer[s], 0, <<>>, FALSE).adapter = consumer[s]
  BY DEF Outcome
<1> QED
  BY <1>1, <1>2

\* The transfer of one stream: a round that has served somebody goes on, and the
\* streams the child writes to stay open.
LEMMA ProcessKeepsEnd ==
    ASSUME IInv, EndInv, Process
    PROVE  EndInv'
<1> USE DEF IInv, EndInv
<1> DEFINE r == Head(results)
           s == r.stream
           n == Len(results)
<1>1. results # <<>> /\ r \in PollResults /\ s \in Streams
  BY ProcessServes
<1>2. PICK p, c :
         /\ ProcessStream(r, p, c)
         /\ r.out => p \in Produce(s)
         /\ ~r.out => p.adapter = producer[s]
         /\ r.in => c \in Consume(s)
         /\ ~r.in => c.adapter = consumer[s]
  BY ServedHow
<1>3. /\ results \in Seq(PollResults) /\ results' = Tail(results)
      /\ UNCHANGED <<kinds, stalls, calm, plan, child, childOpen, pc>>
      /\ pc = "process"
  BY DEF Process, setup, program, TypeOK
<1>4. Streams' = Streams
  BY <1>3 DEF Streams
<1>5. /\ Len(results') = n - 1 /\ n \in Nat \ {0}
      /\ \A i \in 1..(n - 1) : results'[i] = results[i + 1]
      /\ r = results[1] /\ 1 \in 1..n
      /\ \A i \in 1..(n - 1) : i + 1 \in 1..n /\ 1 < i + 1
  BY <1>1, <1>3, HeadTailProperties, LenProperties, EmptySeq
<1>6. /\ r.out \/ r.in
      /\ r.out => Produces(s)
      /\ r.in => Consumes(s)
      /\ s \in open
      /\ r.out \in BOOLEAN /\ r.in \in BOOLEAN
  BY <1>1, <1>3, <1>5 DEF ResultsInv, PollResults
<1> HIDE DEF r, s, n
<1>7. /\ producer' = [producer EXCEPT ![s] = p.adapter]
      /\ consumer' = [consumer EXCEPT ![s] = c.adapter]
      /\ processed' = Processed(r, p, c)
      /\ open' = IF (r.out => p.returns = "npos") /\ (r.in => ~c.returns)
                 THEN open \ {s} ELSE open
  BY <1>2 DEF ProcessStream, s
<1>8. /\ DOMAIN producer = Streams /\ DOMAIN consumer = Streams
      /\ open \subseteq Streams
  BY DEF TypeOK, BytesType
<1>9. calm => ~Finished(s)
  BY <1>1, <1>6 DEF CalmInv
<1>10. /\ calm /\ r.out /\ (p.adapter.isReaderEOF \/ p.adapter.isWriterEOF)
              => p.returns = "npos"
       /\ calm /\ ~stalls /\ r.out => p.returns # "none"
  BY <1>1, <1>2, <1>9, ProduceEnds DEF Finished
<1>11. ASSUME ~stalls
       PROVE  /\ c.adapter.currentBufferSize = 0 /\ ~c.adapter.isWriterEOF
              /\ r.in => c.returns = TRUE
  <2>1. consumer[s].currentBufferSize = 0 /\ ~consumer[s].isWriterEOF
    BY <1>1, <1>11 DEF DrainInv
  <2> QED
    BY <1>1, <1>2, <1>6, <1>11, <2>1, ConsumeTakesAll
<1>12. calm => ~(r.out /\ r.in)
  BY <1>1, <1>6 DEF CalmInv, Produces, Consumes
<1>13. CalmInv'
  <2> SUFFICES ASSUME calm, NEW z \in Streams, Finished(z)' PROVE z \notin open'
    BY <1>3, <1>4 DEF CalmInv
  <2>1. CASE z # s
    BY <1>7, <1>8, <2>1 DEF CalmInv, Finished
  <2>2. CASE z = s
    <3>1. p.adapter.isReaderEOF \/ p.adapter.isWriterEOF
      BY <1>7, <1>8, <2>2 DEF Finished
    <3>2. r.out
      BY <1>2, <1>6, <1>9, <3>1 DEF Finished, s
    <3>3. p.returns = "npos" /\ ~r.in
      BY <1>6, <1>10, <1>12, <3>1, <3>2
    <3> QED
      BY <1>7, <2>2, <3>3
  <2> QED
    BY <2>1, <2>2
<1>14. ResultsInv'
  <2>1. \A i \in 1..(n - 1) : results'[i].stream # s
    <3>1. SUFFICES ASSUME NEW i \in 1..(n - 1) PROVE results[i + 1].stream # s
      BY <1>5
    <3>2. results[1].stream < results[i + 1].stream
      BY <1>5 DEF PipeInv, n
    <3>3. results[1].stream \in Nat /\ results[i + 1].stream \in Nat
      <4>1. results[1] \in PollResults /\ results[i + 1] \in PollResults
        BY <1>3, <1>5, ElementOfSeq DEF n
      <4>2. Streams \subseteq Nat
        BY StreamsFinite DEF TypeOK
      <4> QED
        BY <4>1, <4>2 DEF PollResults
    <3> QED
      BY <1>5, <3>2, <3>3 DEF s
  <2>2. \A z \in open : z # s => z \in open'
    BY <1>7
  <2>4. ASSUME NEW i \in 1..(n - 1)
        PROVE  /\ results'[i].out \/ results'[i].in
               /\ results'[i].out => Produces(results'[i].stream)
               /\ results'[i].in => Consumes(results'[i].stream)
               /\ results'[i].stream \in open'
    <3>1. i + 1 \in 1..Len(results) /\ results'[i] = results[i + 1]
      BY <1>5 DEF n
    <3>2. /\ results[i + 1].out \/ results[i + 1].in
          /\ results[i + 1].out => Produces(results[i + 1].stream)
          /\ results[i + 1].in => Consumes(results[i + 1].stream)
          /\ results[i + 1].stream \in open
      BY <1>3, <3>1 DEF ResultsInv
    <3> QED
      BY <2>1, <2>2, <3>1, <3>2
  <2> QED
    BY <1>3, <1>5, <2>4 DEF ResultsInv, Produces, Consumes
<1>15. DrainInv'
  <2> SUFFICES ASSUME ~stalls PROVE DrainInv'
    BY <1>3 DEF DrainInv
  <2>1. \A z \in Streams : /\ consumer'[z].currentBufferSize = 0
                           /\ ~consumer'[z].isWriterEOF
    BY <1>7, <1>8, <1>11 DEF DrainInv
  <2>2. ASSUME calm, NEW z \in Streams, Consumes(z)' PROVE z \in open'
    <3>1. z \in open
      BY <1>3, <2>2 DEF DrainInv, Consumes
    <3>2. CASE z # s
      BY <1>7, <3>1, <3>2
    <3>3. CASE z = s
      <4>1. ~r.out
        BY <1>3, <1>6, <2>2, <3>3 DEF CalmInv, Produces, Consumes
      <4> QED
        BY <1>6, <1>7, <1>11, <3>1, <4>1
    <3> QED
      BY <3>2, <3>3
  <2>3. calm => processed' = TRUE
    <3> SUFFICES ASSUME calm PROVE processed' = TRUE
      OBVIOUS
    <3>1. CASE r.in
      BY <1>7, <1>11, <3>1 DEF Processed
    <3>2. CASE ~r.in
      BY <1>6, <1>7, <1>10, <3>2 DEF Processed
    <3> QED
      BY <3>1, <3>2
  <2> QED
    BY <1>3, <1>4, <2>1, <2>2, <2>3 DEF DrainInv
<1> QED
  BY <1>13, <1>14, <1>15

\* A child that is calm and runs closes nothing; one that has ended changes
\* nothing any more.
LEMMA ChildKeepsEnd ==
    ASSUME IInv, EndInv, ChildStep
    PROVE  EndInv'
<1> USE DEF IInv, EndInv
<1>1. /\ UNCHANGED <<kinds, stalls, calm, producer, consumer, open, pc, results, processed>>
      /\ Streams' = Streams /\ child = "runs"
  BY ChildStepKinds DEF setup, parent
<1>2. CalmInv'
  <2> SUFFICES ASSUME calm
               PROVE  /\ \A i \in 1..Len(plan') : plan'[i][1] # "close"
                      /\ child' = "runs" => childOpen' = Streams
    BY <1>1 DEF CalmInv, Finished
  <2>0. /\ \A i \in 1..Len(plan) : plan[i][1] # "close"
        /\ childOpen = Streams
    BY <1>1 DEF CalmInv
  <2>1. CASE End
    BY <2>1, EmptySeq DEF End
  <2>2. CASE plan # <<>> /\ plan' = Tail(plan) /\ UNCHANGED <<child, childOpen>>
    <3>1. plan \in Seq(Operations \X Streams)
      BY DEF TypeOK
    <3>2. /\ Len(plan') = Len(plan) - 1 /\ Len(plan) \in Nat
          /\ \A i \in 1..(Len(plan) - 1) : plan'[i] = plan[i + 1]
      BY <2>2, <3>1, HeadTailProperties, LenProperties
    <3> QED
      BY <2>0, <2>2, <3>2
  <2>3. CASE UNCHANGED <<plan, child, childOpen>>
    BY <2>0, <2>3
  <2>4. ~(plan # <<>> /\ plan[1][1] = "close")
    <3>1. plan # <<>> => 1 \in 1..Len(plan)
      BY EmptySeq, LenProperties DEF TypeOK
    <3> QED
      BY <2>0, <3>1
  <2> QED
    BY <2>1, <2>2, <2>3, <2>4 DEF ChildStep, ChildWrite, ChildDrain
<1>3. ResultsInv'
  BY <1>1 DEF ResultsInv, Finished, Produces, Consumes
<1>4. DrainInv'
  <2>1. Drained => \A s \in Streams : ~Consumes(s)
    BY <1>1 DEF Drained
  <2>2. (\A s \in Streams : ~Consumes(s)) => Drained'
    BY <1>1 DEF Drained, Consumes
  <2> QED
    BY <1>1, <2>1, <2>2 DEF DrainInv, Consumes
<1> QED
  BY <1>2, <1>3, <1>4

\* A poll() that reports nothing has found that the child has ended, and nothing
\* to read.
LEMMA PollFindsEnd ==
    ASSUME IInv, EndInv, Poll
    PROVE  EndInv'
<1> USE DEF IInv, EndInv
<1> DEFINE R == {s \in open : CanWrite(s) \/ CanRead(s)}
           ready == InOrder(R)
           n == Cardinality(R)
<1>1. /\ results' = [i \in DOMAIN ready |->
                       [stream |-> ready[i], out |-> CanWrite(ready[i]), in |-> CanRead(ready[i])]]
      /\ pc = "poll" /\ pc' = "process"
      /\ open # {} => \E s \in open : CanWrite(s) \/ CanRead(s) \/ HungUp(s)
      /\ UNCHANGED <<kinds, stalls, calm, plan, child, childOpen, open, fromChild, producer,
                     consumer>>
  BY DEF Poll, setup, program, pipes, adapters
<1>2. R \subseteq Streams /\ R \subseteq Nat /\ IsFiniteSet(R) /\ R \subseteq open
  <2>1. R \subseteq Streams
    BY DEF TypeOK
  <2> QED
    BY <2>1, StreamsFinite, FS_Subset DEF TypeOK
<1>3. n \in Nat /\ ready \in [1..n -> R]
  BY <1>2, InOrderAscends DEF Ascending
<1>4. \A s \in R : s \in open /\ (CanWrite(s) \/ CanRead(s))
  OBVIOUS
<1>5. n = 0 => R = {}
  BY <1>2, FS_EmptySet
<1>6. \A s \in open : s \notin R => ~CanRead(s) /\ ~CanWrite(s)
  OBVIOUS
<1> HIDE DEF R, ready, n
<1>7. results' = [i \in 1..n |->
                    [stream |-> ready[i], out |-> CanWrite(ready[i]), in |-> CanRead(ready[i])]]
  BY <1>1, <1>3
<1>8. Streams' = Streams
  BY <1>1 DEF Streams
<1>9. Len(results') = n /\ (results' = <<>> => n = 0)
  <2>1. results' \in Seq(PollResults)
    BY PollReports
  <2>2. DOMAIN results' = 1..n /\ DOMAIN results' = 1..Len(results')
    BY <1>7, <2>1, LenProperties
  <2>3. Len(results') \in Nat
    BY <2>1, LenProperties
  <2>4. Len(results') = n
    BY <1>3, <2>2, <2>3
  <2> QED
    BY <2>4, EmptySeq
<1>10. CalmInv'
  BY <1>1, <1>8 DEF CalmInv, Finished
<1>11. ResultsInv'
  <2>1. ASSUME NEW i \in 1..n
        PROVE  /\ results'[i].out \/ results'[i].in
               /\ results'[i].out => Produces(results'[i].stream)
               /\ results'[i].in => Consumes(results'[i].stream)
               /\ results'[i].stream \in open'
    <3>1. ready[i] \in R
      BY <1>3
    <3>2. /\ results'[i].stream = ready[i]
          /\ results'[i].out = CanWrite(ready[i]) /\ results'[i].in = CanRead(ready[i])
      BY <1>7
    <3>3. /\ CanWrite(ready[i]) => Produces(ready[i])
          /\ CanRead(ready[i]) => Consumes(ready[i])
      BY DEF CanWrite, CanRead
    <3> QED
      BY <1>1, <1>4, <3>1, <3>2, <3>3
  <2> QED
    BY <1>1, <1>9, <2>1 DEF ResultsInv, Produces, Consumes
<1>12. DrainInv'
  <2> SUFFICES ASSUME ~stalls, calm, results' = <<>> PROVE Drained'
    BY <1>1, <1>8 DEF DrainInv, Consumes
  <2>1. \A s \in open : ~CanRead(s) /\ ~CanWrite(s)
    BY <1>5, <1>6, <1>9
  <2>2. SUFFICES ASSUME NEW s \in Streams, Consumes(s)
                 PROVE  child # "runs" /\ fromChild[s] = <<>>
    BY <1>1, <1>8 DEF Drained, Consumes
  <2>3. s \in open
    BY <1>1, <2>2 DEF DrainInv
  <2>4. fromChild[s] = <<>>
    BY <2>1, <2>2, <2>3 DEF CanRead
  <2>5. PICK z \in open : HungUp(z)
    BY <1>1, <2>1, <2>3
  <2>6. child # "runs"
    BY <2>5 DEF HungUp, CalmInv, TypeOK
  <2> QED
    BY <2>4, <2>6
<1> QED
  BY <1>10, <1>11, <1>12

\* The other steps of execute(), and signals.
LEMMA OthersKeepEnd ==
    ASSUME IInv, EndInv,
           Execute \/ Fork \/ Throw \/ EndRound \/ Waitpid \/ WaitInterrupted \/ ForgetPid
           \/ Return \/ GetHandle \/ Kill
    PROVE  EndInv'
<1> USE DEF IInv, EndInv, Goto, setup, program, pipes, adapters, parent, handles, signaler
<1>1. UNCHANGED <<kinds, stalls, calm, results, producer, consumer, fromChild>>
  BY DEF Execute, Fork, Throw, EndRound, Waitpid, WaitInterrupted, ForgetPid, Return, GetHandle,
         Kill
<1>2. /\ Streams' = Streams
      /\ \A z : (Produces(z) <=> Produces(z)') /\ (Consumes(z) <=> Consumes(z)')
      /\ \A z : Finished(z) <=> Finished(z)'
  BY <1>1 DEF Streams, Produces, Consumes, Finished
<1>3. CalmInv'
  <2>1. CASE Fork
    BY <1>1, <1>2, <2>1 DEF Fork, CalmInv, ResultsInv
  <2>2. CASE Kill
    BY <1>1, <1>2, <2>2, EmptySeq DEF Kill, End, CalmInv
  <2>3. CASE Throw \/ ForgetPid
    BY <1>1, <1>2, <2>3 DEF Throw, ForgetPid, CalmInv
  <2>4. CASE Waitpid
    BY <1>1, <1>2, <2>4 DEF Waitpid, CalmInv
  <2>5. CASE Execute \/ EndRound \/ WaitInterrupted \/ Return \/ GetHandle
    BY <1>1, <1>2, <2>5 DEF Execute, EndRound, WaitInterrupted, Return, GetHandle, CalmInv
  <2> QED
    BY <2>1, <2>2, <2>3, <2>4, <2>5
<1>4. ResultsInv'
  <2>1. pc' = "process" => pc = "process" /\ UNCHANGED open
    BY DEF Execute, Fork, Throw, EndRound, Waitpid, WaitInterrupted, ForgetPid, Return, GetHandle,
           Kill
  <2>2. pc' \in {"execute", "fork"} => pc \in {"execute", "fork"}
    BY DEF Execute, Fork, Throw, EndRound, Waitpid, WaitInterrupted, ForgetPid, Return, GetHandle,
           Kill
  <2>3. /\ \A i \in 1..Len(results) :
              /\ results[i].out \/ results[i].in
              /\ results[i].out => Produces(results[i].stream)
              /\ results[i].in => Consumes(results[i].stream)
              /\ pc' = "process" => results[i].stream \in open'
    BY <2>1 DEF ResultsInv
  <2>4. pc' \in {"execute", "fork"} => \A s \in Streams : ~Finished(s)
    BY <2>2 DEF ResultsInv
  <2> QED
    BY <1>1, <1>2, <2>3, <2>4 DEF ResultsInv
<1>5. DrainInv'
  <2> SUFFICES ASSUME ~stalls PROVE DrainInv'
    BY <1>1 DEF DrainInv
  <2>1. ASSUME calm, pc' \in {"poll", "process", "waitpid"}, NEW s \in Streams, Consumes(s)
        PROVE  s \in open'
    <3>1. \/ open' = Streams
          \/ pc \in {"poll", "process", "waitpid"} /\ UNCHANGED open
      BY <2>1 DEF Execute, Fork, Throw, EndRound, Waitpid, WaitInterrupted, ForgetPid, Return,
                  GetHandle, Kill
    <3> QED
      BY <2>1, <3>1 DEF DrainInv
  <2>2. ASSUME calm,
               \/ pc' \in {"waitpid", "reaped", "returning", "done"}
               \/ pc' = "process" /\ ~processed' /\ results' = <<>>
        PROVE  Drained'
    <3>1. /\ \/ pc \in {"waitpid", "reaped", "returning", "done"}
             \/ pc = "process" /\ ~processed /\ results = <<>>
          /\ child # "runs" => child' # "runs"
      BY <1>1, <2>2 DEF Execute, Fork, Throw, EndRound, Waitpid, WaitInterrupted, ForgetPid, Return,
                  GetHandle, Kill, End
    <3>2. Drained
      BY <2>2, <3>1 DEF DrainInv
    <3> QED
      BY <1>1, <1>2, <3>1, <3>2 DEF Drained
  <2> QED
    BY <1>1, <1>2, <2>1, <2>2 DEF DrainInv
<1> QED
  BY <1>3, <1>4, <1>5

\* Every step keeps it.
LEMMA EndStep == IInv /\ EndInv /\ [Next]_vars => EndInv'
<1> SUFFICES ASSUME IInv, EndInv, [Next]_vars PROVE EndInv'
  OBVIOUS
<1>1. CASE UNCHANGED vars
  <2>1. UNCHANGED <<kinds, stalls, calm, plan, child, childOpen, open, fromChild, producer,
                    consumer, pc, results, processed>>
    BY <1>1 DEF vars, setup, program, pipes, adapters, parent
  <2>2. /\ Streams' = Streams
        /\ \A z : (Produces(z) <=> Produces(z)') /\ (Consumes(z) <=> Consumes(z)')
        /\ \A z : Finished(z) <=> Finished(z)'
    BY <2>1 DEF Streams, Produces, Consumes, Finished
  <2> QED
    BY <2>1, <2>2 DEF EndInv, CalmInv, ResultsInv, DrainInv, Drained
<1>2. CASE Next
  BY <1>2, ProcessKeepsEnd, ChildKeepsEnd, PollFindsEnd, OthersKeepEnd DEF Next, ParentStep
<1> QED
  BY <1>1, <1>2

\* What has been read of a stream and what is in its pipe is all the child has
\* written.
LEMMA DrainedIsDelivered ==
    ASSUME IInv, EndInv, calm, ~stalls, pc \in {"reaped", "returning", "done"}
    PROVE  AllDelivered
<1> SUFFICES ASSUME NEW s \in Streams, Consumes(s)
             PROVE  Len(delivered[s]) = written[s]
  BY DEF AllDelivered
<1>1. fromChild[s] = <<>> /\ consumer[s].currentBufferSize = 0
  BY DEF EndInv, DrainInv, Drained
<1>2. /\ written[s] = taken[s] + Len(fromChild[s])
      /\ taken[s] = Len(delivered[s]) + consumer[s].currentBufferSize
  BY DEF IInv, InInv
<1>3. Len(fromChild[s]) = 0 /\ Len(delivered[s]) \in Nat
  BY <1>1, EmptySeq, LenProperties DEF IInv, TypeOK, BytesType
<1> QED
  BY <1>1, <1>2, <1>3

-----------------------------------------------------------------------------
(* What follows.                                                           *)

\* Every variable keeps its type: no buffer holds more than it is long, no
\* Reader gives more than it has.
THEOREM TypeCorrect == Spec => []TypeOK
<1>1. IInv => TypeOK
  BY DEF IInv
<1> QED
  BY <1>1, Inductive, PTL

\* Whatever the sizes of buffers and pipes, the child and the Writers get the
\* bytes of every stream in their order, none is left out or comes twice, but
\* for those of reads that did not fill a buffer; and when the child has been
\* waited for they have got all it wrote, if nothing stalls and the child closes
\* nothing before its end.
THEOREM StreamsKeepTheirBytes == Spec => []BytesKept
<1>1. IInv /\ EndInv => BytesKept
  <2> SUFFICES ASSUME IInv, EndInv, NEW s \in Streams
               PROVE  /\ Len(received[s]) <= source[s] /\ Len(delivered[s]) <= taken[s]
                      /\ \A i \in DOMAIN received[s] : received[s][i] = i \/ i \in shortOut[s]
                      /\ \A i \in DOMAIN delivered[s] : delivered[s][i] = i \/ i \in shortIn[s]
    BY DrainedIsDelivered DEF BytesKept
  <2>1. /\ received[s] \in Seq(Bytes) /\ delivered[s] \in Seq(Bytes) /\ toChild[s] \in Seq(Bytes)
        /\ producer[s] \in Adapters /\ consumer[s] \in Adapters
    BY DEF IInv, TypeOK, BytesType
  <2>2. /\ DOMAIN received[s] = 1..Len(received[s]) /\ DOMAIN delivered[s] = 1..Len(delivered[s])
        /\ Len(received[s]) \in Nat /\ Len(delivered[s]) \in Nat /\ Len(toChild[s]) \in Nat
        /\ producer[s].currentBufferSize \in Nat /\ consumer[s].currentBufferSize \in Nat
    BY <2>1, LenProperties DEF Adapters
  <2>3. Len(received[s]) <= source[s] /\ Len(delivered[s]) <= taken[s]
    <3>1. source[s] = Len(received[s]) + Len(toChild[s]) + producer[s].currentBufferSize
      BY DEF IInv, OutInv
    <3>2. taken[s] = Len(delivered[s]) + consumer[s].currentBufferSize
      BY DEF IInv, InInv
    <3>3. Len(received[s]) <= source[s]
      <4>1. /\ Len(received[s]) \in Nat /\ Len(toChild[s]) \in Nat
            /\ producer[s].currentBufferSize \in Nat
        BY <2>2
      <4>2. Len(received[s]) <= Len(received[s]) + Len(toChild[s]) + producer[s].currentBufferSize
        <5>1. \A k, l, m \in Nat : k <= k + l + m
          OBVIOUS
        <5> QED
          BY <4>1, <5>1, Zenon
      <4> QED
        BY <3>1, <4>2, Zenon
    <3>4. Len(delivered[s]) <= taken[s]
      BY <2>2, <3>2
    <3> QED
      BY <3>3, <3>4
  <2> QED
    BY <2>2, <2>3 DEF IInv, OutInv, InInv, Arrives
<1> QED
  BY <1>1, EndInit, EndStep, Inductive, PTL DEF Spec

\* A write never finds its pipe full, so none blocks: poll() has reported that a
\* whole buffer fits, a stream is served once in a round, and nobody else
\* writes to its pipe.
WritesFit ==
    /\ \A i \in 1..Len(results) :
          results[i].out => Len(toChild[results[i].stream]) + MaxBufferSize <= PipeSize
    /\ \A s \in Streams : Len(toChild[s]) <= PipeSize

\* Between poll() and the write of the same round a pipe does not fill up.
THEOREM NoWriteBlocks == Spec => []WritesFit
<1>1. IInv => WritesFit
  BY DEF IInv, PipeInv, WritesFit
<1> QED
  BY <1>1, Inductive, PTL

\* getHandle() follows a pointer to a process that is gone only after an
\* exception; execute() forgets the process before it returns.
THEOREM NoDanglingProcess == Spec => []DanglingOnlyAfterThrow
<1>1. IInv => DanglingOnlyAfterThrow
  BY DEF IInv, HandleInv, DanglingOnlyAfterThrow
<1> QED
  BY <1>1, Inductive, PTL
=============================================================================
