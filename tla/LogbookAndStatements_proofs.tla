-------------------- MODULE LogbookAndStatements_proofs --------------------
(***************************************************************************)
(* What TLAPS proves about two components that keep what they are given:   *)
(* Logbook, for every number of threads and all messages, and              *)
(* SQLiteStatements, for every number of prepared statements, result sets  *)
(* and statements of SQLite, and for all values.                           *)
(*                                                                         *)
(* The logbook's invariant LogbookInv says who holds loggerMutex (LockInv),*)
(* whose text is in the common stream (StreamInv) and in the queue         *)
(* (QueueInv), with which location (LocationInv), and where every          *)
(* character is that a writer has given away (KeptInv, AfterInv).  The     *)
(* latter speak of the set of these characters and of the relation that    *)
(* orders them, which steps that move text do not change.  LinesInv says   *)
(* what lines the two appenders show of all that was written.              *)
(*                                                                         *)
(* For the statements there are four invariants, each inductive with the   *)
(* types: who owns a statement (OwnerInv), how long the database lives     *)
(* (DatabaseInv), what a statement is bound to (BoundInv) and what a field *)
(* shows (FieldInv).                                                       *)
(***************************************************************************)
EXTENDS Logbook, SQLiteStatements, SequenceTheorems, FiniteSetTheorems,
        WellFoundedInduction, NaturalsInduction, TLAPS

-----------------------------------------------------------------------------
(* Characters and their order, in pieces of text one after the other.      *)

InText(s) == {s[j] : j \in DOMAIN s}
After(s, i) == {k \in DOMAIN s : i < k}
Pairs(s)  == UNION {{<<s[i], s[j]>> : j \in After(s, i)} : i \in DOMAIN s}

\* Where characters are ...
LEMMA CharacterPlace ==
    ASSUME NEW u, NEW c
    PROVE  c \in Characters(u) <=>
               \E i \in DOMAIN u : \E j \in DOMAIN u[i].text : c = u[i].text[j]
<1>1. ASSUME c \in Characters(u)
      PROVE  \E i \in DOMAIN u : \E j \in DOMAIN u[i].text : c = u[i].text[j]
  <2>1. PICK p \in Places(u) : c = CharAt(u, p)
    BY <1>1 DEF Characters
  <2>2. PICK i \in DOMAIN u : p \in {i} \X DOMAIN u[i].text
    BY DEF Places
  <2> QED
    BY <2>1, <2>2 DEF CharAt
<1>2. ASSUME NEW i \in DOMAIN u, NEW j \in DOMAIN u[i].text, c = u[i].text[j]
      PROVE  c \in Characters(u)
  <2>1. <<i, j>> \in Places(u)
    BY DEF Places
  <2>2. CharAt(u, <<i, j>>) = c
    BY <1>2 DEF CharAt
  <2> QED
    BY <2>1, <2>2 DEF Characters
<1> QED
  BY <1>1, <1>2

Comes(u, c, d, i, j, k, l) ==
    /\ i \in DOMAIN u /\ j \in DOMAIN u[i].text /\ c = u[i].text[j]
    /\ k \in DOMAIN u /\ l \in DOMAIN u[k].text /\ d = u[k].text[l]
    /\ i < k \/ (i = k /\ j < l)

\* ... and which come first.
LEMMA EarlierPlace ==
    ASSUME NEW u, NEW c, NEW d
    PROVE  <<c, d>> \in Earlier(u) <=> \E i, j, k, l : Comes(u, c, d, i, j, k, l)
<1>1. ASSUME <<c, d>> \in Earlier(u) PROVE \E i, j, k, l : Comes(u, c, d, i, j, k, l)
  <2>1. PICK pq \in Places(u) \X Places(u) :
           Before(pq[1], pq[2]) /\ <<c, d>> = <<CharAt(u, pq[1]), CharAt(u, pq[2])>>
    BY <1>1 DEF Earlier
  <2>2. PICK i \in DOMAIN u : pq[1] \in {i} \X DOMAIN u[i].text
    BY DEF Places
  <2>3. PICK k \in DOMAIN u : pq[2] \in {k} \X DOMAIN u[k].text
    BY DEF Places
  <2>4. Comes(u, c, d, i, pq[1][2], k, pq[2][2])
    BY <2>1, <2>2, <2>3 DEF Comes, CharAt, Before
  <2> QED
    BY <2>4
<1>2. ASSUME NEW i, NEW j, NEW k, NEW l, Comes(u, c, d, i, j, k, l)
      PROVE  <<c, d>> \in Earlier(u)
  <2>1. <<i, j>> \in Places(u) /\ <<k, l>> \in Places(u)
    BY <1>2 DEF Places, Comes
  <2>2. Before(<<i, j>>, <<k, l>>) /\ CharAt(u, <<i, j>>) = c /\ CharAt(u, <<k, l>>) = d
    BY <1>2 DEF Before, CharAt, Comes
  <2> DEFINE pq == <<<<i, j>>, <<k, l>>>>
  <2>3. pq \in Places(u) \X Places(u) /\ Before(pq[1], pq[2])
    BY <2>1, <2>2
  <2>4. <<c, d>> = <<CharAt(u, pq[1]), CharAt(u, pq[2])>>
    BY <2>2
  <2> QED
    BY <2>3, <2>4 DEF Earlier
<1> QED
  BY <1>1, <1>2

\* Pairs are of characters that are there.
LEMMA EarlierPairs ==
    ASSUME NEW u
    PROVE  Earlier(u) \subseteq Characters(u) \X Characters(u)
BY DEF Earlier, Characters

\* The same for the places of one text.
LEMMA PairPlace ==
    ASSUME NEW s, NEW c, NEW d
    PROVE  <<c, d>> \in Pairs(s) <=>
               \E i \in DOMAIN s : \E j \in DOMAIN s : i < j /\ c = s[i] /\ d = s[j]
<1>1. ASSUME <<c, d>> \in Pairs(s)
      PROVE  \E i \in DOMAIN s : \E j \in DOMAIN s : i < j /\ c = s[i] /\ d = s[j]
  <2>1. PICK i \in DOMAIN s : <<c, d>> \in {<<s[i], s[j]>> : j \in After(s, i)}
    BY <1>1, Zenon DEF Pairs
  <2>2. PICK j \in After(s, i) : <<c, d>> = <<s[i], s[j]>>
    BY <2>1, Zenon
  <2> QED
    BY <2>2 DEF After
<1>2. ASSUME NEW i \in DOMAIN s, NEW j \in DOMAIN s, i < j
      PROVE  <<s[i], s[j]>> \in Pairs(s)
  <2>1. j \in After(s, i)
    BY <1>2, Zenon DEF After
  <2>2. <<s[i], s[j]>> \in {<<s[i], s[k]>> : k \in After(s, i)}
    BY <2>1, Zenon
  <2> QED
    BY <2>2, Zenon DEF Pairs
<1> QED
  BY <1>1, <1>2, Zenon

\* Pairs are of characters in the text.
LEMMA PairsArePairs == \A s : Pairs(s) \subseteq InText(s) \X InText(s)
BY DEF Pairs, After, InText

\* One piece.
LEMMA OnePiece ==
    ASSUME NEW w
    PROVE  Characters(<<w>>) = InText(w.text) /\ Earlier(<<w>>) = Pairs(w.text)
<1> DEFINE u == <<w>>
<1>1. DOMAIN u = {1} /\ u[1] = w
  OBVIOUS
<1> HIDE DEF u
<1>2. ASSUME NEW c PROVE c \in Characters(u) <=> c \in InText(w.text)
  BY <1>1, CharacterPlace DEF InText
<1>3. ASSUME NEW c, NEW d PROVE <<c, d>> \in Earlier(u) <=> <<c, d>> \in Pairs(w.text)
  <2>1. ASSUME <<c, d>> \in Earlier(u) PROVE <<c, d>> \in Pairs(w.text)
    <3>1. PICK i, j, k, l : Comes(u, c, d, i, j, k, l)
      BY <2>1, EarlierPlace
    <3>2. i = 1 /\ k = 1
      BY <1>1, <3>1 DEF Comes
    <3>3. ~(1 < 1)
      OBVIOUS
    <3>4. j \in DOMAIN w.text /\ l \in DOMAIN w.text /\ j < l /\ c = w.text[j] /\ d = w.text[l]
      BY <1>1, <3>1, <3>2, <3>3, Zenon DEF Comes
    <3> QED
      BY <3>4, PairPlace, Zenon
  <2>2. ASSUME <<c, d>> \in Pairs(w.text) PROVE <<c, d>> \in Earlier(u)
    <3>1. PICK i \in DOMAIN w.text : \E j \in DOMAIN w.text : i < j /\ c = w.text[i] /\ d = w.text[j]
      BY <2>2, PairPlace
    <3>2. PICK j \in DOMAIN w.text : i < j /\ c = w.text[i] /\ d = w.text[j]
      BY <3>1, Zenon
    <3>3. Comes(u, c, d, 1, i, 1, j)
      BY <1>1, <3>2, Zenon DEF Comes
    <3> QED
      BY <3>3, EarlierPlace
  <2> QED
    BY <2>1, <2>2
<1>4. \A pair \in Earlier(u) : pair = <<pair[1], pair[2]>>
  BY EarlierPairs
<1>5. \A pair \in Pairs(w.text) : pair = <<pair[1], pair[2]>>
  BY PairsArePairs
<1> QED
  BY <1>2, <1>3, <1>4, <1>5 DEF u

\* A text that gets one more character.
LEMMA TextAppended ==
    ASSUME NEW S, NEW s \in Seq(S), NEW c \in S
    PROVE  /\ InText(Append(s, c)) = InText(s) \union {c}
           /\ Pairs(Append(s, c)) = Pairs(s) \union InText(s) \X {c}
<1> DEFINE t == Append(s, c)
           n == Len(s)
<1>1. n \in Nat /\ DOMAIN s = 1..n /\ DOMAIN t = 1..(n + 1)
      /\ t[n + 1] = c /\ \A i \in 1..n : t[i] = s[i]
  OBVIOUS
<1> HIDE DEF t, n
<1>2. InText(t) = InText(s) \union {c}
  BY <1>1 DEF InText
<1>3. ASSUME NEW a, NEW b
      PROVE  <<a, b>> \in Pairs(t) <=> <<a, b>> \in Pairs(s) \union InText(s) \X {c}
  <2>1. ASSUME <<a, b>> \in Pairs(t) PROVE <<a, b>> \in Pairs(s) \union InText(s) \X {c}
    <3>1. PICK i \in 1..(n + 1), j \in 1..(n + 1) : i < j /\ a = t[i] /\ b = t[j]
      BY <2>1, <1>1, PairPlace
    <3>2. i \in 1..n /\ (j \in 1..n \/ j = n + 1)
      BY <3>1, <1>1
    <3>3. CASE j \in 1..n
      BY <1>1, <3>1, <3>2, <3>3, PairPlace
    <3>4. CASE j = n + 1
      BY <1>1, <3>1, <3>2, <3>4 DEF InText
    <3> QED
      BY <3>2, <3>3, <3>4
  <2>2. ASSUME <<a, b>> \in Pairs(s) PROVE <<a, b>> \in Pairs(t)
    <3>1. PICK i \in 1..n, j \in 1..n : i < j /\ a = s[i] /\ b = s[j]
      BY <2>2, <1>1, PairPlace
    <3>2. i \in DOMAIN t /\ j \in DOMAIN t /\ a = t[i] /\ b = t[j]
      BY <3>1, <1>1
    <3> QED
      BY <3>1, <3>2, PairPlace
  <2>3. ASSUME a \in InText(s), b = c PROVE <<a, b>> \in Pairs(t)
    <3>1. PICK i \in 1..n : a = s[i]
      BY <2>3, <1>1 DEF InText
    <3>2. i \in DOMAIN t /\ n + 1 \in DOMAIN t /\ i < n + 1 /\ a = t[i] /\ b = t[n + 1]
      BY <2>3, <3>1, <1>1
    <3> QED
      BY <3>2, PairPlace
  <2> QED
    BY <2>1, <2>2, <2>3
<1>4. \A pair \in Pairs(t) \union Pairs(s) : pair = <<pair[1], pair[2]>>
  BY PairsArePairs
<1> QED
  BY <1>2, <1>3, <1>4 DEF t

\* Two sequences of pieces, one after the other.
LEMMA PiecesJoined ==
    ASSUME NEW S, NEW u \in Seq(S), NEW v \in Seq(S)
    PROVE  /\ Characters(u \o v) = Characters(u) \union Characters(v)
           /\ Earlier(u \o v)
                = Earlier(u) \union Earlier(v) \union Characters(u) \X Characters(v)
<1> DEFINE w == u \o v
           m == Len(u)
           n == Len(v)
<1>1. /\ m \in Nat /\ n \in Nat /\ DOMAIN u = 1..m /\ DOMAIN v = 1..n
      /\ DOMAIN w = 1..(m + n)
      /\ \A i \in 1..m : w[i] = u[i]
      /\ \A i \in 1..n : w[m + i] = v[i]
  BY ConcatProperties
<1> HIDE DEF w, m, n
<1>2. \A i \in 1..(m + n) : i \in 1..m \/ \E k \in 1..n : i = m + k
  <2> TAKE i \in 1..(m + n)
  <2>1. i \notin 1..m => i - m \in 1..n /\ i = m + (i - m)
    BY <1>1
  <2> QED
    BY <2>1
<1>3. (\A i \in 1..m : i \in 1..(m + n)) /\ (\A i \in 1..n : m + i \in 1..(m + n))
  BY <1>1
<1>4. ASSUME NEW c PROVE c \in Characters(w) <=> c \in Characters(u) \union Characters(v)
  <2>1. ASSUME c \in Characters(w) PROVE c \in Characters(u) \union Characters(v)
    <3>1. PICK i \in DOMAIN w : \E j \in DOMAIN w[i].text : c = w[i].text[j]
      BY <2>1, CharacterPlace
    <3>2. CASE i \in 1..m
      BY <1>1, <3>1, <3>2, CharacterPlace
    <3>3. ASSUME NEW k \in 1..n, i = m + k PROVE c \in Characters(v)
      <4>1. k \in DOMAIN v /\ w[i] = v[k]
        BY <1>1, <3>3
      <4>2. \E j \in DOMAIN v[k].text : c = v[k].text[j]
        BY <3>1, <4>1, Zenon
      <4> QED
        BY <4>1, <4>2, CharacterPlace, Zenon
    <3> QED
      BY <1>1, <1>2, <3>2, <3>3
  <2>2. ASSUME c \in Characters(u) PROVE c \in Characters(w)
    <3>1. PICK i \in 1..m : \E j \in DOMAIN u[i].text : c = u[i].text[j]
      BY <1>1, <2>2, CharacterPlace
    <3>2. i \in DOMAIN w /\ w[i] = u[i]
      BY <1>1, <1>3
    <3> QED
      BY <3>1, <3>2, CharacterPlace
  <2>3. ASSUME c \in Characters(v) PROVE c \in Characters(w)
    <3>1. PICK i \in 1..n : \E j \in DOMAIN v[i].text : c = v[i].text[j]
      BY <1>1, <2>3, CharacterPlace
    <3>2. m + i \in DOMAIN w /\ w[m + i] = v[i]
      BY <1>1, <1>3
    <3> QED
      BY <3>1, <3>2, CharacterPlace
  <2> QED
    BY <2>1, <2>2, <2>3
<1>5. ASSUME NEW c, NEW d
      PROVE  <<c, d>> \in Earlier(w) <=>
                 <<c, d>> \in Earlier(u) \union Earlier(v) \union Characters(u) \X Characters(v)
  <2>1. ASSUME <<c, d>> \in Earlier(w)
        PROVE  <<c, d>> \in Earlier(u) \union Earlier(v) \union Characters(u) \X Characters(v)
    <3>1. PICK i, j, k, l : Comes(w, c, d, i, j, k, l)
      BY <2>1, EarlierPlace
    <3>2. /\ i \in 1..(m + n) /\ j \in DOMAIN w[i].text /\ c = w[i].text[j]
          /\ k \in 1..(m + n) /\ l \in DOMAIN w[k].text /\ d = w[k].text[l]
          /\ i < k \/ (i = k /\ j < l)
      BY <3>1, <1>1, Zenon DEF Comes
    <3>3. CASE i \in 1..m /\ k \in 1..m
      <4>1. w[i] = u[i] /\ w[k] = u[k] /\ i \in DOMAIN u /\ k \in DOMAIN u
        BY <1>1, <3>3
      <4>2. Comes(u, c, d, i, j, k, l)
        BY <3>2, <4>1, Zenon DEF Comes
      <4> QED
        BY <4>2, EarlierPlace
    <3>4. ASSUME i \in 1..m, NEW b \in 1..n, k = m + b
          PROVE  <<c, d>> \in Characters(u) \X Characters(v)
      <4>1. w[i] = u[i] /\ w[k] = v[b] /\ i \in DOMAIN u /\ b \in DOMAIN v
        BY <1>1, <3>4
      <4>2. c \in Characters(u) /\ d \in Characters(v)
        BY <3>2, <4>1, CharacterPlace
      <4> QED
        BY <4>2
    <3>5. ASSUME NEW a \in 1..n, i = m + a, NEW b \in 1..n, k = m + b
          PROVE  <<c, d>> \in Earlier(v)
      <4>1. w[i] = v[a] /\ w[k] = v[b] /\ a \in DOMAIN v /\ b \in DOMAIN v
        BY <1>1, <3>5
      <4>2. (i < k => a < b) /\ (i = k => a = b)
        BY <1>1, <3>5
      <4>3. Comes(v, c, d, a, j, b, l)
        BY <3>2, <4>1, <4>2, Zenon DEF Comes
      <4> QED
        BY <4>3, EarlierPlace
    <3>6. ASSUME NEW a \in 1..n, i = m + a, k \in 1..m PROVE FALSE
      BY <1>1, <3>2, <3>6
    <3> QED
      BY <1>2, <3>2, <3>3, <3>4, <3>5, <3>6
  <2>2. ASSUME <<c, d>> \in Earlier(u) PROVE <<c, d>> \in Earlier(w)
    <3>1. PICK i, j, k, l : Comes(u, c, d, i, j, k, l)
      BY <2>2, EarlierPlace
    <3>2. i \in 1..m /\ k \in 1..m
      BY <3>1, <1>1 DEF Comes
    <3>3. i \in DOMAIN w /\ k \in DOMAIN w /\ w[i] = u[i] /\ w[k] = u[k]
      BY <3>2, <1>1, <1>3
    <3>4. Comes(w, c, d, i, j, k, l)
      BY <3>1, <3>3, Zenon DEF Comes
    <3> QED
      BY <3>4, EarlierPlace
  <2>3. ASSUME <<c, d>> \in Earlier(v) PROVE <<c, d>> \in Earlier(w)
    <3>1. PICK i, j, k, l : Comes(v, c, d, i, j, k, l)
      BY <2>3, EarlierPlace
    <3>2. i \in 1..n /\ k \in 1..n
      BY <3>1, <1>1 DEF Comes
    <3>3. m + i \in DOMAIN w /\ m + k \in DOMAIN w /\ w[m + i] = v[i] /\ w[m + k] = v[k]
      BY <3>2, <1>1, <1>3
    <3>4. (i < k => m + i < m + k) /\ (i = k => m + i = m + k)
      BY <3>2, <1>1
    <3>5. Comes(w, c, d, m + i, j, m + k, l)
      BY <3>1, <3>3, <3>4, Zenon DEF Comes
    <3> QED
      BY <3>5, EarlierPlace
  <2>4. ASSUME c \in Characters(u), d \in Characters(v) PROVE <<c, d>> \in Earlier(w)
    <3>1. PICK i \in 1..m : \E j \in DOMAIN u[i].text : c = u[i].text[j]
      BY <1>1, <2>4, CharacterPlace
    <3>2. PICK k \in 1..n : \E l \in DOMAIN v[k].text : d = v[k].text[l]
      BY <1>1, <2>4, CharacterPlace
    <3>3. PICK j \in DOMAIN u[i].text : c = u[i].text[j]
      BY <3>1
    <3>4. PICK l \in DOMAIN v[k].text : d = v[k].text[l]
      BY <3>2
    <3>5. /\ i \in DOMAIN w /\ m + k \in DOMAIN w /\ w[i] = u[i] /\ w[m + k] = v[k]
          /\ i < m + k
      BY <1>1, <1>3
    <3>6. Comes(w, c, d, i, j, m + k, l)
      BY <3>3, <3>4, <3>5, Zenon DEF Comes
    <3> QED
      BY <3>6, EarlierPlace
  <2> QED
    BY <2>1, <2>2, <2>3, <2>4
<1>6. /\ \A pair \in Earlier(w) : pair = <<pair[1], pair[2]>>
      /\ \A pair \in Earlier(u) \union Earlier(v) : pair = <<pair[1], pair[2]>>
  BY EarlierPairs
<1> QED
  BY <1>4, <1>5, <1>6 DEF w

\* All that has left the writers: what the appenders have (w), then what is in
\* the stream (s), then what is in the queue (u).
AllOf(w, s, u)   == Characters(w) \union InText(s) \union Characters(u)
OrderOf(w, s, u) ==
    Earlier(w) \union Pairs(s) \union Earlier(u) \union Characters(w) \X InText(s)
      \union Characters(w) \X Characters(u) \union InText(s) \X Characters(u)

\* The characters of the pieces are those of the three places.
LEMMA AllPieces ==
    ASSUME NEW S, NEW w \in Seq(S), NEW u \in Seq(S), NEW location, NEW s,
           [location |-> location, text |-> s] \in S
    PROVE  LET pieces == w \o <<[location |-> location, text |-> s]>> \o u IN
           Characters(pieces) = AllOf(w, s, u) /\ Earlier(pieces) = OrderOf(w, s, u)
<1> DEFINE piece == [location |-> location, text |-> s]
           one == <<piece>>
           head == w \o one
           all == head \o u
<1>1. one \in Seq(S) /\ head \in Seq(S)
  <2>1. one \in Seq(S)
    OBVIOUS
  <2> HIDE DEF one
  <2> QED
    BY <2>1
<1>2. Characters(one) = InText(s) /\ Earlier(one) = Pairs(s)
  <2>1. piece.text = s
    OBVIOUS
  <2> HIDE DEF piece
  <2> QED
    BY <2>1, OnePiece
<1> HIDE DEF one, head
<1>3. /\ Characters(head) = Characters(w) \union Characters(one)
      /\ Earlier(head) = Earlier(w) \union Earlier(one) \union Characters(w) \X Characters(one)
  BY <1>1, PiecesJoined DEF head
<1>4. /\ Characters(all) = Characters(head) \union Characters(u)
      /\ Earlier(all) = Earlier(head) \union Earlier(u) \union Characters(head) \X Characters(u)
  BY <1>1, PiecesJoined
<1>5. \A A, B, C : (A \union B) \X C = (A \X C) \union (B \X C)
  OBVIOUS
<1> HIDE DEF all
<1>6. Characters(all) = AllOf(w, s, u) /\ Earlier(all) = OrderOf(w, s, u)
  BY <1>2, <1>3, <1>4, <1>5 DEF AllOf, OrderOf
<1> QED
  BY <1>6 DEF all, head, one

\* No text, no pieces.
LEMMA NothingThere ==
    /\ InText(<<>>) = {} /\ Pairs(<<>>) = {}
    /\ Characters(<<>>) = {} /\ Earlier(<<>>) = {}
<1>1. DOMAIN <<>> = {}
  OBVIOUS
<1>2. InText(<<>>) = {} /\ Pairs(<<>>) = {}
  BY <1>1 DEF InText, Pairs
<1>3. Places(<<>>) = {}
  BY <1>1 DEF Places
<1>4. Characters(<<>>) = {}
  BY <1>3 DEF Characters
<1>5. Earlier(<<>>) = {}
  BY <1>4, EarlierPairs
<1> QED
  BY <1>2, <1>4, <1>5

\* Products distribute over unions.
LEMMA Products ==
    /\ \A A, B, C : A \X (B \union C) = (A \X B) \union (A \X C)
    /\ \A A, B, C : (A \union B) \X C = (A \X C) \union (B \X C)
    /\ \A A : {} \X A = {} /\ A \X {} = {}
OBVIOUS

\* The text of the stream is written, ...
LEMMA TextWritten ==
    ASSUME NEW S, NEW w \in Seq(S), NEW u, NEW s, NEW location,
           [location |-> location, text |-> s] \in S
    PROVE  LET v == w \o <<[location |-> location, text |-> s]>> IN
           AllOf(v, <<>>, u) = AllOf(w, s, u) /\ OrderOf(v, <<>>, u) = OrderOf(w, s, u)
<1> DEFINE v == w \o <<[location |-> location, text |-> s]>>
           e == <<>>
<1>1. v \o e = v
  <2>1. v \in Seq(S)
    <3>1. <<[location |-> location, text |-> s]>> \in Seq(S)
      OBVIOUS
    <3> QED
      BY <3>1, ConcatProperties
  <2> HIDE DEF v
  <2> QED
    BY <2>1
<1>2. e \in Seq(S) /\ Characters(e) = {} /\ Earlier(e) = {} /\ InText(e) = {} /\ Pairs(e) = {}
  BY NothingThere
<1> HIDE DEF e
<1>3. Characters(v) = AllOf(w, s, e) /\ Earlier(v) = OrderOf(w, s, e)
  <2>1. Characters(v \o e) = AllOf(w, s, e) /\ Earlier(v \o e) = OrderOf(w, s, e)
    BY <1>2, AllPieces
  <2> HIDE DEF v
  <2> QED
    BY <1>1, <2>1
<1> HIDE DEF v
<1>4. AllOf(v, e, u) = AllOf(w, s, u) /\ OrderOf(v, e, u) = OrderOf(w, s, u)
  BY <1>2, <1>3, Products DEF AllOf, OrderOf
<1> QED
  BY <1>4 DEF v, e

\* ... it gets one more character, ...
LEMMA CharacterPut ==
    ASSUME NEW S, NEW s \in Seq(S), NEW c \in S, NEW w, NEW u
    PROVE  LET more == Append(s, c) IN
           /\ AllOf(w, more, u) = AllOf(w, s, u) \union {c}
           /\ OrderOf(w, more, u) = OrderOf(w, s, u)
                \union (Characters(w) \union InText(s)) \X {c} \union {c} \X Characters(u)
<1> DEFINE more == Append(s, c)
<1>1. InText(more) = InText(s) \union {c} /\ Pairs(more) = Pairs(s) \union InText(s) \X {c}
  BY TextAppended
<1> HIDE DEF more
<1>2. /\ AllOf(w, more, u) = AllOf(w, s, u) \union {c}
      /\ OrderOf(w, more, u) = OrderOf(w, s, u)
           \union (Characters(w) \union InText(s)) \X {c} \union {c} \X Characters(u)
  BY <1>1, Products DEF AllOf, OrderOf
<1> QED
  BY <1>2 DEF more

\* ... the queue is written, ...
LEMMA QueueWritten ==
    ASSUME NEW S, NEW w \in Seq(S), NEW u \in Seq(S)
    PROVE  /\ AllOf(w \o u, <<>>, <<>>) = AllOf(w, <<>>, u)
           /\ OrderOf(w \o u, <<>>, <<>>) = OrderOf(w, <<>>, u)
<1> DEFINE v == w \o u
           e == <<>>
<1>1. /\ Characters(v) = Characters(w) \union Characters(u)
      /\ Earlier(v) = Earlier(w) \union Earlier(u) \union Characters(w) \X Characters(u)
  BY PiecesJoined
<1>2. Characters(e) = {} /\ Earlier(e) = {} /\ InText(e) = {} /\ Pairs(e) = {}
  BY NothingThere
<1> HIDE DEF v, e
<1>3. AllOf(v, e, e) = AllOf(w, e, u) /\ OrderOf(v, e, e) = OrderOf(w, e, u)
  BY <1>1, <1>2, Products DEF AllOf, OrderOf
<1> QED
  BY <1>3 DEF v, e

\* ... and a text is queued.
LEMMA TextQueued ==
    ASSUME NEW S, NEW u \in Seq(S), NEW q \in S, NEW w, NEW s
    PROVE  LET v == Append(u, q) IN
           /\ AllOf(w, s, v) = AllOf(w, s, u) \union InText(q.text)
           /\ OrderOf(w, s, v) = OrderOf(w, s, u)
                \union Pairs(q.text) \union AllOf(w, s, u) \X InText(q.text)
<1> DEFINE one == <<q>>
           v == Append(u, q)
<1>1. v = u \o one /\ one \in Seq(S)
  <2>1. one \in Seq(S)
    OBVIOUS
  <2> QED
    BY <2>1
<1>2. Characters(one) = InText(q.text) /\ Earlier(one) = Pairs(q.text)
  BY OnePiece
<1> HIDE DEF one
<1>3. /\ Characters(v) = Characters(u) \union Characters(one)
      /\ Earlier(v) = Earlier(u) \union Earlier(one) \union Characters(u) \X Characters(one)
  BY <1>1, PiecesJoined
<1> HIDE DEF v
<1>4. /\ AllOf(w, s, v) = AllOf(w, s, u) \union InText(q.text)
      /\ OrderOf(w, s, v) = OrderOf(w, s, u)
           \union Pairs(q.text) \union AllOf(w, s, u) \X InText(q.text)
  BY <1>2, <1>3, Products DEF AllOf, OrderOf
<1> QED
  BY <1>4 DEF v
-----------------------------------------------------------------------------
Writers   == [message : Messages, isOwner : BOOLEAN, put : Nat, enabled : BOOLEAN]
Chars     == UNION {{Char(m, i) : i \in 1..Len(Text[m])} : m \in Messages}
Locations == [of : Messages \union {Silent}, enabled : BOOLEAN]
Written   == [location : Locations, text : Seq(Chars)]

\* The top of a stack is complete when its writer is destroyed.
LogbookTypeOK ==
    /\ isUnblocked \in BOOLEAN /\ level \in Nat
    /\ owner \in Threads \union {NoOne} /\ locks \in Nat
    /\ currentLocation \in Locations
    /\ streamBuffer \in Seq(Chars)
    /\ unblockedBuffer \in Seq(Written) /\ writes \in Seq(Written)
    /\ stack \in [Threads -> Seq(Writers)]
    /\ pc \in [Threads -> {"put", "push", "try", "flush", "unlock"}]
    /\ created = [m \in DOMAIN created |-> created[m]] /\ DOMAIN created \subseteq Messages
    /\ disturbed \subseteq Messages /\ stranded \in BOOLEAN

\* A message has one writer, which its thread created.
WriterAt(t, i) ==
    LET w == stack[t][i] IN
    /\ w.message \in DOMAIN created
    /\ created[w.message].thread = t /\ created[w.message].isOwner = w.isOwner
    /\ \A j \in DOMAIN stack[t] : stack[t][j].message = w.message => j = i
    /\ w.put <= Len(Text[w.message])
    /\ i = Len(stack[t]) /\ pc[t] # "put" => w.put = Len(Text[w.message])

WriterInv == \A t \in Threads : \A i \in DOMAIN stack[t] : WriterAt(t, i)

\* The first k writers of t are no owners, the others lock loggerMutex; so does
\* a thread that flushes the queue for others.
Holds(t, k) ==
    /\ \A i \in DOMAIN stack[t] : stack[t][i].isOwner <=> i > k
    /\ pc[t] # "put" => stack[t] # <<>>
    /\ pc[t] \in {"push", "try"} => k = Len(stack[t])
    /\ owner = t => \/ k < Len(stack[t]) /\ locks = Len(stack[t]) - k
                    \/ k = Len(stack[t]) /\ locks = 1 /\ pc[t] \in {"flush", "unlock"}
    /\ owner # t => k = Len(stack[t]) /\ pc[t] \notin {"flush", "unlock"}

LockInv ==
    /\ \A t \in Threads : \E k \in 0..Len(stack[t]) : Holds(t, k)
    /\ owner = NoOne => locks = 0

\* What is in the common stream belongs to messages of the owner, and nothing
\* is there when a writer has been flushed.
StreamInv ==
    \A j \in DOMAIN streamBuffer :
        /\ owner # NoOne /\ pc[owner] = "put"
        /\ streamBuffer[j].of \in Owned(owner)
        /\ streamBuffer[j].of \in disturbed \/ streamBuffer[j].of = currentLocation.of

\* The queue has texts of messages that are no owners', with their locations.
QueueInv ==
    \A i \in DOMAIN unblockedBuffer : LET q == unblockedBuffer[i] IN
        /\ q.location.of \in DOMAIN created /\ ~created[q.location.of].isOwner
        /\ \A j \in DOMAIN q.text : q.text[j].of = q.location.of

\* Of an owner's messages the last one alone may be undisturbed, and it is
\* written with its location.
LocationInv ==
    \A t \in Threads : \A i \in DOMAIN stack[t] : LET w == stack[t][i] IN
        w.isOwner /\ w.message \notin disturbed =>
            i = Len(stack[t]) /\ (pc[t] = "put" => currentLocation.of = w.message)

\* All characters that have left their writers, and which come first.
Away      == AllOf(writes, streamBuffer, unblockedBuffer)
AwayOrder == OrderOf(writes, streamBuffer, unblockedBuffer)
Seen(m)   == {c.at : c \in {d \in Away : d.of = m}}

\* A message is there as far as its writer has given it away.
KeptInv ==
    /\ \A c \in Away : c.of \in DOMAIN created
    /\ \A pair \in AwayOrder : pair[1].of = pair[2].of => pair[1].at < pair[2].at
    /\ \A t \in Threads : \A i \in DOMAIN stack[t] : Seen(stack[t][i].message) = 1..Given(t, i)
    /\ \A m \in DOMAIN created :
          (\A t \in Threads : m \notin OpenBy(t)) => Seen(m) = 1..Len(Text[m])

\* Messages that a thread had completed come before, but for a queued one and
\* an owner's.
AfterInv ==
    \A m \in DOMAIN created : \A n \in created[m].after :
        /\ n \in DOMAIN created /\ \A t \in Threads : n \notin OpenBy(t)
        /\ created[n].isOwner \/ ~created[m].isOwner =>
              \A c, d \in Away : c.of = n /\ d.of = m => <<c, d>> \in AwayOrder

LogbookInv ==
    /\ LogbookTypeOK /\ WriterInv /\ LockInv /\ QueueHasFlusher
    /\ StreamInv /\ QueueInv /\ LocationInv /\ RightLocation
    /\ KeptInv /\ AfterInv

-----------------------------------------------------------------------------
(* Stacks of writers.                                                      *)

\* The top of a stack.
LEMMA TopOfStack ==
    ASSUME LogbookTypeOK, NEW t \in Threads, stack[t] # <<>>
    PROVE  LET n == Len(stack[t]) IN
           /\ n \in Nat \ {0} /\ Top(t) = stack[t][n] /\ Top(t) \in Writers
           /\ DOMAIN stack[t] = 1..n /\ n \in DOMAIN stack[t]
<1>1. stack[t] \in Seq(Writers)
  BY DEF LogbookTypeOK
<1> QED
  BY <1>1 DEF Top, Last

\* The positions in a stack.
LEMMA StackDomain ==
    ASSUME LogbookTypeOK, NEW t \in Threads
    PROVE  /\ stack[t] \in Seq(Writers) /\ Len(stack[t]) \in Nat
           /\ DOMAIN stack[t] = 1..Len(stack[t])
           /\ \A i \in DOMAIN stack[t] : stack[t][i] \in Writers
<1>1. stack[t] \in Seq(Writers)
  BY DEF LogbookTypeOK
<1> QED
  BY <1>1

\* A sequence without its last element.
LEMMA FrontOf ==
    ASSUME NEW S, NEW s \in Seq(S), s # <<>>
    PROVE  /\ Len(s) \in Nat \ {0} /\ Front(s) \in Seq(S) /\ Len(Front(s)) = Len(s) - 1
           /\ DOMAIN Front(s) = 1..(Len(s) - 1)
           /\ \A i \in 1..(Len(s) - 1) : Front(s)[i] = s[i]
<1> DEFINE n == Len(s) - 1
<1>1. Len(s) \in Nat \ {0} /\ \A i \in 1..Len(s) : s[i] \in S
  OBVIOUS
<1>2. n \in Nat /\ (\A i \in 1..n : i \in 1..Len(s)) /\ 1 \in Int /\ n \in Int
  BY <1>1
<1>3. Front(s) = SubSeq(s, 1, n)
  BY DEF Front
<1> HIDE DEF n
<1>4. /\ SubSeq(s, 1, n) \in Seq(S)
      /\ Len(SubSeq(s, 1, n)) = IF 1 <= n THEN n - 1 + 1 ELSE 0
      /\ \A i \in 1..(n - 1 + 1) : SubSeq(s, 1, n)[i] = s[1 + i - 1]
  BY <1>1, <1>2, SubSeqProperties
<1>5. n - 1 + 1 = n /\ (IF 1 <= n THEN n - 1 + 1 ELSE 0) = n /\ \A i \in 1..n : 1 + i - 1 = i
  BY <1>2
<1>6. Front(s) \in Seq(S) /\ Len(Front(s)) = n /\ \A i \in 1..n : Front(s)[i] = s[i]
  BY <1>3, <1>4, <1>5
<1>7. DOMAIN Front(s) = 1..n
  BY <1>6
<1> QED
  BY <1>1, <1>6, <1>7 DEF n

\* A writer is put on it ...
LEMMA Pushed ==
    ASSUME LogbookTypeOK, NEW t \in Threads, NEW w \in Writers,
           stack' = [stack EXCEPT ![t] = Append(@, w)]
    PROVE  LET n == Len(stack[t]) IN
           /\ stack' \in [Threads -> Seq(Writers)]
           /\ \A o \in Threads \ {t} : stack'[o] = stack[o]
           /\ Len(stack'[t]) = n + 1 /\ DOMAIN stack'[t] = 1..(n + 1)
           /\ stack'[t] # <<>>
           /\ stack'[t][n + 1] = w /\ \A i \in 1..n : stack'[t][i] = stack[t][i]
<1> DEFINE s == stack[t]
<1>1. s \in Seq(Writers) /\ stack \in [Threads -> Seq(Writers)]
  BY DEF LogbookTypeOK
<1>2. Append(s, w) \in Seq(Writers)
  BY <1>1
<1>3. /\ stack' \in [Threads -> Seq(Writers)] /\ stack'[t] = Append(s, w)
      /\ \A o \in Threads \ {t} : stack'[o] = stack[o]
  BY <1>1, <1>2
<1>4. LET n == Len(s) IN
      /\ Len(Append(s, w)) = n + 1 /\ DOMAIN Append(s, w) = 1..(n + 1)
      /\ Append(s, w) # <<>>
      /\ Append(s, w)[n + 1] = w /\ \A i \in 1..n : Append(s, w)[i] = s[i]
  <2> HIDE DEF s
  <2> QED
    BY <1>1
<1> QED
  BY <1>3, <1>4

\* ... or taken from it ...
LEMMA Popped ==
    ASSUME LogbookTypeOK, NEW t \in Threads, stack[t] # <<>>,
           stack' = [stack EXCEPT ![t] = Front(@)]
    PROVE  LET n == Len(stack[t]) IN
           /\ stack' \in [Threads -> Seq(Writers)]
           /\ \A o \in Threads \ {t} : stack'[o] = stack[o]
           /\ Len(stack'[t]) = n - 1 /\ DOMAIN stack'[t] = 1..(n - 1)
           /\ \A i \in 1..(n - 1) : stack'[t][i] = stack[t][i]
<1> DEFINE s == stack[t]
<1>1. s \in Seq(Writers) /\ s # <<>> /\ stack \in [Threads -> Seq(Writers)]
  BY DEF LogbookTypeOK
<1>2. LET n == Len(s) IN
      /\ Front(s) \in Seq(Writers) /\ Len(Front(s)) = n - 1 /\ DOMAIN Front(s) = 1..(n - 1)
      /\ \A i \in 1..(n - 1) : Front(s)[i] = s[i]
  <2> HIDE DEF s
  <2> QED
    BY <1>1, FrontOf
<1>3. /\ stack' \in [Threads -> Seq(Writers)] /\ stack'[t] = Front(s)
      /\ \A o \in Threads \ {t} : stack'[o] = stack[o]
  <2> HIDE DEF s
  <2> QED
    BY <1>1, <1>2 DEF s
<1> QED
  BY <1>2, <1>3

\* ... or changes.
LEMMA Replaced ==
    ASSUME LogbookTypeOK, NEW t \in Threads, stack[t] # <<>>, NEW w \in Writers,
           stack' = [stack EXCEPT ![t] = Append(Front(@), w)]
    PROVE  LET n == Len(stack[t]) IN
           /\ stack' \in [Threads -> Seq(Writers)]
           /\ \A o \in Threads \ {t} : stack'[o] = stack[o]
           /\ Len(stack'[t]) = n /\ DOMAIN stack'[t] = 1..n /\ stack'[t] # <<>>
           /\ stack'[t][n] = w /\ \A i \in 1..(n - 1) : stack'[t][i] = stack[t][i]
<1> DEFINE s == stack[t]
           f == Front(s)
<1>1. s \in Seq(Writers) /\ s # <<>> /\ stack \in [Threads -> Seq(Writers)]
  BY DEF LogbookTypeOK
<1>2. LET n == Len(s) IN
      /\ n \in Nat \ {0}
      /\ f \in Seq(Writers) /\ Len(f) = n - 1 /\ \A i \in 1..(n - 1) : f[i] = s[i]
  <2> HIDE DEF s
  <2> QED
    BY <1>1, FrontOf
<1> HIDE DEF f
<1>3. LET n == Len(s) IN
      /\ Append(f, w) \in Seq(Writers) /\ Append(f, w) # <<>>
      /\ Len(Append(f, w)) = n /\ DOMAIN Append(f, w) = 1..n
      /\ Append(f, w)[n] = w /\ \A i \in 1..(n - 1) : Append(f, w)[i] = s[i]
  <2> HIDE DEF s
  <2> QED
    BY <1>2
<1>4. /\ stack' \in [Threads -> Seq(Writers)] /\ stack'[t] = Append(f, w)
      /\ \A o \in Threads \ {t} : stack'[o] = stack[o]
  <2> HIDE DEF s
  <2> QED
    BY <1>1, <1>3 DEF s, f
<1> QED
  BY <1>3, <1>4
-----------------------------------------------------------------------------
(* Types.                                                                  *)

\* Characters and texts of messages.
LEMMA TextOfMessage ==
    ASSUME NEW m \in Messages
    PROVE  LET text == [i \in DOMAIN Text[m] |-> Char(m, i)] IN
           /\ Len(Text[m]) \in Nat /\ DOMAIN Text[m] = 1..Len(Text[m])
           /\ \A i \in 1..Len(Text[m]) : Char(m, i) \in Chars
           /\ text \in Seq(Chars) /\ DOMAIN text = 1..Len(Text[m])
           /\ \A i \in 1..Len(Text[m]) : text[i] = Char(m, i)
<1>1. Text[m] \in Seq(BOOLEAN)
  BY MessagesAssumption
<1>2. Len(Text[m]) \in Nat /\ DOMAIN Text[m] = 1..Len(Text[m])
  BY <1>1
<1>3. \A i \in 1..Len(Text[m]) : Char(m, i) \in Chars
  BY DEF Chars
<1> QED
  BY <1>2, <1>3

\* What an owner has written goes to the appenders.
StreamTo(text) ==
    writes' = writes \o <<[location |-> currentLocation, text |-> text]>>

\* A text that is written keeps the type of writes.
LEMMA StreamTyped ==
    ASSUME LogbookTypeOK, NEW text \in Seq(Chars), StreamTo(text)
    PROVE  writes' \in Seq(Written)
<1> DEFINE w == [location |-> currentLocation, text |-> text]
<1>1. w \in Written
  BY DEF LogbookTypeOK, Written
<1> HIDE DEF w
<1>2. <<w>> \in Seq(Written)
  BY <1>1
<1>3. writes' = writes \o <<w>>
  BY DEF StreamTo, w
<1> QED
  BY <1>2, <1>3, ConcatProperties DEF LogbookTypeOK

\* What PutChar() does.
LEMMA PutCharStep ==
    ASSUME LogbookTypeOK, NEW t \in Threads, PutChar(t)
    PROVE  LET w    == Top(t)
               char == Char(w.message, w.put + 1)
               more == Append(streamBuffer, char)
           IN  /\ stack[t] # <<>> /\ w \in Writers /\ w.put < Len(Text[w.message])
               /\ w.message \in Messages /\ char \in Chars /\ more \in Seq(Chars)
               /\ [w EXCEPT !.put = @ + 1] \in Writers
               /\ stack' = [stack EXCEPT ![t] = Append(Front(@), [w EXCEPT !.put = @ + 1])]
               /\ \/ ~w.isOwner /\ UNCHANGED <<streamBuffer, writes>>
                  \/ w.isOwner /\ StreamTo(more) /\ streamBuffer' = <<>>
                  \/ w.isOwner /\ streamBuffer' = more /\ UNCHANGED writes
<1> DEFINE w    == Top(t)
           char == Char(w.message, w.put + 1)
           more == Append(streamBuffer, char)
<1>1. /\ stack[t] # <<>> /\ w.put < Len(Text[w.message])
      /\ stack' = [stack EXCEPT ![t] = Append(Front(@), [w EXCEPT !.put = @ + 1])]
      /\ \/ ~w.isOwner /\ UNCHANGED <<streamBuffer, outputs>>
         \/ /\ w.isOwner
            /\ WriteAll(<<[location |-> currentLocation, text |-> more]>>)
            /\ streamBuffer' = <<>>
         \/ w.isOwner /\ streamBuffer' = more /\ UNCHANGED outputs
  BY DEF PutChar
<1>2. w \in Writers
  BY <1>1, TopOfStack
<1> HIDE DEF w
<1>3. w.message \in Messages /\ w.put \in Nat /\ [w EXCEPT !.put = @ + 1] \in Writers
  BY <1>2 DEF Writers
<1>4. w.put + 1 \in 1..Len(Text[w.message])
  <2>1. Len(Text[w.message]) \in Nat
    BY <1>3, TextOfMessage
  <2> QED
    BY <1>1, <1>3, <2>1
<1>5. char \in Chars
  BY <1>3, <1>4, TextOfMessage
<1> HIDE DEF char
<1>6. more \in Seq(Chars)
  BY <1>5 DEF LogbookTypeOK
<1> HIDE DEF more
<1>7. \/ ~w.isOwner /\ UNCHANGED <<streamBuffer, writes>>
      \/ w.isOwner /\ StreamTo(more) /\ streamBuffer' = <<>>
      \/ w.isOwner /\ streamBuffer' = more /\ UNCHANGED writes
  BY <1>1 DEF WriteAll, StreamTo, outputs
<1> QED
  BY <1>1, <1>2, <1>3, <1>5, <1>6, <1>7 DEF w, char, more

\* The messages of open writers.
LEMMA OpenMessages ==
    ASSUME LogbookTypeOK, NEW t \in Threads
    PROVE  /\ Owned(t) \subseteq OpenBy(t) /\ OpenBy(t) \subseteq Messages
           /\ \A m : m \in OpenBy(t) <=> \E i \in 1..Len(stack[t]) : stack[t][i].message = m
           /\ \A m : m \in Owned(t) <=>
                   \E i \in 1..Len(stack[t]) : stack[t][i].isOwner /\ stack[t][i].message = m
<1>1. \A i \in DOMAIN stack[t] : stack[t][i].message \in Messages
  BY StackDomain DEF Writers
<1>2. DOMAIN stack[t] = 1..Len(stack[t])
  BY StackDomain
<1> QED
  BY <1>1, <1>2 DEF Owned, OpenBy

NewWriter(m, isOwner) ==
    [message |-> m, isOwner |-> isOwner, put |-> 0, enabled |-> IsLoggingEnabled(m)]

\* What CreateWriter() does.
LEMMA CreateStep ==
    ASSUME LogbookTypeOK, NEW t \in Threads, NEW m \in Messages, CreateWriter(t, m)
    PROVE  /\ pc[t] = "put" /\ m \notin DOMAIN created
           /\ DOMAIN created' = DOMAIN created \union {m}
           /\ \A n \in DOMAIN created : created'[n] = created[n]
           /\ created'[m] = Creation(t)
           /\ created' = [n \in DOMAIN created' |-> created'[n]]
           /\ UNCHANGED <<config, streamBuffer, unblockedBuffer, pc, outputs, stranded>>
           /\ \/ /\ owner \in {NoOne, t} /\ owner' = t /\ locks' = locks + 1
                 /\ currentLocation' = [of |-> m, enabled |-> IsLoggingEnabled(m)]
                 /\ disturbed' = disturbed \union Owned(t)
                 /\ NewWriter(m, TRUE) \in Writers
                 /\ stack' = [stack EXCEPT ![t] = Append(@, NewWriter(m, TRUE))]
              \/ /\ owner \notin {NoOne, t}
                 /\ UNCHANGED <<owner, locks, currentLocation, disturbed>>
                 /\ NewWriter(m, FALSE) \in Writers
                 /\ stack' = [stack EXCEPT ![t] = Append(@, NewWriter(m, FALSE))]
<1>1. /\ pc[t] = "put" /\ m \notin DOMAIN created
      /\ CreateOwner(t, m) \/ CreateUnblocked(t, m)
      /\ created' = [n \in DOMAIN created \union {m} |-> IF n = m THEN Creation(t) ELSE created[n]]
      /\ UNCHANGED <<config, streamBuffer, unblockedBuffer, pc, outputs, stranded>>
  BY DEF CreateWriter
<1>2. NewWriter(m, TRUE) \in Writers /\ NewWriter(m, FALSE) \in Writers
  BY DEF NewWriter, Writers, IsLoggingEnabled
<1>3. /\ DOMAIN created' = DOMAIN created \union {m}
      /\ \A n \in DOMAIN created : created'[n] = created[n]
      /\ created'[m] = Creation(t)
      /\ created' = [n \in DOMAIN created' |-> created'[n]]
  <2> DEFINE new == Creation(t)
  <2>1. created' = [n \in DOMAIN created \union {m} |-> IF n = m THEN new ELSE created[n]]
    BY <1>1
  <2> HIDE DEF new
  <2>2. /\ DOMAIN created' = DOMAIN created \union {m}
        /\ \A n \in DOMAIN created : created'[n] = created[n]
        /\ created'[m] = new
    BY <1>1, <2>1
  <2>3. created' = [n \in DOMAIN created' |-> created'[n]]
    BY <2>1
  <2> QED
    BY <2>2, <2>3 DEF new
<1>4. CASE CreateOwner(t, m)
  BY <1>1, <1>2, <1>3, <1>4 DEF CreateOwner, NewWriter
<1>5. CASE CreateUnblocked(t, m)
  BY <1>1, <1>2, <1>3, <1>5 DEF CreateUnblocked, NewWriter
<1> QED
  BY <1>1, <1>4, <1>5

\* What ~Writer() does, up to the queue.
LEMMA DestroyStep ==
    ASSUME LogbookTypeOK, NEW t \in Threads, DestroyWriter(t)
    PROVE  LET w == Top(t) IN
           /\ pc[t] = "put" /\ stack[t] # <<>> /\ w.put = Len(Text[w.message])
           /\ pc' = [pc EXCEPT ![t] = IF w.isOwner THEN "flush" ELSE "push"]
           /\ UNCHANGED <<config, owner, locks, currentLocation, unblockedBuffer, stack, created,
                          disturbed, stranded>>
           /\ \/ w.isOwner /\ streamBuffer # <<>> /\ StreamTo(streamBuffer) /\ streamBuffer' = <<>>
              \/ /\ ~(w.isOwner /\ streamBuffer # <<>>)
                 /\ UNCHANGED <<streamBuffer, writes>>
<1> DEFINE w == Top(t)
<1>1. /\ pc[t] = "put" /\ stack[t] # <<>> /\ w.put = Len(Text[w.message])
      /\ pc' = [pc EXCEPT ![t] = IF w.isOwner THEN "flush" ELSE "push"]
      /\ UNCHANGED <<config, owner, locks, currentLocation, unblockedBuffer, stack, created,
                     disturbed, stranded>>
      /\ IF w.isOwner /\ streamBuffer # <<>>
         THEN /\ WriteAll(<<[location |-> currentLocation, text |-> streamBuffer]>>)
              /\ streamBuffer' = <<>>
         ELSE UNCHANGED <<streamBuffer, outputs>>
  BY DEF DestroyWriter, Goto
<1> HIDE DEF w
<1>2. \/ w.isOwner /\ streamBuffer # <<>> /\ StreamTo(streamBuffer) /\ streamBuffer' = <<>>
      \/ /\ ~(w.isOwner /\ streamBuffer # <<>>)
         /\ UNCHANGED <<streamBuffer, writes>>
  BY <1>1 DEF WriteAll, StreamTo, outputs
<1> QED
  BY <1>1, <1>2 DEF w

QueuedText(w) ==
    [location |-> [of |-> w.message, enabled |-> w.enabled],
     text |-> [i \in DOMAIN Text[w.message] |-> Char(w.message, i)]]

\* The text of an unblocked writer is queued.
LEMMA PushStep ==
    ASSUME LogbookTypeOK, NEW t \in Threads, PushUnblocked(t), stack[t] # <<>>
    PROVE  LET q == QueuedText(Top(t)) IN
           /\ pc[t] = "push" /\ pc' = [pc EXCEPT ![t] = "try"]
           /\ q \in Written /\ unblockedBuffer' = Append(unblockedBuffer, q)
           /\ unblockedBuffer' \in Seq(Written) /\ unblockedBuffer' # <<>>
           /\ UNCHANGED <<config, owner, locks, currentLocation, streamBuffer, stack, outputs,
                          created, disturbed, stranded>>
<1> DEFINE w == Top(t)
           q == QueuedText(w)
<1>1. /\ pc[t] = "push" /\ pc' = [pc EXCEPT ![t] = "try"]
      /\ unblockedBuffer' = Append(unblockedBuffer, q)
      /\ UNCHANGED <<config, owner, locks, currentLocation, streamBuffer, stack, outputs,
                     created, disturbed, stranded>>
  BY DEF PushUnblocked, Goto, QueuedText
<1>2. w \in Writers
  BY TopOfStack
<1> HIDE DEF w
<1>3. [of |-> w.message, enabled |-> w.enabled] \in Locations /\ w.message \in Messages
  BY <1>2 DEF Writers, Locations
<1>4. q \in Written
  <2>1. [i \in DOMAIN Text[w.message] |-> Char(w.message, i)] \in Seq(Chars)
    BY <1>3, TextOfMessage
  <2> QED
    BY <1>3, <2>1 DEF QueuedText, Written
<1> HIDE DEF q
<1>5. unblockedBuffer' \in Seq(Written) /\ unblockedBuffer' # <<>>
  BY <1>1, <1>4 DEF LogbookTypeOK
<1> QED
  BY <1>1, <1>4, <1>5 DEF q, w

\* What flushBuffer() does.
LEMMA FlushStep ==
    ASSUME LogbookTypeOK, NEW t \in Threads, FlushBuffer(t)
    PROVE  /\ pc[t] = "flush" /\ pc' = [pc EXCEPT ![t] = "unlock"]
           /\ writes' = writes \o unblockedBuffer /\ writes' \in Seq(Written)
           /\ unblockedBuffer' = <<>> /\ stranded' = FALSE
           /\ UNCHANGED <<config, owner, locks, streamBuffer, stack, created>>
           /\ currentLocation' \in Locations
           /\ \/ unblockedBuffer = <<>> /\ UNCHANGED <<currentLocation, disturbed>>
              \/ disturbed' = disturbed \union (Owned(t) \ {Top(t).message})
<1>1. /\ pc[t] = "flush" /\ pc' = [pc EXCEPT ![t] = "unlock"]
      /\ writes' = writes \o unblockedBuffer
      /\ unblockedBuffer' = <<>> /\ stranded' = FALSE
      /\ UNCHANGED <<config, owner, locks, streamBuffer, stack, created>>
      /\ \/ unblockedBuffer = <<>> /\ UNCHANGED <<currentLocation, disturbed>>
         \/ /\ unblockedBuffer # <<>>
            /\ currentLocation' = unblockedBuffer[Len(unblockedBuffer)].location
            /\ disturbed' = disturbed \union (Owned(t) \ {Top(t).message})
  BY DEF FlushBuffer, WriteAll, Goto, Last
<1>2. unblockedBuffer \in Seq(Written) /\ writes \in Seq(Written)
  BY DEF LogbookTypeOK
<1>3. writes' \in Seq(Written)
  BY <1>1, <1>2, ConcatProperties
<1>4. ASSUME unblockedBuffer # <<>> PROVE unblockedBuffer[Len(unblockedBuffer)] \in Written
  BY <1>2, <1>4
<1>5. currentLocation' \in Locations
  BY <1>1, <1>4 DEF LogbookTypeOK, Written
<1> QED
  BY <1>1, <1>3, <1>5

\* Every variable keeps its type.
LEMMA LogbookTyped ==
    ASSUME LogbookTypeOK, LockInv, [LogbookNext]_logbookVars
    PROVE  LogbookTypeOK'
<1> USE ThreadsAssumption
<1>1. ASSUME NEW t \in Threads, NEW m \in Messages, CreateWriter(t, m) PROVE LogbookTypeOK'
  <2>1. stack' \in [Threads -> Seq(Writers)]
    BY <1>1, CreateStep, Pushed
  <2>2. /\ created' = [n \in DOMAIN created' |-> created'[n]] /\ DOMAIN created' \subseteq Messages
    BY <1>1, CreateStep DEF LogbookTypeOK
  <2>3. /\ owner' \in Threads \union {NoOne} /\ locks' \in Nat
        /\ disturbed' \subseteq Messages
    <3>1. owner \in Threads \union {NoOne} /\ locks \in Nat /\ disturbed \subseteq Messages
          /\ Owned(t) \subseteq Messages
      BY OpenMessages DEF LogbookTypeOK
    <3>2. (owner' = t /\ locks' = locks + 1 /\ disturbed' = disturbed \union Owned(t))
          \/ UNCHANGED <<owner, locks, disturbed>>
      BY <1>1, CreateStep
    <3> QED
      BY <3>1, <3>2
  <2>4. currentLocation' \in Locations
    <3>1. [of |-> m, enabled |-> IsLoggingEnabled(m)] \in Locations
      BY DEF Locations, IsLoggingEnabled
    <3> QED
      BY <1>1, <3>1, CreateStep DEF LogbookTypeOK
  <2>5. UNCHANGED <<config, streamBuffer, unblockedBuffer, pc, outputs, stranded>>
    BY <1>1, CreateStep
  <2> QED
    BY <2>1, <2>2, <2>3, <2>4, <2>5 DEF LogbookTypeOK, config, outputs
<1>2. ASSUME NEW t \in Threads, PutChar(t) PROVE LogbookTypeOK'
  <2>1. stack' \in [Threads -> Seq(Writers)]
    BY <1>2, PutCharStep, Replaced
  <2>2. streamBuffer' \in Seq(Chars) /\ writes' \in Seq(Written)
    <3>1. streamBuffer \in Seq(Chars) /\ writes \in Seq(Written) /\ <<>> \in Seq(Chars)
      BY DEF LogbookTypeOK
    <3>2. \/ UNCHANGED <<streamBuffer, writes>>
          \/ \E text \in Seq(Chars) : StreamTo(text) /\ streamBuffer' = <<>>
          \/ streamBuffer' \in Seq(Chars) /\ UNCHANGED writes
      BY <1>2, <3>1, PutCharStep, Zenon
    <3> QED
      BY <3>1, <3>2, StreamTyped
  <2>3. UNCHANGED <<config, owner, locks, currentLocation, unblockedBuffer, pc, created,
                    disturbed, stranded>>
    BY <1>2 DEF PutChar
  <2> QED
    BY <2>1, <2>2, <2>3 DEF LogbookTypeOK, config
<1>3. ASSUME NEW t \in Threads, DestroyWriter(t) PROVE LogbookTypeOK'
  <2>1. streamBuffer' \in Seq(Chars) /\ writes' \in Seq(Written)
    <3>1. streamBuffer \in Seq(Chars) /\ writes \in Seq(Written) /\ <<>> \in Seq(Chars)
      BY DEF LogbookTypeOK
    <3>2. \/ UNCHANGED <<streamBuffer, writes>>
          \/ \E text \in Seq(Chars) : StreamTo(text) /\ streamBuffer' = <<>>
          \/ streamBuffer' \in Seq(Chars) /\ UNCHANGED writes
      BY <1>3, <3>1, DestroyStep, Zenon
    <3> QED
      BY <3>1, <3>2, StreamTyped
  <2>2. /\ UNCHANGED <<config, owner, locks, currentLocation, unblockedBuffer, stack, created,
                       disturbed, stranded>>
        /\ pc' \in [Threads -> {"put", "push", "try", "flush", "unlock"}]
    BY <1>3, DestroyStep DEF LogbookTypeOK
  <2> QED
    BY <2>1, <2>2 DEF LogbookTypeOK, config
<1>4. ASSUME NEW t \in Threads, PushUnblocked(t) PROVE LogbookTypeOK'
  <2>1. stack[t] # <<>>
    BY <1>4 DEF LockInv, Holds, PushUnblocked
  <2> QED
    BY <1>4, <2>1, PushStep DEF LogbookTypeOK, config, outputs
<1>5. ASSUME NEW t \in Threads, TryLock(t) PROVE LogbookTypeOK'
  <2>1. stack[t] # <<>>
    BY <1>5 DEF LockInv, Holds, TryLock
  <2>2. stack' \in [Threads -> Seq(Writers)]
    BY <1>5, <2>1, Popped DEF TryLock, LogbookTypeOK
  <2>3. /\ owner' \in Threads \union {NoOne} /\ locks' \in Nat /\ stranded' \in BOOLEAN
        /\ pc' \in [Threads -> {"put", "push", "try", "flush", "unlock"}]
    <3>1. owner \in Threads \union {NoOne} /\ locks \in Nat /\ stranded \in BOOLEAN
          /\ pc \in [Threads -> {"put", "push", "try", "flush", "unlock"}]
      BY DEF LogbookTypeOK
    <3>2. /\ owner' = owner \/ owner' = t
          /\ locks' = locks \/ locks' = locks + 1
          /\ pc' = [pc EXCEPT ![t] = "flush"] \/ pc' = [pc EXCEPT ![t] = "put"]
      BY <1>5 DEF TryLock, Goto
    <3>3. stranded' \in BOOLEAN
      BY <1>5, <3>1, Zenon DEF TryLock
    <3> QED
      BY <3>1, <3>2, <3>3
  <2>4. UNCHANGED <<config, currentLocation, streamBuffer, unblockedBuffer, outputs, created,
                    disturbed>>
    BY <1>5 DEF TryLock
  <2> QED
    BY <2>2, <2>3, <2>4 DEF LogbookTypeOK, config, outputs
<1>6. ASSUME NEW t \in Threads, FlushBuffer(t) PROVE LogbookTypeOK'
  <2>1. disturbed' \subseteq Messages /\ <<>> \in Seq(Written)
    <3>1. disturbed \subseteq Messages /\ Owned(t) \subseteq Messages /\ <<>> \in Seq(Written)
      BY OpenMessages DEF LogbookTypeOK
    <3>2. disturbed' = disturbed \/ disturbed' = disturbed \union (Owned(t) \ {Top(t).message})
      BY <1>6, FlushStep
    <3> QED
      BY <3>1, <3>2
  <2>2. /\ pc' \in [Threads -> {"put", "push", "try", "flush", "unlock"}]
        /\ unblockedBuffer' \in Seq(Written) /\ stranded' \in BOOLEAN
    BY <1>6, <2>1, FlushStep DEF LogbookTypeOK
  <2>3. /\ writes' \in Seq(Written) /\ currentLocation' \in Locations
        /\ UNCHANGED <<config, owner, locks, streamBuffer, stack, created>>
    BY <1>6, FlushStep
  <2> QED
    BY <2>1, <2>2, <2>3 DEF LogbookTypeOK, config
<1>7. ASSUME NEW t \in Threads, Unlock(t) PROVE LogbookTypeOK'
  <2>1. PICK k \in 0..Len(stack[t]) : Holds(t, k)
    BY DEF LockInv
  <2>2. stack[t] # <<>> /\ locks \in Nat \ {0}
    BY <1>7, <2>1, StackDomain DEF Holds, Unlock, LogbookTypeOK
  <2>3. stack' \in [Threads -> Seq(Writers)]
    BY <1>7, <2>2, Popped DEF Unlock
  <2>4. /\ owner' \in Threads \union {NoOne} /\ locks' \in Nat
        /\ pc' \in [Threads -> {"put", "push", "try", "flush", "unlock"}]
    BY <1>7, <2>2 DEF Unlock, LogbookTypeOK, Goto
  <2>5. UNCHANGED <<config, currentLocation, streamBuffer, unblockedBuffer, outputs, created,
                   disturbed, stranded>>
    BY <1>7 DEF Unlock
  <2> QED
    BY <2>3, <2>4, <2>5 DEF LogbookTypeOK, config, outputs
<1>8. ASSUME NEW l \in {1, 6}, SetLevel(l) PROVE LogbookTypeOK'
  <2>1. [of |-> Silent, enabled |-> TRUE] \in Locations
    BY DEF Locations
  <2>2. disturbed' \subseteq Messages
    BY <1>8, OpenMessages DEF SetLevel, LogbookTypeOK
  <2> QED
    BY <1>8, <2>1, <2>2 DEF SetLevel, LogbookTypeOK, outputs
<1>9. CASE UNCHANGED logbookVars
  BY <1>9 DEF logbookVars, config, outputs, LogbookTypeOK
<1> QED
  BY <1>1, <1>2, <1>3, <1>4, <1>5, <1>6, <1>7, <1>8, <1>9 DEF LogbookNext, ReleaseStep

-----------------------------------------------------------------------------
(* Writers, the lock and the queue.                                        *)

\* A thread's writers are not disturbed by steps of others.
LEMMA OtherWriters ==
    ASSUME WriterInv, NEW t \in Threads,
           \A n \in DOMAIN created : n \in DOMAIN created' /\ created'[n] = created[n],
           \A o \in Threads \ {t} : stack'[o] = stack[o] /\ pc'[o] = pc[o],
           \A i \in DOMAIN stack'[t] : WriterAt(t, i)'
    PROVE  WriterInv'
<1> SUFFICES ASSUME NEW o \in Threads \ {t}, NEW i \in DOMAIN stack'[o] PROVE WriterAt(o, i)'
  BY DEF WriterInv
<1>1. stack'[o] = stack[o] /\ pc'[o] = pc[o]
  OBVIOUS
<1>2. WriterAt(o, i)
  BY <1>1 DEF WriterInv
<1> QED
  BY <1>1, <1>2 DEF WriterAt

\* The steps that leave the stacks alone.
LEMMA SameWriters ==
    ASSUME WriterInv, NEW t \in Threads, LogbookTypeOK, UNCHANGED <<stack, created>>,
           NEW s, pc' = [pc EXCEPT ![t] = s],
           \A i \in DOMAIN stack[t] :
               i = Len(stack[t]) => stack[t][i].put = Len(Text[stack[t][i].message])
    PROVE  WriterInv'
<1>1. \A o \in Threads \ {t} : stack'[o] = stack[o] /\ pc'[o] = pc[o]
  BY DEF LogbookTypeOK
<1>2. ASSUME NEW i \in DOMAIN stack'[t] PROVE WriterAt(t, i)'
  <2>1. WriterAt(t, i) /\ stack'[t] = stack[t]
    BY DEF WriterInv
  <2> QED
    BY <2>1 DEF WriterAt
<1> QED
  BY <1>1, <1>2, OtherWriters

\* A writer is destroyed.
LEMMA FewerWriters ==
    ASSUME WriterInv, NEW t \in Threads, LogbookTypeOK, UNCHANGED created, stack[t] # <<>>,
           stack' = [stack EXCEPT ![t] = Front(@)], pc' = [pc EXCEPT ![t] = "put"]
    PROVE  WriterInv'
<1> DEFINE n == Len(stack[t])
<1>1. \A o \in Threads \ {t} : stack'[o] = stack[o] /\ pc'[o] = pc[o]
  BY Popped DEF LogbookTypeOK
<1>2. pc'[t] = "put"
  BY DEF LogbookTypeOK
<1>3. /\ DOMAIN stack'[t] = 1..(n - 1) /\ DOMAIN stack[t] = 1..n /\ n \in Nat
      /\ \A i \in 1..(n - 1) : stack'[t][i] = stack[t][i]
  BY Popped, StackDomain
<1>4. \A i \in 1..(n - 1) : i \in 1..n
  BY <1>3
<1> HIDE DEF n
<1>5. ASSUME NEW i \in DOMAIN stack'[t] PROVE WriterAt(t, i)'
  <2>1. WriterAt(t, i) /\ stack'[t][i] = stack[t][i]
    BY <1>3, <1>4 DEF WriterInv
  <2>2. \A j \in DOMAIN stack'[t] : j \in DOMAIN stack[t] /\ stack'[t][j] = stack[t][j]
    BY <1>3, <1>4
  <2> QED
    BY <2>1, <2>2, <1>2 DEF WriterAt
<1> QED
  BY <1>1, <1>5, OtherWriters

\* Every step keeps WriterInv.
LEMMA WriterStep ==
    ASSUME LogbookTypeOK, WriterInv, LockInv, [LogbookNext]_logbookVars
    PROVE  WriterInv'
<1>1. ASSUME NEW t \in Threads, NEW m \in Messages, CreateWriter(t, m) PROVE WriterInv'
  <2> DEFINE n == Len(stack[t])
  <2>1. /\ \A o \in DOMAIN created : o \in DOMAIN created' /\ created'[o] = created[o]
        /\ m \notin DOMAIN created /\ m \in DOMAIN created' /\ created'[m] = Creation(t)
        /\ pc[t] = "put" /\ pc' = pc
    BY <1>1, CreateStep
  <2>2. PICK isOwner \in BOOLEAN :
           /\ isOwner <=> owner \in {NoOne, t}
           /\ NewWriter(m, isOwner) \in Writers
           /\ stack' = [stack EXCEPT ![t] = Append(@, NewWriter(m, isOwner))]
    BY <1>1, CreateStep
  <2>3. /\ DOMAIN stack'[t] = 1..(n + 1) /\ Len(stack'[t]) = n + 1
        /\ \A o \in Threads \ {t} : stack'[o] = stack[o]
        /\ stack'[t][n + 1] = NewWriter(m, isOwner) /\ \A i \in 1..n : stack'[t][i] = stack[t][i]
    BY <2>2, Pushed
  <2>4. DOMAIN stack[t] = 1..n /\ n \in Nat
    BY StackDomain
  <2>5. \A i \in 1..(n + 1) : i \in 1..n \/ i = n + 1
    BY <2>4
  <2>6. \A i \in 1..n : stack[t][i].message \in DOMAIN created /\ WriterAt(t, i)
    BY <2>4 DEF WriterInv, WriterAt
  <2> HIDE DEF n
  <2>7. ASSUME NEW i \in 1..n PROVE WriterAt(t, i)'
    <3>1. WriterAt(t, i) /\ stack'[t][i] = stack[t][i]
      BY <2>3, <2>6
    <3>2. ASSUME NEW j \in 1..(n + 1), stack'[t][j].message = stack[t][i].message PROVE j = i
      <4>1. CASE j \in 1..n
        BY <3>1, <3>2, <4>1, <2>3, <2>4 DEF WriterAt
      <4>2. CASE j = n + 1
        BY <3>2, <4>2, <2>1, <2>3, <2>6 DEF NewWriter
      <4> QED
        BY <2>5, <4>1, <4>2
    <3> QED
      BY <2>1, <2>3, <3>1, <3>2 DEF WriterAt
  <2>8. ASSUME NEW i, i = n + 1 PROVE WriterAt(t, i)'
    <3>1. /\ stack'[t][i].message = m /\ stack'[t][i].put = 0 /\ stack'[t][i].isOwner = isOwner
      BY <2>3, <2>8 DEF NewWriter
    <3>2. created'[m].thread = t /\ created'[m].isOwner = isOwner
      BY <2>1, <2>2 DEF Creation
    <3>3. 0 <= Len(Text[m])
      BY TextOfMessage
    <3>4. ASSUME NEW j \in DOMAIN stack'[t], stack'[t][j].message = m PROVE j = i
      BY <3>4, <2>1, <2>3, <2>5, <2>6, <2>8
    <3>5. pc'[t] = "put"
      BY <2>1
    <3> QED
      BY <2>1, <3>1, <3>2, <3>3, <3>4, <3>5 DEF WriterAt
  <2>9. ASSUME NEW i \in DOMAIN stack'[t] PROVE WriterAt(t, i)'
    BY <2>3, <2>5, <2>7, <2>8
  <2>10. \A o \in Threads \ {t} : stack'[o] = stack[o] /\ pc'[o] = pc[o]
    BY <2>1, <2>3
  <2> QED
    BY <2>1, <2>9, <2>10, OtherWriters
<1>2. ASSUME NEW t \in Threads, PutChar(t) PROVE WriterInv'
  <2> DEFINE n == Len(stack[t])
             w == Top(t)
             v == [w EXCEPT !.put = @ + 1]
  <2>1. /\ stack[t] # <<>> /\ w \in Writers /\ w.put < Len(Text[w.message])
        /\ w.message \in Messages /\ v \in Writers
        /\ stack' = [stack EXCEPT ![t] = Append(Front(@), v)]
    BY <1>2, PutCharStep
  <2>2. UNCHANGED <<created, pc>> /\ pc[t] = "put"
    BY <1>2 DEF PutChar
  <2>3. w = stack[t][n] /\ DOMAIN stack[t] = 1..n /\ n \in Nat \ {0}
    BY <2>1, TopOfStack
  <2>4. v.message = w.message /\ v.isOwner = w.isOwner /\ v.put = w.put + 1
    BY <2>1 DEF Writers
  <2>5. w.put + 1 <= Len(Text[w.message])
    <3>1. w.put \in Nat /\ Len(Text[w.message]) \in Nat
      BY <2>1, TextOfMessage DEF Writers
    <3> QED
      BY <3>1, <2>1
  <2> HIDE DEF v, w
  <2>6. /\ DOMAIN stack'[t] = 1..n /\ stack'[t][n] = v
        /\ \A i \in 1..(n - 1) : stack'[t][i] = stack[t][i]
        /\ \A o \in Threads \ {t} : stack'[o] = stack[o]
    BY <2>1, Replaced
  <2>7. \A i \in 1..n : i = n \/ i \in 1..(n - 1)
    BY <2>3
  <2> HIDE DEF n
  <2>8. \A i \in 1..n : stack'[t][i].message = stack[t][i].message
                        /\ stack'[t][i].isOwner = stack[t][i].isOwner
    BY <2>3, <2>4, <2>6, <2>7
  <2>9. ASSUME NEW i \in 1..n PROVE WriterAt(t, i)'
    <3>1. WriterAt(t, i)
      BY <2>3 DEF WriterInv
    <3>2. stack'[t][i].put <= Len(Text[stack'[t][i].message])
      BY <3>1, <2>4, <2>5, <2>6, <2>7 DEF WriterAt
    <3> QED
      BY <3>1, <3>2, <2>2, <2>3, <2>6, <2>8 DEF WriterAt
  <2> QED
    BY <2>2, <2>6, <2>9, OtherWriters
<1>3. ASSUME NEW t \in Threads, DestroyWriter(t) PROVE WriterInv'
  <2>1. /\ stack[t] # <<>> /\ Top(t).put = Len(Text[Top(t).message])
        /\ UNCHANGED <<stack, created>>
        /\ \E s : pc' = [pc EXCEPT ![t] = s]
    BY <1>3, DestroyStep
  <2>2. Top(t) = stack[t][Len(stack[t])]
    BY <2>1, TopOfStack
  <2> QED
    BY ZenonT(30), <2>1, <2>2, SameWriters
<1>4. ASSUME NEW t \in Threads, pc[t] # "put", UNCHANGED <<stack, created>>,
             NEW s, pc' = [pc EXCEPT ![t] = s]
      PROVE  WriterInv'
  <2>1. \A i \in DOMAIN stack[t] :
           i = Len(stack[t]) => stack[t][i].put = Len(Text[stack[t][i].message])
    BY <1>4 DEF WriterInv, WriterAt
  <2> QED
    BY <1>4, <2>1, SameWriters
<1>5. ASSUME NEW t \in Threads, PushUnblocked(t) \/ FlushBuffer(t) PROVE WriterInv'
  BY <1>4, <1>5 DEF PushUnblocked, FlushBuffer, Goto
<1>6. ASSUME NEW t \in Threads, TryLock(t) PROVE WriterInv'
  <2>1. stack[t] # <<>> /\ pc[t] # "put" /\ UNCHANGED created
    BY <1>6 DEF LockInv, Holds, TryLock
  <2>2. \/ UNCHANGED stack /\ pc' = [pc EXCEPT ![t] = "flush"]
        \/ stack' = [stack EXCEPT ![t] = Front(@)] /\ pc' = [pc EXCEPT ![t] = "put"]
    BY <1>6 DEF TryLock, Goto
  <2> QED
    BY <2>1, <2>2, <1>4, FewerWriters
<1>7. ASSUME NEW t \in Threads, Unlock(t) PROVE WriterInv'
  <2>1. stack[t] # <<>> /\ UNCHANGED created
        /\ stack' = [stack EXCEPT ![t] = Front(@)] /\ pc' = [pc EXCEPT ![t] = "put"]
    BY <1>7 DEF LockInv, Holds, Unlock, Goto
  <2> QED
    BY <2>1, FewerWriters
<1>8. CASE UNCHANGED <<stack, created, pc>>
  BY <1>8 DEF WriterInv, WriterAt
<1> QED
  BY <1>1, <1>2, <1>3, <1>5, <1>6, <1>7, <1>8
     DEF LogbookNext, ReleaseStep, SetLevel, logbookVars

\* Who holds what is not disturbed by steps of others.
LEMMA OtherLocks ==
    ASSUME LockInv, NEW t \in Threads,
           \A o \in Threads \ {t} :
               /\ stack'[o] = stack[o] /\ pc'[o] = pc[o]
               /\ owner' = o <=> owner = o
               /\ owner = o => locks' = locks,
           NEW k \in 0..Len(stack'[t]), Holds(t, k)',
           owner' = NoOne => locks' = 0
    PROVE  LockInv'
<1> SUFFICES ASSUME NEW o \in Threads \ {t} PROVE \E l \in 0..Len(stack'[o]) : Holds(o, l)'
  BY DEF LockInv
<1>1. PICK l \in 0..Len(stack[o]) : Holds(o, l)
  BY DEF LockInv
<1>2. Holds(o, l)'
  BY <1>1 DEF Holds
<1> QED
  BY <1>1, <1>2

\* A thread with an owner's writer has the lock.
LEMMA OwnersWriter ==
    ASSUME LogbookTypeOK, LockInv, NEW t \in Threads
    PROVE  /\ \A i \in DOMAIN stack[t] : stack[t][i].isOwner => owner = t
           /\ pc[t] # "put" => stack[t] # <<>>
           /\ pc[t] \in {"push", "try"} =>
                 owner # t /\ \A i \in DOMAIN stack[t] : ~stack[t][i].isOwner
           /\ pc[t] \in {"flush", "unlock"} => owner = t
           /\ owner # t => \A i \in DOMAIN stack[t] : ~stack[t][i].isOwner
           /\ owner = t => locks \in Nat \ {0}
<1>1. PICK k \in 0..Len(stack[t]) : Holds(t, k)
  BY DEF LockInv
<1>2. Len(stack[t]) \in Nat /\ DOMAIN stack[t] = 1..Len(stack[t]) /\ k \in Nat
  BY StackDomain
<1>3. pc[t] \in {"put", "push", "try", "flush", "unlock"}
  BY DEF LogbookTypeOK
<1>4. k = Len(stack[t]) => \A i \in DOMAIN stack[t] : ~stack[t][i].isOwner
  BY <1>1, <1>2 DEF Holds
<1>5. owner = t /\ k < Len(stack[t]) => locks \in Nat \ {0}
  BY <1>1, <1>2 DEF Holds
<1>6. owner = t /\ k = Len(stack[t]) => locks = 1 /\ pc[t] \in {"flush", "unlock"}
  BY <1>1, <1>2 DEF Holds
<1>7. /\ pc[t] # "put" => stack[t] # <<>>
      /\ pc[t] \in {"push", "try"} => k = Len(stack[t])
      /\ owner = t => k < Len(stack[t]) \/ k = Len(stack[t])
      /\ owner # t => k = Len(stack[t]) /\ pc[t] \notin {"flush", "unlock"}
  BY <1>1, Zenon DEF Holds
<1>8. 1 \in Nat \ {0}
  OBVIOUS
<1> QED
  BY <1>3, <1>4, <1>5, <1>6, <1>7, <1>8, Zenon

\* Only the owner has writers that lock.
LEMMA Mutual ==
    ASSUME LogbookTypeOK, LockInv, NEW t \in Threads, NEW o \in Threads, o # t,
           owner \in {NoOne, t}
    PROVE  \A i \in DOMAIN stack[o] : ~stack[o][i].isOwner
BY OwnersWriter, ThreadsAssumption

\* Every step keeps LockInv.
LEMMA LockStep ==
    ASSUME LogbookTypeOK, LockInv, [LogbookNext]_logbookVars
    PROVE  LockInv'
<1> USE ThreadsAssumption
<1>1. ASSUME NEW t \in Threads, NEW m \in Messages, CreateWriter(t, m) PROVE LockInv'
  <2> DEFINE n == Len(stack[t])
  <2>1. PICK k \in 0..n : Holds(t, k)
    BY DEF LockInv
  <2>2. n \in Nat /\ DOMAIN stack[t] = 1..n /\ k \in Nat /\ k <= n
    BY <2>1, StackDomain
  <2>3. pc[t] = "put" /\ pc' = pc
    BY <1>1, CreateStep
  <2>4. PICK isOwner \in BOOLEAN :
           /\ isOwner <=> owner \in {NoOne, t}
           /\ IF isOwner THEN owner' = t /\ locks' = locks + 1 ELSE UNCHANGED <<owner, locks>>
           /\ NewWriter(m, isOwner) \in Writers
           /\ stack' = [stack EXCEPT ![t] = Append(@, NewWriter(m, isOwner))]
    BY <1>1, CreateStep
  <2>5. /\ DOMAIN stack'[t] = 1..(n + 1) /\ Len(stack'[t]) = n + 1 /\ stack'[t] # <<>>
        /\ \A o \in Threads \ {t} : stack'[o] = stack[o]
        /\ stack'[t][n + 1] = NewWriter(m, isOwner) /\ \A i \in 1..n : stack'[t][i] = stack[t][i]
    BY <2>4, Pushed
  <2>6. /\ \A i \in 1..n : stack[t][i].isOwner <=> i > k
        /\ owner = t => k < n /\ locks = n - k
        /\ owner # t => k = n
    BY <2>1, <2>2, <2>3 DEF Holds
  <2>7. stack'[t][n + 1].isOwner = isOwner
    BY <2>5 DEF NewWriter
  <2>8. owner = NoOne => locks = 0
    BY DEF LockInv
  <2> HIDE DEF n
  <2>9. \A i \in 1..(n + 1) : i \in 1..n \/ i = n + 1
    BY <2>2
  <2>10. CASE isOwner
    <3>1. k < n + 1 /\ locks' = (n + 1) - k /\ owner' = t /\ k \in 0..(n + 1) /\ n + 1 > k
      BY <2>2, <2>4, <2>6, <2>8, <2>10
    <3>2. \A i \in 1..(n + 1) : stack'[t][i].isOwner <=> i > k
      BY <2>5, <2>6, <2>7, <2>9, <2>10, <3>1
    <3>3. Holds(t, k)'
      BY <2>3, <2>5, <3>1, <3>2 DEF Holds
    <3>4. \A o \in Threads \ {t} : (owner' = o <=> owner = o) /\ owner # o
      BY <2>4, <2>10, <3>1
    <3> QED
      BY <2>3, <2>5, <3>1, <3>3, <3>4, OtherLocks
  <2>11. CASE ~isOwner
    <3>1. k = n /\ owner # t /\ UNCHANGED <<owner, locks>>
      BY <2>4, <2>6, <2>11
    <3>2. PICK j : j = n + 1
      OBVIOUS
    <3>3. \A i \in 1..j : stack'[t][i].isOwner <=> i > j
      <4>1. ASSUME NEW i \in 1..(n + 1) PROVE ~stack'[t][i].isOwner /\ ~(i > n + 1)
        <5>1. CASE i \in 1..n
          <6>1. ~(i > k) /\ ~(i > n + 1)
            BY <2>2, <3>1, <5>1
          <6> QED
            BY <2>5, <2>6, <5>1, <6>1
        <5>2. CASE i = n + 1
          BY <2>2, <2>7, <2>11, <5>2
        <5> QED
          BY <2>9, <5>1, <5>2
      <4> QED
        BY <3>2, <4>1
    <3>4. j \in 0..Len(stack'[t]) /\ Len(stack'[t]) = j /\ DOMAIN stack'[t] = 1..j
      BY <2>2, <2>5, <3>2
    <3>5. Holds(t, j)'
      BY <2>3, <3>1, <3>3, <3>4 DEF Holds
    <3> QED
      BY <2>3, <2>5, <2>8, <3>1, <3>4, <3>5, OtherLocks
  <2> QED
    BY <2>10, <2>11
<1>2. ASSUME NEW t \in Threads, PutChar(t) PROVE LockInv'
  <2> DEFINE n == Len(stack[t])
             w == Top(t)
             v == [w EXCEPT !.put = @ + 1]
  <2>1. /\ stack[t] # <<>> /\ w \in Writers /\ v \in Writers
        /\ stack' = [stack EXCEPT ![t] = Append(Front(@), v)]
    BY <1>2, PutCharStep
  <2>2. UNCHANGED <<owner, locks, pc>>
    BY <1>2 DEF PutChar
  <2>3. w = stack[t][n] /\ DOMAIN stack[t] = 1..n /\ n \in Nat \ {0}
    BY <2>1, TopOfStack
  <2>4. v.isOwner = w.isOwner
    BY <2>1 DEF Writers
  <2> HIDE DEF v, w
  <2>5. /\ DOMAIN stack'[t] = 1..n /\ stack'[t][n] = v /\ Len(stack'[t]) = n
        /\ \A i \in 1..(n - 1) : stack'[t][i] = stack[t][i]
        /\ \A o \in Threads \ {t} : stack'[o] = stack[o]
        /\ stack'[t] # <<>>
    BY <2>1, Replaced
  <2>6. \A i \in 1..n : i = n \/ i \in 1..(n - 1)
    BY <2>3
  <2>7. PICK k \in 0..n : Holds(t, k)
    BY DEF LockInv
  <2> HIDE DEF n
  <2>8. \A i \in 1..n : stack'[t][i].isOwner = stack[t][i].isOwner
    BY <2>3, <2>4, <2>5, <2>6
  <2>9. Holds(t, k)'
    BY <2>1, <2>2, <2>3, <2>5, <2>7, <2>8 DEF Holds, n
  <2> QED
    BY <2>2, <2>5, <2>7, <2>9, OtherLocks DEF LockInv
\* Steps of the release of a writer.
<1>3. ASSUME NEW t \in Threads, UNCHANGED <<stack, owner, locks>>, NEW s,
             pc' = [pc EXCEPT ![t] = s], NEW k \in 0..Len(stack[t]), Holds(t, k),
             stack[t] # <<>>,
             \/ s \in {"push", "try"} /\ k = Len(stack[t]) /\ owner # t
             \/ s \in {"flush", "unlock"} /\ owner = t
      PROVE  LockInv'
  <2>1. pc'[t] = s /\ \A o \in Threads \ {t} : pc'[o] = pc[o]
    BY <1>3 DEF LogbookTypeOK
  <2>2. Holds(t, k)'
    BY <1>3, <2>1, Zenon DEF Holds
  <2> QED
    BY <1>3, <2>1, <2>2, OtherLocks DEF LockInv
<1>4. ASSUME NEW t \in Threads, DestroyWriter(t) PROVE LockInv'
  <2>1. /\ stack[t] # <<>> /\ pc' = [pc EXCEPT ![t] = IF Top(t).isOwner THEN "flush" ELSE "push"]
        /\ UNCHANGED <<owner, locks, stack>> /\ pc[t] = "put"
    BY <1>4, DestroyStep
  <2>2. PICK k \in 0..Len(stack[t]) : Holds(t, k)
    BY DEF LockInv
  <2>3. LET n == Len(stack[t]) IN n \in Nat \ {0} /\ Top(t) = stack[t][n] /\ n \in DOMAIN stack[t]
    BY <2>1, TopOfStack
  <2>4. CASE Top(t).isOwner
    <3>1. owner = t
      BY <2>3, <2>4, OwnersWriter
    <3> QED
      BY <2>1, <2>2, <2>4, <3>1, <1>3
  <2>5. CASE ~Top(t).isOwner
    <3>1. k = Len(stack[t])
      BY <2>2, <2>3, <2>5 DEF Holds
    <3>2. owner # t
      BY <2>1, <2>2, <2>3, <3>1 DEF Holds
    <3>3. pc' = [pc EXCEPT ![t] = "push"] /\ "push" \in {"push", "try"}
      BY <2>1, <2>5
    <3> QED
      BY <2>1, <2>2, <3>1, <3>2, <3>3, <1>3, Zenon
  <2> QED
    BY <2>4, <2>5
<1>5. ASSUME NEW t \in Threads, PushUnblocked(t) PROVE LockInv'
  <2>1. /\ pc[t] = "push" /\ pc' = [pc EXCEPT ![t] = "try"] /\ UNCHANGED <<owner, locks, stack>>
    BY <1>5 DEF PushUnblocked, Goto
  <2>2. PICK k \in 0..Len(stack[t]) : Holds(t, k)
    BY DEF LockInv
  <2>3. k = Len(stack[t]) /\ owner # t /\ stack[t] # <<>>
    BY <2>1, <2>2, OwnersWriter DEF Holds
  <2>4. "try" \in {"push", "try"}
    OBVIOUS
  <2> QED
    BY <2>1, <2>2, <2>3, <2>4, <1>3, Zenon
<1>6. ASSUME NEW t \in Threads, FlushBuffer(t) PROVE LockInv'
  <2>1. /\ pc[t] = "flush" /\ pc' = [pc EXCEPT ![t] = "unlock"] /\ UNCHANGED <<owner, locks, stack>>
    BY <1>6 DEF FlushBuffer, Goto
  <2>2. PICK k \in 0..Len(stack[t]) : Holds(t, k)
    BY DEF LockInv
  <2>3. owner = t /\ stack[t] # <<>>
    BY <2>1, OwnersWriter
  <2> QED
    BY <2>1, <2>2, <2>3, <1>3
<1>7. ASSUME NEW t \in Threads, TryLock(t) PROVE LockInv'
  <2> DEFINE n == Len(stack[t])
  <2>1. PICK k \in 0..n : Holds(t, k)
    BY DEF LockInv
  <2>2. pc[t] = "try" /\ owner # t /\ stack[t] # <<>> /\ k = n
    BY <1>7, <2>1, OwnersWriter DEF TryLock, Holds
  <2>3. n \in Nat \ {0} /\ DOMAIN stack[t] = 1..n
    BY <2>2, TopOfStack
  <2>4. \A i \in 1..n : ~stack[t][i].isOwner
    BY <2>2, <2>3, OwnersWriter
  <2>5. ASSUME owner = NoOne, owner' = t, locks' = locks + 1, pc' = [pc EXCEPT ![t] = "flush"],
               UNCHANGED stack
        PROVE  LockInv'
    <3>1. locks' = 1
      BY <2>5 DEF LockInv
    <3>2. pc'[t] = "flush" /\ \A o \in Threads \ {t} : pc'[o] = pc[o]
      BY <2>5 DEF LogbookTypeOK
    <3>3. Holds(t, k)'
      BY <2>1, <2>2, <2>5, <3>1, <3>2 DEF Holds
    <3>4. \A o \in Threads \ {t} : (owner' = o <=> owner = o) /\ owner # o
      BY <2>5
    <3> QED
      BY <2>1, <2>5, <3>2, <3>3, <3>4, OtherLocks
  <2>6. ASSUME stack' = [stack EXCEPT ![t] = Front(@)], pc' = [pc EXCEPT ![t] = "put"],
               UNCHANGED <<owner, locks>>
        PROVE  LockInv'
    <3>1. pc'[t] = "put" /\ \A o \in Threads \ {t} : pc'[o] = pc[o]
      BY <2>6 DEF LogbookTypeOK
    <3>2. /\ DOMAIN stack'[t] = 1..(n - 1) /\ Len(stack'[t]) = n - 1
          /\ \A o \in Threads \ {t} : stack'[o] = stack[o]
          /\ \A i \in 1..(n - 1) : stack'[t][i] = stack[t][i]
      BY <2>2, <2>6, Popped
    <3> HIDE DEF n
    <3>3. PICK j : j = n - 1
      OBVIOUS
    <3>4. j \in 0..Len(stack'[t]) /\ \A i \in 1..j : i \in 1..n /\ ~(i > j)
      BY <2>3, <3>2, <3>3
    <3>5. Holds(t, j)'
      BY <2>2, <2>4, <2>6, <3>1, <3>2, <3>3, <3>4 DEF Holds
    <3> QED
      BY <2>6, <3>1, <3>2, <3>4, <3>5, OtherLocks DEF LockInv
  <2>7. \/ /\ owner = NoOne /\ owner' = t /\ locks' = locks + 1
           /\ pc' = [pc EXCEPT ![t] = "flush"] /\ UNCHANGED stack
        \/ /\ stack' = [stack EXCEPT ![t] = Front(@)] /\ pc' = [pc EXCEPT ![t] = "put"]
           /\ UNCHANGED <<owner, locks>>
    BY <1>7, <2>2 DEF TryLock, Goto
  <2> QED
    BY <2>5, <2>6, <2>7
<1>8. ASSUME NEW t \in Threads, Unlock(t) PROVE LockInv'
  <2> DEFINE n == Len(stack[t])
  <2>1. PICK k \in 0..n : Holds(t, k)
    BY DEF LockInv
  <2>2. /\ pc[t] = "unlock" /\ pc' = [pc EXCEPT ![t] = "put"] /\ locks' = locks - 1
        /\ owner' = IF locks = 1 THEN NoOne ELSE t
        /\ stack' = [stack EXCEPT ![t] = Front(@)]
    BY <1>8 DEF Unlock, Goto
  <2>3. owner = t /\ stack[t] # <<>> /\ locks \in Nat \ {0}
    BY <2>2, OwnersWriter
  <2>4. n \in Nat \ {0} /\ DOMAIN stack[t] = 1..n
    BY <2>3, TopOfStack
  <2>5. pc'[t] = "put" /\ \A o \in Threads \ {t} : pc'[o] = pc[o]
    BY <2>2 DEF LogbookTypeOK
  <2>6. /\ DOMAIN stack'[t] = 1..(n - 1) /\ Len(stack'[t]) = n - 1
        /\ \A o \in Threads \ {t} : stack'[o] = stack[o]
        /\ \A i \in 1..(n - 1) : stack'[t][i] = stack[t][i]
    BY <2>2, <2>3, Popped
  <2>7. /\ \A i \in 1..n : stack[t][i].isOwner <=> i > k
        /\ (k < n /\ locks = n - k) \/ (k = n /\ locks = 1)
    <3>1. \A i \in 1..n : stack[t][i].isOwner <=> i > k
      BY <2>1, <2>4 DEF Holds
    <3>2. (k < n /\ locks = n - k) \/ (k = n /\ locks = 1)
      BY <2>1, <2>3, Zenon DEF Holds
    <3> QED
      BY <3>1, <3>2
  <2>8. \A o \in Threads \ {t} : (owner' = o <=> owner = o) /\ owner # o
    BY <2>2, <2>3
  <2> HIDE DEF n
  <2>9. \A i \in 1..(n - 1) : i \in 1..n /\ ~(i > n - 1)
    BY <2>4
  <2>10. CASE k < n
    <3>1. k \in 0..(n - 1) /\ locks' = (n - 1) - k /\ (locks = 1 <=> k = n - 1)
          /\ (locks # 1 => k < n - 1) /\ k \in Nat
      BY <2>1, <2>2, <2>4, <2>7, <2>10
    <3>2. owner' = t => k < n - 1
      BY <2>2, <3>1
    <3>3. owner' # t => k = n - 1
      BY <2>2, <3>1
    <3>4. Holds(t, k)'
      BY <2>5, <2>6, <2>7, <2>9, <3>1, <3>2, <3>3 DEF Holds
    <3>5. owner' = NoOne => locks' = 0
      BY <2>2, <2>3
    <3> QED
      BY <2>5, <2>6, <2>8, <3>1, <3>4, <3>5, OtherLocks
  <2>11. CASE k = n
    <3>1. PICK j : j = n - 1
      OBVIOUS
    <3>2. locks = 1 /\ locks' = 0 /\ owner' = NoOne /\ j \in 0..(n - 1)
      BY <2>2, <2>4, <2>7, <2>11, <3>1
    <3>3. \A i \in 1..(n - 1) : ~(i > k)
      BY <2>4, <2>11
    <3>4. Holds(t, j)'
      BY <2>5, <2>6, <2>7, <2>9, <3>1, <3>2, <3>3 DEF Holds
    <3> QED
      BY <2>5, <2>6, <2>8, <3>2, <3>4, OtherLocks
  <2> QED
    BY <2>1, <2>4, <2>10, <2>11
<1>9. CASE UNCHANGED <<stack, owner, locks, pc>>
  BY <1>9 DEF LockInv, Holds
<1> QED
  BY <1>1, <1>2, <1>4, <1>5, <1>6, <1>7, <1>8, <1>9
     DEF LogbookNext, ReleaseStep, SetLevel, logbookVars

\* Every step keeps QueueHasFlusher.
LEMMA FlusherStep ==
    ASSUME LogbookTypeOK, LockInv, QueueHasFlusher, [LogbookNext]_logbookVars
    PROVE  QueueHasFlusher'
<1> USE ThreadsAssumption
<1>1. ASSUME NEW t \in Threads, NEW m \in Messages, CreateWriter(t, m) PROVE QueueHasFlusher'
  <2>1. /\ pc[t] = "put" /\ UNCHANGED <<pc, unblockedBuffer, stranded>>
        /\ \/ owner \in {NoOne, t} /\ owner' = t
           \/ UNCHANGED <<owner, locks>>
    BY <1>1, CreateStep
  <2>2. owner' = t => owner' # NoOne /\ pc'[owner'] # "unlock"
    BY <2>1
  <2> QED
    BY <2>1, <2>2 DEF QueueHasFlusher
<1>2. ASSUME NEW t \in Threads, DestroyWriter(t) PROVE QueueHasFlusher'
  <2>1. /\ pc[t] = "put" /\ UNCHANGED <<unblockedBuffer, stranded, owner, locks>>
        /\ pc'[t] # "unlock" /\ \A o \in Threads \ {t} : pc'[o] = pc[o]
    BY <1>2, DestroyStep DEF LogbookTypeOK
  <2> QED
    BY <2>1 DEF QueueHasFlusher, LogbookTypeOK
<1>3. ASSUME NEW t \in Threads, PushUnblocked(t) PROVE QueueHasFlusher'
  <2>1. pc'[t] = "try"
    BY <1>3 DEF PushUnblocked, Goto, LogbookTypeOK
  <2> QED
    BY <2>1 DEF QueueHasFlusher
<1>4. ASSUME NEW t \in Threads, TryLock(t) PROVE QueueHasFlusher'
  <2>1. \/ owner' = t /\ pc'[t] = "flush"
        \/ /\ owner \in Threads \ {t} /\ UNCHANGED <<owner, locks>>
           /\ \A o \in Threads \ {t} : pc'[o] = pc[o]
           /\ stranded' = (stranded \/ (pc[owner] = "unlock" /\ locks = 1))
    BY <1>4 DEF TryLock, Goto, LogbookTypeOK
  <2>2. owner \in Threads => locks \in Nat \ {0}
    BY OwnersWriter
  <2>3. ASSUME owner' = t, pc'[t] = "flush" PROVE QueueHasFlusher'
    BY <2>3 DEF QueueHasFlusher
  <2>4. ASSUME owner \in Threads \ {t}, UNCHANGED <<owner, locks>>, pc'[owner] = pc[owner],
               stranded' = (stranded \/ (pc[owner] = "unlock" /\ locks = 1))
        PROVE  QueueHasFlusher'
    <3>1. owner' # NoOne /\ pc'[owner'] = pc[owner] /\ locks' = locks
      BY <2>4
    <3>2. locks = 1 \/ locks > 1
      BY <2>2, <2>4
    <3>3. stranded' \/ pc[owner] # "unlock" \/ locks > 1
      BY <2>4, <3>2, Zenon
    <3> QED
      BY <3>1, <3>3, Zenon DEF QueueHasFlusher
  <2> QED
    BY <2>1, <2>3, <2>4
<1>5. ASSUME NEW t \in Threads, FlushBuffer(t) PROVE QueueHasFlusher'
  BY <1>5 DEF FlushBuffer, QueueHasFlusher
<1>6. ASSUME NEW t \in Threads, Unlock(t) PROVE QueueHasFlusher'
  <2>1. /\ pc[t] = "unlock" /\ UNCHANGED <<unblockedBuffer, stranded>>
        /\ pc'[t] = "put" /\ \A o \in Threads \ {t} : pc'[o] = pc[o]
        /\ owner' = IF locks = 1 THEN NoOne ELSE t
    BY <1>6 DEF Unlock, Goto, LogbookTypeOK
  <2>2. owner = t
    BY <2>1, OwnersWriter
  <2>3. CASE locks > 1
    <3>1. owner' = t
      BY <2>1, <2>3
    <3> QED
      BY <2>1, <3>1 DEF QueueHasFlusher
  <2>4. CASE ~(locks > 1)
    BY <2>1, <2>2, <2>4 DEF QueueHasFlusher
  <2> QED
    BY <2>3, <2>4
<1>7. CASE UNCHANGED <<unblockedBuffer, stranded, owner, locks, pc>>
  BY <1>7 DEF QueueHasFlusher
<1> QED
  BY <1>1, <1>2, <1>3, <1>4, <1>5, <1>6, <1>7
     DEF LogbookNext, ReleaseStep, SetLevel, PutChar, logbookVars

-----------------------------------------------------------------------------
(* What is in the stream and in the queue, and with which location.        *)

\* Threads with the same stacks own the same messages.
LEMMA SameOwned ==
    ASSUME NEW t, stack'[t] = stack[t]
    PROVE  Owned(t)' = Owned(t) /\ OpenBy(t)' = OpenBy(t)
BY DEF Owned, OpenBy

\* What PutChar() does to the stack.
LEMMA PutStack ==
    ASSUME LogbookTypeOK, NEW t \in Threads, PutChar(t)
    PROVE  LET n == Len(stack[t]) IN
           /\ n \in Nat \ {0} /\ DOMAIN stack[t] = 1..n /\ Top(t) = stack[t][n]
           /\ DOMAIN stack'[t] = 1..n /\ Len(stack'[t]) = n
           /\ \A o \in Threads \ {t} : stack'[o] = stack[o]
           /\ \A i \in 1..n : /\ stack'[t][i].message = stack[t][i].message
                              /\ stack'[t][i].isOwner = stack[t][i].isOwner
                              /\ i # n => stack'[t][i] = stack[t][i]
           /\ stack'[t][n].put = Top(t).put + 1
           /\ Owned(t)' = Owned(t) /\ OpenBy(t)' = OpenBy(t)
<1> DEFINE n == Len(stack[t])
           w == Top(t)
           v == [w EXCEPT !.put = @ + 1]
<1>1. /\ stack[t] # <<>> /\ w \in Writers /\ v \in Writers
      /\ stack' = [stack EXCEPT ![t] = Append(Front(@), v)]
  BY PutCharStep
<1>2. w = stack[t][n] /\ DOMAIN stack[t] = 1..n /\ n \in Nat \ {0}
  BY <1>1, TopOfStack
<1>3. v.message = w.message /\ v.isOwner = w.isOwner /\ v.put = w.put + 1
  BY <1>1 DEF Writers
<1> HIDE DEF v, w
<1>4. /\ DOMAIN stack'[t] = 1..n /\ stack'[t][n] = v /\ Len(stack'[t]) = n
      /\ \A i \in 1..(n - 1) : stack'[t][i] = stack[t][i]
      /\ \A o \in Threads \ {t} : stack'[o] = stack[o]
  BY <1>1, Replaced
<1>5. \A i \in 1..n : i = n \/ i \in 1..(n - 1)
  BY <1>2
<1> HIDE DEF n
<1>6. \A i \in 1..n : /\ stack'[t][i].message = stack[t][i].message
                      /\ stack'[t][i].isOwner = stack[t][i].isOwner
                      /\ i # n => stack'[t][i] = stack[t][i]
  BY <1>2, <1>3, <1>4, <1>5
<1>7. Owned(t)' = Owned(t) /\ OpenBy(t)' = OpenBy(t)
  <2>1. DOMAIN stack'[t] = DOMAIN stack[t]
    BY <1>2, <1>4
  <2> QED
    BY <1>2, <1>6, <2>1 DEF Owned, OpenBy
<1> QED
  BY <1>2, <1>3, <1>4, <1>6, <1>7 DEF n, w

\* Every step keeps StreamInv.
LEMMA StreamStep ==
    ASSUME LogbookTypeOK, LockInv, LocationInv, StreamInv, [LogbookNext]_logbookVars
    PROVE  StreamInv'
<1> USE ThreadsAssumption
<1>1. ASSUME NEW t \in Threads, NEW m \in Messages, CreateWriter(t, m) PROVE StreamInv'
  <2>1. UNCHANGED <<streamBuffer, pc>>
    BY <1>1, CreateStep
  <2> SUFFICES ASSUME NEW j \in DOMAIN streamBuffer
               PROVE  /\ owner' # NoOne /\ pc'[owner'] = "put"
                      /\ streamBuffer[j].of \in Owned(owner)'
                      /\ streamBuffer[j].of \in disturbed'
                            \/ streamBuffer[j].of = currentLocation'.of
    BY <2>1 DEF StreamInv
  <2>2. /\ owner \in Threads /\ pc[owner] = "put"
        /\ streamBuffer[j].of \in Owned(owner)
        /\ streamBuffer[j].of \in disturbed \/ streamBuffer[j].of = currentLocation.of
    BY DEF StreamInv, LogbookTypeOK
  <2>3. CASE owner = t
    <3> DEFINE n == Len(stack[t])
    <3>1. /\ owner' = t /\ disturbed' = disturbed \union Owned(t) /\ NewWriter(m, TRUE) \in Writers
          /\ stack' = [stack EXCEPT ![t] = Append(@, NewWriter(m, TRUE))]
      BY <1>1, <2>3, CreateStep
    <3>2. DOMAIN stack'[t] = 1..(n + 1) /\ \A i \in 1..n : stack'[t][i] = stack[t][i]
      BY <3>1, Pushed
    <3>3. n \in Nat /\ DOMAIN stack[t] = 1..n
      BY StackDomain
    <3> HIDE DEF n
    <3>4. \A i \in 1..n : i \in 1..(n + 1)
      BY <3>3
    <3>5. Owned(t) \subseteq Owned(t)'
      BY <3>2, <3>3, <3>4 DEF Owned
    <3>6. Owned(owner)' = {stack'[t][i].message : i \in {k \in DOMAIN stack'[t] : stack'[t][k].isOwner}}
      BY <3>1 DEF Owned
    <3>7. Owned(t)' = {stack'[t][i].message : i \in {k \in DOMAIN stack'[t] : stack'[t][k].isOwner}}
      BY DEF Owned
    <3> QED
      BY <2>1, <2>2, <2>3, <3>1, <3>5, <3>6, <3>7
  <2>4. CASE owner # t
    <3>1. /\ UNCHANGED <<owner, currentLocation, disturbed>> /\ NewWriter(m, FALSE) \in Writers
          /\ stack' = [stack EXCEPT ![t] = Append(@, NewWriter(m, FALSE))]
      BY <1>1, <2>2, <2>4, CreateStep
    <3>2. stack'[owner] = stack[owner]
      BY <2>2, <2>4, <3>1, Pushed
    <3>3. Owned(owner)' = Owned(owner)
      BY <3>1, <3>2 DEF Owned
    <3> QED
      BY <2>1, <2>2, <3>1, <3>3
  <2> QED
    BY <2>3, <2>4
<1>2. ASSUME NEW t \in Threads, PutChar(t) PROVE StreamInv'
  <2> DEFINE n    == Len(stack[t])
             w    == Top(t)
             char == Char(w.message, w.put + 1)
             more == Append(streamBuffer, char)
  <2>1. /\ char \in Chars
        /\ \/ ~w.isOwner /\ streamBuffer' = streamBuffer
           \/ w.isOwner /\ streamBuffer' = <<>>
           \/ w.isOwner /\ streamBuffer' = more
    BY <1>2, PutCharStep
  <2>2. UNCHANGED <<owner, currentLocation, disturbed, pc>> /\ pc[t] = "put"
    BY <1>2 DEF PutChar
  <2>3. /\ n \in Nat \ {0} /\ DOMAIN stack[t] = 1..n /\ w = stack[t][n]
        /\ \A o \in Threads \ {t} : stack'[o] = stack[o]
        /\ Owned(t)' = Owned(t)
    BY <1>2, PutStack
  <2>4. \A o \in Threads : Owned(o)' = Owned(o)
    BY <2>3, SameOwned
  <2>5. owner \in Threads => Owned(owner)' = Owned(owner)
    <3>1. ASSUME NEW o, owner = o PROVE Owned(owner)' = Owned(o)'
      BY <2>2, <3>1 DEF Owned
    <3> QED
      BY <2>4, <3>1
  <2>6. char.of = w.message
    BY DEF Char
  <2>7. CASE ~w.isOwner
    BY <2>1, <2>2, <2>5, <2>7 DEF StreamInv, LogbookTypeOK
  <2>8. CASE w.isOwner /\ streamBuffer' = <<>>
    BY <2>8 DEF StreamInv
  <2>9. CASE w.isOwner /\ streamBuffer' = more
    <3>1. owner = t /\ w.message \in Owned(t)
      BY <2>3, <2>9, OwnersWriter DEF Owned
    <3>2. w.message \in disturbed \/ w.message = currentLocation.of
      BY <2>2, <2>3, <2>9 DEF LocationInv
    <3>3. Owned(owner)' = Owned(owner)
      BY <2>5, <3>1
    <3> HIDE DEF char, w
    <3>4. /\ DOMAIN more = 1..(Len(streamBuffer) + 1) /\ DOMAIN streamBuffer = 1..Len(streamBuffer)
          /\ more[Len(streamBuffer) + 1] = char
          /\ \A j \in 1..Len(streamBuffer) : more[j] = streamBuffer[j]
          /\ Len(streamBuffer) \in Nat
      BY <2>1 DEF LogbookTypeOK
    <3> HIDE DEF more
    <3> SUFFICES ASSUME NEW j \in DOMAIN more
                 PROVE  /\ owner' # NoOne /\ pc'[owner'] = "put"
                        /\ more[j].of \in Owned(owner)'
                        /\ more[j].of \in disturbed' \/ more[j].of = currentLocation'.of
      BY <2>9 DEF StreamInv
    <3>5. CASE j \in 1..Len(streamBuffer)
      BY <2>2, <3>3, <3>4, <3>5 DEF StreamInv
    <3>6. CASE j = Len(streamBuffer) + 1
      BY <2>2, <2>6, <3>1, <3>2, <3>3, <3>4, <3>6
    <3> QED
      BY <3>4, <3>5, <3>6
  <2> QED
    BY <2>1, <2>7, <2>8, <2>9
\* Steps of a thread that is no owner, or that leave the stream empty.
<1>3. ASSUME NEW t \in Threads, UNCHANGED <<streamBuffer, owner, currentLocation, disturbed>>,
             \A o \in Threads \ {t} : stack'[o] = stack[o] /\ pc'[o] = pc[o],
             owner # t \/ pc[t] # "put"
      PROVE  StreamInv'
  <2> SUFFICES ASSUME NEW j \in DOMAIN streamBuffer
               PROVE  /\ owner' # NoOne /\ pc'[owner'] = "put"
                      /\ streamBuffer[j].of \in Owned(owner)'
                      /\ streamBuffer[j].of \in disturbed'
                            \/ streamBuffer[j].of = currentLocation'.of
    BY <1>3 DEF StreamInv
  <2>1. /\ owner \in Threads \ {t} /\ pc[owner] = "put"
        /\ streamBuffer[j].of \in Owned(owner)
        /\ streamBuffer[j].of \in disturbed \/ streamBuffer[j].of = currentLocation.of
    BY <1>3 DEF StreamInv, LogbookTypeOK
  <2>2. stack'[owner] = stack[owner] /\ pc'[owner] = pc[owner] /\ owner' = owner
    BY <1>3, <2>1
  <2>3. Owned(owner)' = Owned(owner)
    BY <2>2 DEF Owned
  <2> QED
    BY <1>3, <2>1, <2>2, <2>3
<1>4. ASSUME NEW t \in Threads, DestroyWriter(t) PROVE StreamInv'
  <2>1. /\ stack[t] # <<>> /\ UNCHANGED <<owner, currentLocation, disturbed, stack>>
        /\ \A o \in Threads \ {t} : stack'[o] = stack[o] /\ pc'[o] = pc[o]
        /\ \/ streamBuffer' = <<>>
           \/ ~Top(t).isOwner /\ UNCHANGED streamBuffer /\ pc'[t] = "push"
           \/ Top(t).isOwner /\ streamBuffer = <<>> /\ UNCHANGED streamBuffer
    BY <1>4, DestroyStep DEF LogbookTypeOK
  <2>2. CASE streamBuffer' = <<>>
    BY <2>2 DEF StreamInv
  <2>3. CASE ~Top(t).isOwner
    <3>1. PICK k \in 0..Len(stack[t]) : Holds(t, k)
      BY DEF LockInv
    <3>2. LET n == Len(stack[t]) IN n \in Nat \ {0} /\ Top(t) = stack[t][n] /\ n \in DOMAIN stack[t]
      BY <2>1, TopOfStack
    <3>3. k = Len(stack[t])
      BY <2>3, <3>1, <3>2 DEF Holds
    <3>4. owner # t \/ pc[t] # "put"
      BY <3>1, <3>2, <3>3 DEF Holds
    <3> QED
      BY <2>1, <2>2, <2>3, <3>4, <1>3
  <2> QED
    BY <2>1, <2>2, <2>3
<1>5. ASSUME NEW t \in Threads, PushUnblocked(t) PROVE StreamInv'
  <2>1. /\ pc[t] = "push" /\ UNCHANGED <<owner, currentLocation, disturbed, stack, streamBuffer>>
        /\ \A o \in Threads \ {t} : pc'[o] = pc[o]
    BY <1>5 DEF PushUnblocked, Goto, LogbookTypeOK
  <2> QED
    BY <2>1, <1>3
<1>6. ASSUME NEW t \in Threads, TryLock(t) PROVE StreamInv'
  <2>1. /\ pc[t] = "try" /\ UNCHANGED <<currentLocation, disturbed, streamBuffer>>
        /\ \A o \in Threads \ {t} : pc'[o] = pc[o]
    BY <1>6 DEF TryLock, Goto, LogbookTypeOK
  <2>2. CASE owner \in {NoOne, t}
    BY <2>1, <2>2 DEF StreamInv
  <2>3. CASE owner \notin {NoOne, t}
    <3>1. UNCHANGED owner /\ stack' = [stack EXCEPT ![t] = Front(@)]
      BY <1>6, <2>3 DEF TryLock
    <3>2. \A o \in Threads \ {t} : stack'[o] = stack[o]
      BY <3>1 DEF LogbookTypeOK
    <3> QED
      BY <2>1, <3>1, <3>2, <1>3
  <2> QED
    BY <2>2, <2>3
<1>7. ASSUME NEW t \in Threads, FlushBuffer(t) \/ Unlock(t) PROVE StreamInv'
  <2>1. pc[t] # "put" /\ UNCHANGED streamBuffer /\ owner = t
    BY <1>7, OwnersWriter DEF FlushBuffer, Unlock
  <2> QED
    BY <2>1 DEF StreamInv
<1>8. ASSUME NEW l \in {1, 6}, SetLevel(l) PROVE StreamInv'
  <2>1. /\ UNCHANGED <<streamBuffer, owner, pc, stack>>
        /\ disturbed' = disturbed \union UNION {Owned(t) : t \in Threads}
    BY <1>8 DEF SetLevel
  <2>2. Owned(owner)' = Owned(owner)
    BY <2>1 DEF Owned
  <2>3. owner \in Threads => Owned(owner) \subseteq disturbed'
    BY <2>1
  <2> QED
    BY <2>1, <2>2, <2>3 DEF StreamInv, LogbookTypeOK
<1>9. CASE UNCHANGED logbookVars
  BY <1>9 DEF logbookVars, StreamInv, Owned
<1> QED
  BY <1>1, <1>2, <1>4, <1>5, <1>6, <1>7, <1>8, <1>9 DEF LogbookNext, ReleaseStep

\* Every step keeps QueueInv.
LEMMA QueueStep ==
    ASSUME LogbookTypeOK, WriterInv, LockInv, QueueInv, [LogbookNext]_logbookVars
    PROVE  QueueInv'
<1>1. ASSUME UNCHANGED unblockedBuffer,
             \A n \in DOMAIN created : n \in DOMAIN created' /\ created'[n] = created[n]
      PROVE  QueueInv'
  BY <1>1 DEF QueueInv
<1>2. ASSUME NEW t \in Threads, NEW m \in Messages, CreateWriter(t, m) PROVE QueueInv'
  BY <1>1, <1>2, CreateStep
<1>3. ASSUME NEW t \in Threads, PushUnblocked(t) PROVE QueueInv'
  <2> DEFINE q == QueuedText(Top(t))
             m == Top(t).message
  <2>1. /\ stack[t] # <<>> /\ pc[t] = "push"
        /\ \A i \in DOMAIN stack[t] : ~stack[t][i].isOwner
    BY <1>3, OwnersWriter DEF PushUnblocked
  <2>2. Top(t) = stack[t][Len(stack[t])] /\ Len(stack[t]) \in DOMAIN stack[t] /\ m \in Messages
    BY <2>1, TopOfStack DEF Writers
  <2>3. m \in DOMAIN created /\ ~created[m].isOwner
    BY <2>1, <2>2 DEF WriterInv, WriterAt
  <2>4. q.location.of = m /\ \A j \in DOMAIN q.text : q.text[j].of = m
    BY DEF QueuedText, Char
  <2>5. q \in Written /\ unblockedBuffer' = Append(unblockedBuffer, q) /\ UNCHANGED created
    BY <1>3, <2>1, PushStep
  <2> HIDE DEF q, m
  <2>6. LET n == Len(unblockedBuffer) IN
        /\ n \in Nat /\ DOMAIN unblockedBuffer = 1..n /\ DOMAIN unblockedBuffer' = 1..(n + 1)
        /\ unblockedBuffer'[n + 1] = q /\ \A i \in 1..n : unblockedBuffer'[i] = unblockedBuffer[i]
    BY <2>5 DEF LogbookTypeOK
  <2> SUFFICES ASSUME NEW i \in DOMAIN unblockedBuffer'
               PROVE  LET p == unblockedBuffer'[i] IN
                      /\ p.location.of \in DOMAIN created' /\ ~created'[p.location.of].isOwner
                      /\ \A j \in DOMAIN p.text : p.text[j].of = p.location.of
    BY DEF QueueInv
  <2>7. CASE i \in DOMAIN unblockedBuffer
    BY <2>5, <2>6, <2>7 DEF QueueInv
  <2>8. CASE i = Len(unblockedBuffer) + 1
    BY <2>3, <2>4, <2>5, <2>6, <2>8
  <2> QED
    BY <2>6, <2>7, <2>8
<1>4. ASSUME NEW t \in Threads, FlushBuffer(t) PROVE QueueInv'
  BY <1>4 DEF FlushBuffer, QueueInv
<1> QED
  BY <1>1, <1>2, <1>3, <1>4
     DEF LogbookNext, ReleaseStep, SetLevel, PutChar, DestroyWriter, TryLock, Unlock, logbookVars

\* Every step keeps LocationInv.
LEMMA LocationStep ==
    ASSUME LogbookTypeOK, LockInv, LocationInv, [LogbookNext]_logbookVars
    PROVE  LocationInv'
<1> USE ThreadsAssumption
\* The writers of the threads that take no step: they are owners' only if the
\* owner takes none.
<1>1. ASSUME NEW t \in Threads,
             \A o \in Threads \ {t} : stack'[o] = stack[o] /\ pc'[o] = pc[o],
             disturbed \subseteq disturbed',
             owner \in {NoOne, t} \/ UNCHANGED currentLocation,
             \A i \in DOMAIN stack'[t] :
                 LET w == stack'[t][i] IN
                 w.isOwner /\ w.message \notin disturbed' =>
                     i = Len(stack'[t]) /\ (pc'[t] = "put" => currentLocation'.of = w.message)
      PROVE  LocationInv'
  <2>1. ASSUME NEW o \in Threads \ {t}, NEW i \in DOMAIN stack[o]
        PROVE  stack[o][i].isOwner /\ stack[o][i].message \notin disturbed' =>
                   i = Len(stack[o]) /\ (pc[o] = "put" => currentLocation'.of = stack[o][i].message)
    BY <1>1, Mutual DEF LocationInv
  <2> QED
    BY <1>1, <2>1 DEF LocationInv
<1>2. ASSUME NEW t \in Threads, NEW m \in Messages, CreateWriter(t, m) PROVE LocationInv'
  <2> DEFINE n == Len(stack[t])
  <2>1. PICK isOwner \in BOOLEAN :
           /\ isOwner <=> owner \in {NoOne, t}
           /\ IF isOwner THEN /\ currentLocation'.of = m
                              /\ disturbed' = disturbed \union Owned(t)
                         ELSE UNCHANGED <<currentLocation, disturbed>>
           /\ NewWriter(m, isOwner) \in Writers
           /\ stack' = [stack EXCEPT ![t] = Append(@, NewWriter(m, isOwner))]
    <3>1. [of |-> m, enabled |-> IsLoggingEnabled(m)].of = m
      OBVIOUS
    <3>2. CASE owner \in {NoOne, t}
      <4>1. /\ currentLocation'.of = m /\ disturbed' = disturbed \union Owned(t)
            /\ NewWriter(m, TRUE) \in Writers
            /\ stack' = [stack EXCEPT ![t] = Append(@, NewWriter(m, TRUE))]
        BY <1>2, <3>1, <3>2, CreateStep
      <4> QED
        BY <3>2, <4>1
    <3>3. CASE owner \notin {NoOne, t}
      <4>1. /\ UNCHANGED <<currentLocation, disturbed>> /\ NewWriter(m, FALSE) \in Writers
            /\ stack' = [stack EXCEPT ![t] = Append(@, NewWriter(m, FALSE))]
        BY <1>2, <3>3, CreateStep
      <4> QED
        BY <3>3, <4>1
    <3> QED
      BY <3>2, <3>3
  <2>2. /\ DOMAIN stack'[t] = 1..(n + 1) /\ Len(stack'[t]) = n + 1
        /\ \A o \in Threads \ {t} : stack'[o] = stack[o]
        /\ stack'[t][n + 1] = NewWriter(m, isOwner) /\ \A i \in 1..n : stack'[t][i] = stack[t][i]
    BY <2>1, Pushed
  <2>3. n \in Nat /\ DOMAIN stack[t] = 1..n /\ pc' = pc
    BY <1>2, StackDomain, CreateStep
  <2>4. \A i \in 1..n : stack[t][i].isOwner => isOwner /\ stack[t][i].message \in disturbed'
    <3>1. \A i \in 1..n : stack[t][i].isOwner => owner = t /\ stack[t][i].message \in Owned(t)
      BY <2>3, OwnersWriter DEF Owned
    <3> QED
      BY <2>1, <3>1
  <2> HIDE DEF n
  <2>5. \A i \in 1..(n + 1) : i \in 1..n \/ i = n + 1
    BY <2>3
  <2>6. stack'[t][n + 1].message = m /\ stack'[t][n + 1].isOwner = isOwner
    BY <2>2 DEF NewWriter
  <2>7. ASSUME NEW i \in DOMAIN stack'[t],
               stack'[t][i].isOwner /\ stack'[t][i].message \notin disturbed'
        PROVE  i = Len(stack'[t]) /\ currentLocation'.of = stack'[t][i].message
    BY <2>1, <2>2, <2>4, <2>5, <2>6, <2>7
  <2>8. disturbed \subseteq disturbed' /\ (owner \in {NoOne, t} \/ UNCHANGED currentLocation)
    BY <2>1
  <2> QED
    BY <2>2, <2>3, <2>7, <2>8, <1>1
<1>3. ASSUME NEW t \in Threads, PutChar(t) PROVE LocationInv'
  <2> DEFINE n == Len(stack[t])
  <2>1. /\ n \in Nat \ {0} /\ DOMAIN stack[t] = 1..n
        /\ DOMAIN stack'[t] = 1..n /\ Len(stack'[t]) = n
        /\ \A o \in Threads \ {t} : stack'[o] = stack[o]
        /\ \A i \in 1..n : /\ stack'[t][i].message = stack[t][i].message
                           /\ stack'[t][i].isOwner = stack[t][i].isOwner
    BY <1>3, PutStack
  <2>2. UNCHANGED <<currentLocation, disturbed, pc>>
    BY <1>3 DEF PutChar
  <2>3. ASSUME NEW i \in DOMAIN stack'[t],
               stack'[t][i].isOwner /\ stack'[t][i].message \notin disturbed'
        PROVE  i = Len(stack'[t]) /\ (pc'[t] = "put" => currentLocation'.of = stack'[t][i].message)
    BY <2>1, <2>2, <2>3 DEF LocationInv
  <2> QED
    BY <2>1, <2>2, <2>3, <1>1
<1>4. ASSUME NEW t \in Threads, UNCHANGED <<stack, currentLocation, disturbed>>,
             NEW s, pc' = [pc EXCEPT ![t] = s], s # "put"
      PROVE  LocationInv'
  <2>1. pc'[t] # "put" /\ \A o \in Threads \ {t} : pc'[o] = pc[o]
    BY <1>4 DEF LogbookTypeOK
  <2> QED
    BY <1>4, <2>1 DEF LocationInv
<1>5. ASSUME NEW t \in Threads, DestroyWriter(t) PROVE LocationInv'
  <2>1. /\ UNCHANGED <<stack, currentLocation, disturbed>>
        /\ pc' = [pc EXCEPT ![t] = "flush"] \/ pc' = [pc EXCEPT ![t] = "push"]
    BY <1>5, DestroyStep
  <2> QED
    BY <2>1, <1>4
<1>6. ASSUME NEW t \in Threads, PushUnblocked(t) PROVE LocationInv'
  <2>1. UNCHANGED <<stack, currentLocation, disturbed>> /\ pc' = [pc EXCEPT ![t] = "try"]
    BY <1>6 DEF PushUnblocked, Goto
  <2> QED
    BY <2>1, <1>4
<1>7. ASSUME NEW t \in Threads, TryLock(t) PROVE LocationInv'
  <2>1. /\ UNCHANGED <<currentLocation, disturbed>> /\ stack[t] # <<>>
        /\ \A i \in DOMAIN stack[t] : ~stack[t][i].isOwner
        /\ \A o \in Threads \ {t} : pc'[o] = pc[o]
        /\ \/ UNCHANGED stack /\ pc' = [pc EXCEPT ![t] = "flush"]
           \/ stack' = [stack EXCEPT ![t] = Front(@)]
    BY <1>7, OwnersWriter DEF TryLock, Goto, LogbookTypeOK
  <2>2. CASE UNCHANGED stack /\ pc' = [pc EXCEPT ![t] = "flush"]
    BY <2>1, <2>2, <1>4
  <2>3. CASE stack' = [stack EXCEPT ![t] = Front(@)]
    <3> DEFINE n == Len(stack[t])
    <3>1. /\ DOMAIN stack'[t] = 1..(n - 1)
          /\ \A o \in Threads \ {t} : stack'[o] = stack[o]
          /\ \A i \in 1..(n - 1) : stack'[t][i] = stack[t][i]
      BY <2>1, <2>3, Popped
    <3>2. n \in Nat /\ DOMAIN stack[t] = 1..n
      BY StackDomain
    <3> HIDE DEF n
    <3>3. \A i \in 1..(n - 1) : i \in 1..n
      BY <3>2
    <3>4. \A i \in DOMAIN stack'[t] : ~stack'[t][i].isOwner
      BY <2>1, <3>1, <3>2, <3>3
    <3> QED
      BY <2>1, <3>1, <3>4, <1>1
  <2> QED
    BY <2>1, <2>2, <2>3
<1>8. ASSUME NEW t \in Threads, FlushBuffer(t) PROVE LocationInv'
  <2>1. /\ UNCHANGED stack /\ disturbed \subseteq disturbed' /\ pc'[t] # "put"
        /\ \A o \in Threads \ {t} : stack'[o] = stack[o] /\ pc'[o] = pc[o]
    BY <1>8, FlushStep DEF LogbookTypeOK
  <2>2. owner = t
    BY <1>8, OwnersWriter DEF FlushBuffer
  <2>3. ASSUME NEW i \in DOMAIN stack'[t],
               stack'[t][i].isOwner /\ stack'[t][i].message \notin disturbed'
        PROVE  i = Len(stack'[t])
    BY <2>1, <2>3 DEF LocationInv
  <2> QED
    BY <2>1, <2>2, <2>3, <1>1
<1>9. ASSUME NEW t \in Threads, Unlock(t) PROVE LocationInv'
  <2> DEFINE n == Len(stack[t])
  <2>1. /\ UNCHANGED <<currentLocation, disturbed>> /\ stack[t] # <<>>
        /\ \A o \in Threads \ {t} : pc'[o] = pc[o]
        /\ stack' = [stack EXCEPT ![t] = Front(@)]
    BY <1>9, OwnersWriter DEF Unlock, Goto, LogbookTypeOK
  <2>2. /\ DOMAIN stack'[t] = 1..(n - 1)
        /\ \A o \in Threads \ {t} : stack'[o] = stack[o]
        /\ \A i \in 1..(n - 1) : stack'[t][i] = stack[t][i]
    BY <2>1, Popped
  <2>3. n \in Nat /\ DOMAIN stack[t] = 1..n
    BY StackDomain
  <2>4. \A i \in 1..n : stack[t][i].isOwner /\ stack[t][i].message \notin disturbed => i = n
    BY <2>3 DEF LocationInv
  <2> HIDE DEF n
  <2>5. \A i \in 1..(n - 1) : i \in 1..n /\ i # n
    BY <2>3
  <2>6. \A i \in DOMAIN stack'[t] : ~(stack'[t][i].isOwner /\ stack'[t][i].message \notin disturbed')
    <3> SUFFICES ASSUME NEW i \in 1..(n - 1)
                 PROVE  ~(stack'[t][i].isOwner /\ stack'[t][i].message \notin disturbed')
      BY <2>2
    <3>1. stack'[t][i] = stack[t][i] /\ i \in 1..n /\ i # n
      BY <2>2, <2>5
    <3> QED
      BY <2>1, <2>4, <3>1
  <2> QED
    BY <2>1, <2>2, <2>6, <1>1
<1>10. ASSUME NEW l \in {1, 6}, SetLevel(l) PROVE LocationInv'
  <2>1. UNCHANGED stack /\ disturbed' = disturbed \union UNION {Owned(t) : t \in Threads}
    BY <1>10 DEF SetLevel
  <2>2. ASSUME NEW t \in Threads, NEW i \in DOMAIN stack[t], stack[t][i].isOwner
        PROVE  stack[t][i].message \in disturbed'
    BY <2>1, <2>2 DEF Owned
  <2> QED
    BY <2>1, <2>2 DEF LocationInv
<1>11. CASE UNCHANGED logbookVars
  BY <1>11 DEF logbookVars, LocationInv
<1> QED
  BY <1>2, <1>3, <1>5, <1>6, <1>7, <1>8, <1>9, <1>10, <1>11 DEF LogbookNext, ReleaseStep

\* What the appenders get with the location of its message, or while that is
\* disturbed.
LEMMA RightJoined ==
    ASSUME RightLocation, writes \in Seq(Written), NEW ws \in Seq(Written),
           writes' = writes \o ws, disturbed \subseteq disturbed',
           \A i \in DOMAIN ws : \A j \in DOMAIN ws[i].text :
               ws[i].text[j].of \in disturbed' \/ ws[i].location.of = ws[i].text[j].of
    PROVE  RightLocation'
<1> DEFINE m == Len(writes)
           n == Len(ws)
<1>1. /\ m \in Nat /\ n \in Nat /\ DOMAIN writes = 1..m /\ DOMAIN ws = 1..n
      /\ DOMAIN writes' = 1..(m + n)
      /\ \A i \in 1..m : writes'[i] = writes[i]
      /\ \A i \in 1..n : writes'[m + i] = ws[i]
  BY ConcatProperties
<1> HIDE DEF m, n
<1> SUFFICES ASSUME NEW i \in 1..(m + n), NEW j \in DOMAIN writes'[i].text
             PROVE  LET o == writes'[i].text[j].of IN
                    o \in disturbed' \/ writes'[i].location.of = o
  BY <1>1 DEF RightLocation
<1>2. CASE i \in 1..m
  <2>1. writes'[i] = writes[i] /\ i \in DOMAIN writes
    BY <1>1, <1>2
  <2>2. j \in DOMAIN writes[i].text
    BY <2>1
  <2>3. writes[i].text[j].of \in disturbed \/ writes[i].location.of = writes[i].text[j].of
    BY <2>1, <2>2, Zenon DEF RightLocation
  <2> QED
    BY <2>1, <2>3, Zenon
<1>3. CASE i \notin 1..m
  <2>1. i - m \in 1..n /\ m + (i - m) = i
    BY <1>1, <1>3
  <2>2. writes'[i] = ws[i - m] /\ i - m \in DOMAIN ws
    BY <1>1, <2>1
  <2> QED
    BY <2>2, Zenon
<1> QED
  BY <1>2, <1>3

\* Every step keeps RightLocation.
LEMMA RightStep ==
    ASSUME LogbookTypeOK, LockInv, StreamInv, QueueInv, LocationInv, RightLocation,
           [LogbookNext]_logbookVars
    PROVE  RightLocation'
<1>1. writes \in Seq(Written) /\ unblockedBuffer \in Seq(Written) /\ streamBuffer \in Seq(Chars)
      /\ currentLocation \in Locations
  BY DEF LogbookTypeOK
<1>2. ASSUME UNCHANGED writes, disturbed \subseteq disturbed' PROVE RightLocation'
  BY <1>2 DEF RightLocation
<1>3. ASSUME NEW text \in Seq(Chars), StreamTo(text), UNCHANGED disturbed,
             \A j \in DOMAIN text : text[j].of \in disturbed \/ text[j].of = currentLocation.of
      PROVE  RightLocation'
  <2> DEFINE w == [location |-> currentLocation, text |-> text]
             ws == <<w>>
  <2>1. w \in Written /\ w.location = currentLocation /\ w.text = text
    BY <1>1 DEF Written
  <2>2. writes' = writes \o ws
    BY <1>3 DEF StreamTo
  <2> HIDE DEF w
  <2>3. ws \in Seq(Written) /\ DOMAIN ws = {1} /\ ws[1] = w
    BY <2>1
  <2> HIDE DEF ws
  <2> QED
    BY <1>1, <1>3, <2>1, <2>2, <2>3, RightJoined
<1>4. ASSUME NEW t \in Threads, PutChar(t) PROVE RightLocation'
  <2> DEFINE w    == Top(t)
             char == Char(w.message, w.put + 1)
             more == Append(streamBuffer, char)
  <2>1. /\ char \in Chars /\ more \in Seq(Chars) /\ stack[t] # <<>>
        /\ \/ UNCHANGED writes
           \/ w.isOwner /\ StreamTo(more)
    BY <1>4, PutCharStep
  <2>2. UNCHANGED disturbed /\ pc[t] = "put"
    BY <1>4 DEF PutChar
  <2>3. char.of = w.message
    BY DEF Char
  <2>4. Len(stack[t]) \in DOMAIN stack[t] /\ w = stack[t][Len(stack[t])]
    BY <2>1, TopOfStack
  <2>5. w.isOwner => w.message \in disturbed \/ w.message = currentLocation.of
    BY <2>2, <2>4 DEF LocationInv
  <2> HIDE DEF w, char
  <2>6. /\ DOMAIN more = 1..(Len(streamBuffer) + 1) /\ DOMAIN streamBuffer = 1..Len(streamBuffer)
        /\ more[Len(streamBuffer) + 1] = char
        /\ \A j \in 1..Len(streamBuffer) : more[j] = streamBuffer[j]
        /\ Len(streamBuffer) \in Nat
    BY <1>1, <2>1
  <2> HIDE DEF more
  <2>7. ASSUME w.isOwner, NEW j \in DOMAIN more
        PROVE  more[j].of \in disturbed \/ more[j].of = currentLocation.of
    <3>1. CASE j \in 1..Len(streamBuffer)
      BY <2>6, <3>1 DEF StreamInv
    <3>2. CASE j = Len(streamBuffer) + 1
      BY <2>3, <2>5, <2>6, <2>7, <3>2
    <3> QED
      BY <2>6, <3>1, <3>2
  <2> QED
    BY <2>1, <2>2, <2>7, <1>2, <1>3
<1>5. ASSUME NEW t \in Threads, DestroyWriter(t) PROVE RightLocation'
  <2>1. UNCHANGED disturbed /\ (UNCHANGED writes \/ StreamTo(streamBuffer))
    BY <1>5, DestroyStep
  <2>2. \A j \in DOMAIN streamBuffer :
           streamBuffer[j].of \in disturbed \/ streamBuffer[j].of = currentLocation.of
    BY DEF StreamInv
  <2> QED
    BY <1>1, <2>1, <2>2, <1>2, <1>3
<1>6. ASSUME NEW t \in Threads, FlushBuffer(t) PROVE RightLocation'
  <2>1. writes' = writes \o unblockedBuffer /\ disturbed \subseteq disturbed'
    BY <1>6, FlushStep
  <2>2. \A i \in DOMAIN unblockedBuffer : \A j \in DOMAIN unblockedBuffer[i].text :
           unblockedBuffer[i].location.of = unblockedBuffer[i].text[j].of
    BY DEF QueueInv
  <2> QED
    BY <1>1, <2>1, <2>2, RightJoined
<1>7. ASSUME NEW t \in Threads, NEW m \in Messages, CreateWriter(t, m) PROVE RightLocation'
  <2>1. UNCHANGED writes /\ disturbed \subseteq disturbed'
    BY <1>7, CreateStep DEF outputs
  <2> QED
    BY <2>1, <1>2
<1>8. ASSUME UNCHANGED <<outputs, disturbed>> PROVE RightLocation'
  BY <1>8, <1>2 DEF outputs
<1>9. ASSUME NEW l \in {1, 6}, SetLevel(l) PROVE RightLocation'
  BY <1>9, <1>2 DEF SetLevel, outputs
<1> QED
  BY <1>4, <1>5, <1>6, <1>7, <1>8, <1>9
     DEF LogbookNext, ReleaseStep, PushUnblocked, TryLock, Unlock, logbookVars

-----------------------------------------------------------------------------
(* What has left the writers.                                              *)

\* The steps that move text from the stream or from the queue to the appenders.
LEMMA SamePieces ==
    ASSUME LogbookTypeOK, LockInv, StreamInv, NEW t \in Threads,
           \/ \E m \in Messages : CreateWriter(t, m)
           \/ PutChar(t) /\ ~Top(t).isOwner
           \/ DestroyWriter(t) \/ TryLock(t) \/ FlushBuffer(t) \/ Unlock(t)
    PROVE  Away' = Away /\ AwayOrder' = AwayOrder
<1>1. writes \in Seq(Written) /\ unblockedBuffer \in Seq(Written) /\ streamBuffer \in Seq(Chars)
      /\ currentLocation \in Locations
  BY DEF LogbookTypeOK
<1>2. ASSUME UNCHANGED <<writes, streamBuffer, unblockedBuffer>>
      PROVE  Away' = Away /\ AwayOrder' = AwayOrder
  BY <1>2 DEF Away, AwayOrder
<1>3. ASSUME PutChar(t), ~Top(t).isOwner PROVE Away' = Away /\ AwayOrder' = AwayOrder
  <2>1. UNCHANGED <<writes, streamBuffer, unblockedBuffer>>
    BY <1>3 DEF PutChar, outputs
  <2> QED
    BY <2>1, <1>2
<1>4. ASSUME DestroyWriter(t) PROVE Away' = Away /\ AwayOrder' = AwayOrder
  <2>1. /\ UNCHANGED unblockedBuffer
        /\ \/ StreamTo(streamBuffer) /\ streamBuffer' = <<>>
           \/ UNCHANGED <<writes, streamBuffer>>
    BY <1>4, DestroyStep
  <2>2. [location |-> currentLocation, text |-> streamBuffer] \in Written
    BY <1>1 DEF Written
  <2>3. CASE StreamTo(streamBuffer) /\ streamBuffer' = <<>>
    BY <1>1, <2>1, <2>2, <2>3, TextWritten DEF StreamTo, Away, AwayOrder
  <2> QED
    BY <2>1, <2>3, <1>2
<1>5. ASSUME FlushBuffer(t) PROVE Away' = Away /\ AwayOrder' = AwayOrder
  <2>1. /\ writes' = writes \o unblockedBuffer /\ unblockedBuffer' = <<>>
        /\ UNCHANGED streamBuffer /\ pc[t] = "flush"
    BY <1>5, FlushStep
  <2>2. owner = t
    BY <2>1, OwnersWriter
  <2>3. DOMAIN streamBuffer = {}
    BY <2>1, <2>2 DEF StreamInv
  <2>4. streamBuffer = <<>>
    BY <1>1, <2>3
  <2> QED
    BY <1>1, <2>1, <2>4, QueueWritten DEF Away, AwayOrder
<1>6. ASSUME NEW m \in Messages, CreateWriter(t, m)
      PROVE  Away' = Away /\ AwayOrder' = AwayOrder
  <2>1. UNCHANGED <<writes, streamBuffer, unblockedBuffer>>
    BY <1>6, CreateStep DEF outputs
  <2> QED
    BY <2>1, <1>2
<1>7. ASSUME TryLock(t) \/ Unlock(t)
      PROVE  Away' = Away /\ AwayOrder' = AwayOrder
  BY <1>7, <1>2 DEF TryLock, Unlock, outputs
<1> QED
  BY <1>3, <1>4, <1>5, <1>6, <1>7

\* An owner's character comes after what is written and what is in the stream.
LEMMA PutPieces ==
    ASSUME LogbookTypeOK, NEW t \in Threads, PutChar(t), Top(t).isOwner
    PROVE  LET c == Char(Top(t).message, Top(t).put + 1) IN
           /\ Away' = Away \union {c}
           /\ AwayOrder' = AwayOrder
                \union (Characters(writes) \union InText(streamBuffer)) \X {c}
                \union {c} \X Characters(unblockedBuffer)
<1> DEFINE c    == Char(Top(t).message, Top(t).put + 1)
           more == Append(streamBuffer, c)
<1>1. /\ c \in Chars /\ more \in Seq(Chars)
      /\ \/ StreamTo(more) /\ streamBuffer' = <<>>
         \/ streamBuffer' = more /\ UNCHANGED writes
  BY PutCharStep
<1>2. UNCHANGED unblockedBuffer
  BY DEF PutChar
<1>3. writes \in Seq(Written) /\ streamBuffer \in Seq(Chars) /\ currentLocation \in Locations
  BY DEF LogbookTypeOK
<1> HIDE DEF c
<1>4. /\ AllOf(writes, more, unblockedBuffer) = Away \union {c}
      /\ OrderOf(writes, more, unblockedBuffer) = AwayOrder
            \union (Characters(writes) \union InText(streamBuffer)) \X {c}
            \union {c} \X Characters(unblockedBuffer)
  BY <1>1, <1>3, CharacterPut DEF Away, AwayOrder
<1> HIDE DEF more
<1>5. [location |-> currentLocation, text |-> more] \in Written
  BY <1>1, <1>3 DEF Written
<1>6. CASE StreamTo(more) /\ streamBuffer' = <<>>
  <2>1. /\ Away' = AllOf(writes, more, unblockedBuffer)
        /\ AwayOrder' = OrderOf(writes, more, unblockedBuffer)
    BY <1>2, <1>3, <1>5, <1>6, TextWritten DEF StreamTo, Away, AwayOrder
  <2> QED
    BY <1>4, <2>1 DEF c
<1>7. CASE streamBuffer' = more /\ UNCHANGED writes
  <2>1. /\ Away' = AllOf(writes, more, unblockedBuffer)
        /\ AwayOrder' = OrderOf(writes, more, unblockedBuffer)
    BY <1>2, <1>7 DEF Away, AwayOrder
  <2> QED
    BY <1>4, <2>1 DEF c
<1> QED
  BY <1>1, <1>6, <1>7

\* A queued text comes after everything.
LEMMA PushPieces ==
    ASSUME LogbookTypeOK, LockInv, NEW t \in Threads, PushUnblocked(t)
    PROVE  LET text == QueuedText(Top(t)).text IN
           /\ Away' = Away \union InText(text)
           /\ AwayOrder' = AwayOrder \union Pairs(text) \union Away \X InText(text)
<1> DEFINE q == QueuedText(Top(t))
<1>1. stack[t] # <<>>
  BY OwnersWriter DEF PushUnblocked
<1>2. /\ q \in Written /\ unblockedBuffer' = Append(unblockedBuffer, q)
      /\ UNCHANGED <<writes, streamBuffer>>
  BY <1>1, PushStep DEF outputs
<1>3. unblockedBuffer \in Seq(Written)
  BY DEF LogbookTypeOK
<1> HIDE DEF q
<1>4. /\ Away' = Away \union InText(q.text)
      /\ AwayOrder' = AwayOrder \union Pairs(q.text) \union Away \X InText(q.text)
  BY <1>2, <1>3, TextQueued DEF Away, AwayOrder
<1> QED
  BY <1>4 DEF q

-----------------------------------------------------------------------------
(* Every character arrives, once, its message in order.                    *)

\* What has been seen of a message follows from Away alone.
LEMMA SameSeen ==
    ASSUME Away' = Away, NEW m
    PROVE  Seen(m)' = Seen(m)
BY DEF Seen

\* Messages of open writers of different threads, or of one, are different.
LEMMA OneWriter ==
    ASSUME WriterInv, NEW t \in Threads, NEW i \in DOMAIN stack[t],
           NEW o \in Threads, NEW j \in DOMAIN stack[o],
           stack[o][j].message = stack[t][i].message
    PROVE  o = t /\ j = i
<1>1. WriterAt(t, i) /\ WriterAt(o, j)
  BY DEF WriterInv
<1>2. o = t
  BY <1>1 DEF WriterAt
<1> QED
  BY <1>1, <1>2 DEF WriterAt

\* The pieces are the same, and no open writer has given away more.
LEMMA KeptWhenSame ==
    ASSUME LogbookTypeOK, KeptInv, UNCHANGED <<Away, AwayOrder, created>>, NEW t \in Threads,
           \A o \in Threads \ {t} : stack'[o] = stack[o] /\ pc'[o] = pc[o],
           \A i \in DOMAIN stack'[t] :
               /\ i \in DOMAIN stack[t] /\ stack'[t][i].message = stack[t][i].message
               /\ Given(t, i)' = Given(t, i),
           \A m \in OpenBy(t) :
               m \in OpenBy(t)' \/ Seen(m) = 1..Len(Text[m])
    PROVE  KeptInv'
<1>1. ASSUME NEW o \in Threads, NEW i \in DOMAIN stack'[o]
      PROVE  Seen(stack[o][i].message)' = 1..Given(o, i)'
  <2>1. /\ i \in DOMAIN stack[o] /\ stack'[o][i].message = stack[o][i].message
        /\ Given(o, i)' = Given(o, i)
    <3>1. CASE o = t
      BY <3>1
    <3>2. CASE o # t
      <4>1. stack'[o] = stack[o] /\ pc'[o] = pc[o]
        BY <3>2
      <4> QED
        BY <4>1 DEF Given
    <3> QED
      BY <3>1, <3>2
  <2>2. Seen(stack[o][i].message) = 1..Given(o, i)
    BY <2>1 DEF KeptInv
  <2>3. Seen(stack[o][i].message)' = {c.at : c \in {d \in Away' : d.of = stack'[o][i].message}}
    BY DEF Seen
  <2>4. Seen(stack[o][i].message) = {c.at : c \in {d \in Away : d.of = stack[o][i].message}}
    BY DEF Seen
  <2> QED
    BY ZenonT(30), <2>1, <2>2, <2>3, <2>4
<1>2. ASSUME NEW m \in DOMAIN created, \A o \in Threads : m \notin OpenBy(o)'
      PROVE  Seen(m)' = 1..Len(Text[m])
  <2>1. ASSUME NEW o \in Threads \ {t} PROVE m \notin OpenBy(o)
    <3>1. OpenBy(o)' = OpenBy(o)
      BY SameOwned
    <3> QED
      BY <1>2, <3>1
  <2>2. Seen(m) = 1..Len(Text[m])
    BY <1>2, <2>1 DEF KeptInv
  <2> QED
    BY <2>2, SameSeen
<1>3. \A c \in Away' : c.of \in DOMAIN created'
  BY DEF KeptInv
<1>4. \A pair \in AwayOrder' : pair[1].of = pair[2].of => pair[1].at < pair[2].at
  BY DEF KeptInv
<1> QED
  BY <1>1, <1>2, <1>3, <1>4 DEF KeptInv

\* A writer that has given everything away is destroyed.
LEMMA KeptWhenPopped ==
    ASSUME LogbookTypeOK, WriterInv, KeptInv, UNCHANGED <<Away, AwayOrder, created>>,
           NEW t \in Threads, stack[t] # <<>>, pc[t] \notin {"put", "push"},
           stack' = [stack EXCEPT ![t] = Front(@)], pc' = [pc EXCEPT ![t] = "put"]
    PROVE  KeptInv'
<1> DEFINE n == Len(stack[t])
<1>1. /\ DOMAIN stack'[t] = 1..(n - 1) /\ Len(stack'[t]) = n - 1
      /\ \A o \in Threads \ {t} : stack'[o] = stack[o] /\ pc'[o] = pc[o]
      /\ \A i \in 1..(n - 1) : stack'[t][i] = stack[t][i]
      /\ pc'[t] = "put"
  BY Popped DEF LogbookTypeOK
<1>2. n \in Nat \ {0} /\ DOMAIN stack[t] = 1..n /\ \A i \in 1..(n - 1) : i \in 1..n /\ i # n
  BY TopOfStack
<1>3. ASSUME NEW i \in DOMAIN stack'[t]
      PROVE  /\ i \in DOMAIN stack[t] /\ stack'[t][i].message = stack[t][i].message
             /\ Given(t, i)' = Given(t, i)
  <2>1. i \in DOMAIN stack[t] /\ stack'[t][i] = stack[t][i] /\ i # Len(stack[t])
    BY <1>1, <1>2
  <2> QED
    BY <1>1, <2>1 DEF Given
<1>4. ASSUME NEW m \in OpenBy(t) PROVE m \in OpenBy(t)' \/ Seen(m) = 1..Len(Text[m])
  <2>1. PICK i \in 1..n : m = stack[t][i].message
    BY <1>2 DEF OpenBy
  <2>2. CASE i = n
    <3>0. n \in DOMAIN stack[t] /\ m = stack[t][n].message
      BY <1>2, <2>1, <2>2
    <3>1. stack[t][n].put = Len(Text[m]) /\ n = Len(stack[t]) /\ n \in DOMAIN stack[t]
      <4>1. WriterAt(t, n)
        BY <3>0 DEF WriterInv
      <4> QED
        BY <3>0, <4>1, Zenon DEF WriterAt
    <3>2. Given(t, n) = Len(Text[m])
      BY <3>1 DEF Given
    <3> QED
      BY <2>1, <2>2, <3>1, <3>2 DEF KeptInv
  <2>3. CASE i # n
    <3>1. i \in 1..(n - 1)
      BY <1>2, <2>3
    <3>2. i \in DOMAIN stack'[t] /\ stack'[t][i].message = m
      BY <1>1, <2>1, <3>1
    <3> QED
      BY <3>2 DEF OpenBy
  <2> QED
    BY <2>2, <2>3
<1> QED
  BY <1>1, <1>3, <1>4, KeptWhenSame

\* Every step keeps KeptInv.
LEMMA KeptStep ==
    ASSUME LogbookTypeOK, WriterInv, LockInv, StreamInv, QueueInv, KeptInv,
           [LogbookNext]_logbookVars
    PROVE  KeptInv'
<1> USE ThreadsAssumption
<1>1. ASSUME NEW t \in Threads, NEW m \in Messages, CreateWriter(t, m) PROVE KeptInv'
  <2> DEFINE n == Len(stack[t])
  <2>1. Away' = Away /\ AwayOrder' = AwayOrder
    BY <1>1, SamePieces
  <2>2. /\ pc[t] = "put" /\ pc' = pc /\ m \notin DOMAIN created
        /\ DOMAIN created' = DOMAIN created \union {m}
    BY <1>1, CreateStep
  <2>3. PICK isOwner \in BOOLEAN :
           /\ NewWriter(m, isOwner) \in Writers
           /\ stack' = [stack EXCEPT ![t] = Append(@, NewWriter(m, isOwner))]
    BY <1>1, CreateStep
  <2>4. /\ DOMAIN stack'[t] = 1..(n + 1) /\ Len(stack'[t]) = n + 1
        /\ \A o \in Threads \ {t} : stack'[o] = stack[o]
        /\ stack'[t][n + 1] = NewWriter(m, isOwner) /\ \A i \in 1..n : stack'[t][i] = stack[t][i]
    BY <2>3, Pushed
  <2>5. n \in Nat /\ DOMAIN stack[t] = 1..n
    BY StackDomain
  <2>6. \A i \in 1..(n + 1) : i \in 1..n \/ i = n + 1
    BY <2>5
  <2>7. stack'[t][n + 1].message = m /\ stack'[t][n + 1].put = 0
    BY <2>4 DEF NewWriter
  <2>8. ASSUME NEW o \in Threads, NEW i \in DOMAIN stack'[o]
        PROVE  Seen(stack[o][i].message)' = 1..Given(o, i)'
    <3>1. ASSUME i \in DOMAIN stack[o], stack'[o][i] = stack[o][i], Given(o, i)' = Given(o, i)
          PROVE  Seen(stack[o][i].message)' = 1..Given(o, i)'
      <4>1. Seen(stack[o][i].message) = 1..Given(o, i)
        BY <3>1 DEF KeptInv
      <4> QED
        BY <2>1, <3>1, <4>1 DEF Seen
    <3>2. CASE o # t
      BY <2>2, <2>4, <3>1, <3>2 DEF Given
    <3>3. CASE o = t /\ i \in 1..n
      <4>1. Given(t, i)' = Given(t, i)
        BY <2>2, <2>4, <3>3 DEF Given
      <4> QED
        BY <2>4, <2>5, <3>1, <3>3, <4>1
    <3>4. CASE o = t /\ i = n + 1
      <4>1. Given(o, i)' = 0 /\ stack'[o][i].message = m
        BY <2>7, <3>4 DEF Given
      <4>2. Seen(m) = {}
        BY <2>2 DEF Seen, KeptInv
      <4> QED
        BY <2>1, <4>1, <4>2 DEF Seen
    <3> QED
      BY <2>4, <2>6, <2>8, <3>2, <3>3, <3>4
  <2>9. ASSUME NEW o \in DOMAIN created', \A u \in Threads : o \notin OpenBy(u)'
        PROVE  Seen(o)' = 1..Len(Text[o])
    <3>1. n + 1 \in DOMAIN stack'[t]
      BY <2>4, <2>5
    <3>2. m \in OpenBy(t)'
      BY <2>7, <3>1 DEF OpenBy
    <3>3. o \in DOMAIN created
      BY <2>2, <2>9, <3>2
    <3>4. ASSUME NEW u \in Threads PROVE OpenBy(u) \subseteq OpenBy(u)'
      <4>1. CASE u # t
        BY <2>4, <4>1, SameOwned
      <4>2. ASSUME NEW i \in 1..n PROVE i \in DOMAIN stack'[t] /\ stack'[t][i] = stack[t][i]
        BY <2>4, <2>5
      <4>3. CASE u = t
        BY <2>5, <4>2, <4>3 DEF OpenBy
      <4> QED
        BY <4>1, <4>3
    <3>5. Seen(o) = 1..Len(Text[o])
      BY <2>9, <3>3, <3>4 DEF KeptInv
    <3> QED
      BY <2>1, <3>5, SameSeen
  <2>10. /\ \A c \in Away' : c.of \in DOMAIN created'
         /\ \A pair \in AwayOrder' : pair[1].of = pair[2].of => pair[1].at < pair[2].at
    BY <2>1, <2>2 DEF KeptInv
  <2> QED
    BY <2>8, <2>9, <2>10 DEF KeptInv
<1>2. ASSUME NEW t \in Threads, PutChar(t), ~Top(t).isOwner PROVE KeptInv'
  <2> DEFINE n == Len(stack[t])
  <2>1. /\ n \in Nat \ {0} /\ DOMAIN stack[t] = 1..n /\ Top(t) = stack[t][n]
        /\ DOMAIN stack'[t] = 1..n /\ Len(stack'[t]) = n
        /\ \A o \in Threads \ {t} : stack'[o] = stack[o]
        /\ \A i \in 1..n : /\ stack'[t][i].message = stack[t][i].message
                           /\ stack'[t][i].isOwner = stack[t][i].isOwner
                           /\ i # n => stack'[t][i] = stack[t][i]
        /\ OpenBy(t)' = OpenBy(t)
    BY <1>2, PutStack
  <2>2. UNCHANGED <<pc, created, streamBuffer, unblockedBuffer, outputs>> /\ pc[t] = "put"
    BY <1>2 DEF PutChar
  <2>3. Away' = Away /\ AwayOrder' = AwayOrder
    BY <2>2 DEF Away, AwayOrder, outputs
  <2>4. ASSUME NEW i \in DOMAIN stack'[t] PROVE Given(t, i)' = Given(t, i)
    <3>1. CASE i = n
      BY <1>2, <2>1, <2>2, <3>1 DEF Given
    <3>2. CASE i # n
      BY <2>1, <2>2, <3>2 DEF Given
    <3> QED
      BY <3>1, <3>2
  <2> QED
    BY <2>1, <2>2, <2>3, <2>4, KeptWhenSame
<1>3. ASSUME NEW t \in Threads, PutChar(t), Top(t).isOwner PROVE KeptInv'
  <2> DEFINE n == Len(stack[t])
             w == Top(t)
             m == w.message
             c == Char(m, w.put + 1)
             W == Characters(writes) \union InText(streamBuffer)
             Q == Characters(unblockedBuffer)
  <2>1. /\ n \in Nat \ {0} /\ DOMAIN stack[t] = 1..n /\ w = stack[t][n]
        /\ DOMAIN stack'[t] = 1..n /\ Len(stack'[t]) = n
        /\ \A o \in Threads \ {t} : stack'[o] = stack[o]
        /\ \A i \in 1..n : /\ stack'[t][i].message = stack[t][i].message
                           /\ stack'[t][i].isOwner = stack[t][i].isOwner
                           /\ i # n => stack'[t][i] = stack[t][i]
        /\ stack'[t][n].put = w.put + 1
        /\ OpenBy(t)' = OpenBy(t)
    BY <1>3, PutStack
  <2>2. UNCHANGED <<pc, created>> /\ pc[t] = "put" /\ stack[t] # <<>>
    BY <1>3 DEF PutChar
  <2>3. Away' = Away \union {c} /\ AwayOrder' = AwayOrder \union W \X {c} \union {c} \X Q
    BY <1>3, PutPieces
  <2>4. c.of = m /\ c.at = w.put + 1
    BY DEF Char
  <2>5. w.put \in Nat /\ w.isOwner
    BY <1>3, <2>2, TopOfStack DEF Writers
  <2>6. m \in DOMAIN created /\ created[m].isOwner
    BY <1>3, <2>1 DEF WriterInv, WriterAt
  <2>7. Given(t, n) = w.put
    BY <2>1, <2>5 DEF Given
  <2>8. Seen(m) = 1..w.put
    BY <2>1, <2>7 DEF KeptInv
  <2>9. W \subseteq Away /\ Q \subseteq Away
    BY DEF Away, AllOf
  <2>10. \A d \in Q : ~created[d.of].isOwner
    <3> TAKE d \in Q
    <3>1. PICK i \in DOMAIN unblockedBuffer : \E j \in DOMAIN unblockedBuffer[i].text :
              d = unblockedBuffer[i].text[j]
      BY CharacterPlace
    <3> QED
      BY <3>1 DEF QueueInv
  <2> HIDE DEF n, w, m, c, W, Q
  <2>11. \A d \in Away' : d.of \in DOMAIN created'
    BY <2>2, <2>3, <2>4, <2>6 DEF KeptInv
  <2>12. ASSUME NEW pair \in AwayOrder', pair[1].of = pair[2].of PROVE pair[1].at < pair[2].at
    <3>1. CASE pair \in AwayOrder
      BY <2>12, <3>1 DEF KeptInv
    <3>2. CASE pair \in W \X {c}
      <4>1. pair[1] \in Away /\ pair[1].of = m /\ pair[2] = c
        BY <2>4, <2>9, <2>12, <3>2
      <4>2. pair[1].at \in Seen(m)
        BY <4>1 DEF Seen
      <4>3. pair[1].at \in 1..w.put
        BY <2>8, <4>2
      <4> QED
        BY <2>4, <2>5, <4>1, <4>3
    <3>3. CASE pair \in {c} \X Q
      BY <2>4, <2>6, <2>10, <2>12, <3>3
    <3> QED
      BY <2>3, <3>1, <3>2, <3>3
  <2>13. ASSUME NEW o PROVE Seen(o)' = IF o = m THEN 1..(w.put + 1) ELSE Seen(o)
    <3>1. Seen(o)' = {d.at : d \in {e \in Away \union {c} : e.of = o}}
      BY <2>3 DEF Seen
    <3>2. CASE o # m
      <4>1. {e \in Away \union {c} : e.of = o} = {e \in Away : e.of = o}
        BY <2>4, <3>2
      <4> QED
        BY <3>1, <3>2, <4>1 DEF Seen
    <3>3. CASE o = m
      <4>1. Seen(o) = 1..w.put
        BY <2>8, <3>3
      <4>2. {e \in Away \union {c} : e.of = o} = {e \in Away : e.of = o} \union {c}
        BY <2>4, <3>3
      <4>3. Seen(o)' = Seen(o) \union {w.put + 1}
        BY <2>4, <3>1, <4>2 DEF Seen
      <4>4. (1..w.put) \union {w.put + 1} = 1..(w.put + 1)
        BY <2>5
      <4> QED
        BY <3>3, <4>1, <4>3, <4>4
    <3> QED
      BY <3>2, <3>3
  <2>14. ASSUME NEW o \in Threads, NEW i \in DOMAIN stack'[o]
         PROVE  Seen(stack[o][i].message)' = 1..Given(o, i)'
    <3>1. PICK a : a = stack'[o][i].message
      OBVIOUS
    <3>2. Seen(stack[o][i].message)' = Seen(a)'
      BY <3>1 DEF Seen
    <3>3. i \in DOMAIN stack[o] /\ a = stack[o][i].message
      BY <2>1, <3>1
    <3>4. Seen(a) = 1..Given(o, i)
      BY <3>3 DEF KeptInv
    <3>5. CASE o = t /\ i = n
      <4>1. Given(o, i)' = w.put + 1
        BY <2>1, <2>5, <3>5 DEF Given
      <4>2. a = m
        BY <2>1, <3>3, <3>5 DEF m
      <4> QED
        BY <2>13, <3>2, <4>1, <4>2
    <3>6. CASE ~(o = t /\ i = n)
      <4>1. a # m
        BY <2>1, <3>3, <3>6, OneWriter DEF m
      <4>2. Given(o, i)' = Given(o, i)
        BY <2>1, <2>2, <3>6, n = Len(stack[t]) DEF Given
      <4> QED
        BY <2>13, <3>2, <3>4, <4>1, <4>2
    <3> QED
      BY <3>5, <3>6
  <2>15. ASSUME NEW o \in DOMAIN created', \A u \in Threads : o \notin OpenBy(u)'
         PROVE  Seen(o)' = 1..Len(Text[o])
    <3>1. \A u \in Threads : OpenBy(u)' = OpenBy(u)
      BY <2>1, SameOwned
    <3>2. Seen(o) = 1..Len(Text[o])
      BY <2>2, <2>15, <3>1 DEF KeptInv
    <3>3. m \in OpenBy(t)
      BY <2>1 DEF OpenBy, m
    <3> QED
      BY <2>13, <2>15, <3>1, <3>2, <3>3
  <2> QED
    BY <2>11, <2>12, <2>14, <2>15 DEF KeptInv
\* A step of the release that leaves the stack.
<1>4. ASSUME NEW t \in Threads, UNCHANGED <<stack, created, Away, AwayOrder>>, NEW p,
             pc' = [pc EXCEPT ![t] = p],
             \A i \in DOMAIN stack[t] : Given(t, i)' = Given(t, i)
      PROVE  KeptInv'
  <2>1. \A o \in Threads \ {t} : stack'[o] = stack[o] /\ pc'[o] = pc[o]
    BY <1>4 DEF LogbookTypeOK
  <2>2. OpenBy(t)' = OpenBy(t)
    BY <1>4, SameOwned
  <2> QED
    BY <1>4, <2>1, <2>2, KeptWhenSame
<1>5. ASSUME NEW t \in Threads, DestroyWriter(t) PROVE KeptInv'
  <2>1. /\ UNCHANGED <<stack, created>> /\ pc[t] = "put" /\ stack[t] # <<>>
        /\ pc' = [pc EXCEPT ![t] = IF Top(t).isOwner THEN "flush" ELSE "push"]
        /\ UNCHANGED unblockedBuffer
    BY <1>5, DestroyStep
  <2>2. Away' = Away /\ AwayOrder' = AwayOrder
    BY <1>5, SamePieces
  <2>3. pc'[t] = IF Top(t).isOwner THEN "flush" ELSE "push"
    BY <2>1 DEF LogbookTypeOK
  <2>4. Top(t) = stack[t][Len(stack[t])]
    BY <2>1, TopOfStack
  <2>5. ASSUME NEW i \in DOMAIN stack[t] PROVE Given(t, i)' = Given(t, i)
    <3>1. CASE i = Len(stack[t])
      BY <2>1, <2>3, <2>4, <3>1 DEF Given
    <3>2. CASE i # Len(stack[t])
      BY <2>1, <3>2 DEF Given
    <3> QED
      BY <3>1, <3>2
  <2> QED
    BY <2>1, <2>2, <2>5, <1>4
<1>6. ASSUME NEW t \in Threads, PushUnblocked(t) PROVE KeptInv'
  <2> DEFINE n == Len(stack[t])
             m == Top(t).message
             text == QueuedText(Top(t)).text
  <2>1. /\ pc[t] = "push" /\ pc' = [pc EXCEPT ![t] = "try"] /\ UNCHANGED <<stack, created>>
        /\ stack[t] # <<>> /\ \A i \in DOMAIN stack[t] : ~stack[t][i].isOwner
    BY <1>6, OwnersWriter DEF PushUnblocked, Goto
  <2>2. /\ Away' = Away \union InText(text)
        /\ AwayOrder' = AwayOrder \union Pairs(text) \union Away \X InText(text)
    BY <1>6, PushPieces
  <2>3. /\ n \in Nat \ {0} /\ DOMAIN stack[t] = 1..n /\ Top(t) = stack[t][n]
        /\ m \in Messages
    BY <2>1, TopOfStack DEF Writers
  <2>4. stack[t][n].put = Len(Text[m]) /\ m \in DOMAIN created
    <3>1. WriterAt(t, n)
      BY <2>3 DEF WriterInv
    <3> QED
      BY <2>1, <2>3, <3>1, Zenon DEF WriterAt
  <2>5. /\ Len(Text[m]) \in Nat /\ DOMAIN text = 1..Len(Text[m])
        /\ \A j \in 1..Len(Text[m]) : text[j].of = m /\ text[j].at = j
    <3>1. text = [j \in DOMAIN Text[m] |-> Char(m, j)]
      BY DEF QueuedText
    <3>2. Len(Text[m]) \in Nat /\ DOMAIN Text[m] = 1..Len(Text[m])
      BY <2>3, TextOfMessage
    <3> HIDE DEF m, text
    <3> QED
      BY <3>1, <3>2 DEF Char
  <2>6. pc'[t] = "try" /\ \A o \in Threads \ {t} : pc'[o] = pc[o]
    BY <2>1 DEF LogbookTypeOK
  <2>7. \A i \in 1..n : Given(t, i) = 0 /\ Given(t, i)' = IF i = n THEN Len(Text[m]) ELSE 0
    BY <2>1, <2>3, <2>4, <2>6 DEF Given
  <2>8. Seen(m) = {}
    BY <2>3, <2>7 DEF KeptInv
  <2> HIDE DEF n, m, text
  <2>9. \A d \in InText(text) : d.of = m
    BY <2>5 DEF InText
  <2>10. \A d \in Away' : d.of \in DOMAIN created'
    BY <2>1, <2>2, <2>4, <2>9 DEF KeptInv
  <2>11. ASSUME NEW pair \in AwayOrder', pair[1].of = pair[2].of PROVE pair[1].at < pair[2].at
    <3>1. CASE pair \in AwayOrder
      BY <2>11, <3>1 DEF KeptInv
    <3>2. CASE pair \in Away \X InText(text)
      <4>1. pair[1].at \in Seen(m)
        BY <2>9, <2>11, <3>2 DEF Seen
      <4> QED
        BY <2>8, <4>1
    <3>3. CASE pair \in Pairs(text)
      <4>1. pair = <<pair[1], pair[2]>>
        BY <3>3, PairsArePairs
      <4>2. PICK i \in DOMAIN text, j \in DOMAIN text : i < j /\ pair[1] = text[i] /\ pair[2] = text[j]
        BY <3>3, <4>1, PairPlace
      <4> QED
        BY <2>5, <4>2
    <3> QED
      BY <2>2, <3>1, <3>2, <3>3
  <2>12. ASSUME NEW o PROVE Seen(o)' = IF o = m THEN 1..Len(Text[m]) ELSE Seen(o)
    <3>1. Seen(o)' = {d.at : d \in {e \in Away \union InText(text) : e.of = o}}
      BY <2>2 DEF Seen
    <3>2. CASE o # m
      <4>1. {e \in Away \union InText(text) : e.of = o} = {e \in Away : e.of = o}
        BY <2>9, <3>2
      <4> QED
        BY <3>1, <3>2, <4>1 DEF Seen
    <3>3. CASE o = m
      <4>1. {e \in Away : e.of = m} = {}
        BY <2>8 DEF Seen
      <4>2. {e \in Away \union InText(text) : e.of = m} = InText(text)
        BY <2>9, <4>1
      <4>3. {d.at : d \in InText(text)} = 1..Len(Text[m])
        BY <2>5 DEF InText
      <4> QED
        BY <3>1, <3>3, <4>2, <4>3
    <3> QED
      BY <3>2, <3>3
  <2>13. ASSUME NEW o \in Threads, NEW i \in DOMAIN stack'[o]
         PROVE  Seen(stack[o][i].message)' = 1..Given(o, i)'
    <3>1. PICK a : a = stack'[o][i].message
      OBVIOUS
    <3>2. Seen(stack[o][i].message)' = Seen(a)'
      BY <3>1 DEF Seen
    <3>3. i \in DOMAIN stack[o] /\ a = stack[o][i].message
      BY <2>1, <3>1
    <3>4. Seen(a) = 1..Given(o, i)
      BY <3>3 DEF KeptInv
    <3>5. CASE o = t /\ i = n
      <4>1. Given(o, i)' = Len(Text[m])
        BY <2>3, <2>7, <3>5
      <4>2. a = m
        BY <2>3, <3>3, <3>5 DEF m
      <4> QED
        BY <2>12, <3>2, <4>1, <4>2
    <3>6. CASE ~(o = t /\ i = n)
      <4>1. a # m
        BY <2>3, <3>3, <3>6, OneWriter DEF m
      <4>2. Given(o, i)' = Given(o, i)
        <5>1. CASE o = t
          BY <2>3, <2>7, <3>3, <3>6, <5>1
        <5>2. CASE o # t
          BY <2>1, <2>6, <5>2 DEF Given
        <5> QED
          BY <5>1, <5>2
      <4> QED
        BY <2>12, <3>2, <3>4, <4>1, <4>2
    <3> QED
      BY <3>5, <3>6
  <2>14. ASSUME NEW o \in DOMAIN created', \A u \in Threads : o \notin OpenBy(u)'
         PROVE  Seen(o)' = 1..Len(Text[o])
    <3>1. \A u \in Threads : OpenBy(u)' = OpenBy(u)
      BY <2>1, SameOwned
    <3>2. Seen(o) = 1..Len(Text[o])
      BY <2>1, <2>14, <3>1 DEF KeptInv
    <3>3. m \in OpenBy(t)
      BY <2>3 DEF OpenBy, m
    <3> QED
      BY <2>12, <2>14, <3>1, <3>2, <3>3
  <2> QED
    BY <2>10, <2>11, <2>13, <2>14 DEF KeptInv
<1>7. ASSUME NEW t \in Threads, TryLock(t) PROVE KeptInv'
  <2>1. Away' = Away /\ AwayOrder' = AwayOrder
    BY <1>7, SamePieces
  <2>2. /\ UNCHANGED created /\ stack[t] # <<>> /\ pc[t] = "try"
        /\ \/ UNCHANGED stack /\ pc' = [pc EXCEPT ![t] = "flush"]
           \/ stack' = [stack EXCEPT ![t] = Front(@)] /\ pc' = [pc EXCEPT ![t] = "put"]
    BY <1>7, OwnersWriter DEF TryLock, Goto
  <2>3. CASE UNCHANGED stack /\ pc' = [pc EXCEPT ![t] = "flush"]
    <3>1. pc'[t] = "flush"
      BY <2>3 DEF LogbookTypeOK
    <3>2. \A i \in DOMAIN stack[t] : Given(t, i)' = Given(t, i)
      BY <2>2, <2>3, <3>1 DEF Given
    <3> QED
      BY <2>1, <2>2, <2>3, <3>2, <1>4
  <2>4. CASE stack' = [stack EXCEPT ![t] = Front(@)] /\ pc' = [pc EXCEPT ![t] = "put"]
    BY <2>1, <2>2, <2>4, KeptWhenPopped
  <2> QED
    BY <2>2, <2>3, <2>4
<1>8. ASSUME NEW t \in Threads, FlushBuffer(t) PROVE KeptInv'
  <2>1. Away' = Away /\ AwayOrder' = AwayOrder
    BY <1>8, SamePieces
  <2>2. UNCHANGED <<stack, created>> /\ pc[t] = "flush" /\ pc' = [pc EXCEPT ![t] = "unlock"]
    BY <1>8, FlushStep
  <2>3. pc'[t] = "unlock"
    BY <2>2 DEF LogbookTypeOK
  <2>4. \A i \in DOMAIN stack[t] : Given(t, i)' = Given(t, i)
    BY <2>2, <2>3 DEF Given
  <2> QED
    BY <2>1, <2>2, <2>4, <1>4
<1>9. ASSUME NEW t \in Threads, Unlock(t) PROVE KeptInv'
  <2>1. Away' = Away /\ AwayOrder' = AwayOrder
    BY <1>9, SamePieces
  <2>2. /\ UNCHANGED created /\ stack[t] # <<>> /\ pc[t] = "unlock"
        /\ stack' = [stack EXCEPT ![t] = Front(@)] /\ pc' = [pc EXCEPT ![t] = "put"]
    BY <1>9, OwnersWriter DEF Unlock, Goto
  <2> QED
    BY <2>1, <2>2, KeptWhenPopped
<1>10. CASE UNCHANGED <<writes, streamBuffer, unblockedBuffer, stack, pc, created>>
  <2>1. Away' = Away /\ AwayOrder' = AwayOrder
    BY <1>10 DEF Away, AwayOrder
  <2> QED
    BY <1>10, <2>1 DEF KeptInv, Seen, Given, OpenBy
<1>11. ASSUME NEW l \in {1, 6}, SetLevel(l) PROVE KeptInv'
  BY <1>10, <1>11 DEF SetLevel, outputs
<1> QED
  BY <1>1, <1>2, <1>3, <1>5, <1>6, <1>7, <1>8, <1>9, <1>10, <1>11
     DEF LogbookNext, ReleaseStep, logbookVars, outputs

\* Every step keeps AfterInv.
LEMMA AfterStep ==
    ASSUME LogbookTypeOK, WriterInv, LockInv, StreamInv, QueueInv, KeptInv, AfterInv,
           [LogbookNext]_logbookVars
    PROVE  AfterInv'
<1> USE ThreadsAssumption
<1>1. ASSUME UNCHANGED <<created, Away, AwayOrder>>,
             \A o \in Threads : OpenBy(o)' \subseteq OpenBy(o)
      PROVE  AfterInv'
  BY <1>1 DEF AfterInv
\* A writer is destroyed.
<1>2. ASSUME NEW t \in Threads, stack[t] # <<>>, stack' = [stack EXCEPT ![t] = Front(@)]
      PROVE  \A o \in Threads : OpenBy(o)' \subseteq OpenBy(o)
  <2>1. LET n == Len(stack[t]) IN
        /\ DOMAIN stack'[t] = 1..(n - 1) /\ DOMAIN stack[t] = 1..n /\ n \in Nat
        /\ \A o \in Threads \ {t} : stack'[o] = stack[o]
        /\ \A i \in 1..(n - 1) : stack'[t][i] = stack[t][i]
    BY <1>2, Popped, StackDomain
  <2>2. \A i \in DOMAIN stack'[t] : i \in DOMAIN stack[t] /\ stack'[t][i] = stack[t][i]
    BY <2>1
  <2>3. OpenBy(t)' \subseteq OpenBy(t)
    BY <2>2 DEF OpenBy
  <2> QED
    BY <2>1, <2>3, SameOwned
<1>3. ASSUME NEW t \in Threads, NEW m \in Messages, CreateWriter(t, m) PROVE AfterInv'
  <2> DEFINE n == Len(stack[t])
  <2>1. Away' = Away /\ AwayOrder' = AwayOrder
    BY <1>3, SamePieces
  <2>2. /\ m \notin DOMAIN created /\ DOMAIN created' = DOMAIN created \union {m}
        /\ \A a \in DOMAIN created : created'[a] = created[a]
        /\ created'[m] = Creation(t)
    BY <1>3, CreateStep
  <2>3. PICK isOwner \in BOOLEAN :
           /\ NewWriter(m, isOwner) \in Writers
           /\ stack' = [stack EXCEPT ![t] = Append(@, NewWriter(m, isOwner))]
    BY <1>3, CreateStep
  <2>4. /\ DOMAIN stack'[t] = 1..(n + 1) /\ n \in Nat /\ DOMAIN stack[t] = 1..n
        /\ \A o \in Threads \ {t} : stack'[o] = stack[o]
        /\ stack'[t][n + 1] = NewWriter(m, isOwner) /\ \A i \in 1..n : stack'[t][i] = stack[t][i]
    BY <2>3, Pushed, StackDomain
  <2>5. \A i \in 1..(n + 1) : i \in 1..n \/ i = n + 1
    BY <2>4
  <2>6. stack'[t][n + 1].message = m
    BY <2>4 DEF NewWriter
  <2> HIDE DEF n
  <2>7. \A o \in Threads : OpenBy(o)' \subseteq OpenBy(o) \union {m}
    <3>1. OpenBy(t)' \subseteq OpenBy(t) \union {m}
      BY <2>4, <2>5, <2>6 DEF OpenBy
    <3> QED
      BY <2>4, <3>1, SameOwned
  <2> SUFFICES ASSUME NEW a \in DOMAIN created', NEW b \in created'[a].after
               PROVE  /\ b \in DOMAIN created' /\ \A o \in Threads : b \notin OpenBy(o)'
                      /\ created'[b].isOwner \/ ~created'[a].isOwner =>
                            \A c, d \in Away' : c.of = b /\ d.of = a => <<c, d>> \in AwayOrder'
    BY DEF AfterInv
  <2>8. CASE a \in DOMAIN created
    <3>1. /\ b \in DOMAIN created /\ \A o \in Threads : b \notin OpenBy(o)
          /\ created[b].isOwner \/ ~created[a].isOwner =>
                \A c, d \in Away : c.of = b /\ d.of = a => <<c, d>> \in AwayOrder
      BY <2>2, <2>8 DEF AfterInv
    <3>2. b # m /\ created'[a] = created[a] /\ created'[b] = created[b]
      BY <2>2, <2>8, <3>1
    <3> QED
      BY <2>1, <2>2, <2>7, <3>1, <3>2
  <2>9. CASE a = m
    <3>1. b \in DOMAIN created /\ created[b].thread = t /\ b \notin OpenBy(t)
      BY <2>2, <2>9 DEF Creation
    <3>2. ASSUME NEW o \in Threads PROVE b \notin OpenBy(o)
      <4>1. ASSUME NEW i \in DOMAIN stack[o], stack[o][i].message = b PROVE o = t
        BY <3>1, <4>1 DEF WriterInv, WriterAt
      <4> QED
        BY <3>1, <4>1 DEF OpenBy
    <3>3. \A d \in Away : d.of # a
      BY <2>2, <2>9 DEF KeptInv
    <3>4. b # m
      BY <2>2, <3>1
    <3> QED
      BY <2>1, <2>2, <2>7, <3>1, <3>2, <3>3, <3>4
  <2> QED
    BY <2>2, <2>8, <2>9
\* The steps that give something away: its message is open, and an owner's
\* character misses only what is queued.
<1>4. ASSUME NEW t \in Threads, UNCHANGED created, \A o \in Threads : OpenBy(o)' = OpenBy(o),
             NEW m \in OpenBy(t), NEW new, Away' = Away \union new, \A c \in new : c.of = m,
             AwayOrder \subseteq AwayOrder',
             \A c \in Away : \A d \in new :
                 created[c.of].isOwner \/ ~created[d.of].isOwner => <<c, d>> \in AwayOrder'
      PROVE  AfterInv'
  <2> SUFFICES ASSUME NEW a \in DOMAIN created, NEW b \in created[a].after
               PROVE  /\ b \in DOMAIN created /\ \A o \in Threads : b \notin OpenBy(o)'
                      /\ created[b].isOwner \/ ~created[a].isOwner =>
                            \A c, d \in Away' : c.of = b /\ d.of = a => <<c, d>> \in AwayOrder'
    BY <1>4 DEF AfterInv
  <2>1. /\ b \in DOMAIN created /\ \A o \in Threads : b \notin OpenBy(o)
        /\ created[b].isOwner \/ ~created[a].isOwner =>
              \A c, d \in Away : c.of = b /\ d.of = a => <<c, d>> \in AwayOrder
    BY DEF AfterInv
  <2>2. b # m
    BY <1>4, <2>1
  <2>3. ASSUME created[b].isOwner \/ ~created[a].isOwner,
               NEW c \in Away', NEW d \in Away', c.of = b, d.of = a
        PROVE  <<c, d>> \in AwayOrder'
    <3>1. c \in Away
      BY <1>4, <2>2, <2>3
    <3>2. CASE d \in Away
      BY <1>4, <2>1, <2>3, <3>1, <3>2
    <3>3. CASE d \in new
      BY <1>4, <2>3, <3>1, <3>3
    <3> QED
      BY <1>4, <3>2, <3>3
  <2> QED
    BY <1>4, <2>1, <2>3
<1>5. ASSUME NEW t \in Threads, PutChar(t), ~Top(t).isOwner PROVE AfterInv'
  <2>1. Away' = Away /\ AwayOrder' = AwayOrder
    BY <1>5, SamePieces
  <2>2. OpenBy(t)' = OpenBy(t) /\ \A o \in Threads \ {t} : stack'[o] = stack[o]
    BY <1>5, PutStack
  <2> QED
    BY <1>5, <2>1, <2>2, <1>1, SameOwned DEF PutChar
<1>6. ASSUME NEW t \in Threads, PutChar(t), Top(t).isOwner PROVE AfterInv'
  <2> DEFINE m == Top(t).message
             c == Char(m, Top(t).put + 1)
             W == Characters(writes) \union InText(streamBuffer)
             Q == Characters(unblockedBuffer)
  <2>1. Away' = Away \union {c} /\ AwayOrder' = AwayOrder \union W \X {c} \union {c} \X Q
    BY <1>6, PutPieces
  <2>2. /\ OpenBy(t)' = OpenBy(t) /\ \A o \in Threads \ {t} : stack'[o] = stack[o]
        /\ Len(stack[t]) \in Nat \ {0} /\ DOMAIN stack[t] = 1..Len(stack[t])
        /\ Top(t) = stack[t][Len(stack[t])]
    BY <1>6, PutStack
  <2>3. Len(stack[t]) \in DOMAIN stack[t]
    BY <2>2
  <2>4. WriterAt(t, Len(stack[t]))
    BY <2>3 DEF WriterInv
  <2>5. created[m].isOwner /\ m \in OpenBy(t) /\ c.of = m
    BY <1>6, <2>2, <2>3, <2>4 DEF WriterAt, OpenBy, Char
  <2>6. \A d \in Q : ~created[d.of].isOwner
    <3> TAKE d \in Q
    <3>1. PICK i \in DOMAIN unblockedBuffer : \E j \in DOMAIN unblockedBuffer[i].text :
              d = unblockedBuffer[i].text[j]
      BY CharacterPlace
    <3> QED
      BY <3>1 DEF QueueInv
  <2>7. Away = W \union Q
    BY DEF Away, AllOf
  <2>8. UNCHANGED created /\ \A o \in Threads : OpenBy(o)' = OpenBy(o)
    BY <1>6, <2>2, SameOwned DEF PutChar
  <2> HIDE DEF m, c, W, Q
  <2>9. \A a \in Away : \A d \in {c} :
            created[a.of].isOwner \/ ~created[d.of].isOwner => <<a, d>> \in AwayOrder'
    BY <2>1, <2>5, <2>6, <2>7
  <2>10. AwayOrder \subseteq AwayOrder' /\ \A d \in {c} : d.of = m
    BY <2>1, <2>5
  <2>11. PICK new : new = {c}
    OBVIOUS
  <2>12. Away' = Away \union new
    BY <2>1, <2>11
  <2>13. AwayOrder \subseteq AwayOrder' /\ \A d \in new : d.of = m
    BY <2>10, <2>11
  <2>14. \A a \in Away : \A d \in new :
             created[a.of].isOwner \/ ~created[d.of].isOwner => <<a, d>> \in AwayOrder'
    BY <2>9, <2>11
  <2> QED
    BY <2>5, <2>8, <2>12, <2>13, <2>14, <1>4, Zenon
<1>7. ASSUME NEW t \in Threads, PushUnblocked(t) PROVE AfterInv'
  <2> DEFINE m == Top(t).message
             text == QueuedText(Top(t)).text
  <2>1. /\ Away' = Away \union InText(text)
        /\ AwayOrder' = AwayOrder \union Pairs(text) \union Away \X InText(text)
    BY <1>7, PushPieces
  <2>2. UNCHANGED <<stack, created>> /\ stack[t] # <<>>
    BY <1>7, OwnersWriter DEF PushUnblocked
  <2>3. m \in OpenBy(t)
    BY <2>2, TopOfStack DEF OpenBy
  <2>4. \A d \in InText(text) : d.of = m
    <3>1. text = [j \in DOMAIN Text[m] |-> Char(m, j)]
      BY DEF QueuedText
    <3> HIDE DEF m, text
    <3> QED
      BY <3>1 DEF InText, Char
  <2> HIDE DEF m, text
  <2>5. \A o \in Threads : OpenBy(o)' = OpenBy(o)
    BY <2>2, SameOwned
  <2>6. /\ AwayOrder \subseteq AwayOrder'
        /\ \A c \in Away : \A d \in InText(text) : <<c, d>> \in AwayOrder'
    BY <2>1
  <2> QED
    BY <2>1, <2>2, <2>3, <2>4, <2>5, <2>6, <1>4
<1>8. ASSUME NEW t \in Threads, DestroyWriter(t) \/ FlushBuffer(t) PROVE AfterInv'
  <2>1. Away' = Away /\ AwayOrder' = AwayOrder
    BY <1>8, SamePieces
  <2>2. UNCHANGED <<stack, created>>
    BY <1>8 DEF DestroyWriter, FlushBuffer
  <2> QED
    BY <2>1, <2>2, <1>1, SameOwned
<1>9. ASSUME NEW t \in Threads, TryLock(t) \/ Unlock(t) PROVE AfterInv'
  <2>1. Away' = Away /\ AwayOrder' = AwayOrder
    BY <1>9, SamePieces
  <2>2. UNCHANGED created /\ (UNCHANGED stack \/ stack' = [stack EXCEPT ![t] = Front(@)])
    BY <1>9 DEF TryLock, Unlock
  <2>3. stack[t] # <<>>
    BY <1>9, OwnersWriter DEF TryLock, Unlock
  <2> QED
    BY <2>1, <2>2, <2>3, <1>1, <1>2, SameOwned
<1>10. ASSUME UNCHANGED <<writes, streamBuffer, unblockedBuffer, stack, created>> PROVE AfterInv'
  <2>1. Away' = Away /\ AwayOrder' = AwayOrder
    BY <1>10 DEF Away, AwayOrder
  <2> QED
    BY <1>10, <2>1, <1>1, SameOwned
<1>11. ASSUME NEW l \in {1, 6}, SetLevel(l) PROVE AfterInv'
  BY <1>10, <1>11 DEF SetLevel, outputs
<1> QED
  BY <1>3, <1>5, <1>6, <1>7, <1>8, <1>9, <1>10, <1>11
     DEF LogbookNext, ReleaseStep, logbookVars, outputs

-----------------------------------------------------------------------------
(* The logbook as a whole.                                                 *)

\* The initial states: nothing is logged.
LEMMA LogbookStarts == LogbookInit => LogbookInv
<1> SUFFICES ASSUME LogbookInit PROVE LogbookInv
  OBVIOUS
<1> USE DEF LogbookInit
<1>1. LogbookTypeOK
  <2>1. <<>> \in Seq(Chars) /\ <<>> \in Seq(Written) /\ <<>> \in Seq(Writers)
    OBVIOUS
  <2>2. [of |-> Silent, enabled |-> TRUE] \in Locations
    BY DEF Locations
  <2>3. created = [m \in DOMAIN created |-> created[m]] /\ DOMAIN created = {}
    OBVIOUS
  <2>4. isUnblocked \in BOOLEAN /\ level \in Nat /\ owner \in Threads \union {NoOne} /\ locks \in Nat
        /\ disturbed \subseteq Messages /\ stranded \in BOOLEAN
    <3>1. 1 \in Nat /\ 4 \in Nat /\ 0 \in Nat
      OBVIOUS
    <3> QED
      BY <3>1, Zenon
  <2>5. /\ stack \in [Threads -> Seq(Writers)]
        /\ pc \in [Threads -> {"put", "push", "try", "flush", "unlock"}]
    BY <2>1
  <2>6. /\ currentLocation \in Locations /\ streamBuffer \in Seq(Chars)
        /\ unblockedBuffer \in Seq(Written) /\ writes \in Seq(Written)
    BY <2>1, <2>2
  <2>7. DOMAIN created \subseteq Messages
    BY <2>3
  <2> HIDE DEF LogbookInit
  <2> QED
    BY <2>3, <2>4, <2>5, <2>6, <2>7 DEF LogbookTypeOK
<1>2. DOMAIN <<>> = {} /\ Len(<<>>) = 0
  OBVIOUS
<1>3. \A t \in Threads : stack[t] = <<>> /\ pc[t] = "put"
  OBVIOUS
<1>4. WriterInv /\ StreamInv /\ QueueInv /\ LocationInv /\ RightLocation /\ QueueHasFlusher
  BY <1>2, <1>3 DEF WriterInv, StreamInv, QueueInv, LocationInv, RightLocation, QueueHasFlusher
<1>5. LockInv
  <2>1. ASSUME NEW t \in Threads PROVE Holds(t, 0)
    BY <1>2, <1>3, ThreadsAssumption DEF Holds
  <2>2. ASSUME NEW t \in Threads PROVE 0 \in 0..Len(stack[t])
    BY <1>2, <1>3
  <2> QED
    BY <2>1, <2>2 DEF LockInv
<1>6. Away = {} /\ AwayOrder = {}
  BY NothingThere, Products DEF Away, AwayOrder, AllOf, OrderOf
<1>7. KeptInv
  BY <1>2, <1>3, <1>6 DEF KeptInv
<1>8. AfterInv
  BY DEF AfterInv
<1> QED
  BY <1>1, <1>4, <1>5, <1>7, <1>8 DEF LogbookInv

\* Every reachable state: who holds the lock and what it guards, where every
\* character is, and with which location it will be written.
THEOREM LogbookInvariant == LogbookSpec => []LogbookInv
<1>1. LogbookInv /\ [LogbookNext]_logbookVars => LogbookInv'
  BY LogbookTyped, WriterStep, LockStep, FlusherStep, StreamStep, QueueStep, LocationStep,
     RightStep, KeptStep, AfterStep DEF LogbookInv
<1> QED
  BY <1>1, LogbookStarts, PTL DEF LogbookSpec

\* The pieces of the specification are those of the invariant.
LEMMA PiecesAre ==
    ASSUME LogbookTypeOK
    PROVE  Characters(Pieces) = Away /\ Earlier(Pieces) = AwayOrder
<1>1. /\ writes \in Seq(Written) /\ unblockedBuffer \in Seq(Written)
      /\ [location |-> currentLocation, text |-> streamBuffer] \in Written
  BY DEF LogbookTypeOK, Written
<1> QED
  BY <1>1, AllPieces DEF Pieces, Away, AwayOrder

\* All characters are characters of messages.
LEMMA AwayTyped ==
    ASSUME LogbookTypeOK
    PROVE  Away \subseteq Chars
<1>1. ASSUME NEW u \in Seq(Written) PROVE Characters(u) \subseteq Chars
  <2> SUFFICES ASSUME NEW c \in Characters(u) PROVE c \in Chars
    OBVIOUS
  <2>1. PICK i \in DOMAIN u : \E j \in DOMAIN u[i].text : c = u[i].text[j]
    BY CharacterPlace
  <2>2. u[i].text \in Seq(Chars)
    <3>1. u[i] \in Written
      OBVIOUS
    <3> QED
      BY <3>1 DEF Written
  <2> QED
    BY <2>1, <2>2
<1>2. InText(streamBuffer) \subseteq Chars
  BY DEF InText, LogbookTypeOK
<1> QED
  BY <1>1, <1>2 DEF Away, AllOf, LogbookTypeOK

\* What an invariant state says of what is logged.
LEMMA InvDelivered == LogbookInv => Delivered
<1> SUFFICES ASSUME LogbookInv PROVE Delivered
  OBVIOUS
<1>1. Characters(Pieces) = Away /\ Earlier(Pieces) = AwayOrder
  BY PiecesAre DEF LogbookInv
<1>2. \A m : Positions(m) = Seen(m)
  BY <1>1 DEF Positions, Seen
<1>3. NothingLost
  <2>1. \A m \in DOMAIN created \ UNION {OpenBy(t) : t \in Threads} :
           \A t \in Threads : m \notin OpenBy(t)
    OBVIOUS
  <2> QED
    BY <1>1, <1>2, <2>1 DEF NothingLost, LogbookInv, KeptInv
<1>4. ASSUME NEW m \in DOMAIN created, NEW n \in created[m].after,
             created[n].isOwner \/ ~created[m].isOwner,
             NEW c \in Characters(writes), c.of = m, NEW i \in 1..Len(Text[n])
      PROVE  <<Char(n, i), c>> \in Earlier(writes)
  <2> DEFINE d == Char(n, i)
  <2>1. /\ n \in DOMAIN created /\ \A t \in Threads : n \notin OpenBy(t)
        /\ \A a, b \in Away : a.of = n /\ b.of = m => <<a, b>> \in AwayOrder
    BY <1>4 DEF LogbookInv, AfterInv
  <2>2. Seen(n) = 1..Len(Text[n])
    BY <2>1 DEF LogbookInv, KeptInv
  <2>3. d \in Away
    <3>1. PICK a \in Away : a.of = n /\ a.at = i
      BY <2>2 DEF Seen
    <3>2. PICK o \in Messages : \E k \in 1..Len(Text[o]) : a = Char(o, k)
      BY AwayTyped DEF LogbookInv, Chars
    <3> QED
      BY <3>1, <3>2 DEF Char
  <2>4. d.of = n
    BY DEF Char
  <2> HIDE DEF d
  <2>5. c \in Away
    BY DEF Away, AllOf
  <2>6. <<d, c>> \in AwayOrder
    BY <1>4, <2>1, <2>3, <2>4, <2>5
  \* If c were in the stream or in the queue too, it came before itself.
  <2>7. <<c, c>> \notin AwayOrder
    <3>1. <<c, c>>[1] = c /\ <<c, c>>[2] = c
      OBVIOUS
    <3>2. <<c, c>> \in AwayOrder => c.at < c.at
      BY <3>1, Zenon DEF LogbookInv, KeptInv
    <3>3. c.at \in Nat
      <4>1. PICK o \in Messages : \E k \in 1..Len(Text[o]) : c = Char(o, k)
        BY <2>5, AwayTyped DEF LogbookInv, Chars
      <4>2. Len(Text[o]) \in Nat
        BY TextOfMessage
      <4> QED
        BY <4>1, <4>2 DEF Char
    <3> QED
      BY <3>2, <3>3
  <2>8. c \notin InText(streamBuffer) /\ c \notin Characters(unblockedBuffer)
    BY <2>7 DEF AwayOrder, OrderOf
  <2>9. Pairs(streamBuffer) \subseteq InText(streamBuffer) \X InText(streamBuffer)
    BY PairsArePairs
  <2>10. Earlier(unblockedBuffer) \subseteq Characters(unblockedBuffer) \X Characters(unblockedBuffer)
    BY EarlierPairs
  <2>11. <<d, c>> \in Earlier(writes)
    BY <2>6, <2>8, <2>9, <2>10 DEF AwayOrder, OrderOf
  <2> QED
    BY <2>11 DEF d
<1>5. OrderKept
  BY <1>4 DEF OrderKept
<1> QED
  BY <1>3, <1>5 DEF Delivered

\* Logbook: what is logged arrives, every character once, a message in order,
\* and a thread's messages in order but for one queued before one that is not.
THEOREM EverythingDelivered == LogbookSpec => []Delivered
BY LogbookInvariant, InvDelivered, PTL

\* Logbook: text is written with the location of its message.
THEOREM LocationsAreRight == LogbookSpec => []RightLocation
<1>1. LogbookInv => RightLocation
  BY DEF LogbookInv
<1> QED
  BY <1>1, LogbookInvariant, PTL

\* Logbook: somebody will flush what is queued.
THEOREM SomebodyFlushes == LogbookSpec => []QueueHasFlusher
<1>1. LogbookInv => QueueHasFlusher
  BY DEF LogbookInv
<1> QED
  BY <1>1, LogbookInvariant, PTL

-----------------------------------------------------------------------------
(* Recursive functions on numbers.                                         *)

\* A set of numbers that is not empty has a least one.
LEMMA LeastNumber ==
    ASSUME NEW S, S \subseteq Nat, S # {}
    PROVE  \E m \in S : \A n \in S : m <= n
<1> DEFINE R == {pair \in Nat \X Nat : pair[1] < pair[2]}
<1>1. IsWellFoundedOn(R, Nat)
  BY NatLessThanWellFounded DEF OpToRel
<1>2. \E m \in S : \A n \in S : <<n, m>> \notin R
  <2> HIDE DEF R
  <2> QED
    BY <1>1, WFMin
<1>3. \A m, n \in Nat : <<n, m>> \notin R => m <= n
  OBVIOUS
<1> QED
  BY <1>2, <1>3

\* A set that has the first number, and with each the next one, has all up to n.
LEMMA UpTo ==
    ASSUME NEW n \in Nat, NEW S, 0 \in S, \A k \in 1..n : k - 1 \in S => k \in S
    PROVE  \A k \in 0..n : k \in S
<1> DEFINE T == {k \in 0..n : k \notin S}
<1>1. SUFFICES ASSUME T # {} PROVE FALSE
  OBVIOUS
<1>2. PICK m \in T : \A k \in T : m <= k
  <2>1. T \subseteq Nat
    OBVIOUS
  <2> HIDE DEF T
  <2> QED
    BY <1>1, <2>1, LeastNumber
<1>3. m # 0 /\ m \in 0..n /\ m \notin S
  BY <1>2
<1>4. m \in 1..n /\ m - 1 \in 0..n /\ ~(m <= m - 1)
  BY <1>3
<1>5. m - 1 \in S
  BY <1>2, <1>4
<1> QED
  BY <1>3, <1>4, <1>5

\* What n steps on a set make of one of its elements, f[k] after k of them.
IsRun(f, D, a, n, step) ==
    f \in [0..n -> D] /\ f[0] = a /\ \A k \in 1..n : f[k] = step[k][f[k - 1]]

\* There is such a function ...
LEMMA Recursion ==
    ASSUME NEW D, NEW a, NEW n, NEW step, a \in D, n \in Nat, step \in [1..n -> [D -> D]]
    PROVE  \E f : IsRun(f, D, a, n, step)
<1> DEFINE Is(f, m) == f[0] = a /\ \A k \in 1..m : f[k] = step[k][f[k - 1]]
           S == {m \in 0..n : \E f \in [0..m -> D] : Is(f, m)}
<1>1. 0 \in S
  <2> DEFINE f == [i \in 0..0 |-> a]
  <2>1. f \in [0..0 -> D] /\ f[0] = a /\ 1..0 = {} /\ 0 \in 0..n
    OBVIOUS
  <2> QED
    BY <2>1
<1>2. ASSUME NEW m \in 1..n, m - 1 \in S PROVE m \in S
  <2>1. PICK f \in [0..(m - 1) -> D] : Is(f, m - 1)
    BY <1>2
  <2> DEFINE g == [i \in 0..m |-> IF i = m THEN step[m][f[m - 1]] ELSE f[i]]
  <2>2. \A i \in 0..(m - 1) : i \in 0..m /\ i # m
    OBVIOUS
  <2>3. f[m - 1] \in D /\ step[m] \in [D -> D]
    OBVIOUS
  <2>4. g \in [0..m -> D]
    <3>1. ASSUME NEW i \in 0..m PROVE g[i] \in D
      <4>1. i = m \/ i \in 0..(m - 1)
        OBVIOUS
      <4> QED
        BY <4>1, <2>3
    <3> QED
      BY <3>1
  <2>5. g[0] = a
    <3>1. 0 \in 0..(m - 1)
      OBVIOUS
    <3> QED
      BY <3>1, <2>1, <2>2
  <2>6. ASSUME NEW k \in 1..m PROVE g[k] = step[k][g[k - 1]]
    <3>1. k - 1 \in 0..(m - 1)
      OBVIOUS
    <3>2. g[k - 1] = f[k - 1]
      BY <3>1, <2>2
    <3>3. CASE k = m
      BY <3>2, <3>3
    <3>4. CASE k # m
      <4>1. k \in 1..(m - 1) /\ k \in 0..(m - 1)
        BY <3>4
      <4>2. g[k] = f[k]
        BY <4>1, <2>2
      <4> QED
        BY <4>1, <4>2, <3>2, <2>1
    <3> QED
      BY <3>3, <3>4
  <2>7. Is(g, m) /\ m \in 0..n
    <3> HIDE DEF g
    <3> QED
      BY <2>5, <2>6
  <2> HIDE DEF g, Is
  <2> QED
    BY <2>4, <2>7
<1>3. n \in S
  <2> HIDE DEF S
  <2>1. \A k \in 0..n : k \in S
    BY <1>1, <1>2, UpTo
  <2> QED
    BY <2>1
<1> QED
  BY <1>3 DEF IsRun

AgreeFirst(f, g, n) == f[0] = g[0] /\ \A k \in 1..n : f[k - 1] = g[k - 1] => f[k] = g[k]
Agree(f, g, n)      == \A k \in 0..n : f[k] = g[k]

\* ... and one only.
LEMMA SameRecursion ==
    ASSUME NEW n, NEW f, NEW g, n \in Nat, AgreeFirst(f, g, n)
    PROVE  Agree(f, g, n)
<1> USE DEF AgreeFirst
<1> DEFINE S == {k \in 0..n : f[k] = g[k]}
<1>1. 0 \in S
  OBVIOUS
<1>2. \A k \in 1..n : k - 1 \in S => k \in S
  OBVIOUS
<1>3. \A k \in 0..n : k \in S
  <2> HIDE DEF S
  <2> QED
    BY <1>1, <1>2, UpTo
<1> QED
  BY <1>3 DEF Agree

-----------------------------------------------------------------------------
(* The ring of MemBufferAppender.                                          *)

Rings == [entries : [0..MaxLines -> [location : Locations, line : Seq(Chars)]],
          rowProducer : 0..MaxLines, rowConsumer : 0..MaxLines, columnsProducer : Nat]

\* The row that is i rows after row c.
Slot(c, i) == IF c + i <= MaxLines THEN c + i ELSE c + i - (MaxLines + 1)

\* Remainders by the number of rows.
LEMMA Modulus ==
    ASSUME NEW x \in Nat, x < 2 * (MaxLines + 1)
    PROVE  x % (MaxLines + 1) = IF x <= MaxLines THEN x ELSE x - (MaxLines + 1)
<1> DEFINE m == MaxLines + 1
           q == x \div m
<1>1. m \in Nat \ {0}
  BY SettingsAssumption
<1>2. q \in Int /\ (x % m) \in 0..(m - 1)
  BY <1>1
<1>3. x = (m * q) + (x % m)
  BY <1>1
<1>4. x < m + m
  BY <1>1
<1> HIDE DEF m, q
<1>5. CASE q = 0
  <2>1. x = x % m
    BY <1>1, <1>2, <1>3, <1>5
  <2>2. x <= MaxLines
    <3>1. m - 1 = MaxLines
      BY SettingsAssumption DEF m
    <3> QED
      BY <2>1, <3>1, <1>1, <1>2
  <2>3. x % (MaxLines + 1) = x
    BY <2>1 DEF m
  <2> QED
    BY <2>2, <2>3
<1>6. CASE q = 1
  <2>1. x = m + (x % m)
    BY <1>1, <1>2, <1>3, <1>6
  <2>2. ~(x <= m - 1) /\ x % m = x - m
    BY <2>1, <1>1, <1>2
  <2>3. m - 1 = MaxLines
    BY SettingsAssumption DEF m
  <2>4. x % (MaxLines + 1) = x - (MaxLines + 1)
    BY <2>2 DEF m
  <2>5. ~(x <= MaxLines)
    BY <2>2, <2>3
  <2> QED
    BY <2>4, <2>5
<1>7. CASE q <= -1
  <2>1. m * q <= -m
    BY <1>1, <1>2, <1>7
  <2> QED
    BY <2>1, <1>1, <1>2, <1>3
<1>8. CASE q >= 2
  <2>1. m * q >= m + m
    BY <1>1, <1>2, <1>8
  <2> QED
    BY <2>1, <1>1, <1>2, <1>3, <1>4
<1> QED
  BY <1>2, <1>5, <1>6, <1>7, <1>8

\* Rows of the ring.
LEMMA Slots ==
    ASSUME NEW c \in 0..MaxLines
    PROVE  /\ (c + 1) % (MaxLines + 1) = Slot(c, 1)
           /\ Slot(c, 0) = c /\ Slot(c, MaxLines + 1) = c
           /\ \A i \in 0..(MaxLines + 1) : Slot(c, i) \in 0..MaxLines
           /\ \A i \in 0..MaxLines : Slot(Slot(c, i), 1) = Slot(c, i + 1)
           /\ \A i \in 0..MaxLines : Slot(Slot(c, 1), i) = Slot(c, i + 1)
           /\ \A i, j \in 0..MaxLines : Slot(c, i) = Slot(c, j) => i = j
<1>1. MaxLines \in Nat \ {0}
  BY SettingsAssumption
<1>2. (c + 1) % (MaxLines + 1) = Slot(c, 1)
  <2> DEFINE x == c + 1
  <2>1. x \in Nat /\ x < 2 * (MaxLines + 1)
    BY <1>1
  <2> HIDE DEF x
  <2>2. x % (MaxLines + 1) = IF x <= MaxLines THEN x ELSE x - (MaxLines + 1)
    BY <2>1, Modulus
  <2>3. x % (MaxLines + 1) = Slot(c, 1)
    <3>1. Slot(c, 1) = IF x <= MaxLines THEN x ELSE x - (MaxLines + 1)
      BY <1>1 DEF Slot, x
    <3> QED
      BY <2>2, <3>1
  <2> QED
    BY <2>3 DEF x
<1> QED
  BY <1>1, <1>2 DEF Slot

\* A ring after a step on it.
LEMMA RingNewline ==
    ASSUME NEW b \in Rings, NEW location \in Locations
    PROVE  LET c == At(Newline(b), location)
               next == Slot(b.rowProducer, 1) IN
           /\ c \in Rings
           /\ c.rowProducer = next
           /\ c.rowConsumer = IF b.rowConsumer = next THEN Slot(b.rowConsumer, 1) ELSE b.rowConsumer
           /\ c.columnsProducer = 0
           /\ c.entries[next] = [location |-> location, line |-> <<>>]
           /\ \A i \in 0..MaxLines : i # next => c.entries[i] = b.entries[i]
<1> DEFINE next == Slot(b.rowProducer, 1)
           d == Newline(b)
<1>1. /\ b.rowProducer \in 0..MaxLines /\ b.rowConsumer \in 0..MaxLines
      /\ b.entries \in [0..MaxLines -> [location : Locations, line : Seq(Chars)]]
  BY DEF Rings
<1>2. (b.rowProducer + 1) % (MaxLines + 1) = next
      /\ (b.rowConsumer + 1) % (MaxLines + 1) = Slot(b.rowConsumer, 1)
  BY <1>1, Slots
<1>3. next \in 0..MaxLines /\ Slot(b.rowConsumer, 1) \in 0..MaxLines
  <2>1. 1 \in 0..(MaxLines + 1)
    BY SettingsAssumption
  <2> QED
    BY <1>1, <2>1, Slots
<1>4. d = [b EXCEPT !.rowProducer = next,
                    !.rowConsumer = IF @ = next THEN Slot(b.rowConsumer, 1) ELSE @,
                    !.columnsProducer = 0,
                    !.entries[next].line = <<>>]
  BY <1>2 DEF Newline
<1>5. <<>> \in Seq(Chars)
  OBVIOUS
<1> DEFINE oldest == IF b.rowConsumer = next THEN Slot(b.rowConsumer, 1) ELSE b.rowConsumer
<1>6. oldest \in 0..MaxLines
  BY <1>1, <1>3
<1>7. d = [entries |-> [b.entries EXCEPT ![next] = [b.entries[next] EXCEPT !.line = <<>>]],
           rowProducer |-> next, rowConsumer |-> oldest, columnsProducer |-> 0]
  <2> HIDE DEF next
  <2> QED
    BY <1>4 DEF Rings
<1> HIDE DEF next, oldest, d
<1>8. At(d, location) =
        [entries |-> [b.entries EXCEPT ![next] = [location |-> location, line |-> <<>>]],
         rowProducer |-> next, rowConsumer |-> oldest, columnsProducer |-> 0]
  <2>1. b.entries[next] \in [location : Locations, line : Seq(Chars)]
    BY <1>1, <1>3
  <2>2. [b.entries[next] EXCEPT !.line = <<>>] = [location |-> b.entries[next].location, line |-> <<>>]
    BY <2>1
  <2>3. d.entries[next] = [location |-> b.entries[next].location, line |-> <<>>]
    BY <1>1, <1>3, <1>7, <2>2
  <2>4. At(d, location) = [d EXCEPT !.entries = [d.entries EXCEPT ![next] = [d.entries[next] EXCEPT !.location = location]]]
    BY <1>7 DEF At
  <2>5. [d.entries[next] EXCEPT !.location = location] = [location |-> location, line |-> <<>>]
    BY <2>3
  <2>6. d.entries = [b.entries EXCEPT ![next] = [location |-> b.entries[next].location, line |-> <<>>]]
    BY <1>7, <2>2
  <2>7. [d.entries EXCEPT ![next] = [location |-> location, line |-> <<>>]]
          = [b.entries EXCEPT ![next] = [location |-> location, line |-> <<>>]]
    BY <2>6, <1>1, <1>3
  <2> QED
    BY <1>7, <2>4, <2>5, <2>7
<1> QED
  <2> DEFINE c == At(d, location)
  <2>1. c \in Rings
    BY <1>1, <1>3, <1>5, <1>6, <1>8 DEF Rings
  <2>2. /\ c.rowProducer = next /\ c.rowConsumer = oldest /\ c.columnsProducer = 0
        /\ c.entries = [b.entries EXCEPT ![next] = [location |-> location, line |-> <<>>]]
    BY <1>8
  <2> HIDE DEF c
  <2>3. /\ c.entries[next] = [location |-> location, line |-> <<>>]
        /\ \A i \in 0..MaxLines : i # next => c.entries[i] = b.entries[i]
    BY <1>1, <1>3, <2>2
  <2> QED
    BY <2>1, <2>2, <2>3 DEF c, oldest, next, d

\* The row that is written gets a location ...
LEMMA RingAt ==
    ASSUME NEW b \in Rings, NEW location \in Locations
    PROVE  LET c == At(b, location) IN
           /\ c \in Rings
           /\ c.rowProducer = b.rowProducer /\ c.rowConsumer = b.rowConsumer
           /\ c.columnsProducer = b.columnsProducer
           /\ c.entries[b.rowProducer] = [location |-> location, line |-> b.entries[b.rowProducer].line]
           /\ \A i \in 0..MaxLines : i # b.rowProducer => c.entries[i] = b.entries[i]
<1> DEFINE p == b.rowProducer
           c == At(b, location)
<1>1. /\ p \in 0..MaxLines
      /\ b.entries \in [0..MaxLines -> [location : Locations, line : Seq(Chars)]]
      /\ b.entries[p] \in [location : Locations, line : Seq(Chars)]
  BY DEF Rings
<1>2. c = [b EXCEPT !.entries = [b.entries EXCEPT ![p] = [b.entries[p] EXCEPT !.location = location]]]
  BY DEF At
<1>3. [b.entries[p] EXCEPT !.location = location] = [location |-> location, line |-> b.entries[p].line]
  BY <1>1
<1>4. c = [b EXCEPT !.entries = [b.entries EXCEPT ![p] = [location |-> location, line |-> b.entries[p].line]]]
  BY <1>2, <1>3
<1> HIDE DEF c
<1>5. c \in Rings
  <2>1. [location |-> location, line |-> b.entries[p].line] \in [location : Locations, line : Seq(Chars)]
    BY <1>1
  <2> QED
    BY <1>1, <1>4, <2>1 DEF Rings
<1>6. /\ c.rowProducer = p /\ c.rowConsumer = b.rowConsumer /\ c.columnsProducer = b.columnsProducer
      /\ c.entries = [b.entries EXCEPT ![p] = [location |-> location, line |-> b.entries[p].line]]
  BY <1>4 DEF Rings
<1> QED
  BY <1>1, <1>5, <1>6 DEF c

\* ... and a character.
LEMMA RingPut ==
    ASSUME NEW b \in Rings, NEW char \in Chars, ~(MaxColumns # 0 /\ b.columnsProducer = MaxColumns)
    PROVE  LET c == Put(b, char) IN
           /\ c \in Rings
           /\ c.rowProducer = b.rowProducer /\ c.rowConsumer = b.rowConsumer
           /\ c.columnsProducer = b.columnsProducer + 1
           /\ c.entries[b.rowProducer] = [location |-> b.entries[b.rowProducer].location,
                                          line |-> Append(b.entries[b.rowProducer].line, char)]
           /\ \A i \in 0..MaxLines : i # b.rowProducer => c.entries[i] = b.entries[i]
<1> DEFINE p == b.rowProducer
           c == Put(b, char)
           line == Append(b.entries[p].line, char)
<1>1. /\ p \in 0..MaxLines /\ b.columnsProducer \in Nat
      /\ b.entries \in [0..MaxLines -> [location : Locations, line : Seq(Chars)]]
      /\ b.entries[p] \in [location : Locations, line : Seq(Chars)]
  BY DEF Rings
<1>2. c = [b EXCEPT !.entries = [b.entries EXCEPT ![p] = [b.entries[p] EXCEPT !.line = line]],
                    !.columnsProducer = b.columnsProducer + 1]
  BY DEF Put
<1>4. line \in Seq(Chars) /\ b.columnsProducer + 1 \in Nat
  BY <1>1
<1> HIDE DEF line
<1>3. [b.entries[p] EXCEPT !.line = line] = [location |-> b.entries[p].location, line |-> line]
  <2> DEFINE e == b.entries[p]
  <2>1. e \in [location : Locations, line : Seq(Chars)]
    BY <1>1
  <2> HIDE DEF e
  <2>2. [e EXCEPT !.line = line] = [location |-> e.location, line |-> line]
    BY <2>1
  <2> QED
    BY <2>2 DEF e
<1>5. c = [b EXCEPT !.entries = [b.entries EXCEPT ![p] = [location |-> b.entries[p].location, line |-> line]],
                    !.columnsProducer = b.columnsProducer + 1]
  BY <1>2, <1>3
<1> HIDE DEF c
<1>6. c \in Rings
  <2>1. [location |-> b.entries[p].location, line |-> line] \in [location : Locations, line : Seq(Chars)]
    BY <1>1, <1>4
  <2> QED
    BY <1>1, <1>4, <1>5, <2>1 DEF Rings
<1>7. /\ c.rowProducer = p /\ c.rowConsumer = b.rowConsumer
      /\ c.columnsProducer = b.columnsProducer + 1
      /\ c.entries = [b.entries EXCEPT ![p] = [location |-> b.entries[p].location, line |-> line]]
  BY <1>5 DEF Rings
<1> QED
  BY <1>1, <1>6, <1>7 DEF c, line

-----------------------------------------------------------------------------
(* The lines a reader expects.                                             *)

Lines == [of : Messages \union {Silent}, line : Seq(Chars)]

LineLists == Seq(Lines) \ {<<>>}

\* The last line is replaced ...
LEMMA LastReplaced ==
    ASSUME NEW ls \in LineLists, NEW l \in Lines
    PROVE  LET new == Append(Front(ls), l) IN
           /\ new \in LineLists /\ Len(new) = Len(ls)
           /\ \A i \in 1..(Len(ls) - 1) : new[i] = ls[i]
           /\ new[Len(ls)] = l /\ Last(new) = l
<1>1. /\ Len(ls) \in Nat \ {0} /\ Front(ls) \in Seq(Lines) /\ Len(Front(ls)) = Len(ls) - 1
      /\ \A i \in 1..(Len(ls) - 1) : Front(ls)[i] = ls[i]
  BY FrontOf DEF LineLists
<1> DEFINE new == Append(Front(ls), l)
<1>2. /\ new \in Seq(Lines) /\ new # <<>> /\ Len(new) = Len(Front(ls)) + 1
      /\ \A i \in 1..Len(Front(ls)) : new[i] = Front(ls)[i]
      /\ new[Len(Front(ls)) + 1] = l
  BY <1>1, AppendProperties
<1> HIDE DEF new
<1>3. /\ new \in LineLists /\ Len(new) = Len(ls) /\ new[Len(ls)] = l
      /\ \A i \in 1..(Len(ls) - 1) : new[i] = ls[i]
  BY <1>1, <1>2 DEF LineLists
<1>4. Last(new) = l
  BY <1>3 DEF Last
<1> QED
  BY <1>3, <1>4 DEF new

\* ... or another one begins.
LEMMA LineAdded ==
    ASSUME NEW ls \in LineLists, NEW l \in Lines
    PROVE  LET new == Append(ls, l) IN
           /\ new \in LineLists /\ Len(new) = Len(ls) + 1
           /\ \A i \in 1..Len(ls) : new[i] = ls[i]
           /\ new[Len(ls) + 1] = l /\ Last(new) = l
<1> DEFINE new == Append(ls, l)
<1>1. ls \in Seq(Lines)
  BY DEF LineLists
<1>2. /\ new \in Seq(Lines) /\ new # <<>> /\ Len(new) = Len(ls) + 1
      /\ \A i \in 1..Len(ls) : new[i] = ls[i]
      /\ new[Len(ls) + 1] = l
  BY <1>1, AppendProperties
<1> HIDE DEF new
<1>3. Last(new) = l
  BY <1>2 DEF Last
<1> QED
  BY <1>2, <1>3 DEF new, LineLists

\* The last line.
LEMMA LastLine ==
    ASSUME NEW ls \in LineLists
    PROVE  /\ Len(ls) \in Nat \ {0} /\ Last(ls) = ls[Len(ls)] /\ Last(ls) \in Lines
           /\ Last(ls).line \in Seq(Chars) /\ Last(ls).of \in Messages \union {Silent}
           /\ \A i \in 1..Len(ls) : ls[i] \in Lines
<1>1. ls \in Seq(Lines) /\ ls # <<>>
  BY DEF LineLists
<1>2. Len(ls) \in Nat \ {0} /\ \A i \in 1..Len(ls) : ls[i] \in Lines
  BY <1>1
<1>3. Last(ls) = ls[Len(ls)]
  BY DEF Last
<1>4. Last(ls) \in Lines
  BY <1>2, <1>3
<1> QED
  BY <1>2, <1>3, <1>4 DEF Lines

\* A line that begins.
LEMMA NewLineIs ==
    ASSUME NEW of \in Messages \union {Silent}
    PROVE  /\ NewLine(of) \in Lines /\ NewLine(of).of = of
           /\ NewLine(of).line = <<>> /\ Len(NewLine(of).line) = 0
<1>1. <<>> \in Seq(Chars) /\ Len(<<>>) = 0
  OBVIOUS
<1> QED
  BY <1>1 DEF NewLine, Lines

\* A line with one character more, cut.
LEMMA CutLine ==
    ASSUME NEW line \in Seq(Chars), NEW char \in Chars, NEW columns \in Nat,
           columns # 0 => Len(line) <= columns
    PROVE  /\ Cut(Append(line, char), columns) \in Seq(Chars)
           /\ columns # 0 /\ Len(line) = columns => Cut(Append(line, char), columns) = line
           /\ ~(columns # 0 /\ Len(line) = columns) =>
                  Cut(Append(line, char), columns) = Append(line, char)
           /\ columns # 0 => Len(Cut(Append(line, char), columns)) <= columns
<1> DEFINE more == Append(line, char)
<1>1. /\ more \in Seq(Chars) /\ Len(more) = Len(line) + 1 /\ Len(line) \in Nat
      /\ \A i \in 1..Len(line) : more[i] = line[i]
  BY AppendProperties
<1> HIDE DEF more
<1>2. CASE columns # 0 /\ Len(line) = columns
  <2>1. Cut(more, columns) = SubSeq(more, 1, columns)
    BY <1>1, <1>2 DEF Cut
  <2>2. \A i \in 1..columns : more[i] \in Chars
    BY <1>1, <1>2
  <2>3. /\ SubSeq(more, 1, columns) \in Seq(Chars)
        /\ Len(SubSeq(more, 1, columns)) = IF 1 <= columns THEN columns - 1 + 1 ELSE 0
        /\ \A i \in 1..(columns - 1 + 1) : SubSeq(more, 1, columns)[i] = more[1 + i - 1]
    BY <2>2, SubSeqProperties
  <2>4. columns - 1 + 1 = columns /\ \A i \in 1..columns : 1 + i - 1 = i
    OBVIOUS
  <2>5. /\ SubSeq(more, 1, columns) \in Seq(Chars)
        /\ Len(SubSeq(more, 1, columns)) = Len(line)
        /\ \A i \in 1..Len(line) : SubSeq(more, 1, columns)[i] = line[i]
    BY <2>3, <2>4, <1>1, <1>2
  <2>6. SubSeq(more, 1, columns) = line
    <3> DEFINE part == SubSeq(more, 1, columns)
    <3> HIDE DEF part
    <3>1. part \in Seq(Chars) /\ Len(part) = Len(line) /\ \A i \in 1..Len(line) : part[i] = line[i]
      BY <2>5 DEF part
    <3>2. part = line
      BY <3>1, SeqEqual
    <3> QED
      BY <3>2 DEF part
  <2> QED
    BY <1>1, <1>2, <2>1, <2>6 DEF more
<1>3. CASE ~(columns # 0 /\ Len(line) = columns)
  <2>1. Cut(more, columns) = more
    BY <1>1, <1>3 DEF Cut
  <2> QED
    BY <1>1, <1>3, <2>1 DEF more
<1> QED
  BY <1>2, <1>3

\* Lines that are cut.
ShortLines(columns) == {ls \in LineLists : columns # 0 => Len(Last(ls).line) <= columns}

\* The line a text is appended to.
LEMMA LineForKept ==
    ASSUME NEW columns \in Nat, NEW ls \in ShortLines(columns), NEW of \in Messages \union {Silent}
    PROVE  LineFor(ls, of) \in ShortLines(columns) /\ Last(LineFor(ls, of)).of = of
<1>1. ls \in LineLists /\ (columns # 0 => Len(Last(ls).line) <= columns)
  BY DEF ShortLines
<1>2. CASE Last(ls).line # <<>> /\ Last(ls).of # of
  <2>1. LineFor(ls, of) = Append(ls, NewLine(of))
    BY <1>2 DEF LineFor
  <2> QED
    BY <1>1, <2>1, LineAdded, NewLineIs DEF ShortLines
<1>3. CASE ~(Last(ls).line # <<>> /\ Last(ls).of # of)
  <2> DEFINE l == [of |-> of, line |-> Last(ls).line]
  <2>1. LineFor(ls, of) = Append(Front(ls), l)
    BY <1>3 DEF LineFor
  <2>2. l \in Lines /\ l.of = of /\ l.line = Last(ls).line
    BY <1>1, LastLine DEF Lines
  <2> HIDE DEF l
  <2> QED
    BY <1>1, <2>1, <2>2, LastReplaced DEF ShortLines
<1> QED
  BY <1>2, <1>3

\* A character is appended.
LEMMA LineWithKept ==
    ASSUME NEW columns \in Nat, NEW ls \in ShortLines(columns), NEW char \in Chars
    PROVE  /\ LineWith(ls, char, columns) \in ShortLines(columns)
           /\ Last(LineWith(ls, char, columns)).of = Last(ls).of
<1>1. ls \in LineLists /\ (columns # 0 => Len(Last(ls).line) <= columns)
  BY DEF ShortLines
<1>2. Last(ls).line \in Seq(Chars) /\ Last(ls).of \in Messages \union {Silent}
  BY <1>1, LastLine
<1>3. CASE char.nl
  <2>1. LineWith(ls, char, columns) = Append(ls, NewLine(Last(ls).of))
    BY <1>3 DEF LineWith
  <2> QED
    BY <1>1, <1>2, <2>1, LineAdded, NewLineIs DEF ShortLines
<1>4. CASE ~char.nl
  <2> DEFINE l == [of |-> Last(ls).of, line |-> Cut(Append(Last(ls).line, char), columns)]
  <2>1. LineWith(ls, char, columns) = Append(Front(ls), l)
    BY <1>4 DEF LineWith
  <2>2. /\ Cut(Append(Last(ls).line, char), columns) \in Seq(Chars)
        /\ columns # 0 => Len(Cut(Append(Last(ls).line, char), columns)) <= columns
    BY <1>1, <1>2, CutLine
  <2>3. l \in Lines /\ l.of = Last(ls).of /\ (columns # 0 => Len(l.line) <= columns)
    BY <1>2, <2>2 DEF Lines
  <2> HIDE DEF l
  <2> QED
    BY <1>1, <2>1, <2>3, LastReplaced DEF ShortLines
<1> QED
  BY <1>3, <1>4

-----------------------------------------------------------------------------
(* The ring shows the last lines.                                          *)

\* How many complete lines it shows.
Held(ls) == IF Len(ls) - 1 < MaxLines THEN Len(ls) - 1 ELSE MaxLines

\* Its rows from the consumer to the producer are the last ones of the lines.
RingShows(b, ls) ==
    /\ b \in Rings /\ ls \in ShortLines(MaxColumns)
    /\ b.rowProducer = Slot(b.rowConsumer, Held(ls))
    /\ \A i \in 0..Held(ls) :
          LET e == b.entries[Slot(b.rowConsumer, i)] l == ls[Len(ls) - Held(ls) + i] IN
          e.line = l.line /\ e.location.of = l.of
    /\ b.columnsProducer = Len(Last(ls).line)

\* The line that is written.
LEMMA RowProducer ==
    ASSUME NEW b, NEW ls, RingShows(b, ls)
    PROVE  /\ ls \in LineLists /\ Held(ls) \in 0..MaxLines /\ Len(ls) - Held(ls) \in Nat \ {0}
           /\ b.rowProducer \in 0..MaxLines /\ b.rowConsumer \in 0..MaxLines
           /\ b.entries[b.rowProducer].line = Last(ls).line
           /\ b.entries[b.rowProducer].location.of = Last(ls).of
           /\ b.entries[b.rowProducer].location \in Locations
<1>1. ls \in LineLists
  BY DEF RingShows, ShortLines
<1>2. Len(ls) \in Nat \ {0} /\ Last(ls) = ls[Len(ls)]
  BY <1>1, LastLine
<1>3. Held(ls) \in 0..MaxLines /\ Len(ls) - Held(ls) \in Nat \ {0}
      /\ Len(ls) - Held(ls) + Held(ls) = Len(ls)
  BY <1>2, SettingsAssumption DEF Held
<1>4. /\ b.rowProducer \in 0..MaxLines /\ b.rowConsumer \in 0..MaxLines
      /\ b.entries[b.rowProducer].location \in Locations
  BY DEF RingShows, Rings
<1>5. Held(ls) \in 0..Held(ls)
  BY <1>3
<1>6. /\ b.entries[b.rowProducer].line = ls[Len(ls) - Held(ls) + Held(ls)].line
      /\ b.entries[b.rowProducer].location.of = ls[Len(ls) - Held(ls) + Held(ls)].of
  BY <1>5 DEF RingShows
<1> QED
  BY <1>1, <1>2, <1>3, <1>4, <1>6

\* It does if the last line is replaced in both ...
LEMMA RowReplaced ==
    ASSUME NEW b, NEW ls, RingShows(b, ls), NEW c \in Rings, NEW l \in Lines,
           c.rowProducer = b.rowProducer, c.rowConsumer = b.rowConsumer,
           \A i \in 0..MaxLines : i # b.rowProducer => c.entries[i] = b.entries[i],
           c.entries[b.rowProducer].line = l.line,
           c.entries[b.rowProducer].location.of = l.of,
           c.columnsProducer = Len(l.line),
           MaxColumns # 0 => Len(l.line) <= MaxColumns
    PROVE  RingShows(c, Append(Front(ls), l))
<1> DEFINE new == Append(Front(ls), l)
           n == Held(ls)
<1>1. /\ ls \in LineLists /\ n \in 0..MaxLines /\ Len(ls) - n \in Nat \ {0}
      /\ b.rowConsumer \in 0..MaxLines
  BY RowProducer
<1>2. /\ new \in LineLists /\ Len(new) = Len(ls)
      /\ \A i \in 1..(Len(ls) - 1) : new[i] = ls[i]
      /\ new[Len(ls)] = l /\ Last(new) = l
  BY <1>1, LastReplaced
<1>3. Len(ls) \in Nat \ {0}
  BY <1>1, LastLine
<1> HIDE DEF new
<1>4. Held(new) = n
  BY <1>2 DEF Held
<1>5. new \in ShortLines(MaxColumns)
  BY <1>2 DEF ShortLines
<1> HIDE DEF n
<1>6. ASSUME NEW i \in 0..n
      PROVE  /\ c.entries[Slot(c.rowConsumer, i)].line = new[Len(new) - n + i].line
             /\ c.entries[Slot(c.rowConsumer, i)].location.of = new[Len(new) - n + i].of
  <2>1. CASE i = n
    <3>1. Slot(c.rowConsumer, i) = b.rowProducer
      BY <2>1 DEF RingShows, n
    <3>2. Len(new) - n + i = Len(ls)
      BY <1>1, <1>2, <1>3, <2>1
    <3> QED
      BY <3>1, <3>2, <1>2
  <2>2. CASE i # n
    <3>1. i \in 0..MaxLines /\ n \in 0..MaxLines
      BY <1>1, SettingsAssumption
    <3>2. Slot(b.rowConsumer, i) # Slot(b.rowConsumer, n)
      BY <2>2, <3>1, <1>1, Slots
    <3>3. i \in 0..(MaxLines + 1)
      BY <1>1, SettingsAssumption
    <3>4. Slot(b.rowConsumer, i) \in 0..MaxLines
      BY <3>3, <1>1, Slots
    <3>5. Slot(b.rowConsumer, n) = b.rowProducer
      BY DEF RingShows, n
    <3>6. c.entries[Slot(b.rowConsumer, i)] = b.entries[Slot(b.rowConsumer, i)]
      BY <3>2, <3>4, <3>5
    <3>7. Len(new) - n + i = Len(ls) - n + i /\ Len(ls) - n + i \in 1..(Len(ls) - 1)
      BY <1>1, <1>2, <1>3, <2>2
    <3>8. /\ b.entries[Slot(b.rowConsumer, i)].line = ls[Len(ls) - n + i].line
          /\ b.entries[Slot(b.rowConsumer, i)].location.of = ls[Len(ls) - n + i].of
      BY DEF RingShows, n
    <3> QED
      BY <3>6, <3>7, <3>8, <1>2
  <2> QED
    BY <2>1, <2>2
<1>7. c.rowProducer = Slot(c.rowConsumer, n)
  BY DEF RingShows, n
<1>8. c.columnsProducer = Len(Last(new).line)
  BY <1>2
<1>9. RingShows(c, new)
  BY <1>4, <1>5, <1>6, <1>7, <1>8 DEF RingShows
<1> QED
  BY <1>9 DEF new

\* ... and if another one begins: a full ring loses its oldest line.
LEMMA RowAdded ==
    ASSUME NEW b, NEW ls, RingShows(b, ls), NEW location \in Locations
    PROVE  RingShows(At(Newline(b), location), Append(ls, NewLine(location.of)))
<1> DEFINE new == Append(ls, NewLine(location.of))
           n == Held(ls)
           c == At(Newline(b), location)
           next == Slot(b.rowProducer, 1)
           oldest == b.rowConsumer
<1>1. /\ ls \in LineLists /\ n \in 0..MaxLines /\ Len(ls) - n \in Nat \ {0}
      /\ oldest \in 0..MaxLines /\ b \in Rings
  BY RowProducer DEF RingShows
<1>2. location.of \in Messages \union {Silent}
  BY DEF Locations
<1>3. /\ NewLine(location.of) \in Lines /\ NewLine(location.of).of = location.of
      /\ NewLine(location.of).line = <<>> /\ Len(NewLine(location.of).line) = 0
  BY <1>2, NewLineIs
<1>4. /\ new \in LineLists /\ Len(new) = Len(ls) + 1
      /\ \A i \in 1..Len(ls) : new[i] = ls[i]
      /\ new[Len(ls) + 1] = NewLine(location.of) /\ Last(new) = NewLine(location.of)
  BY <1>1, <1>3, LineAdded
<1>5. Len(ls) \in Nat \ {0} /\ MaxLines \in Nat \ {0}
  BY <1>1, LastLine, SettingsAssumption
<1>6. /\ c \in Rings /\ c.rowProducer = next
      /\ c.rowConsumer = IF oldest = next THEN Slot(oldest, 1) ELSE oldest
      /\ c.columnsProducer = 0
      /\ c.entries[next] = [location |-> location, line |-> <<>>]
      /\ \A i \in 0..MaxLines : i # next => c.entries[i] = b.entries[i]
  BY <1>1, RingNewline
<1>7. new \in ShortLines(MaxColumns)
  BY <1>3, <1>4, SettingsAssumption DEF ShortLines
<1>8. next = Slot(oldest, n + 1)
  <2>1. b.rowProducer = Slot(oldest, n)
    BY DEF RingShows
  <2> QED
    BY <1>1, <2>1, Slots
<1>9. c.entries[next].line = new[Len(ls) + 1].line
      /\ c.entries[next].location.of = new[Len(ls) + 1].of
  BY <1>3, <1>4, <1>6
<1>10. \A i \in 0..n : /\ b.entries[Slot(oldest, i)].line = ls[Len(ls) - n + i].line
                       /\ b.entries[Slot(oldest, i)].location.of = ls[Len(ls) - n + i].of
  BY DEF RingShows
<1>11. c.columnsProducer = Len(Last(new).line)
  BY <1>3, <1>4, <1>6
<1>12. n = IF Len(ls) - 1 < MaxLines THEN Len(ls) - 1 ELSE MaxLines
  BY DEF Held
<1>13. \A i \in 0..(MaxLines + 1) : Slot(oldest, i) \in 0..MaxLines
  BY <1>1, Slots
<1> HIDE DEF new, c, next, n
<1>14. Held(new) = IF Len(ls) < MaxLines THEN Len(ls) ELSE MaxLines
  BY <1>4, <1>5 DEF Held
<1>15. CASE n < MaxLines
  <2>1. n = Len(ls) - 1 /\ Held(new) = n + 1 /\ n + 1 \in 0..MaxLines
    BY <1>5, <1>12, <1>14, <1>15
  <2>2. next # oldest
    <3> DEFINE j == n + 1
    <3>1. j \in 0..MaxLines /\ 0 \in 0..MaxLines /\ 0 # j
      BY <1>1, <1>5, <2>1
    <3> HIDE DEF j
    <3>2. Slot(oldest, 0) = oldest /\ Slot(oldest, j) # Slot(oldest, 0)
      BY <1>1, <3>1, Slots
    <3> QED
      BY <3>2, <1>8 DEF j
  <2>3. c.rowConsumer = oldest /\ c.rowProducer = Slot(oldest, n + 1)
    BY <1>6, <1>8, <2>2
  <2>4. ASSUME NEW i \in 0..(n + 1)
        PROVE  /\ c.entries[Slot(oldest, i)].line = new[Len(new) - (n + 1) + i].line
               /\ c.entries[Slot(oldest, i)].location.of = new[Len(new) - (n + 1) + i].of
    <3>1. CASE i = n + 1
      <4>1. Len(new) - (n + 1) + i = Len(ls) + 1
        BY <1>1, <1>4, <1>5, <3>1
      <4> QED
        BY <3>1, <4>1, <1>8, <1>9
    <3>2. CASE i # n + 1
      <4>1. i \in 0..n /\ i \in 0..MaxLines /\ i \in 0..(MaxLines + 1)
        BY <1>1, <1>5, <3>2
      <4>2. Slot(oldest, i) # next
        BY <1>1, <1>8, <2>1, <3>2, <4>1, Slots
      <4>3. c.entries[Slot(oldest, i)] = b.entries[Slot(oldest, i)]
        BY <1>6, <1>13, <4>1, <4>2
      <4>4. Len(new) - (n + 1) + i = Len(ls) - n + i /\ Len(ls) - n + i \in 1..Len(ls)
        BY <1>1, <1>4, <1>5, <4>1
      <4> QED
        BY <4>1, <4>3, <4>4, <1>4, <1>10
    <3> QED
      BY <3>1, <3>2
  <2>5. RingShows(c, new)
    BY <1>6, <1>7, <1>11, <2>1, <2>3, <2>4 DEF RingShows
  <2> QED
    BY <2>5 DEF c, new
<1>16. CASE n = MaxLines
  <2>1. Held(new) = MaxLines
    BY <1>5, <1>12, <1>14, <1>16
  <2>2. next = oldest
    BY <1>1, <1>8, <1>16, Slots
  <2>3. c.rowConsumer = Slot(oldest, 1)
    BY <1>6, <2>2
  <2>4. \A i \in 0..MaxLines : Slot(Slot(oldest, 1), i) = Slot(oldest, i + 1)
    BY <1>1, Slots
  <2>5. c.rowProducer = Slot(c.rowConsumer, MaxLines)
    <3>1. MaxLines \in 0..MaxLines
      BY <1>5
    <3>2. Slot(Slot(oldest, 1), MaxLines) = Slot(oldest, MaxLines + 1)
      BY <2>4, <3>1
    <3> QED
      BY <3>2, <2>3, <1>6, <1>8, <1>16
  <2>6. ASSUME NEW i \in 0..MaxLines
        PROVE  /\ c.entries[Slot(c.rowConsumer, i)].line = new[Len(new) - MaxLines + i].line
               /\ c.entries[Slot(c.rowConsumer, i)].location.of = new[Len(new) - MaxLines + i].of
    <3>1. Slot(c.rowConsumer, i) = Slot(oldest, i + 1)
      BY <2>3, <2>4
    <3>2. CASE i = MaxLines
      <4>1. Len(new) - MaxLines + i = Len(ls) + 1
        BY <1>4, <1>5, <3>2
      <4>2. Slot(c.rowConsumer, i) = next
        BY <3>1, <3>2, <1>8, <1>16
      <4> QED
        BY <4>1, <4>2, <1>9
    <3>3. CASE i # MaxLines
      <4>1. i + 1 \in 0..n /\ i + 1 \in 0..MaxLines /\ i + 1 \in 0..(MaxLines + 1) /\ i + 1 # 0
            /\ 0 \in 0..MaxLines
        BY <1>5, <1>16, <3>3
      <4>2. Slot(oldest, i + 1) # next
        <5>1. Slot(oldest, 0) = oldest
          BY <1>1, Slots
        <5> DEFINE j == i + 1
        <5>2. j \in 0..MaxLines /\ j # 0
          BY <4>1
        <5> HIDE DEF j
        <5>3. Slot(oldest, j) # Slot(oldest, 0)
          BY <1>1, <4>1, <5>2, Slots
        <5> QED
          BY <2>2, <5>1, <5>3 DEF j
      <4>3. c.entries[Slot(oldest, i + 1)] = b.entries[Slot(oldest, i + 1)]
        BY <1>6, <1>13, <4>1, <4>2
      <4>4. Len(new) - MaxLines + i = Len(ls) - n + (i + 1) /\ Len(ls) - n + (i + 1) \in 1..Len(ls)
        BY <1>1, <1>4, <1>5, <1>16, <4>1
      <4> QED
        BY <3>1, <4>1, <4>3, <4>4, <1>4, <1>10
    <3> QED
      BY <3>2, <3>3
  <2>7. RingShows(c, new)
    BY <1>6, <1>7, <1>11, <2>1, <2>5, <2>6 DEF RingShows
  <2> QED
    BY <2>7 DEF c, new
<1> QED
  BY <1>1, <1>5, <1>15, <1>16

\* A text for another location begins a line.
LEMMA RelocatedShows ==
    ASSUME NEW b, NEW ls, RingShows(b, ls), NEW location \in Locations
    PROVE  RingShows(Relocated(b, location), LineFor(ls, location.of))
<1> DEFINE old == b.entries[b.rowProducer]
           l == [of |-> location.of, line |-> Last(ls).line]
<1>1. /\ ls \in LineLists /\ b \in Rings /\ old.line = Last(ls).line
      /\ old.location.of = Last(ls).of /\ old.location \in Locations
      /\ b.columnsProducer = Len(Last(ls).line)
      /\ MaxColumns # 0 => Len(Last(ls).line) <= MaxColumns
  BY RowProducer DEF RingShows, ShortLines
<1>2. /\ Last(ls).line \in Seq(Chars) /\ location.of \in Messages \union {Silent}
      /\ Len(Last(ls).line) \in Nat
      /\ Last(ls).line = <<>> <=> Len(Last(ls).line) = 0
  <2>1. Last(ls).line \in Seq(Chars)
    BY <1>1, LastLine
  <2> QED
    BY <2>1 DEF Locations
<1>3. l \in Lines /\ l.of = location.of /\ l.line = Last(ls).line
  BY <1>2 DEF Lines
<1> HIDE DEF l, old
<1>4. CASE old.location.of = location.of
  <2>1. LineFor(ls, location.of) = Append(Front(ls), l)
    BY <1>1, <1>4 DEF LineFor, l
  <2>2. Relocated(b, location) = b
    BY <1>4 DEF Relocated, old
  <2> QED
    BY <1>1, <1>3, <1>4, <2>1, <2>2, RowReplaced DEF old
<1>5. CASE old.location.of # location.of /\ b.columnsProducer > 0
  <2>1. LineFor(ls, location.of) = Append(ls, NewLine(location.of))
    BY <1>1, <1>2, <1>5 DEF LineFor
  <2>2. Relocated(b, location) = At(Newline(b), location)
    BY <1>5 DEF Relocated, old
  <2> QED
    BY <2>1, <2>2, RowAdded
<1>6. CASE old.location.of # location.of /\ ~(b.columnsProducer > 0)
  <2>1. LineFor(ls, location.of) = Append(Front(ls), l)
    BY <1>1, <1>2, <1>6 DEF LineFor, l
  <2>2. Relocated(b, location) = At(b, location)
    BY <1>6 DEF Relocated, old
  <2> DEFINE c == At(b, location)
  <2>3. /\ c \in Rings
        /\ c.rowProducer = b.rowProducer /\ c.rowConsumer = b.rowConsumer
        /\ c.columnsProducer = b.columnsProducer
        /\ c.entries[b.rowProducer] = [location |-> location, line |-> b.entries[b.rowProducer].line]
        /\ \A i \in 0..MaxLines : i # b.rowProducer => c.entries[i] = b.entries[i]
    BY <1>1, RingAt
  <2> HIDE DEF c
  <2>4. c.entries[b.rowProducer].line = l.line /\ c.entries[b.rowProducer].location.of = l.of
    BY <1>1, <1>3, <2>3 DEF old
  <2>5. c.columnsProducer = Len(l.line) /\ (MaxColumns # 0 => Len(l.line) <= MaxColumns)
    BY <1>1, <1>3, <2>3
  <2>6. RingShows(c, Append(Front(ls), l))
    BY <1>3, <2>3, <2>4, <2>5, RowReplaced
  <2> QED
    BY <2>1, <2>2, <2>6 DEF c
<1> QED
  BY <1>4, <1>5, <1>6

\* A character of the line's location is appended, cut or ends it.
LEMMA BufferedShows ==
    ASSUME NEW b, NEW ls, RingShows(b, ls), NEW location \in Locations,
           Last(ls).of = location.of, NEW char \in Chars
    PROVE  /\ RingShows(Buffered(b, location, char), LineWith(ls, char, MaxColumns))
           /\ Last(LineWith(ls, char, MaxColumns)).of = location.of
<1> DEFINE p == b.rowProducer
           l == [of |-> Last(ls).of, line |-> Cut(Append(Last(ls).line, char), MaxColumns)]
<1>1. /\ ls \in LineLists /\ ls \in ShortLines(MaxColumns) /\ b \in Rings
      /\ b.entries[p].line = Last(ls).line /\ b.entries[p].location.of = Last(ls).of
      /\ b.columnsProducer = Len(Last(ls).line)
      /\ MaxColumns # 0 => Len(Last(ls).line) <= MaxColumns
  BY RowProducer DEF RingShows, ShortLines
<1>2. Last(ls).line \in Seq(Chars) /\ Last(ls).of \in Messages \union {Silent} /\ MaxColumns \in Nat
  BY <1>1, LastLine, SettingsAssumption
<1>3. /\ Cut(Append(Last(ls).line, char), MaxColumns) \in Seq(Chars)
      /\ MaxColumns # 0 /\ Len(Last(ls).line) = MaxColumns =>
             Cut(Append(Last(ls).line, char), MaxColumns) = Last(ls).line
      /\ ~(MaxColumns # 0 /\ Len(Last(ls).line) = MaxColumns) =>
             Cut(Append(Last(ls).line, char), MaxColumns) = Append(Last(ls).line, char)
      /\ MaxColumns # 0 => Len(Cut(Append(Last(ls).line, char), MaxColumns)) <= MaxColumns
  BY <1>1, <1>2, CutLine
<1>4. /\ l \in Lines /\ l.of = Last(ls).of
      /\ l.line = Cut(Append(Last(ls).line, char), MaxColumns)
  BY <1>2, <1>3 DEF Lines
<1>5. Last(LineWith(ls, char, MaxColumns)).of = location.of
  BY <1>1, <1>2, LineWithKept
<1>6. ~char.nl => LineWith(ls, char, MaxColumns) = Append(Front(ls), l)
  BY DEF LineWith
<1>7. ~char.nl => Buffered(b, location, char) = Put(b, char)
  BY DEF Buffered
<1> HIDE DEF l
<1>8. CASE char.nl
  <2>1. LineWith(ls, char, MaxColumns) = Append(ls, NewLine(location.of))
    BY <1>8 DEF LineWith
  <2>2. Buffered(b, location, char) = At(Newline(b), location)
    BY <1>8 DEF Buffered
  <2> QED
    BY <1>5, <2>1, <2>2, RowAdded
<1>9. CASE ~char.nl /\ MaxColumns # 0 /\ b.columnsProducer = MaxColumns
  <2>1. Put(b, char) = b
    BY <1>9 DEF Put
  <2>2. l.line = Last(ls).line
    BY <1>1, <1>3, <1>4, <1>9
  <2>3. RingShows(b, Append(Front(ls), l))
    <3>1. \A i \in 0..MaxLines : i # b.rowProducer => b.entries[i] = b.entries[i]
      OBVIOUS
    <3>2. /\ b.entries[b.rowProducer].line = l.line
          /\ b.entries[b.rowProducer].location.of = l.of
          /\ b.columnsProducer = Len(l.line)
          /\ MaxColumns # 0 => Len(l.line) <= MaxColumns
      BY <1>1, <1>4, <2>2
    <3> QED
      BY <1>1, <1>4, <3>1, <3>2, RowReplaced
  <2> QED
    BY <1>5, <1>6, <1>7, <1>9, <2>1, <2>3
<1>10. CASE ~char.nl /\ ~(MaxColumns # 0 /\ b.columnsProducer = MaxColumns)
  <2> DEFINE c == Put(b, char)
  <2>1. /\ c \in Rings
        /\ c.rowProducer = p /\ c.rowConsumer = b.rowConsumer
        /\ c.columnsProducer = b.columnsProducer + 1
        /\ c.entries[p] = [location |-> b.entries[p].location,
                           line |-> Append(b.entries[p].line, char)]
        /\ \A i \in 0..MaxLines : i # p => c.entries[i] = b.entries[i]
    BY <1>1, <1>10, RingPut
  <2> HIDE DEF c
  <2>2. l.line = Append(Last(ls).line, char)
    BY <1>1, <1>3, <1>4, <1>10
  <2>3. Len(l.line) = Len(Last(ls).line) + 1
    BY <1>2, <2>2, AppendProperties
  <2>4. /\ c.entries[p].line = l.line /\ c.entries[p].location.of = l.of
        /\ c.columnsProducer = Len(l.line)
        /\ MaxColumns # 0 => Len(l.line) <= MaxColumns
    BY <1>1, <1>3, <1>4, <2>1, <2>2, <2>3
  <2>5. RingShows(c, Append(Front(ls), l))
    BY <1>4, <2>1, <2>4, RowReplaced
  <2> QED
    BY <1>5, <1>6, <1>7, <1>10, <2>5 DEF c
<1> QED
  BY <1>8, <1>9, <1>10

\* The ring after each character of a text.
LEMMA BufferSteps ==
    ASSUME NEW b \in Rings, NEW location \in Locations, NEW text \in Seq(Chars)
    PROVE  \E f \in [0..Len(text) -> Rings] :
               /\ f[0] = Relocated(b, location)
               /\ \A k \in 1..Len(text) : f[k] = Buffered(f[k - 1], location, text[k])
               /\ f[Len(text)] = MemBufferWrite(b, location, text)
<1> DEFINE n == Len(text)
           step == [k \in 1..n |-> [r \in Rings |-> Buffered(r, location, text[k])]]
<1>1. n \in Nat /\ \A k \in 1..n : text[k] \in Chars
  OBVIOUS
<1>2. Relocated(b, location) \in Rings
  BY RingNewline, RingAt DEF Relocated
<1>3. ASSUME NEW k \in 1..n, NEW r \in Rings PROVE Buffered(r, location, text[k]) \in Rings
  <2>1. CASE text[k].nl
    BY <2>1, RingNewline DEF Buffered
  <2>2. CASE ~text[k].nl
    <3>1. Put(r, text[k]) \in Rings
      <4>1. CASE MaxColumns # 0 /\ r.columnsProducer = MaxColumns
        BY <4>1 DEF Put
      <4>2. CASE ~(MaxColumns # 0 /\ r.columnsProducer = MaxColumns)
        BY <1>1, <4>2, RingPut
      <4> QED
        BY <4>1, <4>2
    <3> QED
      BY <2>2, <3>1 DEF Buffered
  <2> QED
    BY <2>1, <2>2
<1>4. step \in [1..n -> [Rings -> Rings]]
  BY <1>3
<1> HIDE DEF n
<1>5. PICK f : IsRun(f, Rings, Relocated(b, location), n, step)
  <2> HIDE DEF step
  <2> QED
    BY <1>1, <1>2, <1>4, Recursion
<1>r. /\ f \in [0..n -> Rings] /\ f[0] = Relocated(b, location)
      /\ \A k \in 1..n : f[k] = step[k][f[k - 1]]
  BY <1>5 DEF IsRun
<1>6. \A k \in 1..n : k - 1 \in 0..n
  BY <1>1
<1>7. \A k \in 1..n : f[k] = Buffered(f[k - 1], location, text[k])
  BY <1>r, <1>6
<1> HIDE DEF step
<1> DEFINE h == CHOOSE after : after = [i \in 0..n |->
                    IF i = 0 THEN Relocated(b, location) ELSE Buffered(after[i - 1], location, text[i])]
<1>8. h = [i \in 0..n |->
              IF i = 0 THEN Relocated(b, location) ELSE Buffered(h[i - 1], location, text[i])]
  <2>1. f = [i \in 0..n |->
                IF i = 0 THEN Relocated(b, location) ELSE Buffered(f[i - 1], location, text[i])]
    <3>1. ASSUME NEW i \in 0..n
          PROVE  f[i] = IF i = 0 THEN Relocated(b, location) ELSE Buffered(f[i - 1], location, text[i])
      <4>1. i = 0 \/ i \in 1..n
        BY <1>1
      <4> QED
        BY <4>1, <1>r, <1>7
    <3>2. f = [i \in 0..n |-> f[i]]
      BY <1>r
    <3> QED
      BY <3>1, <3>2
  <2> QED
    BY <2>1
<1>9. h[n] = MemBufferWrite(b, location, text)
  BY DEF MemBufferWrite, n
<1> HIDE DEF h
<1>10. AgreeFirst(h, f, n)
  <2>1. h[0] = Relocated(b, location)
    <3>1. 0 \in 0..n
      BY <1>1
    <3> QED
      BY <1>8, <3>1
  <2>2. \A k \in 1..n : h[k] = Buffered(h[k - 1], location, text[k])
    <3>1. \A k \in 1..n : k \in 0..n /\ k # 0
      BY <1>1
    <3> QED
      BY <1>8, <3>1
  <2> QED
    BY <1>r, <1>7, <2>1, <2>2 DEF AgreeFirst
<1>11. h[n] = f[n]
  <2>1. Agree(h, f, n) /\ n \in 0..n
    BY <1>1, <1>10, SameRecursion
  <2> QED
    BY <2>1 DEF Agree
<1> QED
  BY <1>r, <1>7, <1>9, <1>11 DEF n

\* The lines after each character of a text.
LEMMA LineSteps ==
    ASSUME NEW columns \in Nat, NEW ls \in ShortLines(columns), NEW location \in Locations,
           NEW text \in Seq(Chars)
    PROVE  \E f \in [0..Len(text) -> ShortLines(columns)] :
               /\ f[0] = LineFor(ls, location.of)
               /\ \A k \in 1..Len(text) : f[k] = LineWith(f[k - 1], text[k], columns)
               /\ f[Len(text)] = LinesAfter(ls, [location |-> location, text |-> text], columns)
<1> DEFINE n == Len(text)
           step == [k \in 1..n |-> [r \in ShortLines(columns) |-> LineWith(r, text[k], columns)]]
<1>1. n \in Nat /\ \A k \in 1..n : text[k] \in Chars
  OBVIOUS
<1>2. LineFor(ls, location.of) \in ShortLines(columns)
  BY LineForKept DEF Locations
<1>3. ASSUME NEW k \in 1..n, NEW r \in ShortLines(columns)
      PROVE  LineWith(r, text[k], columns) \in ShortLines(columns)
  BY <1>1, LineWithKept
<1>4. step \in [1..n -> [ShortLines(columns) -> ShortLines(columns)]]
  BY <1>3
<1> HIDE DEF n
<1>5. PICK f : IsRun(f, ShortLines(columns), LineFor(ls, location.of), n, step)
  <2> HIDE DEF step
  <2> QED
    BY <1>1, <1>2, <1>4, Recursion
<1>6. /\ f \in [0..n -> ShortLines(columns)] /\ f[0] = LineFor(ls, location.of)
      /\ \A k \in 1..n : f[k] = step[k][f[k - 1]]
  BY <1>5 DEF IsRun
<1>7. \A k \in 1..n : k - 1 \in 0..n
  BY <1>1
<1>8. \A k \in 1..n : f[k] = LineWith(f[k - 1], text[k], columns)
  BY <1>6, <1>7
<1> HIDE DEF step
<1> DEFINE h == CHOOSE after : after = [i \in 0..n |->
                    IF i = 0 THEN LineFor(ls, location.of) ELSE LineWith(after[i - 1], text[i], columns)]
<1>9. h = [i \in 0..n |-> IF i = 0 THEN LineFor(ls, location.of) ELSE LineWith(h[i - 1], text[i], columns)]
  <2>1. ASSUME NEW i \in 0..n
        PROVE  f[i] = IF i = 0 THEN LineFor(ls, location.of) ELSE LineWith(f[i - 1], text[i], columns)
    <3>1. i = 0 \/ i \in 1..n
      BY <1>1
    <3> QED
      BY <3>1, <1>6, <1>8
  <2>2. f = [i \in 0..n |-> f[i]]
    BY <1>6
  <2>3. f = [i \in 0..n |-> IF i = 0 THEN LineFor(ls, location.of) ELSE LineWith(f[i - 1], text[i], columns)]
    BY <2>1, <2>2
  <2> QED
    BY <2>3
<1>10. h[n] = LinesAfter(ls, [location |-> location, text |-> text], columns)
  BY DEF LinesAfter, n
<1> HIDE DEF h
<1>11. AgreeFirst(h, f, n)
  <2>1. h[0] = LineFor(ls, location.of)
    <3>1. 0 \in 0..n
      BY <1>1
    <3> QED
      BY <1>9, <3>1
  <2>2. \A k \in 1..n : h[k] = LineWith(h[k - 1], text[k], columns)
    <3>1. \A k \in 1..n : k \in 0..n /\ k # 0
      BY <1>1
    <3> QED
      BY <1>9, <3>1
  <2> QED
    BY <1>6, <1>8, <2>1, <2>2 DEF AgreeFirst
<1>12. h[n] = f[n]
  <2>1. Agree(h, f, n) /\ n \in 0..n
    BY <1>1, <1>11, SameRecursion
  <2> QED
    BY <2>1 DEF Agree
<1> QED
  BY <1>6, <1>8, <1>10, <1>12 DEF n

\* A text is shown.
LEMMA TextShows ==
    ASSUME NEW b, NEW ls, RingShows(b, ls), NEW location \in Locations, NEW text \in Seq(Chars)
    PROVE  RingShows(MemBufferWrite(b, location, text),
                     LinesAfter(ls, [location |-> location, text |-> text], MaxColumns))
<1> DEFINE n == Len(text)
<1>1. /\ b \in Rings /\ ls \in ShortLines(MaxColumns) /\ MaxColumns \in Nat
      /\ n \in Nat /\ \A k \in 1..n : text[k] \in Chars
  BY SettingsAssumption DEF RingShows
<1>2. PICK f \in [0..n -> Rings] :
          /\ f[0] = Relocated(b, location)
          /\ \A k \in 1..n : f[k] = Buffered(f[k - 1], location, text[k])
          /\ f[n] = MemBufferWrite(b, location, text)
  BY <1>1, BufferSteps
<1>3. PICK g \in [0..n -> ShortLines(MaxColumns)] :
          /\ g[0] = LineFor(ls, location.of)
          /\ \A k \in 1..n : g[k] = LineWith(g[k - 1], text[k], MaxColumns)
          /\ g[n] = LinesAfter(ls, [location |-> location, text |-> text], MaxColumns)
  BY <1>1, LineSteps
<1> HIDE DEF n
<1> DEFINE S == {k \in 0..n : RingShows(f[k], g[k]) /\ Last(g[k]).of = location.of}
<1>4. 0 \in S
  <2>1. 0 \in 0..n /\ location.of \in Messages \union {Silent}
    BY <1>1 DEF Locations
  <2>2. RingShows(f[0], g[0])
    BY <1>2, <1>3, RelocatedShows
  <2>3. Last(g[0]).of = location.of
    BY <1>1, <1>3, <2>1, LineForKept
  <2> QED
    BY <2>1, <2>2, <2>3
<1>5. \A k \in 1..n : k - 1 \in S => k \in S
  <2>1. SUFFICES ASSUME NEW k \in 1..n, k - 1 \in S PROVE k \in S
    OBVIOUS
  <2>2. RingShows(f[k - 1], g[k - 1]) /\ Last(g[k - 1]).of = location.of /\ text[k] \in Chars
    BY <1>1, <2>1
  <2>3. /\ RingShows(Buffered(f[k - 1], location, text[k]), LineWith(g[k - 1], text[k], MaxColumns))
        /\ Last(LineWith(g[k - 1], text[k], MaxColumns)).of = location.of
    BY <2>2, BufferedShows
  <2>4. k \in 0..n
    BY <1>1
  <2> QED
    BY <1>2, <1>3, <2>3, <2>4
<1>6. n \in S
  <2>1. n \in 0..n
    BY <1>1
  <2> HIDE DEF S
  <2> QED
    BY <1>1, <1>4, <1>5, <2>1, UpTo
<1> QED
  BY <1>2, <1>3, <1>6

\* What is flushed is what a reader expects.
LEMMA RingIsRight ==
    ASSUME NEW b, NEW ls, RingShows(b, ls)
    PROVE  LET complete == Front(ls)
               n == IF Len(complete) < MaxLines THEN Len(complete) ELSE MaxLines IN
           [i \in DOMAIN BufferedLines(b) |->
               [of |-> BufferedLines(b)[i].location.of, line |-> BufferedLines(b)[i].line]]
           = SubSeq(complete, Len(complete) - n + 1, Len(complete))
<1> DEFINE n == Held(ls)
           oldest == b.rowConsumer
           complete == Front(ls)
<1>1. /\ ls \in LineLists /\ n \in 0..MaxLines /\ Len(ls) - n \in Nat \ {0}
      /\ oldest \in 0..MaxLines
  BY RowProducer
<1>2. /\ Len(ls) \in Nat \ {0} /\ MaxLines \in Nat \ {0}
      /\ \A i \in 1..Len(ls) : ls[i] \in Lines
  BY <1>1, LastLine, SettingsAssumption
<1>3. /\ complete \in Seq(Lines) /\ Len(complete) = Len(ls) - 1
      /\ \A i \in 1..(Len(ls) - 1) : complete[i] = ls[i]
  BY <1>1, FrontOf DEF LineLists
<1>4. n = IF Len(complete) < MaxLines THEN Len(complete) ELSE MaxLines
  BY <1>3 DEF Held
<1>5. /\ b.rowProducer = Slot(oldest, n)
      /\ \A i \in 0..n : /\ b.entries[Slot(oldest, i)].line = ls[Len(ls) - n + i].line
                         /\ b.entries[Slot(oldest, i)].location.of = ls[Len(ls) - n + i].of
  BY DEF RingShows
<1> HIDE DEF n, complete
<1>6. (b.rowProducer + MaxLines + 1 - oldest) % (MaxLines + 1) = n
  <2> DEFINE x == b.rowProducer + MaxLines + 1 - oldest
  <2>1. x = n \/ x = n + (MaxLines + 1)
    BY <1>1, <1>2, <1>5 DEF Slot
  <2>2. x \in Nat /\ x < 2 * (MaxLines + 1) /\ n <= MaxLines /\ n \in Nat
        /\ (IF x <= MaxLines THEN x ELSE x - (MaxLines + 1)) = n
    BY <1>1, <1>2, <2>1
  <2> HIDE DEF x
  <2>3. x % (MaxLines + 1) = IF x <= MaxLines THEN x ELSE x - (MaxLines + 1)
    BY <2>2, Modulus
  <2>4. x % (MaxLines + 1) = n
    BY <2>2, <2>3
  <2> QED
    BY <2>4 DEF x
<1> DEFINE rows == [i \in 1..n |-> b.entries[(oldest + i - 1) % (MaxLines + 1)]]
<1>7. BufferedLines(b) = rows
  BY <1>6 DEF BufferedLines
<1>8. ASSUME NEW i \in 1..n
      PROVE  /\ rows[i].location.of = ls[Len(ls) - n + i - 1].of
             /\ rows[i].line = ls[Len(ls) - n + i - 1].line
  <2> DEFINE j == i - 1
             x == oldest + i - 1
  <2>1. j \in 0..n /\ x = oldest + j /\ x \in Nat /\ x < 2 * (MaxLines + 1)
    BY <1>1, <1>2
  <2> HIDE DEF x
  <2>2. x % (MaxLines + 1) = IF x <= MaxLines THEN x ELSE x - (MaxLines + 1)
    BY <2>1, Modulus
  <2>3. (IF x <= MaxLines THEN x ELSE x - (MaxLines + 1)) = Slot(oldest, j)
    <3> HIDE DEF j
    <3> QED
      BY <1>1, <1>2, <2>1 DEF Slot
  <2>4. rows[i] = b.entries[Slot(oldest, j)]
    BY <2>2, <2>3 DEF x
  <2>5. Len(ls) - n + i - 1 = Len(ls) - n + j
    BY <1>1, <1>2
  <2>6. /\ b.entries[Slot(oldest, j)].line = ls[Len(ls) - n + j].line
        /\ b.entries[Slot(oldest, j)].location.of = ls[Len(ls) - n + j].of
    BY <1>5, <2>1
  <2> HIDE DEF rows, j
  <2> QED
    BY <2>4, <2>5, <2>6
<1> DEFINE seen == [i \in DOMAIN rows |-> [of |-> rows[i].location.of, line |-> rows[i].line]]
           from == Len(complete) - n + 1
           part == SubSeq(complete, from, Len(complete))
<1>9. from = Len(ls) - n /\ from \in Nat \ {0} /\ Len(complete) \in Nat
  BY <1>1, <1>2, <1>3
<1>10. /\ part \in Seq(Lines) /\ Len(part) = n
       /\ \A i \in 1..n : part[i] = ls[Len(ls) - n + i - 1]
  <2>1. \A i \in from..Len(complete) : complete[i] \in Lines
    BY <1>2, <1>3, <1>9
  <2>2. from \in Int /\ Len(complete) \in Int
    BY <1>9
  <2>3. /\ part \in Seq(Lines)
        /\ Len(part) = IF from <= Len(complete) THEN Len(complete) - from + 1 ELSE 0
        /\ \A i \in 1..(Len(complete) - from + 1) : part[i] = complete[from + i - 1]
    <3> HIDE DEF from
    <3> QED
      BY <2>1, <2>2, SubSeqProperties
  <2> HIDE DEF part
  <2>4. Len(complete) - from + 1 = n /\ (IF from <= Len(complete) THEN n ELSE 0) = n
    BY <1>1, <1>2, <1>3, <1>9
  <2>5. ASSUME NEW i \in 1..n PROVE part[i] = ls[Len(ls) - n + i - 1]
    <3>1. from + i - 1 = Len(ls) - n + i - 1 /\ Len(ls) - n + i - 1 \in 1..(Len(ls) - 1)
      BY <1>1, <1>2, <1>9
    <3> QED
      BY <2>3, <2>4, <3>1, <1>3
  <2> QED
    BY <2>3, <2>4, <2>5
<1> HIDE DEF part
<1>11. DOMAIN rows = 1..n
  OBVIOUS
<1> HIDE DEF rows
<1>12. ASSUME NEW i \in 1..n PROVE seen[i] = part[i]
  <2>1. Len(ls) - n + i - 1 \in 1..Len(ls)
    BY <1>1, <1>2
  <2>2. ls[Len(ls) - n + i - 1] \in Lines
    BY <1>2, <2>1
  <2>3. ls[Len(ls) - n + i - 1]
          = [of |-> ls[Len(ls) - n + i - 1].of, line |-> ls[Len(ls) - n + i - 1].line]
    BY <2>2 DEF Lines
  <2> QED
    BY <1>8, <1>10, <1>11, <2>3
<1>13. seen = part
  <2>1. seen = [i \in 1..n |-> seen[i]]
    BY <1>11
  <2>2. DOMAIN part = 1..n
    BY <1>10
  <2>3. part = [i \in 1..n |-> part[i]]
    BY <1>10, <2>2
  <2> HIDE DEF seen
  <2> QED
    BY <1>12, <2>1, <2>3
<1> QED
  BY <1>4, <1>7, <1>13 DEF complete, part

-----------------------------------------------------------------------------
(* Sequences one after the other.                                          *)

\* What they make together, after each of them.
LEMMA FlattenSteps ==
    ASSUME NEW S, NEW s \in Seq(Seq(S))
    PROVE  \E f \in [0..Len(s) -> Seq(S)] :
               /\ f[0] = <<>>
               /\ \A k \in 1..Len(s) : f[k] = f[k - 1] \o s[k]
               /\ f[Len(s)] = FlattenSeq(s)
<1> DEFINE n == Len(s)
           step == [k \in 1..n |-> [r \in Seq(S) |-> r \o s[k]]]
<1>1. n \in Nat /\ \A k \in 1..n : s[k] \in Seq(S)
  OBVIOUS
<1>2. <<>> \in Seq(S)
  OBVIOUS
<1>3. ASSUME NEW k \in 1..n, NEW r \in Seq(S) PROVE r \o s[k] \in Seq(S)
  BY <1>1, ConcatProperties
<1>4. step \in [1..n -> [Seq(S) -> Seq(S)]]
  BY <1>3
<1>e. n = 0 => FlattenSeq(s) = <<>>
  <2>1. n = 0 => s = <<>>
    OBVIOUS
  <2> QED
    BY <2>1 DEF FlattenSeq
<1> HIDE DEF n
<1>5. PICK f : IsRun(f, Seq(S), <<>>, n, step)
  <2> HIDE DEF step
  <2> QED
    BY <1>1, <1>2, <1>4, Recursion
<1>6. /\ f \in [0..n -> Seq(S)] /\ f[0] = <<>>
      /\ \A k \in 1..n : f[k] = step[k][f[k - 1]]
  BY <1>5 DEF IsRun
<1>7. \A k \in 1..n : k - 1 \in 0..n /\ k \in 0..n /\ k # 0
  BY <1>1
<1>8. \A k \in 1..n : f[k] = f[k - 1] \o s[k]
  BY <1>6, <1>7
<1> HIDE DEF step
<1>9. CASE n = 0
  BY <1>6, <1>8, <1>e, <1>9 DEF n
<1>10. CASE n # 0
  <2> DEFINE h == CHOOSE flatten : flatten = [i \in 1..n |->
                      IF i = 1 THEN s[i] ELSE flatten[i - 1] \o s[i]]
  <2>1. 1 \in 1..n /\ n \in 1..n
    BY <1>1, <1>10
  <2>2. f[1] = s[1]
    <3>1. f[1] = f[1 - 1] \o s[1]
      BY <1>8, <2>1
    <3>2. f[1 - 1] = <<>>
      BY <1>6
    <3>3. s[1] \in Seq(S)
      BY <1>1, <2>1
    <3>4. <<>> \o s[1] = s[1]
      BY <3>3, ConcatEmptySeq
    <3> QED
      BY <3>1, <3>2, <3>4
  <2>3. h = [i \in 1..n |-> IF i = 1 THEN s[i] ELSE h[i - 1] \o s[i]]
    <3> DEFINE g == [i \in 1..n |-> f[i]]
    <3>1. ASSUME NEW i \in 1..n
          PROVE  g[i] = IF i = 1 THEN s[i] ELSE g[i - 1] \o s[i]
      <4>1. CASE i = 1
        BY <2>2, <4>1
      <4>2. CASE i # 1
        <5>1. i - 1 \in 1..n
          BY <1>1, <4>2
        <5> QED
          BY <1>8, <4>2, <5>1
      <4> QED
        BY <4>1, <4>2
    <3>2. g = [i \in 1..n |-> g[i]]
      OBVIOUS
    <3>3. g = [i \in 1..n |-> IF i = 1 THEN s[i] ELSE g[i - 1] \o s[i]]
      <4> HIDE DEF g
      <4> QED
        BY <3>1, <3>2
    <3> HIDE DEF g
    <3> QED
      BY <3>3
  <2>4. h[n] = FlattenSeq(s)
    BY <1>10 DEF FlattenSeq, n
  <2> HIDE DEF h
  <2> DEFINE g == [i \in 0..n |-> IF i = 0 THEN <<>> ELSE h[i]]
  <2>5. AgreeFirst(g, f, n)
    <3>1. g[0] = f[0]
      <4>1. 0 \in 0..n
        BY <1>1
      <4> QED
        BY <1>6, <4>1
    <3>2. ASSUME NEW k \in 1..n, g[k - 1] = f[k - 1] PROVE g[k] = f[k]
      <4>1. CASE k = 1
        BY <1>7, <2>1, <2>2, <2>3, <4>1
      <4>2. CASE k # 1
        <5>1. k - 1 \in 1..n /\ k - 1 \in 0..n /\ k - 1 # 0
          BY <1>1, <4>2
        <5>2. h[k] = h[k - 1] \o s[k]
          BY <2>3, <4>2
        <5>3. g[k - 1] = h[k - 1] /\ g[k] = h[k]
          BY <1>7, <5>1
        <5> QED
          BY <1>8, <3>2, <5>2, <5>3
      <4> QED
        BY <4>1, <4>2
    <3> HIDE DEF g
    <3> QED
      BY <3>1, <3>2 DEF AgreeFirst
  <2>6. g[n] = h[n]
    BY <1>7, <2>1
  <2> HIDE DEF g
  <2>7. Agree(g, f, n) /\ n \in 0..n
    BY <1>1, <2>5, SameRecursion
  <2>8. f[n] = FlattenSeq(s)
    BY <2>4, <2>6, <2>7 DEF Agree
  <2> QED
    BY <1>6, <1>8, <2>8 DEF n
<1> QED
  BY <1>9, <1>10

\* With one more.
LEMMA FlattenAppend ==
    ASSUME NEW S, NEW s \in Seq(Seq(S)), NEW e \in Seq(S)
    PROVE  /\ FlattenSeq(s) \in Seq(S)
           /\ FlattenSeq(Append(s, e)) = FlattenSeq(s) \o e
<1> DEFINE n == Len(s)
           t == Append(s, e)
<1>1. /\ t \in Seq(Seq(S)) /\ Len(t) = n + 1 /\ n \in Nat
      /\ (\A i \in 1..n : t[i] = s[i]) /\ t[n + 1] = e
  BY AppendProperties
<1>2. PICK f \in [0..n -> Seq(S)] :
          f[0] = <<>> /\ (\A k \in 1..n : f[k] = f[k - 1] \o s[k]) /\ f[n] = FlattenSeq(s)
  BY FlattenSteps
<1> HIDE DEF t
<1>3. PICK g \in [0..Len(t) -> Seq(S)] :
          /\ g[0] = <<>> /\ \A k \in 1..Len(t) : g[k] = g[k - 1] \o t[k]
          /\ g[Len(t)] = FlattenSeq(t)
  BY <1>1, FlattenSteps
<1> HIDE DEF n
<1>4. AgreeFirst(g, f, n)
  <2>1. n \in Nat /\ Len(t) = n + 1 /\ \A k \in 1..n : t[k] = s[k]
    BY <1>1
  <2>2. \A k \in 1..n : k \in 1..Len(t)
    BY <2>1
  <2> QED
    BY <1>2, <1>3, <2>1, <2>2 DEF AgreeFirst
<1>5. g[n] = f[n]
  <2>1. n \in Nat /\ n \in 0..n
    BY <1>1
  <2>2. Agree(g, f, n)
    BY <1>4, <2>1, SameRecursion, Zenon
  <2> QED
    BY <2>1, <2>2 DEF Agree
<1>6. g[n + 1] = g[n] \o e
  <2> DEFINE m == n + 1
  <2>1. m \in 1..Len(t) /\ m - 1 = n /\ t[m] = e
    BY <1>1
  <2> HIDE DEF m
  <2>2. g[m] = g[m - 1] \o t[m]
    BY <1>3, <2>1
  <2>3. g[m] = g[n] \o e
    BY <2>1, <2>2
  <2> QED
    BY <2>3 DEF m
<1>7. FlattenSeq(s) \in Seq(S)
  <2>1. n \in 0..n
    BY <1>1
  <2> QED
    BY <1>2, <2>1
<1> QED
  BY <1>1, <1>2, <1>3, <1>5, <1>6, <1>7 DEF t

-----------------------------------------------------------------------------
(* The stream of OStreamAppender.                                          *)

Marks == Chars \union [header : Messages \union {Silent, "end"}]

Streams == [out : Seq(Marks), isFirstCharacterInLine : BOOLEAN, lastLocation : Locations]

\* All lines but the last one.
Complete(ls) == FlattenSeq([i \in 1..(Len(ls) - 1) |-> Whole(ls[i])])

\* Sequences of marks.
LEMMA MarksJoined ==
    ASSUME NEW q \in Seq(Marks), NEW r \in Seq(Marks), NEW s \in Seq(Marks)
    PROVE  /\ q \o r \in Seq(Marks) /\ (q \o r) \o s = q \o (r \o s)
           /\ q \o <<>> = q /\ <<>> \o q = q
<1>1. q \o r \in Seq(Marks)
  BY ConcatProperties
<1>2. (q \o r) \o s = q \o (r \o s)
  BY ConcatAssociative
<1>3. q \o <<>> = q /\ <<>> \o q = q
  BY ConcatEmptySeq
<1> QED
  BY <1>1, <1>2, <1>3

\* Single marks.
LEMMA MarksTyped ==
    /\ <<>> \in Seq(Marks) /\ LineEnd \in Marks /\ <<LineEnd>> \in Seq(Marks)
    /\ \A char \in Chars : char \in Marks /\ <<char>> \in Seq(Marks)
    /\ \A of \in Messages \union {Silent} : <<[header |-> of]>> \in Seq(Marks)
    /\ Seq(Chars) \subseteq Seq(Marks)
<1>1. LineEnd \in Marks
  BY DEF LineEnd, Marks
<1>2. \A char \in Chars : char \in Marks
  BY DEF Marks
<1>3. \A of \in Messages \union {Silent} : [header |-> of] \in Marks
  BY DEF Marks
<1>4. \A m \in Marks : <<m>> \in Seq(Marks)
  OBVIOUS
<1>5. Seq(Chars) \subseteq Seq(Marks)
  <2>1. ASSUME NEW s \in Seq(Chars) PROVE s \in Seq(Marks)
    <3>1. Len(s) \in Nat /\ s \in [1..Len(s) -> Chars]
      OBVIOUS
    <3>2. s \in [1..Len(s) -> Marks]
      BY <1>2, <3>1
    <3> QED
      BY <3>1, <3>2
  <2> QED
    BY <2>1
<1>6. <<>> \in Seq(Marks)
  OBVIOUS
<1> QED
  BY <1>1, <1>2, <1>3, <1>4, <1>5, <1>6

\* A line in the stream.
LEMMA LineShown ==
    ASSUME NEW l \in Lines
    PROVE  /\ Whole(l) \in Seq(Marks) /\ Begun(l) \in Seq(Marks)
           /\ <<[header |-> l.of]>> \in Seq(Marks) /\ l.line \in Seq(Marks)
           /\ l.line = <<>> => Begun(l) = <<>> /\ Whole(l) = <<[header |-> l.of]>> \o <<LineEnd>>
           /\ l.line # <<>> => Begun(l) = <<[header |-> l.of]>> \o l.line
                               /\ Whole(l) = Begun(l) \o <<LineEnd>>
<1> DEFINE head == <<[header |-> l.of]>>
<1>1. head \in Seq(Marks) /\ l.line \in Seq(Marks) /\ <<LineEnd>> \in Seq(Marks) /\ <<>> \in Seq(Marks)
  BY MarksTyped DEF Lines
<1>2. Whole(l) = head \o l.line \o <<LineEnd>>
  BY DEF Whole
<1>3. Begun(l) = IF l.line = <<>> THEN <<>> ELSE head \o l.line
  BY DEF Begun
<1> HIDE DEF head
<1>4. head \o l.line \in Seq(Marks)
  BY <1>1, ConcatProperties
<1>5. (head \o l.line) \o <<LineEnd>> \in Seq(Marks)
  BY <1>1, <1>4, ConcatProperties
<1>6. l.line = <<>> => head \o l.line = head
  BY <1>1, ConcatEmptySeq
<1>7. /\ Whole(l) \in Seq(Marks) /\ Begun(l) \in Seq(Marks)
      /\ l.line = <<>> => Begun(l) = <<>> /\ Whole(l) = head \o <<LineEnd>>
      /\ l.line # <<>> => Begun(l) = head \o l.line /\ Whole(l) = Begun(l) \o <<LineEnd>>
  BY <1>1, <1>2, <1>3, <1>4, <1>5, <1>6
<1> QED
  BY <1>1, <1>7 DEF head

\* All lines but the last.
LEMMA CompleteTyped ==
    ASSUME NEW ls \in LineLists
    PROVE  /\ [i \in 1..(Len(ls) - 1) |-> Whole(ls[i])] \in Seq(Seq(Marks))
           /\ Complete(ls) \in Seq(Marks)
<1> DEFINE seen == [i \in 1..(Len(ls) - 1) |-> Whole(ls[i])]
<1>1. Len(ls) \in Nat \ {0} /\ \A i \in 1..Len(ls) : ls[i] \in Lines
  BY LastLine
<1>2. ASSUME NEW i \in 1..(Len(ls) - 1) PROVE Whole(ls[i]) \in Seq(Marks)
  <2>1. ls[i] \in Lines
    BY <1>1
  <2> QED
    BY <2>1, LineShown
<1>3. seen \in Seq(Seq(Marks))
  <2>1. Len(ls) - 1 \in Nat
    BY <1>1
  <2>2. seen \in [1..(Len(ls) - 1) -> Seq(Marks)]
    BY <1>2
  <2> HIDE DEF seen
  <2> QED
    BY <2>1, <2>2
<1>4. FlattenSeq(seen) \in Seq(Marks)
  <2>1. <<>> \in Seq(Marks)
    BY MarksTyped
  <2> HIDE DEF seen
  <2> QED
    BY <1>3, <2>1, FlattenAppend
<1> QED
  BY <1>3, <1>4 DEF Complete

\* They stay if the last one is replaced, and a line that is followed is one of them.
LEMMA CompleteAfter ==
    ASSUME NEW ls \in LineLists, NEW l \in Lines
    PROVE  /\ Complete(Append(Front(ls), l)) = Complete(ls)
           /\ Complete(Append(ls, l)) = Complete(ls) \o Whole(Last(ls))
<1>1. Len(ls) \in Nat \ {0} /\ Last(ls) = ls[Len(ls)] /\ Last(ls) \in Lines
  BY LastLine
<1>2. Complete(Append(Front(ls), l)) = Complete(ls)
  <2> DEFINE new == Append(Front(ls), l)
  <2>1. Len(new) = Len(ls) /\ \A i \in 1..(Len(ls) - 1) : new[i] = ls[i]
    BY LastReplaced
  <2> HIDE DEF new
  <2>2. [i \in 1..(Len(new) - 1) |-> Whole(new[i])] = [i \in 1..(Len(ls) - 1) |-> Whole(ls[i])]
    BY <2>1
  <2>3. Complete(new) = Complete(ls)
    BY <2>2 DEF Complete
  <2> QED
    BY <2>3 DEF new
<1>3. Complete(Append(ls, l)) = Complete(ls) \o Whole(Last(ls))
  <2> DEFINE new == Append(ls, l)
             n == Len(ls) - 1
             seen == [i \in 1..n |-> Whole(ls[i])]
             more == Append(seen, Whole(Last(ls)))
             all == [i \in 1..Len(ls) |-> Whole(new[i])]
  <2>1. Len(new) = Len(ls) + 1 /\ \A i \in 1..Len(ls) : new[i] = ls[i]
    BY LineAdded
  <2>2. seen \in Seq(Seq(Marks)) /\ Whole(Last(ls)) \in Seq(Marks) /\ n \in Nat /\ n + 1 = Len(ls)
    <3>1. seen \in Seq(Seq(Marks))
      BY CompleteTyped
    <3>2. Whole(Last(ls)) \in Seq(Marks)
      BY <1>1, LineShown
    <3> QED
      BY <1>1, <3>1, <3>2
  <2>3. FlattenSeq(more) = FlattenSeq(seen) \o Whole(Last(ls))
    <3> HIDE DEF seen
    <3> QED
      BY <2>2, FlattenAppend
  <2> HIDE DEF new
  <2>4. /\ Len(seen) = n /\ \A i \in 1..n : seen[i] = Whole(ls[i])
    BY <2>2
  <2> HIDE DEF seen, n
  <2>5. /\ Len(more) = n + 1 /\ more \in Seq(Seq(Marks)) /\ more[n + 1] = Whole(Last(ls))
        /\ \A i \in 1..n : more[i] = Whole(ls[i])
    <3>1. /\ more \in Seq(Seq(Marks)) /\ Len(more) = Len(seen) + 1
          /\ (\A i \in 1..Len(seen) : more[i] = seen[i])
          /\ more[Len(seen) + 1] = Whole(Last(ls))
      BY <2>2, AppendProperties
    <3> HIDE DEF more
    <3> QED
      BY <2>4, <3>1
  <2> HIDE DEF more
  <2>6. all = more
    <3>1. DOMAIN more = 1..Len(ls)
      BY <2>2, <2>5
    <3>2. ASSUME NEW i \in 1..Len(ls) PROVE more[i] = Whole(new[i])
      <4>1. i = n + 1 \/ i \in 1..n
        BY <2>2
      <4> QED
        BY <4>1, <2>1, <2>2, <2>5, <1>1
    <3>3. more = [i \in 1..Len(ls) |-> more[i]]
      BY <2>5, <3>1
    <3> QED
      BY <3>2, <3>3
  <2>7. Complete(new) = FlattenSeq(all)
    <3>1. Len(new) - 1 = Len(ls)
      BY <1>1, <2>1
    <3> QED
      BY <3>1 DEF Complete
  <2>8. Complete(ls) = FlattenSeq(seen)
    BY DEF Complete, seen, n
  <2> HIDE DEF all
  <2>9. Complete(new) = Complete(ls) \o Whole(Last(ls))
    BY <2>3, <2>6, <2>7, <2>8
  <2> QED
    BY <2>9 DEF new
<1> QED
  BY <1>2, <1>3

\* The stream shows complete lines and what has begun.
StreamShows(o, ls) ==
    /\ o \in Streams /\ ls \in ShortLines(0)
    /\ o.lastLocation.of = Last(ls).of
    /\ o.isFirstCharacterInLine <=> Last(ls).line = <<>>
    /\ o.out = Complete(ls) \o Begun(Last(ls))

\* Its parts.
LEMMA StreamParts ==
    ASSUME NEW o, NEW ls, StreamShows(o, ls)
    PROVE  /\ ls \in LineLists /\ Last(ls) \in Lines /\ Last(ls).line \in Seq(Chars)
           /\ Last(ls).of \in Messages \union {Silent}
           /\ Complete(ls) \in Seq(Marks) /\ Begun(Last(ls)) \in Seq(Marks)
           /\ o.out \in Seq(Marks) /\ o.isFirstCharacterInLine \in BOOLEAN
           /\ o.lastLocation \in Locations
<1>1. ls \in LineLists
  BY DEF StreamShows, ShortLines
<1>2. Last(ls) \in Lines /\ Last(ls).line \in Seq(Chars) /\ Last(ls).of \in Messages \union {Silent}
  BY <1>1, LastLine
<1>3. Complete(ls) \in Seq(Marks) /\ Begun(Last(ls)) \in Seq(Marks)
  BY <1>1, <1>2, CompleteTyped, LineShown
<1> QED
  BY <1>1, <1>2, <1>3 DEF StreamShows, Streams

\* The lines after a line has been replaced or added.
LEMMA LastShown ==
    ASSUME NEW ls \in LineLists, NEW l \in Lines
    PROVE  /\ Last(Append(Front(ls), l)) = l /\ Complete(Append(Front(ls), l)) = Complete(ls)
           /\ Last(Append(ls, l)) = l /\ Complete(Append(ls, l)) = Complete(ls) \o Whole(Last(ls))
<1>1. Last(Append(Front(ls), l)) = l
  BY LastReplaced
<1>2. Last(Append(ls, l)) = l
  BY LineAdded
<1> QED
  BY <1>1, <1>2, CompleteAfter
\* A text for another location ends a line that has begun.
LEMMA MovedShows ==
    ASSUME NEW o, NEW ls, StreamShows(o, ls), NEW location \in Locations
    PROVE  StreamShows(Moved(o, location), LineFor(ls, location.of))
<1> DEFINE new == LineFor(ls, location.of)
           l == [of |-> location.of, line |-> Last(ls).line]
           begun == NewLine(location.of)
<1>1. /\ ls \in LineLists /\ ls \in ShortLines(0) /\ Last(ls) \in Lines
      /\ Last(ls).line \in Seq(Chars) /\ Complete(ls) \in Seq(Marks)
      /\ Begun(Last(ls)) \in Seq(Marks)
      /\ o \in Streams /\ o.lastLocation.of = Last(ls).of
      /\ (o.isFirstCharacterInLine <=> Last(ls).line = <<>>)
      /\ o.out = Complete(ls) \o Begun(Last(ls))
  BY StreamParts DEF StreamShows
<1>2. location.of \in Messages \union {Silent}
  BY DEF Locations
<1>3. new \in ShortLines(0) /\ Last(new).of = location.of
  BY <1>1, <1>2, LineForKept
<1>4. l \in Lines /\ l.of = location.of /\ l.line = Last(ls).line
  BY <1>1, <1>2 DEF Lines
<1>5. begun \in Lines /\ begun.of = location.of /\ begun.line = <<>>
  BY <1>2, NewLineIs
<1> HIDE DEF l, begun
<1>6. ASSUME new = Append(Front(ls), l)
      PROVE  Last(new).line = Last(ls).line /\ Complete(new) = Complete(ls)
  BY <1>1, <1>4, <1>6, LastShown
<1>7. ASSUME new = Append(ls, begun)
      PROVE  Last(new).line = <<>> /\ Complete(new) = Complete(ls) \o Whole(Last(ls))
  BY <1>1, <1>5, <1>7, LastShown
<1>8. ~(Last(ls).line # <<>> /\ Last(ls).of # location.of) => new = Append(Front(ls), l)
  BY DEF LineFor, l
<1>9. Last(ls).line # <<>> /\ Last(ls).of # location.of => new = Append(ls, begun)
  BY DEF LineFor, begun
<1> HIDE DEF new
<1>10. CASE o.lastLocation.of = location.of
  <2>1. Moved(o, location) = o
    BY <1>10 DEF Moved
  <2>2. Last(new).line = Last(ls).line /\ Complete(new) = Complete(ls)
    BY <1>1, <1>6, <1>8, <1>10
  <2>3. Begun(Last(new)) = Begun(Last(ls))
    BY <1>1, <1>3, <1>10, <2>2 DEF Begun
  <2>4. StreamShows(o, new)
    BY <1>1, <1>3, <1>10, <2>2, <2>3 DEF StreamShows
  <2> QED
    BY <2>1, <2>4 DEF new
<1>11. CASE o.lastLocation.of # location.of /\ o.isFirstCharacterInLine
  <2> DEFINE c == Moved(o, location)
  <2>1. c = [out |-> o.out, isFirstCharacterInLine |-> TRUE, lastLocation |-> location]
    BY <1>1, <1>11 DEF Moved, Streams
  <2> HIDE DEF c
  <2>2. c \in Streams
    BY <1>1, <2>1 DEF Streams
  <2>3. Last(new).line = <<>> /\ Complete(new) = Complete(ls)
    BY <1>1, <1>6, <1>8, <1>11
  <2>4. Begun(Last(new)) = <<>> /\ Begun(Last(ls)) = <<>>
    BY <1>1, <1>11, <2>3 DEF Begun
  <2>5. StreamShows(c, new)
    BY <1>1, <1>3, <2>1, <2>2, <2>3, <2>4 DEF StreamShows
  <2> QED
    BY <2>5 DEF new, c
<1>12. CASE o.lastLocation.of # location.of /\ ~o.isFirstCharacterInLine
  <2> DEFINE c == Moved(o, location)
             out == Append(o.out, LineEnd)
  <2>1. c = [out |-> out, isFirstCharacterInLine |-> TRUE, lastLocation |-> location]
    BY <1>1, <1>12 DEF Moved, Streams
  <2>2. o.out \in Seq(Marks) /\ LineEnd \in Marks /\ <<LineEnd>> \in Seq(Marks) /\ <<>> \in Seq(Marks)
    BY <1>1, MarksTyped DEF Streams
  <2>3. out \in Seq(Marks) /\ out = o.out \o <<LineEnd>>
    BY <2>2, AppendProperties, AppendIsConcat
  <2> HIDE DEF c, out
  <2>4. c \in Streams
    BY <2>1, <2>3 DEF Streams
  <2>5. Last(new).line = <<>> /\ Complete(new) = Complete(ls) \o Whole(Last(ls))
    BY <1>1, <1>7, <1>9, <1>12
  <2>6. Whole(Last(ls)) = Begun(Last(ls)) \o <<LineEnd>>
    BY <1>1, <1>12, LineShown
  <2>7. out = Complete(ls) \o (Begun(Last(ls)) \o <<LineEnd>>)
    BY <1>1, <2>2, <2>3, MarksJoined
  <2>8. Begun(Last(new)) = <<>>
    BY <2>5 DEF Begun
  <2>9. out = Complete(new) \o Begun(Last(new))
    <3>1. out = Complete(new)
      BY <2>5, <2>6, <2>7
    <3>2. out \o <<>> = out
      BY <2>3, ConcatEmptySeq
    <3> QED
      BY <2>8, <3>1, <3>2
  <2>10. StreamShows(c, new)
    BY <1>3, <2>1, <2>4, <2>5, <2>9 DEF StreamShows
  <2> QED
    BY <2>10 DEF new, c
<1> QED
  BY <1>10, <1>11, <1>12

\* What printing one character makes of a stream.
LEMMA PrintedIs ==
    ASSUME NEW o \in Streams, NEW location \in Locations, NEW char \in Chars
    PROVE  LET c == Printed(o, location, char)
               head == IF o.isFirstCharacterInLine THEN <<[header |-> location.of]>> ELSE <<>>
               mark == IF char.nl THEN <<LineEnd>> ELSE <<char>> IN
           /\ c \in Streams /\ c.out = (o.out \o head) \o mark
           /\ head \in Seq(Marks) /\ mark \in Seq(Marks)
           /\ c.isFirstCharacterInLine = char.nl /\ c.lastLocation = o.lastLocation
<1> DEFINE c == Printed(o, location, char)
           head == IF o.isFirstCharacterInLine THEN <<[header |-> location.of]>> ELSE <<>>
           mark == IF char.nl THEN <<LineEnd>> ELSE <<char>>
           out == (o.out \o head) \o mark
<1>1. head \in Seq(Marks) /\ mark \in Seq(Marks)
  <2>1. location.of \in Messages \union {Silent}
    BY DEF Locations
  <2> QED
    BY <2>1, MarksTyped
<1>2. char.nl \in BOOLEAN
  <2>1. PICK m \in Messages : char \in {Char(m, i) : i \in 1..Len(Text[m])}
    BY DEF Chars
  <2>2. PICK i \in 1..Len(Text[m]) : char = Char(m, i)
    BY <2>1
  <2>3. Text[m] \in Seq(BOOLEAN)
    BY MessagesAssumption
  <2>4. Text[m][i] \in BOOLEAN
    BY <2>3
  <2> QED
    BY <2>2, <2>4 DEF Char
<1>3. c = [o EXCEPT !.out = out, !.isFirstCharacterInLine = char.nl]
  BY DEF Printed, Header
<1>4. out \in Seq(Marks)
  <2>1. o.out \in Seq(Marks)
    BY DEF Streams
  <2> HIDE DEF head, mark
  <2>2. o.out \o head \in Seq(Marks)
    BY <1>1, <2>1, ConcatProperties
  <2> QED
    BY <1>1, <2>2, ConcatProperties
<1> HIDE DEF out, c
<1>5. c \in Streams /\ c.out = out /\ c.isFirstCharacterInLine = char.nl /\ c.lastLocation = o.lastLocation
  BY <1>2, <1>3, <1>4 DEF Streams
<1> QED
  BY <1>1, <1>5 DEF out, c

\* A character of the line's location begins, continues or ends it.
LEMMA PrintedShows ==
    ASSUME NEW o, NEW ls, StreamShows(o, ls), NEW location \in Locations,
           Last(ls).of = location.of, NEW char \in Chars
    PROVE  /\ StreamShows(Printed(o, location, char), LineWith(ls, char, 0))
           /\ Last(LineWith(ls, char, 0)).of = location.of
<1> DEFINE new == LineWith(ls, char, 0)
           line == Append(Last(ls).line, char)
           l == [of |-> Last(ls).of, line |-> line]
           begun == NewLine(Last(ls).of)
           c == Printed(o, location, char)
           title == <<[header |-> location.of]>>
           head == IF o.isFirstCharacterInLine THEN title ELSE <<>>
           mark == IF char.nl THEN <<LineEnd>> ELSE <<char>>
<1>1. /\ ls \in LineLists /\ ls \in ShortLines(0) /\ Last(ls) \in Lines
      /\ Last(ls).line \in Seq(Chars) /\ Complete(ls) \in Seq(Marks)
      /\ Begun(Last(ls)) \in Seq(Marks) /\ Last(ls).of \in Messages \union {Silent}
      /\ o \in Streams /\ o.lastLocation.of = Last(ls).of
      /\ (o.isFirstCharacterInLine <=> Last(ls).line = <<>>)
      /\ o.out = Complete(ls) \o Begun(Last(ls)) /\ o.out \in Seq(Marks)
  BY StreamParts DEF StreamShows
<1>2. new \in ShortLines(0) /\ Last(new).of = location.of
  BY <1>1, LineWithKept
<1>3. /\ line \in Seq(Chars) /\ line # <<>> /\ line = Last(ls).line \o <<char>>
      /\ line \in Seq(Marks) /\ <<char>> \in Seq(Marks) /\ <<LineEnd>> \in Seq(Marks)
      /\ Last(ls).line \in Seq(Marks) /\ title \in Seq(Marks) /\ <<>> \in Seq(Marks)
  <2>1. line \in Seq(Chars) /\ line # <<>> /\ line = Last(ls).line \o <<char>>
    <3> DEFINE q == Last(ls).line
    <3>1. q \in Seq(Chars)
      BY <1>1
    <3> HIDE DEF q
    <3>2. Append(q, char) \in Seq(Chars) /\ Append(q, char) # <<>> /\ Append(q, char) = q \o <<char>>
      BY <3>1, AppendProperties, AppendIsConcat
    <3> QED
      BY <3>2 DEF q
  <2> HIDE DEF line
  <2>2. location.of \in Messages \union {Silent}
    BY DEF Locations
  <2> QED
    BY <1>1, <2>1, <2>2, MarksTyped
<1>4. Cut(line, 0) = line
  BY DEF Cut
<1>5. l \in Lines /\ l.of = Last(ls).of /\ l.line = line
  BY <1>1, <1>3 DEF Lines
<1>6. begun \in Lines /\ begun.line = <<>>
  BY <1>1, NewLineIs
<1>7. /\ c \in Streams /\ c.out = (o.out \o head) \o mark
      /\ head \in Seq(Marks) /\ mark \in Seq(Marks)
      /\ c.isFirstCharacterInLine = char.nl /\ c.lastLocation = o.lastLocation
  BY <1>1, PrintedIs
<1>8. ~char.nl => new = Append(Front(ls), l)
  BY <1>4 DEF LineWith
<1>9. char.nl => new = Append(ls, begun)
  BY DEF LineWith
<1>10. c.out = Complete(ls) \o (Begun(Last(ls)) \o (head \o mark))
  <2> DEFINE b == Begun(Last(ls))
  <2> HIDE DEF head, mark, c, b
  <2>1. b \in Seq(Marks) /\ o.out = Complete(ls) \o b
    BY <1>1 DEF b
  <2> DEFINE q == head \o mark
             r == o.out
             s == Complete(ls)
  <2>2. head \o mark \in Seq(Marks)
    BY <1>7, MarksJoined
  <2>3. r \in Seq(Marks) /\ s \in Seq(Marks) /\ r = s \o b
    BY <1>1, <2>1
  <2> HIDE DEF r, s
  <2>4. (r \o head) \o mark = r \o (head \o mark)
    <3>1. r \in Seq(Marks) /\ head \in Seq(Marks) /\ mark \in Seq(Marks)
      BY <1>7, <2>3
    <3> QED
      BY <3>1, MarksJoined
  <2>5. q \in Seq(Marks)
    BY <2>2
  <2> HIDE DEF q
  <2>6. (s \o b) \o q = s \o (b \o q)
    BY <2>1, <2>3, <2>5, MarksJoined
  <2>7. r \o q = s \o (b \o q)
    BY <2>3, <2>6
  <2> QED
    BY <1>7, <2>4, <2>7 DEF b, q, r, s
<1> HIDE DEF new, line, l, begun, c, title
<1>11. /\ Last(ls).line = <<>> => /\ Begun(Last(ls)) = <<>>
                                  /\ Whole(Last(ls)) = title \o <<LineEnd>>
       /\ Last(ls).line # <<>> => /\ Begun(Last(ls)) = title \o Last(ls).line
                                  /\ Whole(Last(ls)) = Begun(Last(ls)) \o <<LineEnd>>
  BY <1>1, LineShown DEF title
<1>12. Begun(l) = title \o line
  BY <1>3, <1>5, LineShown DEF title
<1>13. CASE char.nl
  <2>1. Last(new).line = <<>> /\ Complete(new) = Complete(ls) \o Whole(Last(ls))
    BY <1>1, <1>6, <1>9, <1>13, LastShown
  <2>2. Begun(Last(new)) = <<>>
    BY <2>1 DEF Begun
  <2>3. Begun(Last(ls)) \o (head \o mark) = Whole(Last(ls))
    <3>1. CASE Last(ls).line = <<>>
      BY <1>1, <1>3, <1>7, <1>11, <1>13, <3>1, MarksJoined
    <3>2. CASE Last(ls).line # <<>>
      BY <1>1, <1>3, <1>7, <1>11, <1>13, <3>2, MarksJoined
    <3> QED
      BY <3>1, <3>2
  <2>4. Whole(Last(ls)) \in Seq(Marks)
    BY <1>1, LineShown
  <2>5. c.out = Complete(new) \o Begun(Last(new))
    <3>1. Complete(new) \in Seq(Marks)
      BY <1>1, <2>1, <2>4, MarksJoined
    <3>2. Complete(new) \o <<>> = Complete(new)
      BY <3>1, ConcatEmptySeq
    <3> QED
      BY <1>10, <2>1, <2>2, <2>3, <3>2
  <2>6. StreamShows(c, new)
    BY <1>1, <1>2, <1>7, <1>13, <2>1, <2>5 DEF StreamShows
  <2> QED
    BY <1>2, <2>6 DEF new, c
<1>14. CASE ~char.nl
  <2>1. Last(new) = l /\ Complete(new) = Complete(ls)
    BY <1>1, <1>5, <1>8, <1>14, LastShown
  <2>2. Begun(Last(ls)) \o (head \o mark) = title \o line
    <3>1. CASE Last(ls).line = <<>>
      <4>1. head \o mark = title \o <<char>> /\ Begun(Last(ls)) = <<>>
        BY <1>1, <1>11, <1>14, <3>1
      <4>2. line = <<char>>
        BY <1>3, <3>1, MarksJoined
      <4>3. title \o <<char>> \in Seq(Marks)
        BY <1>3, MarksJoined
      <4> QED
        BY <4>1, <4>2, <4>3, ConcatEmptySeq
    <3>2. CASE Last(ls).line # <<>>
      <4>1. head \o mark = <<char>> /\ Begun(Last(ls)) = title \o Last(ls).line
        BY <1>1, <1>3, <1>11, <1>14, <3>2, ConcatEmptySeq
      <4>2. (title \o Last(ls).line) \o <<char>> = title \o (Last(ls).line \o <<char>>)
        <5> DEFINE q == Last(ls).line
                   r == <<char>>
        <5>1. q \in Seq(Marks) /\ r \in Seq(Marks) /\ title \in Seq(Marks)
          BY <1>3
        <5> HIDE DEF q, r
        <5>2. (title \o q) \o r = title \o (q \o r)
          BY <5>1, MarksJoined
        <5> QED
          BY <5>2 DEF q, r
      <4> QED
        BY <1>3, <4>1, <4>2
    <3> QED
      BY <3>1, <3>2
  <2>3. c.out = Complete(new) \o Begun(Last(new))
    BY <1>10, <1>12, <2>1, <2>2
  <2>4. StreamShows(c, new)
    BY <1>1, <1>2, <1>3, <1>5, <1>7, <1>14, <2>1, <2>3 DEF StreamShows
  <2> QED
    BY <1>2, <2>4 DEF new, c
<1> QED
  BY <1>13, <1>14

\* The stream after each character of a text.
LEMMA StreamSteps ==
    ASSUME NEW o \in Streams, NEW location \in Locations, NEW text \in Seq(Chars)
    PROVE  \E f \in [0..Len(text) -> Streams] :
               /\ f[0] = Moved(o, location)
               /\ \A k \in 1..Len(text) : f[k] = Printed(f[k - 1], location, text[k])
               /\ f[Len(text)] = OStreamWrite(o, location, text)
<1> DEFINE n == Len(text)
           step == [k \in 1..n |-> [r \in Streams |-> Printed(r, location, text[k])]]
<1>1. n \in Nat /\ \A k \in 1..n : text[k] \in Chars
  OBVIOUS
<1>2. Moved(o, location) \in Streams
  <2>1. o.out \in Seq(Marks) /\ LineEnd \in Marks
    BY MarksTyped DEF Streams
  <2>2. Append(o.out, LineEnd) \in Seq(Marks)
    BY <2>1, AppendProperties
  <2> QED
    BY <2>1, <2>2 DEF Moved, Streams
<1>3. ASSUME NEW k \in 1..n, NEW r \in Streams PROVE Printed(r, location, text[k]) \in Streams
  BY <1>1, PrintedIs
<1>4. step \in [1..n -> [Streams -> Streams]]
  BY <1>3
<1> HIDE DEF n
<1>5. PICK f : IsRun(f, Streams, Moved(o, location), n, step)
  <2> HIDE DEF step
  <2> QED
    BY <1>1, <1>2, <1>4, Recursion
<1>6. /\ f \in [0..n -> Streams] /\ f[0] = Moved(o, location)
      /\ \A k \in 1..n : f[k] = step[k][f[k - 1]]
  BY <1>5 DEF IsRun
<1>7. \A k \in 1..n : k - 1 \in 0..n
  BY <1>1
<1>8. \A k \in 1..n : f[k] = Printed(f[k - 1], location, text[k])
  BY <1>6, <1>7
<1> HIDE DEF step
<1> DEFINE h == CHOOSE after : after = [i \in 0..n |->
                    IF i = 0 THEN Moved(o, location) ELSE Printed(after[i - 1], location, text[i])]
<1>9. h = [i \in 0..n |-> IF i = 0 THEN Moved(o, location) ELSE Printed(h[i - 1], location, text[i])]
  <2>1. ASSUME NEW i \in 0..n
        PROVE  f[i] = IF i = 0 THEN Moved(o, location) ELSE Printed(f[i - 1], location, text[i])
    <3>1. i = 0 \/ i \in 1..n
      BY <1>1
    <3> QED
      BY <3>1, <1>6, <1>8
  <2>2. f = [i \in 0..n |-> f[i]]
    BY <1>6
  <2>3. f = [i \in 0..n |-> IF i = 0 THEN Moved(o, location) ELSE Printed(f[i - 1], location, text[i])]
    BY <2>1, <2>2
  <2> QED
    BY <2>3
<1>10. h[n] = OStreamWrite(o, location, text)
  BY DEF OStreamWrite, n
<1> HIDE DEF h
<1>11. AgreeFirst(h, f, n)
  <2>1. h[0] = Moved(o, location)
    <3>1. 0 \in 0..n
      BY <1>1
    <3> QED
      BY <1>9, <3>1
  <2>2. \A k \in 1..n : h[k] = Printed(h[k - 1], location, text[k])
    <3>1. \A k \in 1..n : k \in 0..n /\ k # 0
      BY <1>1
    <3> QED
      BY <1>9, <3>1
  <2> QED
    BY <1>6, <1>8, <2>1, <2>2 DEF AgreeFirst
<1>12. h[n] = f[n]
  <2>1. Agree(h, f, n) /\ n \in 0..n
    BY <1>1, <1>11, SameRecursion
  <2> QED
    BY <2>1 DEF Agree
<1> QED
  BY <1>6, <1>8, <1>10, <1>12 DEF n

\* A text is printed.
LEMMA TextPrinted ==
    ASSUME NEW o, NEW ls, StreamShows(o, ls), NEW location \in Locations, NEW text \in Seq(Chars)
    PROVE  StreamShows(OStreamWrite(o, location, text),
                       LinesAfter(ls, [location |-> location, text |-> text], 0))
<1> DEFINE n == Len(text)
<1>1. /\ o \in Streams /\ ls \in ShortLines(0)
      /\ n \in Nat /\ \A k \in 1..n : text[k] \in Chars
  BY DEF StreamShows
<1>2. PICK f \in [0..n -> Streams] :
          /\ f[0] = Moved(o, location)
          /\ \A k \in 1..n : f[k] = Printed(f[k - 1], location, text[k])
          /\ f[n] = OStreamWrite(o, location, text)
  BY <1>1, StreamSteps
<1>3. PICK g \in [0..n -> ShortLines(0)] :
          /\ g[0] = LineFor(ls, location.of)
          /\ \A k \in 1..n : g[k] = LineWith(g[k - 1], text[k], 0)
          /\ g[n] = LinesAfter(ls, [location |-> location, text |-> text], 0)
  BY <1>1, LineSteps
<1> HIDE DEF n
<1> DEFINE S == {k \in 0..n : StreamShows(f[k], g[k]) /\ Last(g[k]).of = location.of}
<1>4. 0 \in S
  <2>1. 0 \in 0..n /\ location.of \in Messages \union {Silent}
    BY <1>1 DEF Locations
  <2>2. StreamShows(f[0], g[0])
    BY <1>2, <1>3, MovedShows
  <2>3. Last(g[0]).of = location.of
    BY <1>1, <1>3, <2>1, LineForKept
  <2> QED
    BY <2>1, <2>2, <2>3
<1>5. \A k \in 1..n : k - 1 \in S => k \in S
  <2>1. SUFFICES ASSUME NEW k \in 1..n, k - 1 \in S PROVE k \in S
    OBVIOUS
  <2>2. StreamShows(f[k - 1], g[k - 1]) /\ Last(g[k - 1]).of = location.of /\ text[k] \in Chars
    BY <1>1, <2>1
  <2>3. /\ StreamShows(Printed(f[k - 1], location, text[k]), LineWith(g[k - 1], text[k], 0))
        /\ Last(LineWith(g[k - 1], text[k], 0)).of = location.of
    BY <2>2, PrintedShows
  <2>4. k \in 0..n
    BY <1>1
  <2> QED
    BY <1>2, <1>3, <2>3, <2>4
<1>6. n \in S
  <2>1. n \in 0..n
    BY <1>1
  <2> HIDE DEF S
  <2> QED
    BY <1>1, <1>4, <1>5, <2>1, UpTo
<1> QED
  BY <1>2, <1>3, <1>6

-----------------------------------------------------------------------------
(* What the appenders show of all that was written.                        *)

\* A write that is recorded.
LEMMA LinesKept ==
    ASSUME NEW columns \in Nat, NEW ls \in ShortLines(columns), NEW w \in Written
    PROVE  LinesAfter(ls, w, columns) \in ShortLines(columns)
<1>1. /\ w.location \in Locations /\ w.text \in Seq(Chars)
      /\ w = [location |-> w.location, text |-> w.text]
  BY DEF Written
<1>2. PICK f \in [0..Len(w.text) -> ShortLines(columns)] :
          f[Len(w.text)] = LinesAfter(ls, [location |-> w.location, text |-> w.text], columns)
  BY <1>1, LineSteps
<1>3. Len(w.text) \in 0..Len(w.text)
  BY <1>1
<1> QED
  BY <1>1, <1>2, <1>3

\* The lines after one more write, recorded or not.
LinesWith(ls, w, recordLevel, columns) ==
    IF Records(recordLevel, w.location) THEN LinesAfter(ls, w, columns) ELSE ls

\* Nothing is written.
LEMMA FirstLine ==
    ASSUME NEW columns \in Nat
    PROVE  /\ <<NewLine(Silent)>> \in ShortLines(columns) /\ Len(<<NewLine(Silent)>>) = 1
           /\ Last(<<NewLine(Silent)>>) = NewLine(Silent)
           /\ <<NewLine(Silent)>>[1] = NewLine(Silent)
<1> DEFINE l == NewLine(Silent)
<1>1. l \in Lines /\ Len(l.line) = 0
  BY NewLineIs
<1> HIDE DEF l
<1>2. <<l>> \in Seq(Lines) /\ <<l>> # <<>> /\ Len(<<l>>) = 1 /\ <<l>>[1] = l
  BY <1>1
<1>3. Last(<<l>>) = l
  BY <1>2 DEF Last
<1>4. <<l>> \in ShortLines(columns)
  BY <1>1, <1>2, <1>3 DEF ShortLines, LineLists
<1> QED
  BY <1>2, <1>3, <1>4 DEF l

\* The lines after each of the writes.
LEMMA WriteSteps ==
    ASSUME NEW columns \in Nat, NEW recordLevel, NEW ws \in Seq(Written)
    PROVE  \E f \in [0..Len(ws) -> ShortLines(columns)] :
               /\ f[0] = <<NewLine(Silent)>>
               /\ \A k \in 1..Len(ws) : f[k] = LinesWith(f[k - 1], ws[k], recordLevel, columns)
               /\ f[Len(ws)] = LinesOf(ws, recordLevel, columns)
<1> DEFINE n == Len(ws)
           step == [k \in 1..n |-> [r \in ShortLines(columns) |-> LinesWith(r, ws[k], recordLevel, columns)]]
<1>1. n \in Nat /\ \A k \in 1..n : ws[k] \in Written
  OBVIOUS
<1>2. <<NewLine(Silent)>> \in ShortLines(columns)
  BY FirstLine
<1>3. ASSUME NEW k \in 1..n, NEW r \in ShortLines(columns)
      PROVE  LinesWith(r, ws[k], recordLevel, columns) \in ShortLines(columns)
  BY <1>1, LinesKept DEF LinesWith
<1>4. step \in [1..n -> [ShortLines(columns) -> ShortLines(columns)]]
  BY <1>3
<1> HIDE DEF n
<1>5. PICK f : IsRun(f, ShortLines(columns), <<NewLine(Silent)>>, n, step)
  <2> HIDE DEF step
  <2> QED
    BY <1>1, <1>2, <1>4, Recursion
<1>6. /\ f \in [0..n -> ShortLines(columns)] /\ f[0] = <<NewLine(Silent)>>
      /\ \A k \in 1..n : f[k] = step[k][f[k - 1]]
  BY <1>5 DEF IsRun
<1>7. \A k \in 1..n : k - 1 \in 0..n
  BY <1>1
<1>8. \A k \in 1..n : f[k] = LinesWith(f[k - 1], ws[k], recordLevel, columns)
  BY <1>6, <1>7
<1> HIDE DEF step
<1> DEFINE h == CHOOSE after : after = [i \in 0..n |->
                    IF i = 0 THEN <<NewLine(Silent)>> ELSE LinesWith(after[i - 1], ws[i], recordLevel, columns)]
<1>9. h = [i \in 0..n |-> IF i = 0 THEN <<NewLine(Silent)>> ELSE LinesWith(h[i - 1], ws[i], recordLevel, columns)]
  <2>1. ASSUME NEW i \in 0..n
        PROVE  f[i] = IF i = 0 THEN <<NewLine(Silent)>> ELSE LinesWith(f[i - 1], ws[i], recordLevel, columns)
    <3>1. i = 0 \/ i \in 1..n
      BY <1>1
    <3> QED
      BY <3>1, <1>6, <1>8
  <2>2. f = [i \in 0..n |-> f[i]]
    BY <1>6
  <2>3. f = [i \in 0..n |-> IF i = 0 THEN <<NewLine(Silent)>> ELSE LinesWith(f[i - 1], ws[i], recordLevel, columns)]
    BY <2>1, <2>2
  <2> QED
    BY <2>3
<1>10. h[n] = LinesOf(ws, recordLevel, columns)
  BY DEF LinesOf, LinesWith, n
<1> HIDE DEF h
<1>11. AgreeFirst(h, f, n)
  <2>1. h[0] = <<NewLine(Silent)>>
    <3>1. 0 \in 0..n
      BY <1>1
    <3> QED
      BY <1>9, <3>1
  <2>2. \A k \in 1..n : h[k] = LinesWith(h[k - 1], ws[k], recordLevel, columns)
    <3>1. \A k \in 1..n : k \in 0..n /\ k # 0
      BY <1>1
    <3> QED
      BY <1>9, <3>1
  <2> QED
    BY <1>6, <1>8, <2>1, <2>2 DEF AgreeFirst
<1>12. h[n] = f[n]
  <2>1. Agree(h, f, n) /\ n \in 0..n
    BY <1>1, <1>11, SameRecursion
  <2> QED
    BY <2>1 DEF Agree
<1> QED
  BY <1>6, <1>8, <1>10, <1>12 DEF n

\* Writes that follow others continue their lines.
LEMMA LinesJoined ==
    ASSUME NEW columns \in Nat, NEW recordLevel, NEW us \in Seq(Written), NEW ws \in Seq(Written)
    PROVE  \E f \in [0..Len(ws) -> ShortLines(columns)] :
               /\ f[0] = LinesOf(us, recordLevel, columns)
               /\ \A k \in 1..Len(ws) : f[k] = LinesWith(f[k - 1], ws[k], recordLevel, columns)
               /\ f[Len(ws)] = LinesOf(us \o ws, recordLevel, columns)
<1> DEFINE n == Len(us)
           m == Len(ws)
           all == us \o ws
<1>1. n \in Nat /\ m \in Nat
  OBVIOUS
<1>2. /\ all \in Seq(Written) /\ Len(all) = n + m
      /\ \A i \in 1..(n + m) : all[i] = IF i <= n THEN us[i] ELSE ws[i - n]
  BY ConcatProperties
<1> HIDE DEF all
<1>3. PICK g \in [0..Len(all) -> ShortLines(columns)] :
          /\ g[0] = <<NewLine(Silent)>>
          /\ \A k \in 1..Len(all) : g[k] = LinesWith(g[k - 1], all[k], recordLevel, columns)
          /\ g[Len(all)] = LinesOf(all, recordLevel, columns)
  BY <1>2, WriteSteps
<1>4. PICK h \in [0..n -> ShortLines(columns)] :
          /\ h[0] = <<NewLine(Silent)>>
          /\ \A k \in 1..n : h[k] = LinesWith(h[k - 1], us[k], recordLevel, columns)
          /\ h[n] = LinesOf(us, recordLevel, columns)
  BY WriteSteps
<1> HIDE DEF n, m
<1>5. g[n] = h[n]
  <2>1. AgreeFirst(g, h, n)
    <3>1. \A k \in 1..n : k \in 1..Len(all) /\ all[k] = us[k]
      BY <1>1, <1>2
    <3> QED
      BY <1>3, <1>4, <3>1 DEF AgreeFirst
  <2>2. n \in Nat /\ n \in 0..n
    BY <1>1
  <2>3. Agree(g, h, n)
    BY <2>1, <2>2, SameRecursion, Zenon
  <2> QED
    BY <2>2, <2>3 DEF Agree
<1> DEFINE f == [k \in 0..m |-> g[n + k]]
<1>6. f \in [0..m -> ShortLines(columns)]
  <2>1. \A k \in 0..m : n + k \in 0..Len(all)
    BY <1>1, <1>2
  <2> QED
    BY <2>1
<1>7. f[0] = LinesOf(us, recordLevel, columns)
  <2>1. 0 \in 0..m /\ n + 0 = n
    BY <1>1
  <2> QED
    BY <1>4, <1>5, <2>1
<1>8. ASSUME NEW k \in 1..m PROVE f[k] = LinesWith(f[k - 1], ws[k], recordLevel, columns)
  <2> DEFINE i == n + k
  <2>1. /\ i \in 1..(n + m) /\ i - 1 = n + (k - 1) /\ ~(i <= n) /\ i - n = k
        /\ k \in 0..m /\ k - 1 \in 0..m
    BY <1>1
  <2>2. f[k] = g[i] /\ f[k - 1] = g[n + (k - 1)]
    BY <2>1
  <2> HIDE DEF i, f
  <2>4. all[i] = ws[k] /\ i \in 1..Len(all)
    BY <1>2, <2>1
  <2>3. g[i] = LinesWith(g[i - 1], all[i], recordLevel, columns)
    BY <1>3, <2>4
  <2> QED
    BY <2>1, <2>2, <2>3, <2>4
<1>9. f[m] = LinesOf(all, recordLevel, columns)
  <2>1. m \in 0..m /\ n + m = Len(all)
    BY <1>1, <1>2
  <2> QED
    BY <1>3, <2>1
<1> HIDE DEF f
<1> QED
  BY <1>6, <1>7, <1>8, <1>9 DEF m, all

\* The inductive invariant of both.
LinesInv ==
    /\ RingShows(memBuffer, LinesOf(writes, RecordLevelOf["memBuffer"], MaxColumns))
    /\ StreamShows(oStream, LinesOf(writes, RecordLevelOf["oStream"], 0))

\* A step of the appenders.
LEMMA WriteShows ==
    ASSUME NEW a, NEW ls, NEW ms, RingShows(a.memBuffer, ls), StreamShows(a.oStream, ms),
           NEW w \in Written
    PROVE  LET b == WriteTo(a, w) IN
           /\ RingShows(b.memBuffer, LinesWith(ls, w, RecordLevelOf["memBuffer"], MaxColumns))
           /\ StreamShows(b.oStream, LinesWith(ms, w, RecordLevelOf["oStream"], 0))
<1>1. /\ w.location \in Locations /\ w.text \in Seq(Chars)
      /\ w = [location |-> w.location, text |-> w.text]
  BY DEF Written
<1>2. RingShows(MemBufferWrite(a.memBuffer, w.location, w.text), LinesAfter(ls, w, MaxColumns))
  BY <1>1, TextShows
<1>3. StreamShows(OStreamWrite(a.oStream, w.location, w.text), LinesAfter(ms, w, 0))
  BY <1>1, TextPrinted
<1>4. /\ WriteTo(a, w).memBuffer = IF Records(RecordLevelOf["memBuffer"], w.location)
                                   THEN MemBufferWrite(a.memBuffer, w.location, w.text)
                                   ELSE a.memBuffer
      /\ WriteTo(a, w).oStream = IF Records(RecordLevelOf["oStream"], w.location)
                                 THEN OStreamWrite(a.oStream, w.location, w.text)
                                 ELSE a.oStream
  BY DEF WriteTo
<1> QED
  BY <1>2, <1>3, <1>4 DEF LinesWith


\* Both appenders keep their types.
LEMMA WriteTyped ==
    ASSUME NEW a \in [memBuffer : Rings, oStream : Streams], NEW w \in Written
    PROVE  WriteTo(a, w) \in [memBuffer : Rings, oStream : Streams]
<1>1. w.location \in Locations /\ w.text \in Seq(Chars) /\ a.memBuffer \in Rings /\ a.oStream \in Streams
  BY DEF Written
<1>2. Len(w.text) \in 0..Len(w.text)
  BY <1>1
<1>3. MemBufferWrite(a.memBuffer, w.location, w.text) \in Rings
  BY <1>1, <1>2, BufferSteps
<1>4. OStreamWrite(a.oStream, w.location, w.text) \in Streams
  BY <1>1, <1>2, StreamSteps
<1> QED
  BY <1>1, <1>3, <1>4 DEF WriteTo

\* What the appenders are given is shown.
LEMMA WritesShown ==
    ASSUME LogbookTypeOK, LinesInv, NEW ws \in Seq(Written), WriteAll(ws)
    PROVE  LinesInv'
<1> DEFINE n == Len(ws)
           first == [memBuffer |-> memBuffer, oStream |-> oStream]
           Both == [memBuffer : Rings, oStream : Streams]
           step == [k \in 1..n |-> [a \in Both |-> WriteTo(a, ws[k])]]
<1>1. /\ n \in Nat /\ (\A k \in 1..n : ws[k] \in Written)
      /\ MaxColumns \in Nat /\ 0 \in Nat /\ writes \in Seq(Written)
  BY SettingsAssumption DEF LogbookTypeOK
<1>2. /\ RingShows(memBuffer, LinesOf(writes, RecordLevelOf["memBuffer"], MaxColumns))
      /\ StreamShows(oStream, LinesOf(writes, RecordLevelOf["oStream"], 0))
  BY DEF LinesInv
<1>3. first \in Both /\ first.memBuffer = memBuffer /\ first.oStream = oStream
  BY <1>2 DEF RingShows, StreamShows
<1>4. step \in [1..n -> [Both -> Both]]
  <2>1. ASSUME NEW k \in 1..n, NEW a \in Both PROVE WriteTo(a, ws[k]) \in Both
    BY <1>1, WriteTyped
  <2> QED
    BY <2>1
<1>w. LET after[i \in 0..n] == IF i = 0 THEN first ELSE WriteTo(after[i - 1], ws[i]) IN
      /\ memBuffer' = after[n].memBuffer /\ oStream' = after[n].oStream
      /\ writes' = writes \o ws
  BY DEF WriteAll
<1> HIDE DEF n, first
<1>5. PICK f : IsRun(f, Both, first, n, step)
  <2> HIDE DEF step, Both
  <2> QED
    BY <1>1, <1>3, <1>4, Recursion
<1>6. /\ f \in [0..n -> Both] /\ f[0] = first
      /\ \A k \in 1..n : f[k] = step[k][f[k - 1]]
  BY <1>5 DEF IsRun
<1>7. \A k \in 1..n : k - 1 \in 0..n /\ k \in 0..n /\ k # 0
  BY <1>1
<1>8. \A k \in 1..n : f[k] = WriteTo(f[k - 1], ws[k])
  BY <1>6, <1>7
<1> HIDE DEF step, Both
<1> DEFINE h == CHOOSE after : after = [i \in 0..n |-> IF i = 0 THEN first ELSE WriteTo(after[i - 1], ws[i])]
<1>9. h = [i \in 0..n |-> IF i = 0 THEN first ELSE WriteTo(h[i - 1], ws[i])]
  <2>1. ASSUME NEW i \in 0..n
        PROVE  f[i] = IF i = 0 THEN first ELSE WriteTo(f[i - 1], ws[i])
    <3>1. i = 0 \/ i \in 1..n
      BY <1>1
    <3> QED
      BY <3>1, <1>6, <1>7, <1>8
  <2>2. f = [i \in 0..n |-> f[i]]
    BY <1>6
  <2>3. f = [i \in 0..n |-> IF i = 0 THEN first ELSE WriteTo(f[i - 1], ws[i])]
    BY <2>1, <2>2
  <2> QED
    BY <2>3
<1>10. memBuffer' = h[n].memBuffer /\ oStream' = h[n].oStream /\ writes' = writes \o ws
  BY <1>w
<1> HIDE DEF h
<1>11. AgreeFirst(h, f, n)
  <2>1. h[0] = first
    <3>1. 0 \in 0..n
      BY <1>1
    <3> QED
      BY <1>9, <3>1
  <2>2. \A k \in 1..n : h[k] = WriteTo(h[k - 1], ws[k])
    BY <1>7, <1>9
  <2> QED
    BY <1>6, <1>8, <2>1, <2>2 DEF AgreeFirst
<1>12. h[n] = f[n]
  <2>1. Agree(h, f, n) /\ n \in 0..n
    BY <1>1, <1>11, SameRecursion
  <2> QED
    BY <2>1 DEF Agree
<1>13. PICK g \in [0..n -> ShortLines(MaxColumns)] :
          /\ g[0] = LinesOf(writes, RecordLevelOf["memBuffer"], MaxColumns)
          /\ \A k \in 1..n : g[k] = LinesWith(g[k - 1], ws[k], RecordLevelOf["memBuffer"], MaxColumns)
          /\ g[n] = LinesOf(writes \o ws, RecordLevelOf["memBuffer"], MaxColumns)
  BY <1>1, LinesJoined DEF n
<1>14. PICK s \in [0..n -> ShortLines(0)] :
          /\ s[0] = LinesOf(writes, RecordLevelOf["oStream"], 0)
          /\ \A k \in 1..n : s[k] = LinesWith(s[k - 1], ws[k], RecordLevelOf["oStream"], 0)
          /\ s[n] = LinesOf(writes \o ws, RecordLevelOf["oStream"], 0)
  BY <1>1, LinesJoined DEF n
<1> DEFINE S == {k \in 0..n : RingShows(f[k].memBuffer, g[k]) /\ StreamShows(f[k].oStream, s[k])}
<1>15. 0 \in S
  <2>1. 0 \in 0..n
    BY <1>1
  <2> QED
    BY <1>2, <1>3, <1>6, <1>13, <1>14, <2>1
<1>16. \A k \in 1..n : k - 1 \in S => k \in S
  <2>1. SUFFICES ASSUME NEW k \in 1..n, k - 1 \in S PROVE k \in S
    OBVIOUS
  <2>2. /\ RingShows(f[k - 1].memBuffer, g[k - 1]) /\ StreamShows(f[k - 1].oStream, s[k - 1])
        /\ ws[k] \in Written /\ k \in 0..n
    BY <1>1, <1>7, <2>1
  <2>3. /\ RingShows(WriteTo(f[k - 1], ws[k]).memBuffer,
                     LinesWith(g[k - 1], ws[k], RecordLevelOf["memBuffer"], MaxColumns))
        /\ StreamShows(WriteTo(f[k - 1], ws[k]).oStream,
                       LinesWith(s[k - 1], ws[k], RecordLevelOf["oStream"], 0))
    BY <2>2, WriteShows
  <2> QED
    BY <1>8, <1>13, <1>14, <2>2, <2>3
<1>17. n \in S
  <2>1. n \in 0..n
    BY <1>1
  <2> HIDE DEF S
  <2> QED
    BY <1>1, <1>15, <1>16, <2>1, UpTo
<1>18. RingShows(f[n].memBuffer, g[n]) /\ StreamShows(f[n].oStream, s[n])
  BY <1>17
<1> QED
  BY <1>10, <1>12, <1>13, <1>14, <1>18 DEF LinesInv

\* One piece of text.
LEMMA OnePieceWritten ==
    ASSUME LogbookTypeOK, NEW text \in Seq(Chars)
    PROVE  <<[location |-> currentLocation, text |-> text]>> \in Seq(Written)
<1> DEFINE w == [location |-> currentLocation, text |-> text]
<1>1. w \in Written
  BY DEF LogbookTypeOK, Written
<1> HIDE DEF w
<1>2. <<w>> \in Seq(Written)
  BY <1>1
<1> QED
  BY <1>2 DEF w

\* The appenders show the same when nothing is written.
LEMMA LinesUnchanged == ASSUME LinesInv, UNCHANGED outputs PROVE LinesInv'
BY DEF LinesInv, outputs

\* Every step keeps what they show.
LEMMA LinesStep ==
    ASSUME LogbookTypeOK, LinesInv, [LogbookNext]_logbookVars
    PROVE  LinesInv'
<1>1. ASSUME NEW t \in Threads, PutChar(t) PROVE LinesInv'
  <2> DEFINE char == Char(Top(t).message, Top(t).put + 1)
             more == Append(streamBuffer, char)
             ws == <<[location |-> currentLocation, text |-> more]>>
  <2>1. more \in Seq(Chars)
    BY <1>1, PutCharStep
  <2>2. WriteAll(ws) \/ UNCHANGED outputs
    BY <1>1 DEF PutChar
  <2> HIDE DEF more
  <2>3. ws \in Seq(Written)
    BY <2>1, OnePieceWritten
  <2> HIDE DEF ws
  <2> QED
    BY <2>2, <2>3, WritesShown, LinesUnchanged
<1>2. ASSUME NEW t \in Threads, DestroyWriter(t) PROVE LinesInv'
  <2> DEFINE ws == <<[location |-> currentLocation, text |-> streamBuffer]>>
  <2>1. WriteAll(ws) \/ UNCHANGED outputs
    BY <1>2 DEF DestroyWriter
  <2>2. streamBuffer \in Seq(Chars)
    BY DEF LogbookTypeOK
  <2>3. ws \in Seq(Written)
    BY <2>2, OnePieceWritten
  <2> HIDE DEF ws
  <2> QED
    BY <2>1, <2>3, WritesShown, LinesUnchanged
<1>3. ASSUME NEW t \in Threads, FlushBuffer(t) PROVE LinesInv'
  <2>1. WriteAll(unblockedBuffer)
    BY <1>3 DEF FlushBuffer
  <2>2. unblockedBuffer \in Seq(Written)
    BY DEF LogbookTypeOK
  <2> QED
    BY <2>1, <2>2, WritesShown
<1>4. ASSUME NEW t \in Threads, NEW m \in Messages, CreateWriter(t, m) PROVE LinesInv'
  BY <1>4, LinesUnchanged DEF CreateWriter
<1>5. ASSUME NEW t \in Threads, PushUnblocked(t) \/ TryLock(t) \/ Unlock(t) PROVE LinesInv'
  BY <1>5, LinesUnchanged DEF PushUnblocked, TryLock, Unlock
<1>6. ASSUME NEW l, SetLevel(l) PROVE LinesInv'
  BY <1>6, LinesUnchanged DEF SetLevel
<1>7. CASE UNCHANGED logbookVars
  BY <1>7, LinesUnchanged DEF logbookVars, outputs
<1> QED
  BY <1>1, <1>2, <1>3, <1>4, <1>5, <1>6, <1>7 DEF LogbookNext, ReleaseStep

\* Nothing is shown at the beginning.
LEMMA LinesStart == LogbookInit => LinesInv
<1> SUFFICES ASSUME LogbookInit PROVE LinesInv
  OBVIOUS
<1> DEFINE ls == <<NewLine(Silent)>>
<1>1. memBuffer = InitMemBuffer /\ oStream = InitOStream /\ writes = <<>>
  BY DEF LogbookInit
<1>2. MaxLines \in Nat \ {0} /\ MaxColumns \in Nat
  BY SettingsAssumption
<1>3. ASSUME NEW recordLevel, NEW columns \in Nat
      PROVE  LinesOf(writes, recordLevel, columns) = ls
  <2>1. <<>> \in Seq(Written) /\ Len(<<>>) = 0
    OBVIOUS
  <2>2. PICK f \in [0..Len(<<>>) -> ShortLines(columns)] :
            /\ f[0] = <<NewLine(Silent)>>
            /\ \A k \in 1..Len(<<>>) : f[k] = LinesWith(f[k - 1], (<<>>)[k], recordLevel, columns)
            /\ f[Len(<<>>)] = LinesOf(<<>>, recordLevel, columns)
    BY <2>1, WriteSteps
  <2> QED
    BY <1>1, <2>1, <2>2
<1>4. /\ \A columns \in Nat : ls \in ShortLines(columns)
      /\ Len(ls) = 1 /\ Last(ls) = NewLine(Silent) /\ ls[1] = NewLine(Silent)
  BY FirstLine
<1>5. NewLine(Silent).of = Silent /\ NewLine(Silent).line = <<>> /\ Len(NewLine(Silent).line) = 0
  BY NewLineIs
<1> HIDE DEF ls
<1>6. Held(ls) = 0 /\ 0 \in 0..MaxLines
  BY <1>2, <1>4 DEF Held
<1>7. Default \in Locations /\ Default.of = Silent
  BY DEF Default, Locations
<1>8. <<>> \in Seq(Chars) /\ <<>> \in Seq(Marks)
  OBVIOUS
<1>9. RingShows(memBuffer, ls)
  <2>1. memBuffer \in Rings
    BY <1>1, <1>6, <1>7, <1>8 DEF InitMemBuffer, Rings
  <2>2. Slot(0, 0) = 0
    BY <1>2 DEF Slot
  <2>3. /\ memBuffer.rowProducer = 0 /\ memBuffer.rowConsumer = 0 /\ memBuffer.columnsProducer = 0
        /\ memBuffer.entries[0] = [location |-> Default, line |-> <<>>]
    BY <1>1, <1>6 DEF InitMemBuffer
  <2>4. ASSUME NEW i \in 0..Held(ls)
        PROVE  /\ memBuffer.entries[Slot(0, i)].line = ls[Len(ls) - Held(ls) + i].line
               /\ memBuffer.entries[Slot(0, i)].location.of = ls[Len(ls) - Held(ls) + i].of
    <3>1. i = 0 /\ Len(ls) - Held(ls) + i = 1
      BY <1>4, <1>6
    <3> QED
      BY <1>4, <1>5, <1>7, <2>2, <2>3, <3>1
  <2> QED
    BY <1>2, <1>4, <1>5, <1>6, <2>1, <2>2, <2>3, <2>4 DEF RingShows
<1>10. StreamShows(oStream, ls)
  <2>1. oStream \in Streams
    BY <1>1, <1>7, <1>8 DEF InitOStream, Streams
  <2>2. Complete(ls) = <<>>
    <3>1. [i \in 1..(Len(ls) - 1) |-> Whole(ls[i])] = <<>>
      BY <1>4
    <3>2. FlattenSeq(<<>>) = <<>>
      BY DEF FlattenSeq
    <3> QED
      BY <3>1, <3>2 DEF Complete
  <2>3. Begun(Last(ls)) = <<>>
    BY <1>4, <1>5 DEF Begun
  <2>4. <<>> \o <<>> = <<>>
    BY <1>8, ConcatEmptySeq
  <2>5. oStream.out = <<>> /\ oStream.isFirstCharacterInLine /\ oStream.lastLocation = Default
    BY <1>1 DEF InitOStream
  <2> QED
    BY <1>4, <1>5, <1>7, <2>1, <2>2, <2>3, <2>4, <2>5 DEF StreamShows
<1> QED
  BY <1>2, <1>3, <1>9, <1>10 DEF LinesInv

\* Logbook: the stream shows every recorded line after a header for its location, and
\* the ring exactly the last ones that are complete, cut at its columns.
THEOREM WholeLines == LogbookSpec => []LinesAreWhole
<1>1. LogbookInv => LogbookTypeOK
  BY DEF LogbookInv
<1>2. LogbookTypeOK /\ LinesInv /\ [LogbookNext]_logbookVars => LinesInv'
  BY LinesStep
<1>3. LinesInv => LinesAreWhole
  <2> SUFFICES ASSUME LinesInv PROVE LinesAreWhole
    OBVIOUS
  <2> DEFINE all == LinesOf(writes, RecordLevelOf["oStream"], 0)
             some == LinesOf(writes, RecordLevelOf["memBuffer"], MaxColumns)
  <2>1. RingShows(memBuffer, some) /\ StreamShows(oStream, all)
    BY DEF LinesInv
  <2> HIDE DEF all, some
  <2>2. oStream.out = FlattenSeq([i \in 1..(Len(all) - 1) |-> Whole(all[i])]) \o Begun(Last(all))
    BY <2>1 DEF StreamShows, Complete
  <2>3. LET complete == Front(some)
            n == IF Len(complete) < MaxLines THEN Len(complete) ELSE MaxLines IN
        [i \in DOMAIN BufferedLines(memBuffer) |->
            [of |-> BufferedLines(memBuffer)[i].location.of,
             line |-> BufferedLines(memBuffer)[i].line]]
        = SubSeq(complete, Len(complete) - n + 1, Len(complete))
    BY <2>1, RingIsRight
  <2> QED
    BY <2>2, <2>3 DEF LinesAreWhole, all, some
<1> QED
  BY <1>1, <1>2, <1>3, LinesStart, LogbookInvariant, PTL DEF LogbookSpec

-----------------------------------------------------------------------------
(* Prepared statements, result sets and the database.                      *)

Handles == Statements \union {NoStatement, Gone}

\* A column has a type when it has had a value.
IsField(f) ==
    /\ f = [columnType |-> f.columnType, valueIsNull |-> f.valueIsNull,
            value |-> f.value]
    /\ f.valueIsNull \in BOOLEAN
    /\ f.columnType = "unknown" => f.valueIsNull

TypeOK ==
    /\ factory \in BOOLEAN /\ connectionHandle \in BOOLEAN
    /\ database \in {"none", "open", "zombie", "closed"}
    /\ connections \in Nat
    /\ openFailed \in BOOLEAN /\ fault \in BOOLEAN
    /\ state \in [Statements -> {"none", "ready", "row", "stopped"}]
    /\ DOMAIN bound = Statements /\ DOMAIN given = Statements
    /\ bound = [s \in Statements |-> bound[s]] /\ given = [s \in Statements |-> given[s]]
    /\ prepared \in [Queries -> Handles]
    /\ binding \in [ResultSets -> Handles]
    /\ field = [r \in ResultSets |-> field[r]] /\ \A r \in ResultSets : IsField(field[r])
    /\ fetching \in [ResultSets -> BOOLEAN]
    /\ row = [r \in ResultSets |-> row[r]]
    /\ shown \in [ResultSets -> BOOLEAN]
    /\ threw \in BOOLEAN /\ unnoticed \in BOOLEAN

\* A statement exists exactly if a handle leads to it, and no two do.
OwnerInv ==
    /\ \A s \in Statements :
          s \in Live <=> \/ \E q \in Queries : prepared[q] = s
                         \/ \E r \in ResultSets : binding[r] = s
    /\ \A p, q \in Queries : prepared[p] = prepared[q] /\ prepared[p] \in Statements => p = q
    /\ \A r, t \in ResultSets : binding[r] = binding[t] /\ binding[r] \in Statements => r = t
    /\ \A q \in Queries, r \in ResultSets :
          prepared[q] \in Statements => prepared[q] # binding[r]

\* The factory opens once; only a failed open makes it hold a closed handle.
DatabaseInv ==
    /\ DatabaseOutlivesStatements
    /\ ~connectionHandle => database = "none"
    /\ factory => database # "zombie"
    /\ factory /\ connectionHandle /\ ~openFailed => database = "open"
    /\ ~factory => database # "open"

\* A statement that does not exist has not run.
BoundInv == RunsWithGiven /\ \A s \in Statements \ Live : given[s] = <<>>

\* fetching is TRUE outside of fetch() only after an exception.
FieldInv ==
    FieldsShowRow /\ \A r \in ResultSets : fetching[r] => threw

-----------------------------------------------------------------------------
\* All invariants hold at the beginning.
LEMMA InitInv == Init => TypeOK /\ OwnerInv /\ DatabaseInv /\ BoundInv /\ FieldInv
<1> SUFFICES ASSUME Init PROVE TypeOK /\ OwnerInv /\ DatabaseInv /\ BoundInv /\ FieldInv
  OBVIOUS
<1> USE StatementsAssumption DEF Init
<1>1. Live = {}
  BY DEF Live
<1>2. TypeOK
  BY DEF TypeOK, Handles, IsField, NewField
<1>3. OwnerInv
  BY <1>1 DEF OwnerInv
<1>4. DatabaseInv
  BY <1>1 DEF DatabaseInv, DatabaseOutlivesStatements
<1>5. BoundInv
  BY <1>1 DEF BoundInv, RunsWithGiven
<1>6. FieldInv
  BY DEF FieldInv, FieldsShowRow, NewField
<1> QED
  BY <1>2, <1>3, <1>4, <1>5, <1>6

-----------------------------------------------------------------------------
(* The steps.                                                              *)

\* A new field is one.
LEMMA NewFieldIsField == IsField(NewField)
BY DEF IsField, NewField

\* What an assignment makes of a field.
LEMMA Assigns ==
    ASSUME NEW f, NEW v \in Rows \union Edits, IsField(f)
    PROVE  /\ IsField(Assigned(f, v))
           /\ Assigned(f, v).valueIsNull <=> v = Null
           /\ v # Null =>
                 Assigned(f, v).value = Convert(v, Assigned(f, v).columnType)
<1> USE DEF IsField, Assigned, Changes, TypeFor
<1>1. CASE v = Null
  BY <1>1
<1>2. CASE v # Null
  <2>1. TypeFor(f, v) # "unknown"
    BY <1>2, ValuesAssumption DEF Types
  <2>2. CASE Changes(f, v)
    BY <1>2, <2>1, <2>2
  <2>3. CASE ~Changes(f, v)
    BY <1>2, <2>3
  <2> QED
    BY <2>2, <2>3
<1> QED
  BY <1>1, <1>2

\* Who is finalized lives no more.
LEMMA FinalizedLive ==
    ASSUME NEW stmts, Finalized(stmts) PROVE Live' = Live \ stmts
BY DEF Finalized, Live

\* Every step keeps the types.
LEMMA Typed == ASSUME TypeOK, Next PROVE TypeOK'
<1> USE StatementsAssumption, Assigns, NewFieldIsField DEF TypeOK, Handles,
        dbVars, stmtVars, resultVars
<1>1. CASE CreateConnection
  <2>1. CASE connectionHandle
    BY <1>1, <2>1 DEF CreateConnection
  <2>2. CASE ~connectionHandle
    BY <1>1, <2>2 DEF CreateConnection
  <2> QED
    BY <2>1, <2>2
<1>2. CASE CreateConnectionFails
  BY <1>2 DEF CreateConnectionFails
<1>3. CASE DestroyConnection
  BY <1>3 DEF DestroyConnection
<1>4. CASE DestroyFactory
  BY <1>4 DEF DestroyFactory
<1>5. ASSUME NEW q \in Queries, DestroyPrepared(q) PROVE TypeOK'
  BY <1>5 DEF DestroyPrepared, Finalized
<1>6. ASSUME NEW q \in Queries, NEW s \in Statements, Prepare(q, s) PROVE TypeOK'
  BY <1>6 DEF Prepare
<1>7. ASSUME NEW q \in Queries, NEW s \in Statements, ExecuteRefused(q, s) PROVE TypeOK'
  BY <1>7 DEF ExecuteRefused, ExecutesOn
<1>8. ASSUME NEW q \in Queries, NEW s \in Statements, NEW params \in Parameters,
             ExecuteFails(q, s, params) PROVE TypeOK'
  BY <1>8 DEF ExecuteFails, BindAndRun, ExecutesOn
<1>9. ASSUME NEW q \in Queries, NEW s \in Statements, NEW params \in Parameters,
             ExecuteNoRow(q, s, params) PROVE TypeOK'
  BY ZenonT(30), <1>9 DEF ExecuteNoRow, BindAndRun, ExecutesOn
<1>10. ASSUME NEW q \in Queries, NEW s \in Statements, NEW params \in Parameters,
             NEW r \in ResultSets, NEW v \in Rows, ExecuteRow(q, s, r, params, v) PROVE TypeOK'
  BY <1>10 DEF ExecuteRow, BindAndRun, ExecutesOn
<1>11. ASSUME NEW r \in ResultSets, NEW v \in Rows, FetchRow(r, v) PROVE TypeOK'
  <2>1. CASE Assignable(field[r], v)
    BY <1>11, <2>1 DEF FetchRow, HasBinding
  <2>2. CASE ~Assignable(field[r], v)
    <3>1. /\ state' = [state EXCEPT ![binding[r]] = "row"]
          /\ field' = [field EXCEPT ![r] = field[r]]
          /\ fetching' = [fetching EXCEPT ![r] = TRUE]
          /\ shown' = [shown EXCEPT ![r] = FALSE] /\ threw' = TRUE
          /\ row' = [row EXCEPT ![r] = Null]
          /\ UNCHANGED <<dbVars, bound, given, prepared, binding, unnoticed>>
      BY <1>11, <2>2 DEF FetchRow, Assignable
    <3> QED
      BY <3>1
  <2> QED
    BY <2>1, <2>2
<1>12. ASSUME NEW r \in ResultSets, NEW v \in Edits, Edit(r, v) PROVE TypeOK'
  BY <1>12 DEF Edit, HasBinding, Touched
<1>13. ASSUME NEW r \in ResultSets, FetchEnd(r) PROVE TypeOK'
  BY <1>13 DEF FetchEnd, HasBinding, Finalized, Forget
<1>14. ASSUME NEW r \in ResultSets, FetchFails(r) PROVE TypeOK'
  BY <1>14 DEF FetchFails, HasBinding, Touched
<1>15. ASSUME NEW r \in ResultSets, DestroyResultSet(r) PROVE TypeOK'
  BY <1>15 DEF DestroyResultSet, Finalized, Forget
<1>16. ASSUME NEW r \in ResultSets, NEW t \in ResultSets, Move(r, t) PROVE TypeOK'
  BY <1>16 DEF Move, Finalized
<1> QED
  BY <1>1, <1>2, <1>3, <1>4, <1>5, <1>6, <1>7, <1>8, <1>9, <1>10, <1>11,
     <1>12, <1>13, <1>14, <1>15, <1>16
  DEF Next, Execute

\* Every step keeps the statements in one hand each.
LEMMA StatementsOwned == ASSUME TypeOK, OwnerInv, Next PROVE OwnerInv'
<1> USE StatementsAssumption DEF TypeOK, Handles, OwnerInv, Live, dbVars,
        stmtVars, resultVars
<1>1. CASE CreateConnection
  BY <1>1 DEF CreateConnection
<1>2. CASE CreateConnectionFails
  BY <1>2 DEF CreateConnectionFails
<1>3. CASE DestroyConnection
  BY <1>3 DEF DestroyConnection
<1>4. CASE DestroyFactory
  BY <1>4 DEF DestroyFactory
<1>5. ASSUME NEW q \in Queries, DestroyPrepared(q) PROVE OwnerInv'
  BY <1>5 DEF DestroyPrepared, Finalized
<1>6. ASSUME NEW q \in Queries, NEW s \in Statements, Prepare(q, s) PROVE OwnerInv'
  BY <1>6 DEF Prepare
<1>7. ASSUME NEW q \in Queries, NEW s \in Statements, ExecuteRefused(q, s) PROVE OwnerInv'
  BY <1>7 DEF ExecuteRefused, ExecutesOn
<1>8. ASSUME NEW q \in Queries, NEW s \in Statements, NEW params \in Parameters,
             ExecuteFails(q, s, params) PROVE OwnerInv'
  BY <1>8 DEF ExecuteFails, BindAndRun, ExecutesOn
<1>9. ASSUME NEW q \in Queries, NEW s \in Statements, NEW params \in Parameters,
             ExecuteNoRow(q, s, params) PROVE OwnerInv'
  BY <1>9 DEF ExecuteNoRow, BindAndRun, ExecutesOn
<1>10. ASSUME NEW q \in Queries, NEW s \in Statements, NEW params \in Parameters,
             NEW r \in ResultSets, NEW v \in Rows, ExecuteRow(q, s, r, params, v) PROVE OwnerInv'
  BY <1>10 DEF ExecuteRow, BindAndRun, ExecutesOn
<1>11. ASSUME NEW r \in ResultSets, NEW v \in Rows, FetchRow(r, v) PROVE OwnerInv'
  BY <1>11 DEF FetchRow, HasBinding
<1>12. ASSUME NEW r \in ResultSets, NEW v \in Edits, Edit(r, v) PROVE OwnerInv'
  BY <1>12 DEF Edit, HasBinding, Touched
<1>13. ASSUME NEW r \in ResultSets, FetchEnd(r) PROVE OwnerInv'
  BY <1>13 DEF FetchEnd, HasBinding, Finalized, Forget
<1>14. ASSUME NEW r \in ResultSets, FetchFails(r) PROVE OwnerInv'
  BY <1>14 DEF FetchFails, HasBinding, Touched
<1>15. ASSUME NEW r \in ResultSets, DestroyResultSet(r) PROVE OwnerInv'
  BY <1>15 DEF DestroyResultSet, Finalized, Forget
<1>16. ASSUME NEW r \in ResultSets, NEW t \in ResultSets, Move(r, t) PROVE OwnerInv'
  BY SMTT(30), <1>16 DEF Move, Finalized
<1> QED
  BY <1>1, <1>2, <1>3, <1>4, <1>5, <1>6, <1>7, <1>8, <1>9, <1>10, <1>11,
     <1>12, <1>13, <1>14, <1>15, <1>16
  DEF Next, Execute

\* When statements are finalized a zombie ends with the last of them.
LEMMA DatabaseFinalized ==
    ASSUME TypeOK, DatabaseInv, NEW stmts, Finalized(stmts),
           UNCHANGED <<factory, connectionHandle, openFailed, fault>>
    PROVE  DatabaseInv'
<1>1. Live' = Live \ stmts
  BY FinalizedLive
<1>2. database' = IF database = "zombie" /\ Live \subseteq stmts THEN "closed" ELSE database
  BY DEF Finalized
<1> QED
  BY <1>1, <1>2 DEF TypeOK, DatabaseInv, DatabaseOutlivesStatements

\* Every step keeps the database as long as it is needed.
LEMMA Open == ASSUME TypeOK, OwnerInv, DatabaseInv, Next PROVE DatabaseInv'
<1> USE StatementsAssumption DEF TypeOK, Handles, OwnerInv, DatabaseInv,
        DatabaseOutlivesStatements, Live, dbVars, stmtVars, resultVars
<1>1. CASE CreateConnection
  BY <1>1 DEF CreateConnection
<1>2. CASE CreateConnectionFails
  BY <1>2 DEF CreateConnectionFails
<1>3. CASE DestroyConnection
  BY <1>3 DEF DestroyConnection
<1>4. CASE DestroyFactory
  BY <1>4 DEF DestroyFactory
<1>5. ASSUME NEW q \in Queries, DestroyPrepared(q) PROVE DatabaseInv'
  BY <1>5, DatabaseFinalized DEF DestroyPrepared
<1>6. ASSUME NEW q \in Queries, NEW s \in Statements, Prepare(q, s) PROVE DatabaseInv'
  BY <1>6 DEF Prepare
<1>7. ASSUME NEW q \in Queries, NEW s \in Statements, ExecuteRefused(q, s) PROVE DatabaseInv'
  BY <1>7 DEF ExecuteRefused, ExecutesOn
<1>8. ASSUME NEW q \in Queries, NEW s \in Statements, NEW params \in Parameters,
             ExecuteFails(q, s, params) PROVE DatabaseInv'
  BY <1>8 DEF ExecuteFails, BindAndRun, ExecutesOn
<1>9. ASSUME NEW q \in Queries, NEW s \in Statements, NEW params \in Parameters,
             ExecuteNoRow(q, s, params) PROVE DatabaseInv'
  BY <1>9 DEF ExecuteNoRow, BindAndRun, ExecutesOn
<1>10. ASSUME NEW q \in Queries, NEW s \in Statements, NEW params \in Parameters,
             NEW r \in ResultSets, NEW v \in Rows, ExecuteRow(q, s, r, params, v) PROVE DatabaseInv'
  BY <1>10 DEF ExecuteRow, BindAndRun, ExecutesOn
<1>11. ASSUME NEW r \in ResultSets, NEW v \in Rows, FetchRow(r, v) PROVE DatabaseInv'
  BY <1>11 DEF FetchRow, HasBinding
<1>12. ASSUME NEW r \in ResultSets, NEW v \in Edits, Edit(r, v) PROVE DatabaseInv'
  BY <1>12 DEF Edit, HasBinding, Touched
<1>13. ASSUME NEW r \in ResultSets, FetchEnd(r) PROVE DatabaseInv'
  BY <1>13, DatabaseFinalized DEF FetchEnd
<1>14. ASSUME NEW r \in ResultSets, FetchFails(r) PROVE DatabaseInv'
  BY <1>14 DEF FetchFails, HasBinding, Touched
<1>15. ASSUME NEW r \in ResultSets, DestroyResultSet(r) PROVE DatabaseInv'
  BY <1>15, DatabaseFinalized DEF DestroyResultSet
<1>16. ASSUME NEW r \in ResultSets, NEW t \in ResultSets, Move(r, t) PROVE DatabaseInv'
  BY <1>16, DatabaseFinalized DEF Move
<1> QED
  BY <1>1, <1>2, <1>3, <1>4, <1>5, <1>6, <1>7, <1>8, <1>9, <1>10, <1>11,
     <1>12, <1>13, <1>14, <1>15, <1>16
  DEF Next, Execute

\* A statement that runs is bound to the parameters of this run, unless one is NULL.
LEMMA RunBinds ==
    ASSUME TypeOK, BoundInv, NEW q \in Queries, NEW s \in Statements,
           NEW params \in Parameters, NEW x \in {"ready", "row", "stopped"},
           BindAndRun(q, s, params), state' = [state EXCEPT ![s] = x]
    PROVE  BoundInv'
<1>1. Live' = Live \union {s}
  BY DEF Live, TypeOK
<1>2. /\ \A t \in Statements \ {s} : bound'[t] = bound[t] /\ given'[t] = given[t]
      /\ bound'[s] = Bound(s, params) /\ given'[s] = params
  BY DEF BindAndRun, TypeOK
<1>3. Null \notin {params[1], params[2]} =>
          Bound(s, params) = [i \in 1..2 |-> AsBound(params[i])]
  BY DEF Bound
<1>4. RunsWithGiven'
  <2> SUFFICES ASSUME NEW t \in Live', given'[t] # <<>>,
                      Null \notin {given'[t][1], given'[t][2]}
               PROVE  bound'[t] = [i \in 1..2 |-> AsBound(given'[t][i])]
    BY DEF RunsWithGiven
  <2>1. CASE t = s
    BY <2>1, <1>2, <1>3
  <2>2. CASE t # s
    <3>1. t \in Live /\ t \in Statements \ {s}
      BY <1>1, <2>2 DEF Live
    <3> QED
      BY <3>1, <1>2 DEF BoundInv, RunsWithGiven
  <2> QED
    BY <2>1, <2>2
<1>5. \A t \in Statements \ Live' : given'[t] = <<>>
  BY <1>1, <1>2 DEF BoundInv
<1> QED
  BY <1>4, <1>5 DEF BoundInv

\* A statement that is finalized is as if it had not run.
LEMMA FinalizedUnbinds ==
    ASSUME TypeOK, BoundInv, NEW stmts, Finalized(stmts)
    PROVE  BoundInv'
<1>1. \A t \in Statements : t \in stmts => given'[t] = <<>>
  BY DEF Finalized
<1>2. \A t \in Statements : t \notin stmts => given'[t] = given[t] /\ bound'[t] = bound[t]
  BY DEF Finalized
<1>3. Live' = Live \ stmts /\ Live \subseteq Statements
  BY DEF Finalized, Live
<1> QED
  BY <1>1, <1>2, <1>3 DEF BoundInv, RunsWithGiven

\* Every step keeps statements bound to what they were run with.
LEMMA BoundAsGiven == ASSUME TypeOK, OwnerInv, BoundInv, Next PROVE BoundInv'
<1> USE StatementsAssumption DEF TypeOK, Handles, OwnerInv, BoundInv,
        RunsWithGiven, Bound, Live, dbVars, stmtVars, resultVars
<1>1. CASE CreateConnection
  BY <1>1 DEF CreateConnection
<1>2. CASE CreateConnectionFails
  BY <1>2 DEF CreateConnectionFails
<1>3. CASE DestroyConnection
  BY <1>3 DEF DestroyConnection
<1>4. CASE DestroyFactory
  BY <1>4 DEF DestroyFactory
<1>5. ASSUME NEW q \in Queries, DestroyPrepared(q) PROVE BoundInv'
  BY <1>5, FinalizedUnbinds DEF DestroyPrepared
<1>6. ASSUME NEW q \in Queries, NEW s \in Statements, Prepare(q, s) PROVE BoundInv'
  BY <1>6 DEF Prepare
<1>7. ASSUME NEW q \in Queries, NEW s \in Statements, ExecuteRefused(q, s) PROVE BoundInv'
  BY <1>7 DEF ExecuteRefused, ExecutesOn
<1>8. ASSUME NEW q \in Queries, NEW s \in Statements, NEW params \in Parameters,
             ExecuteFails(q, s, params) PROVE BoundInv'
  BY <1>8, RunBinds DEF ExecuteFails
<1>9. ASSUME NEW q \in Queries, NEW s \in Statements, NEW params \in Parameters,
             ExecuteNoRow(q, s, params) PROVE BoundInv'
  BY <1>9, RunBinds DEF ExecuteNoRow
<1>10. ASSUME NEW q \in Queries, NEW s \in Statements, NEW params \in Parameters,
             NEW r \in ResultSets, NEW v \in Rows, ExecuteRow(q, s, r, params, v) PROVE BoundInv'
  BY <1>10, RunBinds DEF ExecuteRow
<1>11. ASSUME NEW r \in ResultSets, NEW v \in Rows, FetchRow(r, v) PROVE BoundInv'
  BY <1>11 DEF FetchRow, HasBinding
<1>12. ASSUME NEW r \in ResultSets, NEW v \in Edits, Edit(r, v) PROVE BoundInv'
  BY <1>12 DEF Edit, HasBinding, Touched
<1>13. ASSUME NEW r \in ResultSets, FetchEnd(r) PROVE BoundInv'
  BY <1>13, FinalizedUnbinds DEF FetchEnd
<1>14. ASSUME NEW r \in ResultSets, FetchFails(r) PROVE BoundInv'
  BY <1>14 DEF FetchFails, HasBinding, Touched
<1>15. ASSUME NEW r \in ResultSets, DestroyResultSet(r) PROVE BoundInv'
  BY <1>15, FinalizedUnbinds DEF DestroyResultSet
<1>16. ASSUME NEW r \in ResultSets, NEW t \in ResultSets, Move(r, t) PROVE BoundInv'
  BY <1>16, FinalizedUnbinds DEF Move
<1> QED
  BY <1>1, <1>2, <1>3, <1>4, <1>5, <1>6, <1>7, <1>8, <1>9, <1>10, <1>11,
     <1>12, <1>13, <1>14, <1>15, <1>16
  DEF Next, Execute

\* Every step keeps fields in step with their rows.
LEMMA Shown == ASSUME TypeOK, FieldInv, Next PROVE FieldInv'
<1> USE StatementsAssumption, Assigns, NewFieldIsField DEF TypeOK, FieldInv,
        FieldsShowRow, dbVars, stmtVars, resultVars
<1>1. CASE CreateConnection
  BY <1>1 DEF CreateConnection
<1>2. CASE CreateConnectionFails
  BY <1>2 DEF CreateConnectionFails
<1>3. CASE DestroyConnection
  BY <1>3 DEF DestroyConnection
<1>4. CASE DestroyFactory
  BY <1>4 DEF DestroyFactory
<1>5. ASSUME NEW q \in Queries, DestroyPrepared(q) PROVE FieldInv'
  BY <1>5 DEF DestroyPrepared, Finalized
<1>6. ASSUME NEW q \in Queries, NEW s \in Statements, Prepare(q, s) PROVE FieldInv'
  BY <1>6 DEF Prepare
<1>7. ASSUME NEW q \in Queries, NEW s \in Statements, ExecuteRefused(q, s) PROVE FieldInv'
  BY <1>7 DEF ExecuteRefused, ExecutesOn
<1>8. ASSUME NEW q \in Queries, NEW s \in Statements, NEW params \in Parameters,
             ExecuteFails(q, s, params) PROVE FieldInv'
  BY <1>8 DEF ExecuteFails, BindAndRun, ExecutesOn
<1>9. ASSUME NEW q \in Queries, NEW s \in Statements, NEW params \in Parameters,
             ExecuteNoRow(q, s, params) PROVE FieldInv'
  BY <1>9 DEF ExecuteNoRow, BindAndRun, ExecutesOn
<1>10. ASSUME NEW q \in Queries, NEW s \in Statements, NEW params \in Parameters,
             NEW r \in ResultSets, NEW v \in Rows, ExecuteRow(q, s, r, params, v) PROVE FieldInv'
  BY <1>10 DEF ExecuteRow, BindAndRun, ExecutesOn
<1>11. ASSUME NEW r \in ResultSets, NEW v \in Rows, FetchRow(r, v) PROVE FieldInv'
  BY <1>11 DEF FetchRow, HasBinding
<1>12. ASSUME NEW r \in ResultSets, NEW v \in Edits, Edit(r, v) PROVE FieldInv'
  BY <1>12 DEF Edit, HasBinding, Touched
<1>13. ASSUME NEW r \in ResultSets, FetchEnd(r) PROVE FieldInv'
  BY <1>13 DEF FetchEnd, HasBinding, Finalized, Forget
<1>14. ASSUME NEW r \in ResultSets, FetchFails(r) PROVE FieldInv'
  BY <1>14 DEF FetchFails, HasBinding, Touched
<1>15. ASSUME NEW r \in ResultSets, DestroyResultSet(r) PROVE FieldInv'
  BY <1>15 DEF DestroyResultSet, Finalized, Forget
<1>16. ASSUME NEW r \in ResultSets, NEW t \in ResultSets, Move(r, t) PROVE FieldInv'
  BY <1>16 DEF Move, Finalized
<1> QED
  BY <1>1, <1>2, <1>3, <1>4, <1>5, <1>6, <1>7, <1>8, <1>9, <1>10, <1>11,
     <1>12, <1>13, <1>14, <1>15, <1>16
  DEF Next, Execute

-----------------------------------------------------------------------------
\* A step that changes nothing keeps everything.
LEMMA Unchanged ==
    ASSUME TypeOK, UNCHANGED vars
    PROVE  /\ TypeOK'
           /\ OwnerInv => OwnerInv' /\ (DatabaseInv => DatabaseInv')
           /\ BoundInv => BoundInv'
           /\ FieldInv => FieldInv'
<1> USE DEF vars, dbVars, stmtVars, resultVars
<1>1. Live' = Live
  BY DEF Live
<1>2. TypeOK'
  BY DEF TypeOK
<1>3. (OwnerInv => OwnerInv') /\ (DatabaseInv => DatabaseInv')
  BY <1>1 DEF OwnerInv, DatabaseInv, DatabaseOutlivesStatements
<1>4. BoundInv => BoundInv'
  BY <1>1 DEF BoundInv, RunsWithGiven
<1>5. FieldInv => FieldInv'
  BY DEF FieldInv, FieldsShowRow
<1> QED
  BY <1>2, <1>3, <1>4, <1>5

IInv == TypeOK /\ OwnerInv /\ DatabaseInv /\ BoundInv /\ FieldInv

\* The five invariants together hold in every state.
THEOREM Invariant == Spec => []IInv
<1>1. Init => IInv
  BY InitInv DEF IInv
<1>2. IInv /\ [Next]_vars => IInv'
  BY Typed, StatementsOwned, Open, BoundAsGiven, Shown, Unchanged DEF IInv
<1> QED
  BY <1>1, <1>2, PTL DEF Spec

\* All variables keep their types; a field of unknown type is NULL.
THEOREM TypeCorrect == Spec => []TypeOK
<1>1. IInv => TypeOK
  BY DEF IInv
<1> QED
  BY <1>1, Invariant, PTL

\* However results are moved, a statement of SQLite has one handle that
\* finalizes it, and what has no handle is finalized.
THEOREM OwnersUnique == Spec => []OneOwner
<1>1. TypeOK /\ OwnerInv => OneOwner
  <2> SUFFICES ASSUME TypeOK, OwnerInv, NEW s \in Statements
               PROVE  Cardinality(Owners(s)) = IF s \in Live THEN 1 ELSE 0
    BY DEF OneOwner
  <2>1. CASE s \in Live
    <3>1. PICK o \in Queries \union ResultSets : Owners(s) = {o}
      <4>1. ASSUME NEW q \in Queries, prepared[q] = s PROVE Owners(s) = {q}
        BY <4>1 DEF Owners, OwnerInv
      <4>2. ASSUME NEW r \in ResultSets, binding[r] = s PROVE Owners(s) = {r}
        BY <4>2 DEF Owners, OwnerInv
      <4> QED
        BY <2>1, <4>1, <4>2 DEF OwnerInv
    <3> QED
      BY <2>1, <3>1, FS_Singleton
  <2>2. CASE s \notin Live
    <3>1. Owners(s) = {}
      BY <2>2 DEF Owners, OwnerInv
    <3> QED
      BY <2>2, <3>1, FS_EmptySet
  <2> QED
    BY <2>1, <2>2
<1>2. IInv => OneOwner
  BY <1>1 DEF IInv
<1> QED
  BY <1>2, Invariant, PTL

\* The database outlives its statements, and not by more than it must.
THEOREM DatabaseLives == Spec => []DatabaseOutlivesStatements
<1>1. IInv => DatabaseOutlivesStatements
  BY DEF IInv, DatabaseInv
<1> QED
  BY <1>1, Invariant, PTL

\* Parameters that are not NULL reach the statement they were passed for.
THEOREM ParametersArrive == Spec => []RunsWithGiven
<1>1. IInv => RunsWithGiven
  BY DEF IInv, BoundInv
<1> QED
  BY <1>1, Invariant, PTL

\* Fields show the row that was fetched last.
THEOREM FieldsCorrect == Spec => []FieldsShowRow
<1>1. IInv => FieldsShowRow
  BY DEF IInv, FieldInv
<1> QED
  BY <1>1, Invariant, PTL
=============================================================================
