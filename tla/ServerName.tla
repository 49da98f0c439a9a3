----------------------------- MODULE ServerName -----------------------------
(***************************************************************************)
(* Which certificate of the key store a TLS client gets for the host name  *)
(* it asks for (mhdSniCallback).                                           *)
(*                                                                         *)
(* A name is a sequence of labels.  A pattern is a name, maybe with "*" as *)
(* its first label; the empty pattern fits every name.                     *)
(***************************************************************************)
EXTENDS Naturals, Sequences, SequencesExt

NoName == <<>>

HasMatchingHostname(name, pattern) ==
    \/ pattern = NoName
    \/ pattern[1] = "*" /\ Tail(name) = Tail(pattern)
    \/ pattern = name

IsPerfect(pattern) == pattern # NoName /\ pattern[1] # "*"

\* Mutant: of two that fit, the shorter one is taken.
BetterShort(found, pattern) ==
    \/ IsPerfect(pattern)
    \/ ~found.perfect /\ (found.pattern = {} \/ \E p \in found.pattern : Len(pattern) <= Len(p))

\* An entry is skipped if a longer one has been found.
Better(found, pattern) ==
    \/ IsPerfect(pattern)
    \/ ~found.perfect /\ (found.pattern = {} \/ \E p \in found.pattern : Len(pattern) >= Len(p))

NothingFound == [pattern |-> {}, perfect |-> FALSE]

\* One entry: the loop ends at a perfect match.
Visit(name, found, pattern) ==
    IF ~found.perfect /\ HasMatchingHostname(name, pattern) /\ Better(found, pattern)
    THEN [pattern |-> {pattern}, perfect |-> IsPerfect(pattern)]
    ELSE found

\* The entries are visited in the order of the map's keys.  The result is the
\* set of the pattern found, if any.
Certificate(name, store) ==
    LET found[n \in 0..Len(store)] ==
            IF n = 0 THEN NothingFound ELSE Visit(name, found[n - 1], store[n])
    IN  found[Len(store)].pattern

\* What it should be: the name itself, else a pattern of one level, else the
\* certificate for all.
BestCertificate(name, store) ==
    LET offered == ToSet(store) IN
    CASE name \in offered -> {name}
      [] name \notin offered /\ <<"*">> \o Tail(name) \in offered -> {<<"*">> \o Tail(name)}
      [] OTHER -> offered \intersect {NoName}
=============================================================================
