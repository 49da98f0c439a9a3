----------------------------- MODULE MCLogbook -----------------------------
(* Instances of Logbook for TLC.                                           *)
EXTENDS Logbook, TLC

CONSTANTS t1, t2, m1, m2, m3

MCThreads  == {t1, t2}
MCMessages == {m1, m2, m3}

\* A line of one character, an empty line with more behind it, a rest of a line.
MCText == (m1 :> <<FALSE, TRUE>>) @@ (m2 :> <<FALSE, FALSE, TRUE>>) @@ (m3 :> <<FALSE>>)
MCLevelOf == (m1 :> 2) @@ (m2 :> 5) @@ (m3 :> 5)
MCRecordLevelOf == [memBuffer |-> "all", oStream |-> "selected"]
=============================================================================
