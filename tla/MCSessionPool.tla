--------------------------- MODULE MCSessionPool ---------------------------
(* Instances of SessionPool for TLC.                                       *)
EXTENDS SessionPool, TLC

CONSTANTS k1, k2, c1, c2, c3

MCKeys2    == {k1, k2}
MCKeys1    == {k1}
MCClients3 == {c1, c2, c3}
MCClients2 == {c1, c2}

\* Neither clients nor keys are named by any definition.
SessionSymmetry == Permutations(Clients) \union Permutations(Keys)
=============================================================================
