--------------------------- MODULE MCMessageTimer ---------------------------
(* Instances of MessageTimer for TLC.                                      *)
EXTENDS MessageTimer

CONSTANTS r1, r2, c1, c2, m1, m2, m3, k1, k2

MCRunners1 == {r1}
MCRunners2 == {r1, r2}
MCClients2 == {c1, c2}
MCClients1 == {c1}
MCMessages == {m1, m2, m3}

\* m1 and m2 have the same key; m2 is the most important, m3 movable.
MCKeyOf    == [m \in MCMessages |-> IF m = m3 THEN k2 ELSE k1]
MCPriority == [m \in MCMessages |-> IF m = m2 THEN 1 ELSE 0]
MCMovable  == {m3}
=============================================================================
