---------------------------- MODULE MCObjectPool ----------------------------
(* Instances of ObjectPool for TLC.                                        *)
EXTENDS ObjectPool

CONSTANTS o1, o2, o3, c1, c2, c3

MCObjects3 == {o1, o2, o3}
MCObjects2 == {o1, o2}
MCClients3 == {c1, c2, c3}
MCClients2 == {c1, c2}
=============================================================================
