-------------------------- MODULE MCSignalManager --------------------------
(* Instances of SignalManager for TLC.                                     *)
EXTENDS SignalManager, TLC

CONSTANTS u1, u2, r1, r2

MCUsers == {u1, u2}
MCRunThreads == {r1, r2}
MCSignals == {"ill", "child"}

SignalSymmetry == Permutations(MCUsers) \union Permutations(MCRunThreads)
=============================================================================
