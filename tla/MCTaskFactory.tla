--------------------------- MODULE MCTaskFactory ---------------------------
(* Instances of TaskFactory for TLC.                                       *)
EXTENDS TaskFactory, TLC

CONSTANTS t1, t2, t3, w1, w2, w3, c1, c2

MCTasks3   == {t1, t2, t3}
MCTasks2   == {t1, t2}
MCWorkers3 == {w1, w2, w3}
MCWorkers2 == {w1, w2}
MCClients2 == {c1, c2}
MCClients1 == {c1}

\* No definition names a thread, a client or, where all may be canceled, a task.
FullSymmetry ==
    Permutations(Workers) \union Permutations(Clients) \union Permutations(Tasks)
=============================================================================
