SPECIFICATION Spec
CONSTANTS
    t1 = t1  t2 = t2  t3 = t3
    w1 = w1  w2 = w2  w3 = w3
    c1 = c1  c2 = c2
    Owner = Owner
    NoOne = NoOne
    Tasks <- MCTasks2
    Workers <- MCWorkers3
    Clients <- MCClients2
    MaxThreads = 2
    CancelTargets <- MCTasks2
    MaxSpawnFailures = 1
CHECK_DEADLOCK FALSE
SYMMETRY FullSymmetry
INVARIANTS
    ThreadCount
    NoDanglingFactory
    MissedOnlyInTransit
    OnlyCancelDeadlocks
    NoWorkAfterDestroy
    ContextNotShared
PROPERTIES
    LifecycleSpec
