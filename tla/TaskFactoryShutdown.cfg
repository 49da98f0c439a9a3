SPECIFICATION FairSpec
CONSTANTS
    t1 = t1  t2 = t2  t3 = t3
    w1 = w1  w2 = w2  w3 = w3
    c1 = c1  c2 = c2
    Owner = Owner
    NoOne = NoOne
    Tasks <- MCTasks3
    Workers <- MCWorkers2
    Clients <- MCClients1
    MaxThreads = 2
    CancelTargets = {}
    MaxSpawnFailures = 0
PROPERTIES
    DestructorReturns
    EveryTaskEnds
