SPECIFICATION FairSpec
CONSTANTS
    r1 = r1  r2 = r2
    c1 = c1  c2 = c2
    m1 = m1  m2 = m2  m3 = m3
    k1 = k1  k2 = k2
    NoOne = NoOne
    Runners <- MCRunners2
    Clients <- MCClients1
    Messages <- MCMessages
    KeyOf <- MCKeyOf
    Priority <- MCPriority
    Movable <- MCMovable
    MaxAdds = 2
    MaxThrows = 1
    MaxOverlaps = 1
CHECK_DEADLOCK FALSE
INVARIANTS
    NothingForgotten
    NoSelfDeadlock
PROPERTIES
    DueLeaves
    StopEndsRun
