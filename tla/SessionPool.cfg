SPECIFICATION Spec
CONSTANTS
    k1 = k1  k2 = k2
    c1 = c1  c2 = c2  c3 = c3
    NoKey = NoKey
    SizeModulus = 4
    Keys <- MCKeys2
    Clients <- MCClients3
    ObjectsMax = 2
    MaxCreateFailures = 1
SYMMETRY SessionSymmetry
INVARIANTS
    UseIsCounted
    LimitKept
    NobodyForgotten
