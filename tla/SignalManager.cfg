SPECIFICATION Spec
CONSTANTS
    u1 = u1  u2 = u2
    r1 = r1  r2 = r2
    NoOne = NoOne
    Users <- MCUsers
    RunThreads <- MCRunThreads
    Signals <- MCSignals
    MaxRaised = 1
    MaxFailures = 1
SYMMETRY SignalSymmetry
CHECK_DEADLOCK FALSE
INVARIANTS
    InvokedWhileInstalled
    OneRunThread
    CaughtIfRegistered
