SPECIFICATION FairSpec
CONSTANTS
    Junk = 0
    MaxBufferSize = 2
    PipeSize = 2
    Sources = {0, 3}
    Setups <- MCSetups
    Plans <- MCPlans
    MaxSignals = 1
CHECK_DEADLOCK FALSE
INVARIANTS
    BytesKept
    DanglingOnlyAfterThrow
PROPERTY
    ExecuteReturns
