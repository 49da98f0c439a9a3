SPECIFICATION LogbookSpec
CONSTANTS
    t1 = t1  t2 = t2
    m1 = m1  m2 = m2  m3 = m3
    NoOne = NoOne
    Silent = Silent
    Threads <- MCThreads
    Messages <- MCMessages
    Text <- MCText
    LevelOf <- MCLevelOf
    RecordLevelOf <- MCRecordLevelOf
    MaxLines = 1
    MaxColumns = 1
    MaxDepth = 2
    MaxSetLevels = 1
CHECK_DEADLOCK FALSE
INVARIANTS
    Delivered
    RightLocation
    QueueHasFlusher
    LinesAreWhole
