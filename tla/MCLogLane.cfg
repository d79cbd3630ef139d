CONSTANTS
    Cap = 2
    BatchCap = 1
    OutCap = 1
    MaxFlush = 2
    MaxSessions = 2
    MaxLines = 4
    MaxIdle = 0
SPECIFICATION FairSpec
CHECK_DEADLOCK FALSE
INVARIANTS
    DropsFillGaps
    LogFlushCovers
PROPERTIES
    LogsShipped
    FlushEnds
