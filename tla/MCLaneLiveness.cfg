CONSTANTS
    Cap = 2
    BatchCap = 1
    Outcomes <- OnlyBillable
    MaxSessions = 2
    OutCap = 1
    MaxFlush = 0
    MaxCalls = 1
    MaxUsage = 1
    MaxIdleSeq = 0
SPECIFICATION LaneFairSpec
CHECK_DEADLOCK FALSE
PROPERTY
    EventuallyShipped
