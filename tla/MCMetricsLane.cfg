CONSTANTS
    Cap = 2
    BatchCap = 1
    Outcomes <- OnlyBillable
    MaxSessions = 2
    OutCap = 1
    MaxFlush = 2
    MaxCalls = 2
    MaxUsage = 0
    MaxIdleSeq = 2
SPECIFICATION LaneSpec
CHECK_DEADLOCK FALSE
INVARIANTS
    LaneTypeOK
    ReportedOnce
    FlushCoversFullBuffer
PROPERTY
    CustodyKept
