CONSTANTS
    Kinds = {"config", "quota"}
    Shapes <- OnlyWhole
    Hooks <- AllHooks
    OutCap = 1
    InCap = 1
    MaxPush = 1
    MaxSessions = 1
    MaxBoots = 1
SPECIFICATION FairSpec
CHECK_DEADLOCK FALSE
PROPERTY
    StatusCatchesUp
    QuotaCatchesUp
    DeadStreamNoticed
