CONSTANTS
    Kinds = {"config", "licence", "quota", "quarantine"}
    Shapes <- AllShapes
    Hooks <- AllHooks
    OutCap = 1
    InCap = 1
    MaxPush = 2
    MaxSessions = 2
    MaxBoots = 1
SPECIFICATION Spec
CHECK_DEADLOCK FALSE
INVARIANTS
    OnDiskFirst
    SettledHash
    ProofNamesChannel
PROPERTY
    AckIsTruthful
