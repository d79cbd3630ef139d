CONSTANTS
    Cap = 2
    BatchCap = 1
    Outcomes <- MCOutcomes
    MaxCalls = 4
    MaxUsage = 1
    MaxSeq = 3
SPECIFICATION Spec
CONSTRAINT SeqBound
CHECK_DEADLOCK FALSE
INVARIANTS
    TypeOK
    Ledger
    NonBillableExact
    BoundedBuffer
    RowsOnce
    SeqUnique
PROPERTY
    SpendsNonBillableFirst
