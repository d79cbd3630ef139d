CONSTANTS
    w1 = w1
    Waiters <- OneWaiter
    MaxTokens = 2
    MaxRestarts = 1
SPECIFICATION FairSpec
CHECK_DEADLOCK FALSE
INVARIANTS
    RefusedNeverPresented
    ExpiredNeverPresented
    NoSecondSessionAfterTrigger
    NoMissedFinish
PROPERTIES
    CredsKeptUntilReplaceable
    StopsUnlessMissed
    FinishedResolves
    KeepsReconnecting
