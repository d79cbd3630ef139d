CONSTANTS
    w1 = w1
    Waiters <- OneWaiter
    MaxTokens = 2
    MaxRestarts = 0
SPECIFICATION FairSpec
CHECK_DEADLOCK FALSE
PROPERTY
    TriggerStops
