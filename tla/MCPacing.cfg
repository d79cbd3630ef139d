CONSTANTS
    HasEnrollment = TRUE
    Initial = 4
    Maximum = 16
    ExpCap = 3
    MaxAttempt = 5
    SlotMax = 8
    Margin = 1
    Lease = 7
    Life = 20
    MinWindow = 2
    Heartbeat = 1
    ConnectMax = 2
    Spans <- MCSpans
SPECIFICATION Spec
INVARIANT
    PresentsLiveToken
    SlotRetryLands
    BackoffSpaces
    SleepsBounded
