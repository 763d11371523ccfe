CONSTANTS
    RateLimit = 3
    Window = 7
    MaxCount = 12
    MaxJitter = 4
SPECIFICATION RecoverySpec
INVARIANTS NeverOversleeps FewRetries
PROPERTY TokenRecovered
CHECK_DEADLOCK FALSE
