CONSTANTS
    Ids = {"a"}
    Limit = 2
    Window = 3
    Margin = 1
    FailOpen = FALSE
    Horizon = 13
    MaxErrors = 1
SPECIFICATION Spec
INVARIANTS CountersFaithful WindowBound BurstBound FailClosedForwardsCharged RemainingGranted
CHECK_DEADLOCK FALSE
