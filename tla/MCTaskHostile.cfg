CONSTANTS
    w1 = w1
    w2 = w2
    t1 = t1
    c1 = c1
    c2 = c2
    NoTask = NoTask
    Jobs = {j1}
    Markers = {m1}
    Clients = {c1}
    Workers = {w1, w2}
    Threads = {t1, t2}
    Owner <- MCOwner
    AgeOverride <- MCAgeOverride
    Priority <- MCPriority
    Limit = 1
    Window = 2
    Margin = 1
    MaxConcurrency = 1
    Lease = 1
    MaxAge = 1
    AcquireTimeout = 1
    Sec = 1
    NestedPayload = FALSE
    Horizon = 4
    MaxFaults = 1
    TimelyHeartbeats = FALSE
    MarkersOutlive = FALSE
    DefiniteReplies = FALSE
    PromptCalls = FALSE
SPECIFICATION Spec
INVARIANTS RateBound SlotBound
PROPERTIES ImplementsPool JobsNotDropped
CHECK_DEADLOCK FALSE
