CONSTANTS
    w1 = w1
    w2 = w2
    t1 = t1
    c1 = c1
    c2 = c2
    NoTask = NoTask
    Jobs = {j1}
    Markers = {m1}
    Clients = {c1, c2}
    Workers = {w1, w2}
    Threads = {t1, t2}
    Owner <- MCOwner
    AgeOverride <- MCAgeOverride
    Priority <- MCPriority
    Limit = 2
    Window = 2
    Margin = 1
    MaxConcurrency = 1
    Lease = 1
    MaxAge = 1
    AcquireTimeout = 3
    Sec = 2
    NestedPayload = FALSE
    Horizon = 5
    MaxFaults = 1
    TimelyHeartbeats = TRUE
    MarkersOutlive = TRUE
    DefiniteReplies = FALSE
    PromptCalls = TRUE
SPECIFICATION Spec
SYMMETRY ClientSymmetry
INVARIANT AtMostOneCopy
CHECK_DEADLOCK FALSE
