CONSTANTS
    w1 = w1
    w2 = w2
    t1 = t1
    c1 = c1
    c2 = c2
    NoTask = NoTask
    Jobs = {j1}
    Markers = {}
    Clients = {c1, c2}
    Workers = {w1, w2}
    Threads = {t1, t2}
    Owner <- MCOwner
    AgeOverride <- MCAgeOverride
    Priority <- MCPriority
    Limit = 2
    Window = 2
    Margin = 1
    MaxConcurrency = 2
    Lease = 1
    MaxAge = 1
    AcquireTimeout = 3
    Sec = 2
    NestedPayload = FALSE
    Horizon = 12
    MaxFaults = 0
    TimelyHeartbeats = TRUE
    MarkersOutlive = FALSE
    DefiniteReplies = TRUE
    PromptCalls = TRUE
SPECIFICATION Spec
SYMMETRY ClientSymmetry
INVARIANT RunsOnceAtATime
CHECK_DEADLOCK FALSE
