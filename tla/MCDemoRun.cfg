SPECIFICATION Spec
CONSTANTS
    a = a
    b = b
    c = c
    Tasks = {a, b, c}
    Custom = {c}
    MaxWorkers = 1
    MaxConcurrency = 2
    MaxFaults = 2
INVARIANTS
    CounterExact
    NoLocalQueue
    NoOrphanHeartbeat
    CompletedIsComplete
PROPERTY DemoEnds
