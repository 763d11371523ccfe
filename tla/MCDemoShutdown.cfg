SPECIFICATION Spec
CONSTANTS
    a = a
    b = b
    c = c
    Tasks = {a, b, c}
    Custom = {c}
    MaxWorkers = 1
    MaxConcurrency = 2
    MaxFaults = 0
INVARIANT RunsUnderLease
