CONSTANTS
    w1 = w1
    w2 = w2
    t1 = t1
    Senders = {client}
    NoWorker = NoWorker
    Workers = {w1, w2}
    AsyncWorkers = {w2}
    Threads = {t1, t2}
    Owner <- MCOwner
    Limit = 1
    MaxConcurrency = 1
    Survivors = {w1}
    MaxTasks = 2
    MaxFaults = 1
SPECIFICATION Spec
INVARIANT NoLostWakeup
PROPERTY BufferDrains
CHECK_DEADLOCK FALSE
