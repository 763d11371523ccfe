CONSTANTS
    w1 = w1
    w2 = w2
    t1 = t1
    Senders = {client}
    NoWorker = NoWorker
    Workers = {w1, w2}
    AsyncWorkers = {}
    Threads = {t1, t2}
    Owner <- MCOwner
    Limit = 1
    MaxConcurrency = 1
    Survivors = {}
    MaxTasks = 2
    MaxFaults = 1
SPECIFICATION SpecDelivering
PROPERTY BufferDrains
CHECK_DEADLOCK FALSE
