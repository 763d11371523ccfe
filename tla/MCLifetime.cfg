CONSTANTS
    Tasks = {t1, t2}
    MaxErrors = 1
SPECIFICATION Spec
INVARIANTS TypeOK OneLastDrain QuietWhenClosed
PROPERTIES ShutdownReturns WakeServed LossReported
CHECK_DEADLOCK FALSE
