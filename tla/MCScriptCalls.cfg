CONSTANTS
    Callers = {c1, c2}
    Scripts = {consume, renew, missing}
    Installed = {consume, renew}
    Registered = {consume}
    NoScript = NoScript
    MaxFlushes = 2
    Resends = 1
    MaxErrors = 3
SPECIFICATION Spec
INVARIANTS OneRestartRecovered RefusedHadNoReply
PROPERTIES CallsAreAtomic CallsEnd
CHECK_DEADLOCK FALSE
