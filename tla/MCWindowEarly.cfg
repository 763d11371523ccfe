SPECIFICATION Spec
CONSTANTS
  p1 = p1
  p2 = p2
  p3 = p3
  Procs = {p1, p2}
  Updater = p1
  Old = 2
  New = 4
  Throttle = 2
  PersistTime = 1
  DrainTime = 1
  MaxFaults = 0
INVARIANT PauseRespected
CHECK_DEADLOCK FALSE
