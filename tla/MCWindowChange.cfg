SPECIFICATION Spec
CONSTANTS
  p1 = p1
  p2 = p2
  p3 = p3
  Procs = {p1, p2, p3}
  Updater = p1
  Old = 2
  New = 4
  Throttle = 2
  PersistTime = 1
  DrainTime = 1
  MaxFaults = 1
INVARIANT OneWindow
CHECK_DEADLOCK FALSE
