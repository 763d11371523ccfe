SPECIFICATION Spec
CONSTANTS
  t1 = t1
  t2 = t2
  Tasks = {t1, t2}
  NoTask = NoTask
  Sec = 2
  Lease = 2
  NewLeases = {}
  OnFailure = {"warn"}
  MayShutdown = FALSE
  Horizon = 6
  Tolerated = 0
  MaxFaults = 0
  MaxRuns = 2
  Timely = TRUE
INVARIANT LossIsNoticed
CHECK_DEADLOCK FALSE
