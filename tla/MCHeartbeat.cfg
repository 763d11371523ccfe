SPECIFICATION Spec
SYMMETRY TaskSymmetry
CONSTANTS
  t1 = t1
  t2 = t2
  Tasks = {t1, t2}
  NoTask = NoTask
  Sec = 2
  Lease = 2
  NewLeases <- Longer
  OnFailure = {"warn", "kill"}
  MayShutdown = TRUE
  Horizon = 6
  Tolerated = 1
  MaxFaults = 2
  MaxRuns = 3
  Timely = TRUE
INVARIANTS LeaseKept EntriesScheduled
CHECK_DEADLOCK FALSE
