SPECIFICATION ConfigSpec
CONSTANTS
  p1 = p1
  p2 = p2
  p3 = p3
  Procs = {p1, p2}
  Loaded = {p1, p2}
  Updaters = {p1}
  Pollers = {p2}
  Fields = {"limit"}
  Values = {1, 2}
  Default <- InitialConfig
  MaxUpdates = 1
  MaxFaults = 1
INVARIANT CurrentIsStored
CHECK_DEADLOCK FALSE
