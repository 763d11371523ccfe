SPECIFICATION ConfigSpec
CONSTANTS
  p1 = p1
  p2 = p2
  p3 = p3
  Procs = {p1, p2, p3}
  Loaded = {p2, p3}
  Updaters = {p1, p2}
  Pollers = {p3}
  Fields = {"limit"}
  Values = {1, 2}
  Default <- InitialConfig
  MaxUpdates = 2
  MaxFaults = 2
INVARIANT AsNewAsVersion
PROPERTY Converges
CHECK_DEADLOCK FALSE
