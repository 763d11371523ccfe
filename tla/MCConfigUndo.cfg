SPECIFICATION ConfigSpec
CONSTANTS
  p1 = p1
  p2 = p2
  p3 = p3
  Procs = {p1, p2}
  Loaded = {p1, p2}
  Updaters = {p1, p2}
  Pollers = {p1, p2}
  Fields = {"limit", "window"}
  Values = {1, 2}
  Default <- InitialConfig
  MaxUpdates = 2
  MaxFaults = 0
PROPERTY UpdatesKept
CHECK_DEADLOCK FALSE
