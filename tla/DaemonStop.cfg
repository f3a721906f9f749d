\* No fault, and a worker that may be stuck for ever.
SPECIFICATION StuckWorkerSpec
CONSTANTS
  m1 = m1
  m2 = m2
  p1 = p1
  p2 = p2
  NoJob = NoJob
  Modules = {m1, m2}
  AutoEligible = {m1, m2}
  Paths = {p1, p2}
  Rank <- MCRank
  Route <- MCRouteSplit
  ExitAfterRerun = TRUE
  MaxSaves = 1
  Faults = {}
PROPERTIES
  StopExits
  RunFinishes
  NoRunAfterStop
  ForcedStopExits
CHECK_DEADLOCK FALSE
