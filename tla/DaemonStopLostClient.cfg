\* Clients may go away.
SPECIFICATION FairSpec
CONSTANTS
  m1 = m1
  m2 = m2
  p1 = p1
  p2 = p2
  NoJob = NoJob
  Modules = {m1, m2}
  AutoEligible = {m1, m2}
  Paths = {p1, p2}
  Rank <- MCRank
  Route <- MCRouteSplit
  ExitAfterRerun = FALSE
  MaxSaves = 0
  Faults = {"client"}
PROPERTIES
  StopExits
CHECK_DEADLOCK FALSE
