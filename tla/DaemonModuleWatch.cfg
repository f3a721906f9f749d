\* Every file concerns every watched module.
SPECIFICATION FairSpec
CONSTANTS
  m1 = m1
  m2 = m2
  p1 = p1
  p2 = p2
  NoJob = NoJob
  Modules = {m1, m2}
  AutoEligible = {m1, m2}
  Paths = {p1, p2}
  Rank <- MCRank
  Route <- MCRouteAll
  ExitAfterRerun = FALSE
  MaxSaves = 2
  Faults = {"client"}
INVARIANTS
  SavesAreScheduled
PROPERTIES
  SavesAreTested
CHECK_DEADLOCK FALSE
