\* Every fault: clients that go away, failing system calls, bulky output.
SPECIFICATION Spec
CONSTANTS
  m1 = m1
  m2 = m2
  p1 = p1
  p2 = p2
  NoJob = NoJob
  Modules = {m1, m2}
  AutoEligible = {m1, m2}
  Paths = {p1, p2}
  Rank <- MCRank
  Route <- MCRouteSplit
  ExitAfterRerun = FALSE
  MaxSaves = 2
  Faults = {"client", "resource", "bulk"}
INVARIANTS
  WorkerSupervised
  CancelEscalates
  IdleIsClean
PROPERTY RunsDoNotOverlap
CHECK_DEADLOCK FALSE
