SPECIFICATION Spec
CONSTANTS
  c1 = c1
  p2 = p2
  p1 = p1
  Panels = {p1, p2}
  Clients = {c1}
  Crons <- TwoCrons
  NextRun <- TheRuns
  Steps = 1
  MaxTime = 3
  MaxEdits = 1
  MaxFaults = 0
  MaxDowns = 1
SYMMETRY SchedulerSymmetry
INVARIANT AtMostOnce
INVARIANT NoOverlap
CHECK_DEADLOCK FALSE
