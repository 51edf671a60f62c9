SPECIFICATION FairSpec
CONSTANTS
  c1 = c1
  p1 = p1
  Panels = {p1}
  Clients = {c1}
  Crons <- TwoCrons
  NextRun <- TheRuns
  Steps = 2
  MaxTime = 4
  MaxEdits = 1
  MaxFaults = 1
  MaxDowns = 1
INVARIANT StatusTruthful
PROPERTY NoReplay
PROPERTY StopSettles
PROPERTY MarkReleased
PROPERTY DueIsTaken
PROPERTY RunsSettle
CHECK_DEADLOCK FALSE
