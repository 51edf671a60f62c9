SPECIFICATION FairSpec
CONSTANTS
  w1 = w1
  w2 = w2
  Workers = {w1, w2}
  Monitor = Monitor
  Provisioner = Provisioner
  NoOne = NoOne
  Ops = {"start", "stop", "restart", "update", "backup", "edit", "recreate"}
  Faults = {"boot", "remove", "jar"}
  Commands = {"stop"}
  MaxOps = 2
  MaxCid = 1
  MaxFaults = 1
  MaxCrashes = 1
INVARIANTS TypeOK StoppedMeansDown EveryContainerTracked TaskHasOwner
PROPERTIES CrashAlertTruthful StatusConverges AllReturn
CHECK_DEADLOCK FALSE
