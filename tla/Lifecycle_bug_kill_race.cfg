SPECIFICATION Spec
CONSTANTS
  w1 = w1
  w2 = w2
  Workers = {w1, w2}
  Monitor = Monitor
  Provisioner = Provisioner
  NoOne = NoOne
  Ops = {"start", "kill"}
  Faults = {}
  Commands = {"stop"}
  MaxOps = 2
  MaxCid = 2
  MaxFaults = 0
  MaxCrashes = 0
SYMMETRY WorkerSymmetry
PROPERTY CrashAlertTruthful
CHECK_DEADLOCK FALSE
