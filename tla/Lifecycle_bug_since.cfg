SPECIFICATION Spec
CONSTANTS
  w1 = w1
  w2 = w2
  Workers = {w1, w2}
  Monitor = Monitor
  Provisioner = Provisioner
  NoOne = NoOne
  Ops = {"update", "kill"}
  Faults = {}
  Commands = {"stop"}
  MaxOps = 3
  MaxCid = 1
  MaxFaults = 0
  MaxCrashes = 0
SYMMETRY WorkerSymmetry
PROPERTY RequestedStopKept
CHECK_DEADLOCK FALSE
