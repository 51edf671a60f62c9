SPECIFICATION Spec
CONSTANTS
  w1 = w1
  w2 = w2
  Workers = {w1, w2}
  Monitor = Monitor
  Provisioner = Provisioner
  NoOne = NoOne
  Ops = {"start", "stop", "kill", "restart", "recreate", "update", "delete", "install", "modpack", "backup", "restore", "uninstall", "logs", "console", "edit"}
  Faults = {"inspect", "create", "boot", "stop", "kill", "remove", "send", "jar", "ports", "disconnect", "rm"}
  Commands = {"stop", "shutdown"}
  MaxOps = 2
  MaxCid = 3
  MaxFaults = 1
  MaxCrashes = 1
SYMMETRY WorkerSymmetry
INVARIANTS DataQuiescent RunningTracked
PROPERTIES GuardSpec ObservationsYield
CHECK_DEADLOCK FALSE
