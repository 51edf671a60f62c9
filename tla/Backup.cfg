SPECIFICATION Spec
CONSTANTS
    s1 = s1
    w1 = w1
    w2 = w2
    NoOne = NoOne
    Servers = {s1}
    Workers = {w1, w2}
    Slots = 1
    Policies <- OnePolicy
    Ops = {"backup", "upload", "restore", "cleanup", "empty", "trash", "recover", "protect", "unprotect", "purge", "policy"}
    Faults = {"db", "archive", "save", "remove", "rename", "timeout", "disconnect"}
    Existing = 2
    MaxBackups = 3
    MaxVersion = 2
    MaxClock = 2
    MaxOps = 3
    MaxFaults = 2
    MaxCrashes = 1
SYMMETRY WorkerSymmetry
INVARIANT AnnouncedTruthfully
INVARIANT QuotaMet
PROPERTY RecordOutlivesArchive
PROPERTY RestoreLosesNothing
PROPERTY RestoresSuccessful
PROPERTY SparedStay
CHECK_DEADLOCK FALSE
