SPECIFICATION Spec
CONSTANTS
    Mods = {"a", "b", "h", "u"}
    Versions = {"v1", "v2"}
    First = "v2"
    Current = "v1"
    Available <- MCAvailable
    Catalogue <- MCCatalogue
    Newest <- MCNewest
    Installed <- MCInstalled
    None = None
    MaxFlows = 2
    MaxInputs = 3
    MaxFails = 1
INVARIANT RestReportTruthful
PROPERTIES UpgradeIsWhole NotResurrected
CHECK_DEADLOCK FALSE
