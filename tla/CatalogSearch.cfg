SPECIFICATION Spec
CONSTANTS
    Filters = {"wide", "narrow"}
    Default = "wide"
    Matches <- MCMatches
    PageSize = 2
    MaxCalls = 3
    MaxInputs = 5
    MaxFails = 1
INVARIANT RestIsCurrent
PROPERTY ComesToRest
CHECK_DEADLOCK FALSE
