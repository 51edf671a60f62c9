SPECIFICATION Spec
CONSTANTS
    Projects <- MCProjects
    Releases <- MCReleases
    Depends <- MCDepends
    Libraries = {"core"}
    Listed = {"app", "lib", "pack"}
    None = None
    MaxFlows = 2
    MaxLoads = 2
    MaxInputs = 4
    MaxFails = 1
INVARIANTS QuietListTruthful RightFile
PROPERTIES PromptIsNeeded NeverWithout
CHECK_DEADLOCK FALSE
