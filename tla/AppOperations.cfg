CONSTANTS
    Features = {"a", "b"}
    Requests <- MCRequests
    Kind <- MCKind
    Project <- MCProject
    Targets <- MCTargets
    Keys <- MCKeys
    Listed = "this"
    Scenarios <- MCScenarios
    MaxEvents = 2
SPECIFICATION FairSpec
INVARIANT
    NoConflictRuns
PROPERTIES
    EveryOperationEnds
    ShownConverges
CHECK_DEADLOCK FALSE
