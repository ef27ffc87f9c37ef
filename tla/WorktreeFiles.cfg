SPECIFICATION Spec
CONSTANTS
    MaxEntries = 8
    StrategyChanges = FALSE
    EditsAnytime = FALSE
    MaxEdits = 4
    MaxCalls = 2
    Focuses <- MCFocuses
INVARIANTS
    PlanKeepsWork
    RecheckKeepsTracked
PROPERTY
    MainKept
CHECK_DEADLOCK FALSE
