SPECIFICATION Spec
CONSTANTS
    MaxEntries = 8
    StrategyChanges = TRUE
    EditsAnytime = FALSE
    MaxEdits = 3
    MaxCalls = 2
    Focuses <- MCFocuses
PROPERTY MainKept
CHECK_DEADLOCK FALSE
