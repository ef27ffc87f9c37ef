SPECIFICATION Spec
CONSTANTS
    Beside = FALSE
    MaxFaults = 3
INVARIANT
    Findable
PROPERTIES
    ReportTruthful
    NeighboursKept
    EventuallyErased
CHECK_DEADLOCK FALSE
