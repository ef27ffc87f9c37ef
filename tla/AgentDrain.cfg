\* The agent's queue with a control plane that answers in part, or not at all. The system stops when all bounds are used up and everything is delivered.
SPECIFICATION FairSpec
CONSTANTS
    MaxEvents = 4
    BatchSize = 2
    MaxBatchId = 4
    MaxCrashes = 2
    Modes = {"drain", "log"}
    Truncation = FALSE
INVARIANTS
    TypeOK
    NothingLost
    DeliveredInOrder
PROPERTIES
    BatchIdsFresh
    ImplementsCursor
    EventuallyDelivered
CHECK_DEADLOCK FALSE
