\* Starts one after the other, the user stashing between them, with failures and deaths.
SPECIFICATION SpecStash
CONSTANTS
    Features = {F1, F2}
    Changes = {c1, c2, c3}
    Excluded = {c3}
    Beside = FALSE
    NoRef = NoRef
INVARIANTS
    ChangesKept
    OwnChangesOnly
    TakenIsDelivered
CHECK_DEADLOCK FALSE
