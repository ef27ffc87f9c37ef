\* One call at a time, or starts beside each other; any call may die at any step.
SPECIFICATION Spec
CONSTANTS
    P1 = P1
    P2 = P2
    Feature = F
    Procs = {P1, P2}
    Scenarios <- MCLifecycle
    NoPid = NoPid
    NoEntry = NoEntry
    Rejected = Rejected
    NoRequest = NoRequest
    Unwritten = Unwritten
INVARIANTS
    RecordedWorktreeListed
    RuntimeFindable
PROPERTIES
    WorkKept
    CommitsKept
    TeardownVerified
