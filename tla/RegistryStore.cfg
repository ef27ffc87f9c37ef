\* The locked protocol, upgrading a repository that has a feature.json.
SPECIFICATION FairSpec
CONSTANTS
    P1 = P1
    P2 = P2
    F = F
    G = G
    RT = RT
    NoPid = NoPid
    Bare = Bare
    NoEntry = NoEntry
    Rejected = Rejected
    NoDoc = NoDoc
    Torn = Torn
    NoProc = NoProc
    NoChange = NoChange
    Docs <- MCDocs
    EmptyDoc <- MCEmptyDoc
    Changes <- MCChanges
    Apply <- MCApply
    LegacyDoc <- MCLegacyDoc
    Procs = {P1, P2}
    Readers = {}
    PollLimit = 1
    LockSupported = TRUE
INVARIANTS
    LiveTempKept
PROPERTIES
    NoLostUpdate
    ImplementsAtomicRegistry
    EveryCallReturns
