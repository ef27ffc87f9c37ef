\* Lock-free readers beside writers that go on unlocked: a file system without advisory locks.
SPECIFICATION SpecReaders
CONSTANTS
    P1 = P1
    P2 = P2
    R1 = R1
    F = F
    NoPid = NoPid
    Bare = Bare
    NoEntry = NoEntry
    Rejected = Rejected
    NoDoc = NoDoc
    Torn = Torn
    NoProc = NoProc
    NoChange = NoChange
    Docs <- MCDocs
    EmptyDoc <- MCEmptyDoc
    Changes <- MCChanges
    Apply <- MCApply
    LegacyDoc = NoDoc
    Procs = {P1, P2}
    Readers = {R1}
    PollLimit = 1
    LockSupported = FALSE
INVARIANTS
    NeverTorn
    ReadersSeeCommitted
