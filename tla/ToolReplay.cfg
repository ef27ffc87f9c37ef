SPECIFICATION Spec
CONSTANTS
    Dispatchers = {d1, d2}
    Payloads = {p1, p2, bad}
    Forged = {bad}
    Answers = {a1, a2}
    None = None
    Torn = Torn
    MaxSubmits = 2
    MaxLosses = 1
    MaxStops = 2
    MaxOutages = 1
INVARIANTS
    AtMostOnce
    OnePayload
    OneAnswer
PROPERTIES
    StagedUntilClaimed
    EventuallyAnswered
