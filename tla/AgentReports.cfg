CONSTANTS
    Handlers = {h1, h2}
    Features = {f1, f2}
    Overlaps = {TRUE, FALSE}
    MaxCalls = 4
    MaxDeaths = 1
SPECIFICATION FairSpecReports
INVARIANT
    TableCurrent
PROPERTY
    ReportsConverge
