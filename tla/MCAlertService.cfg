\* A handler, the sweep, an admin and an out-of-band edit race on one row.
SPECIFICATION FairSpec
CONSTANTS
    r1 = r1
    r2 = r2
    h1 = h1
    h2 = h2
    s1 = s1
    d1 = d1
    d2 = d2
    Handlers = {h1}
    Sweepers = {s1}
    Admins = {d1}
    Rows = {r1}
    BatchSize = 1
    MaxMoves = 2
    MaxEdits = 1
    MaxCrashes = 0
    MaxOutages = 0
    MaxAlerts = 3
    MaxStock = 2
    Thresholds = {0}
    NoThreshold = NoThreshold
    DefaultThreshold = 1
INVARIANTS
    TypeOK
    TypeMatchesTrigger
PROPERTIES
    ResolvedIsFinal
    EveryAlertEmailed
