\* One movement while the broker is down, then the sweep again and again.
SPECIFICATION FairSpec
CONSTANTS
    r1 = r1
    r2 = r2
    h1 = h1
    h2 = h2
    s1 = s1
    d1 = d1
    d2 = d2
    Handlers = {h1}
    Sweepers = {s1}
    Admins = {}
    Rows = {r1}
    BatchSize = 1
    MaxMoves = 1
    MaxEdits = 0
    MaxCrashes = 0
    MaxOutages = 1
    MaxAlerts = 1
    MaxStock = 2
    Thresholds = {}
    NoThreshold = NoThreshold
    DefaultThreshold = 1
PROPERTY EveryAlertEmailed
