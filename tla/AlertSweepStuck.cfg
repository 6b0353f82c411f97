\* Two movements, then the sweep again and again.
SPECIFICATION FairSpec
CONSTANTS
    r1 = r1
    r2 = r2
    h1 = h1
    h2 = h2
    s1 = s1
    d1 = d1
    d2 = d2
    Handlers = {h1, h2}
    Sweepers = {s1}
    Admins = {}
    Rows = {r1}
    BatchSize = 1
    MaxMoves = 2
    MaxEdits = 0
    MaxCrashes = 0
    MaxOutages = 0
    MaxAlerts = 2
    MaxStock = 2
    Thresholds = {}
    NoThreshold = NoThreshold
    DefaultThreshold = 1
PROPERTY Heals
