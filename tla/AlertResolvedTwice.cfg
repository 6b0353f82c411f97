\* Two admins resolve the alert of one movement.
SPECIFICATION Spec
CONSTANTS
    r1 = r1
    r2 = r2
    h1 = h1
    h2 = h2
    s1 = s1
    d1 = d1
    d2 = d2
    Handlers = {h1}
    Sweepers = {}
    Admins = {d1, d2}
    Rows = {r1}
    BatchSize = 1
    MaxMoves = 1
    MaxEdits = 0
    MaxCrashes = 0
    MaxOutages = 0
    MaxAlerts = 2
    MaxStock = 2
    Thresholds = {}
    NoThreshold = NoThreshold
    DefaultThreshold = 1
\* No further movement after the bound: everything may stop.
CHECK_DEADLOCK FALSE
INVARIANT ResolvedOnce
