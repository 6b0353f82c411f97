\* A handler and a sweep of two pages, one session at a time, with an edit, a
\* crash and a broker outage.
SPECIFICATION FairSerialSpec
CONSTANTS
    r1 = r1
    r2 = r2
    h1 = h1
    h2 = h2
    s1 = s1
    d1 = d1
    d2 = d2
    Handlers = {h1}
    Sweepers = {s1}
    Admins = {}
    Rows = {r1, r2}
    BatchSize = 1
    MaxMoves = 2
    MaxEdits = 1
    MaxCrashes = 1
    MaxOutages = 1
    MaxAlerts = 2
    MaxStock = 2
    Thresholds = {0}
    NoThreshold = NoThreshold
    DefaultThreshold = 1
INVARIANTS
    AtMostOneActive
    ReflectsMovements
PROPERTY Heals
