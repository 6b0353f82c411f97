SPECIFICATION FairSpec
CONSTANTS
    a1 = a1
    c1 = c1
    k1 = k1
    k2 = k2
    r1 = r1
    r2 = r2
    p1 = p1
    p2 = p2
    w1 = w1
    w2 = w2
    Null = Null
    None = None
    Unknown = Unknown
    Products = {p1, p2}
    Warehouses = {w1, w2}
    Price <- Prices
    DefaultThreshold = 1
    Stocks <- SmallStocks
    FirstStock <- Few
    Loads <- SmallLoads
    Alerts = {a1}
    Children = {k1, k2}
    MaxRetries = 2
    MaxTasks = 2
    MaxVersions = 2
    MaxFaults = 1
    Requests = {r1, r2}
    TTL = 2
    Latency = 1
    MaxErrors = 1
    Readers = {c1}
    PageSize = 1
INVARIANTS
    TypeOK
    GivenUpLast
    NothingLost
    MailedOncePerReason
    ToldIsCurrent
    ResultIsWhole
    TimingsReleased
    FreshEnough
    HistoryComplete
PROPERTIES
    EveryTaskEnds
    AlwaysAnswered
CHECK_DEADLOCK FALSE
