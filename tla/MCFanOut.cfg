SPECIFICATION FairSpec
CONSTANTS
    p1 = p1
    p2 = p2
    c1 = c1
    c2 = c2
    w1 = w1
    w2 = w2
    Processes = {p1}
    Worker = Worker
    Clients = {c1, c2}
    Warehouses = {w1, w2}
    EventChannels = {{w1}, {w1, w2}}
    Global = Global
    NoChannel = NoChannel
    NoProcess = NoProcess
    NoClient = NoClient
    MaxEvents = 1
    MaxFaults = 1
INVARIANTS
    TypeOK
    RegistryExact
    InBusOrder
    OwnChannelOnly
PROPERTIES
    Delivered
    Unregistered
    FeedSpec
