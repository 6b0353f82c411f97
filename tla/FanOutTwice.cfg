SPECIFICATION Spec
CONSTANTS
    p1 = p1
    p2 = p2
    c1 = c1
    c2 = c2
    w1 = w1
    w2 = w2
    Processes = {p1}
    Worker = Worker
    Clients = {c1}
    Warehouses = {w1}
    EventChannels = {{w1}}
    Global = Global
    NoChannel = NoChannel
    NoProcess = NoProcess
    NoClient = NoClient
    MaxEvents = 1
    MaxFaults = 0
INVARIANTS
    EventOnce
