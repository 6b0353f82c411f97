\* Two handlers, one product in two warehouses (3 is unknown), stock up to 2,
\* payload quantities 0 (invalid) and 1.
SPECIFICATION FairSpec
CONSTANTS
    w1 = w1
    w2 = w2
    p1 = p1
    pUnknown = pUnknown
    ProductIds <- MCProductIds
    Products <- MCProducts
    WarehouseIds = {1, 2, 3}
    Warehouses = {1, 2}
    NoWarehouse = NoWarehouse
    Amounts = {0, 1}
    MaxInt = 2
    Workers = {w1, w2}
    NoWorker = NoWorker
    NoRequest = NoRequest
    MaxMovements = 4
INVARIANTS
    TypeOK
    LockDiscipline
    NoStaleWork
    EventsReportCommits
    NoDeadlock
    StockMatchesHistory
PROPERTIES
    ImplementsLedger
    EveryRequestEnds
