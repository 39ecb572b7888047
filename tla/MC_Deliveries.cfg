SPECIFICATION MCSpec
CONSTANTS
    w1 = w1
    w2 = w2
    delivery = delivery
    Items = {delivery}
    Workers = {w1, w2}
    NoWorker = NoWorker
    Priority <- MCPriority
    MaxAttempts = 2
    BatchSize = 1
    LeaseTicks = 0
    MaxWait = 0
    MaxGeneration = 1
    LastId = 3
    MaxOpen = 1
    RowSettle = 3
    Retention = 4
    ExportBatch = 2
    MaxClock = 6
INVARIANTS
    AlertNamesItsFailure
    NothingPassedOver
PROPERTIES
    DeliveryEnds
    FailureIsAnnounced
