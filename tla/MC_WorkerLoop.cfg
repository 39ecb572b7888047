SPECIFICATION LoopFairSpec
CONSTANTS
    i1 = i1
    i2 = i2
    w1 = w1
    w2 = w2
    Items = {i1, i2}
    Workers = {w1, w2}
    NoWorker = NoWorker
    NoItem = NoItem
    Priority <- MCPriority
    MaxAttempts = 2
    BatchSize = 2
    LeaseTicks = 1
    MaxWait = 1
    Prompt = {w1}
INVARIANTS
    HandMatchesTable
    NoSecondRun
    PoisonPillBounded
PROPERTIES
    ImplementsLedger
    EveryRowEnds
