SPECIFICATION RunSpec
CONSTANTS
    w1 = w1
    w2 = w2
    run = run
    Items = {run}
    Workers = {w1, w2}
    NoWorker = NoWorker
    Priority <- MCPriority
    MaxAttempts = 2
    BatchSize = 1
    LeaseTicks = 0
    MaxWait = 0
    MaxUserActs = 2
INVARIANTS
    NoSpuriousCorrection
