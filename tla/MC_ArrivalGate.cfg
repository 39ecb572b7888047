SPECIFICATION MCSpec
CONSTANTS
    Rows = {1, 2, 3, 4}
    Key <- MCKey
    Headerless = {"k2"}
    Folders = {"inbox", "sent"}
    InScope = {"inbox"}
    MaxAttempts = 2
    SweepBatch = 2
    MaxMoves = 1
    MaxGaps = 1
    Mortal = {1, 3}
    None = None
INVARIANTS
    GateHolds
    HistoryNeverRuns
PROPERTIES
    EligibleGetsRun
    HintsSettle
    BackfillEnds
CHECK_DEADLOCK FALSE
