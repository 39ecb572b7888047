SPECIFICATION MCSpec
CONSTANTS
    Accounts = {"a1", "a2"}
    Filter = All
    All = All
    RingSize = 2
    KeepsUp = TRUE
    MaxSeq = 4
    MaxEpoch = 1
    Callers = {"c1", "c2"}
    Backoff = 1
    ProbeInterval = 2
    Threshold = 1
    MaxOutages = 2
INVARIANTS
    NothingSkipped
PROPERTIES
    EventuallyCaughtUp
    CookieAdvances
    OneProbePerInterval
    BreakerRecovers
    AlertsResolve
