SPECIFICATION MCSpec
CONSTANTS
    Calls = {c1}
    Sweep = sweep
    Rows = {r1, r2, r3}
    Mails = {m1, m2}
    r1 = r1
    r2 = r2
    r3 = r3
    m1 = m1
    m2 = m2
    Envelope <- MCEnvelope
    Starts <- MCStarts
    Appends = {a1}
    MaxMishaps = 2
    None = None
INVARIANTS
    LostOnlyIfOvertaken
PROPERTIES
    ExpungeIsCovered
    RestoreEnds
CHECK_DEADLOCK FALSE
