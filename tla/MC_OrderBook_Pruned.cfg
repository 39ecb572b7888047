SPECIFICATION MCSpec
CONSTANTS
    Orders = {"o1"}
    Mails = {"m1"}
    Files = {"f1"}
    Rows = {"w1", "w2"}
    Workers = {"a", "b"}
    Nowhere = Nowhere
    Nobody = Nobody
    Gone = Gone
    Books <- OneOrder
    MaxAttempts = 2
    MaxEdits = 2
    MaxLosses = 1
    Scenes = {"late"}
PROPERTY
    PrunesUnplaced
CHECK_DEADLOCK FALSE
