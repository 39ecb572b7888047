SPECIFICATION MCSpec
CONSTANTS
    Rows = {"w1", "w2"}
    Workers = {"a"}
    Nowhere = Nowhere
    Nobody = Nobody
    Gone = Gone
    Books <- OneOrder
    MaxAttempts = 2
    Scenes = {"all"}
    Mails = {"m1"}
    Orders = {"o1"}
    Files = {}
    MaxEdits = 0
    MaxLosses = 2
PROPERTIES
    LostRowsReturn
CHECK_DEADLOCK FALSE
