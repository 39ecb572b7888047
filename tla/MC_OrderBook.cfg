SPECIFICATION MCSpec
CONSTANTS
    Orders = {"o1", "o2"}
    Mails = {"m1"}
    Files = {"f1"}
    Rows = {"w1", "w2"}
    Workers = {"a", "b"}
    Nowhere = Nowhere
    Nobody = Nobody
    Gone = Gone
    Books <- OneOrder
    MaxAttempts = 2
    MaxEdits = 2
    MaxLosses = 1
    Scenes = {"one", "two", "late", "open"}
INVARIANTS
    TextFollowsMembers
    BundledOnce
PROPERTIES
    PersonDecides
CHECK_DEADLOCK FALSE
