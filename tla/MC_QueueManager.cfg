SPECIFICATION ManagerFairSpec
CONSTANTS
    Order <- MCOrder
    Budget = 2
    Sizes = {1, 2}
    Calls = {"c1", "c2"}
INVARIANTS
    TargetsWithinBudget
    AppliedIsPersisted
PROPERTIES
    RowsWithinBudget
    SupervisorSettles
