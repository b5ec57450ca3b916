\* Small settings: caps, float and datetime limits are all reached.
CONSTANTS
    None = None
    FloatMax = 24
    DatetimeMax = 60
    Bases = {1, 2, 3, 7}
    MaxDelays = {1, 7, 8, 20}
    Budgets = {1, 2, 3, 6}
    MaxLateness = 2
SPECIFICATION Spec
INVARIANTS
    BackoffDoubles
    BudgetIsExact
    
CHECK_DEADLOCK FALSE
