CONSTANTS
    Calls = {c1, c2}
    Tool = Tool
    Ids = {r1, r2}
    Phones = {p1, p2, p3}
    SeededPhone = p3
    MaxAccount = 4
    LowWater = 2
    RefillBatch = 2
    Attempts = 1
    None = None
SPECIFICATION LiveSpec
INVARIANT ExistsMeansOther
INVARIANT TablesAgree
PROPERTY ImplementsOnce
PROPERTY AlwaysAnswered
CHECK_DEADLOCK FALSE
