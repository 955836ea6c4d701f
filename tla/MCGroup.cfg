CONSTANTS
    Accounts = {o, a}
    Owner = o
    Names = {n1, n2}
    MaxMsgs = 2
    MaxApps = 2
    SmallLimit = 1
    Batch = 1
    PullLimit = 1
SPECIFICATION LiveSpec
INVARIANT SeenWhileMember
INVARIANT NothingSkipped
PROPERTY PositionsGrow
PROPERTY EventuallySeen
CHECK_DEADLOCK FALSE
