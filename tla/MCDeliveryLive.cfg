SPECIFICATION LiveSpec
CONSTANTS
    Keys = {k1}
    Contents = {c1}
    Workers = {w1}
    Pushers = {p1}
    MaxSeq = 2
    MaxSends = 0
    ClockSteps = FALSE
    LockLoss = FALSE
    None = None
    MaxFaults = 1
INVARIANTS
    DeliveredWhileAllowed
    CleanupComplete
PROPERTIES
    DeliveredOrCancelled
    EventuallySettled
CHECK_DEADLOCK FALSE
