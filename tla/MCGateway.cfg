CONSTANTS
    None = None
    Sessions = {s1, s2}
    MaxMsgs = 1
    Batch = 1
    QueueCap = 1
    RedisEvents = {"fail", "expire"}
SPECIFICATION Spec
SYMMETRY SessionSymmetry
INVARIANT NewestStays
INVARIANT NoneStranded
CHECK_DEADLOCK FALSE
