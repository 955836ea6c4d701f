CONSTANTS
    None = None
    Sessions = {s1, s2}
    MaxMsgs = 1
    Batch = 1
    QueueCap = 1
    RedisEvents = {}
SPECIFICATION Spec
INVARIANT OpenIsNotOffline
CHECK_DEADLOCK FALSE
