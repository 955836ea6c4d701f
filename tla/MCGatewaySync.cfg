CONSTANTS
    None = None
    Sessions = {s1}
    MaxMsgs = 2
    Batch = 1
    QueueCap = 1
    RedisEvents = {"ping", "check"}
SPECIFICATION LiveSpec
INVARIANT CompleteMeansAcked
PROPERTY LoginSettles
CHECK_DEADLOCK FALSE
