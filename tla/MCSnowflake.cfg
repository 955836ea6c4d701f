CONSTANTS
    MaxClock = 3
    MaxIds = 4
    MaxSequence = 1
    Tolerance = 2
SPECIFICATION SnowflakeSpec
INVARIANT Increasing
CHECK_DEADLOCK FALSE
