CONSTANTS
    MaxLog = 4
    MaxGen = 3
    MaxStops = 1
    High = 2
    Low = 1
SPECIFICATION LiveSpec
INVARIANT LaneBounded
PROPERTY ImplementsChannel
PROPERTY EveryRecordHandled
CHECK_DEADLOCK FALSE
