CONSTANTS
    Order <- ThreeServices
    StopsFirst = {"Msg"}
    Outside = {"gateway"}
SPECIFICATION LiveSpec
INVARIANT NothingOutlives
INVARIANT CallsOnWholeObjects
INVARIANT ClientNotInUse
PROPERTY ShutdownEnds
CHECK_DEADLOCK FALSE
