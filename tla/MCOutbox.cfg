SPECIFICATION Spec
CONSTANTS
    Keys = {k1}
    Contents = {c1, c2}
    Workers = {w1, w2}
    Pushers = {p1}
    MaxSeq = 2
    MaxSends = 1
    ClockSteps = FALSE
    LockLoss = TRUE
    None = None
SYMMETRY Symmetry
INVARIANTS
    LeaseHeldToCommit
    NothingLeaksBeforeCommit
    DoneIsRecoverable
    WatermarkCancels
    AnsweredIsDurable
PROPERTY SettledStays
