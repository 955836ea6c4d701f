CONSTANTS
    Convs = {1, 2}
    MaxSeq = 4
    MaxQueued = 3
    SendTime <- SendTimes
    SizeLimit = 2
    MaxPage = 2
    MaxShown = 3
    ListIds = 3
    RequestClock = 1
    RequestIds = 3
    MaxClock = 3
    MaxIds = 4
    MaxSequence = 1
    Tolerance = 2
    Requests = {r1, r2}
    Payloads = {x1, x2}
    Callers = {c1, c2}
    request = r1
    payload = x1
    Starters = {p1, p2}
    Legacy = {g1}
    MaxNumber = 2
    None = None
SPECIFICATION StorageSpec
SYMMETRY GroupSymmetry
INVARIANT UnreadExact
INVARIANT HiddenIsQuiet
INVARIANT SidesAgree
INVARIANT ListConsistent
PROPERTY ImplementsOnce
PROPERTY NumbersOnce
PROPERTY FallsOnlyAfterSleep
CHECK_DEADLOCK FALSE
