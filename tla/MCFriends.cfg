CONSTANTS
    None = None
    a = a
    b = b
    c = c
    Accounts = {a, b, c}
    Pairs <- WithA
    Listers = {a}
    Leavers = {a}
    Calls = {c1, c2}
    MaxApps = 2
    Limit = 1
SPECIFICATION Spec
SYMMETRY FriendSymmetry
INVARIANT Consented
INVARIANT AnswerHolds
INVARIANT OkMeansTold
INVARIANT ListingComplete
CHECK_DEADLOCK FALSE
