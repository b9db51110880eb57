SPECIFICATION TransferFairSpec
CONSTANTS
    Windows = {o1, o2}
    Transfers = {t1, t2}
    Paths = {p1, p2}
    Nothing = nothing
    t1 = t1  t2 = t2  o1 = o1  p1 = p1
    By <- MCBy
    To <- MCTo
    As <- MCAs
    Chunks = 2
    MaxDrops = 1
INVARIANTS VerifiedIsIntact
PROPERTIES TransfersSettle
CHECK_DEADLOCK FALSE
