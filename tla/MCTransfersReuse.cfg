SPECIFICATION TransfersSpec
CONSTANTS
    n1 = n1
    Sends = {}
    Receipts = {r1, r2}
    Parcels = {p1, p2}
    Names = {n1}
    NameOf <- OneName
    NoName = NoName
    SendSizes = {}
    Tries = 2
    Jobs = 1
    SaveMayFail = FALSE
    MaxRestarts = 1
    MaxRemovals = 1
    MaxResumed = 1
SYMMETRY FileSymmetry
INVARIANTS NothingLost
CHECK_DEADLOCK FALSE
