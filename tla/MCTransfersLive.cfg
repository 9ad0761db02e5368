SPECIFICATION TransfersLiveSpec
CONSTANTS
    n1 = n1
    Sends = {s1}
    Receipts = {r1, r2}
    Parcels = {p1}
    Names = {n1}
    NameOf <- OwnNames
    NoName = NoName
    SendSizes = {2}
    Tries = 2
    Jobs = 1
    SaveMayFail = FALSE
    MaxRestarts = 1
    MaxRemovals = 1
    MaxResumed = 1
PROPERTIES SentOnce ReceivedOrReported RunnersEnd
CHECK_DEADLOCK FALSE
