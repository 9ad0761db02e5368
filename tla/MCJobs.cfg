SPECIFICATION JobsSpec
CONSTANTS
    JobIds = {j1, j2}
    Workers = {w1, w2}
    Waiters = {}
    k1 = k1
    Keys = {k1}
    NoKey = NoKey
    NoJob = NoJob
    Requests <- MixedRequests
    Capacity = 2
    KeyCapacity = 1
    RetiredLimit = 0
    TransientLimit = 1
    SchemaAttempts = 1
    MaxRetries = 1
    n1 = n1
    Sends = {}
    Receipts = {r1, r2}
    Parcels = {p1}
    Names = {n1}
    NameOf <- OwnNames
    NoName = NoName
    SendSizes = {}
    Tries = 2
    Jobs = 1
    SaveMayFail = TRUE
    MaxRestarts = 2
    MaxRemovals = 2
    MaxResumed = 1
SYMMETRY JobsSymmetry
INVARIANTS AttemptsAreBounded AttemptsAreOwned ResultIsCurrent CopiesAccounted NothingLost
PROPERTY ImplementsLifecycle
