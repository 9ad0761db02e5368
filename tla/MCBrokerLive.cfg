SPECIFICATION LiveSpec
CONSTANTS
    JobIds = {j1, j2}
    Workers = {w1}
    Waiters = {c1}
    k1 = k1
    Keys = {k1}
    NoKey = NoKey
    NoJob = NoJob
    Requests <- ItemRequests
    Capacity = 2
    KeyCapacity = 1
    RetiredLimit = 0
    TransientLimit = 1
    SchemaAttempts = 1
    MaxRetries = 1
PROPERTIES JobsSettle WaitReturns ShutdownCompletes
