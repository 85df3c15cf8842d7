\* Two tasks of a worker share a client and both budgets; Redis may fail.
SPECIFICATION FairSpec
CONSTANTS
    worker = worker
    api = api
    fetch = fetch
    execute = execute
    Callers = {fetch, execute}
    Clients = {worker}
    Switched = {worker}
    ClientOf <- MCShared
    KindsOf <- MCKindsOf
    Limit <- MCLimit
    MaxRetries = 1
    RedisFails = TRUE
INVARIANTS
    TypeOK
    SpendBounded
    OneAlertPerDay
PROPERTIES
    LanesRecover
    FreezeDrains
