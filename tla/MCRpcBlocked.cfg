\* An execution call on the shared priority budget, Redis healthy.
SPECIFICATION Spec
CONSTANTS
    worker = worker
    api = api
    fetch = fetch
    execute = execute
    Callers = {fetch, execute}
    Clients = {worker}
    Switched = {worker}
    ClientOf <- MCShared
    KindsOf <- MCKindsOf
    Limit <- MCLimit
    MaxRetries = 1
    RedisFails = FALSE
INVARIANT ExecutionNeverBlocked
