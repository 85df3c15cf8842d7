\* Two writers, two transactions, one of them of a followed wallet.
SPECIFICATION FairSpec
CONSTANTS
    None = None
    Sigs = {1, 2}
    Followed = {1}
    Programs = {"amm"}
    Writers = {w1, w2}
    MaxAttempts = 2
    BatchSize = 2
    MaxLen <- MCMaxLen
    Faults = {"add", "claim", "commit", "publish", "redis", "crash"}
    MaxMishaps = 1
INVARIANTS
    TypeOK
    PublishedOnce
    StrandedWithinFailures
PROPERTY PriorityEntriesSettle
