\* The worker alone, live: leaders' buys and sells, every fault but a lost answer.
SPECIFICATION Spec
CONSTANTS
    None = None
    Worker = w
    Tokens = {A, B}
    Leaders = {L}
    Trades = {t1, t2}
    Approvers = {}
    Live = TRUE
    ApprovalMode = FALSE
    MaxAttempts = 2
    MaxStreak = 2
    LossLimit = 1
    MaxOpen = 2
    MaxExposure = 3
    Wants = {2}
    Proceeds = {0, 3}
    MaxTx = 2
    MaxSells = 2
    Faults = {"unreadable", "void"}
    MaxAborts = 1
SYMMETRY RowSymmetry
INVARIANTS
    TypeOK
    ExposureWithinLimit
    LossCounterExact
    WorkerBroadcastsOnce
    WorkerAccountsForBroadcasts
    ConfirmedHasLanded
