\* Approval mode, live: two pending trades of one token, two concurrent approvals.
SPECIFICATION Spec
CONSTANTS
    None = None
    Worker = w
    Tokens = {A}
    Leaders = {L}
    Trades = {t1, t2}
    Approvers = {r1, r2}
    Live = TRUE
    ApprovalMode = TRUE
    MaxAttempts = 1
    MaxStreak = 1
    LossLimit = 1
    MaxOpen = 2
    MaxExposure = 3
    Wants = {2}
    Proceeds = {0}
    MaxTx = 2
    MaxSells = 1
    Faults = {"lost"}
    MaxAborts = 1
SYMMETRY ApprovalSymmetry
INVARIANTS
    OneOpenPosition
    OneSessionPerTrade
    StreakTripsStop
PROPERTIES
    NoNewRisk
    ImplementsCopyBook
