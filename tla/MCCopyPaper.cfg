\* Paper mode with approvals, under the fairness of running sessions: liveness.
SPECIFICATION FairSpec
CONSTANTS
    None = None
    Worker = w
    Tokens = {A}
    Leaders = {L}
    Trades = {t1, t2}
    Approvers = {r1, r2}
    Live = FALSE
    ApprovalMode = TRUE
    MaxAttempts = 2
    MaxStreak = 2
    LossLimit = 1
    MaxOpen = 1
    MaxExposure = 3
    Wants = {2}
    Proceeds = {0, 3}
    MaxTx = 1
    MaxSells = 1
    Faults = {"unreadable", "unusable"}
    MaxAborts = 1
PROPERTIES
    SessionsEnd
    PaperSellCloses
