\* The answer to a send is lost after the node took the transaction.
SPECIFICATION Spec
CONSTANTS
    None = None
    Worker = w
    Tokens = {A}
    Leaders = {L}
    Trades = {t1, t2}
    Approvers = {}
    Live = TRUE
    ApprovalMode = FALSE
    MaxAttempts = 2
    MaxStreak = 2
    LossLimit = 1
    MaxOpen = 2
    MaxExposure = 3
    Wants = {2}
    Proceeds = {0, 3}
    MaxTx = 2
    MaxSells = 2
    Faults = {"lost"}
    MaxAborts = 0
SYMMETRY RowSymmetry
INVARIANT OneBroadcastPerTrade
