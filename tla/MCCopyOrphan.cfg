\* Two approvals of two pending trades of one token, nothing fails.
SPECIFICATION LastingCooldownSpec
CONSTANTS
    None = None
    Worker = w
    Tokens = {A}
    Leaders = {L}
    Trades = {t1, t2}
    Approvers = {r1, r2}
    Live = TRUE
    ApprovalMode = TRUE
    MaxAttempts = 1
    MaxStreak = 1
    LossLimit = 1
    MaxOpen = 2
    MaxExposure = 3
    Wants = {2}
    Proceeds = {0}
    MaxTx = 2
    MaxSells = 1
    Faults = {}
    MaxAborts = 0
SYMMETRY ApprovalSymmetry
INVARIANT BroadcastIsAccounted
