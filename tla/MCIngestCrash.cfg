\* A writer dies with entries in hand; nothing else fails.
SPECIFICATION FairSpec
CONSTANTS
    None = None
    Sigs = {1}
    Followed = {1}
    Programs = {"amm"}
    Writers = {w1, w2}
    MaxAttempts = 2
    BatchSize = 2
    MaxLen <- MCMaxLen
    Faults = {"crash"}
    MaxMishaps = 1
PROPERTY CrashLosesNothing
