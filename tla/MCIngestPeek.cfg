\* Nothing fails, and nobody unblocks a peek that waits.
SPECIFICATION FairSpec
CONSTANTS
    None = None
    Sigs = {1, 2}
    Followed = {1}
    Programs = {"amm"}
    Writers = {w1, w2}
    MaxAttempts = 2
    BatchSize = 2
    MaxLen <- MCMaxLen
    Faults = {}
    MaxMishaps = 0
PROPERTY MainLaneServed
CHECK_DEADLOCK FALSE
