\* One turn without mutations, on an issue that is closed while it is active.
SPECIFICATION FairSpec
CONSTANTS
    MaxTurn = 1
    Ops = {}
    Frozen = {}
    MaxAttempts = 1
    MayClose = TRUE
PROPERTY ClosureSettles
CHECK_DEADLOCK FALSE
