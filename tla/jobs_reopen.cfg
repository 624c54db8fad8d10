\* One stop of an agent turn, whose job fails and continues.
SPECIFICATION FairSpec
CONSTANTS
    Jobs = {j1}
    Workers = {w1}
    Kind = "STOP_AGENT_TURN"
    MaxAttempts = 1
    ReclaimLimit = 2
    ClaimBound = 3
    RevisionBound = 2
PROPERTIES CleanupAuthorityPreserved
CHECK_DEADLOCK FALSE
