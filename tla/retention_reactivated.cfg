\* An issue that was closed is reopened before its Assignments are collected.
SPECIFICATION Spec
CONSTANTS
    MaxDelivery = 3
    Kinds = {"run", "closed", "reopened"}
    Processors = {p1}
    Collectors = {c1}
    MaxTries = 1
    MaxAttempts = 1
    ClaimBound = 2
INVARIANT ReactivationReachesEveryStage
CHECK_DEADLOCK FALSE
