\* Two events of an issue, and the other parts each with the bounds MCLive gives it.
SPECIFICATION LiveSpec
CONSTANTS
    MaxDelivery = 2
    Kinds = {"run", "closed", "reopened", "other"}
    Processors = {p1}
    Collectors = {c1}
    MaxTries = 2
    MaxAttempts = 1
    ClaimBound = 2
    Jobs = {j1, j2}
    JobWorkers = {w1, w2}
    Ops = {clarify}
    IntentWorkers = {"w1", "w2"}
PROPERTIES EventsSettle EveryJobSettles TurnsEnd RecoverySettles ReviewIsNotHeldForever IntentResolves PromptEnds
CHECK_DEADLOCK FALSE
