\* Two closures to settle by two workers, and the other parts each with the bounds MCJobs gives it.
SPECIFICATION JobsSpec
CONSTANTS
    Jobs = {j1, j2}
    Workers = {w1, w2}
    Kind = "SETTLE_CLOSURE"
    MaxAttempts = 1
    ReclaimLimit = 2
    ClaimBound = 4
    RevisionBound = 1
    Verifiers = {"i1", "i2"}
    Verdicts = {"approved", "changes"}
    Window = 1
    MaxPush = 2
    MaxTrigger = 3
    MaxUpset = 2
    MaxToken = 3
    MaxChange = 4
    MaxReport = 1
    MaxHead = 2
    MaxBase = 1
    MaxRun = 1
    MaxFaults = 0
    MaxRetry = 1
    Horizon = 2
    Files <- ReviewFiles
    Protections <- RequiredContexts
    Kinds = {"check"}
    DefaultTimeout = 2
    JobWorkers = {w1, w2}
    Processors = {p1, p2}
    MaxRepo = 3
    MaxLabel = 2
    MaxClaim = 2
    MaxAttempt = 2
    Fetchers = {f1, f2}
    Refs = {r1, r2}
    LastTick = 3
    Long = 3
    ReadableFailures = 2
    MaxPrompt = 2
    MaxCancel = 1
    QueueCapacity = 1
INVARIANTS LedgerMatchesRow OneLiveHolder WorkStaysOnOffer ReviewStartsOnItsEvidence AppliedOnce ApprovalIsCurrent
           ProvisioningIsComplete EndingsAreEvidence CredentialIsCurrent
PROPERTIES SettlementIsReported RegistryIsLeftAlone
CHECK_DEADLOCK FALSE
