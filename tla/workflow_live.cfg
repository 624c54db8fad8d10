\* A Workflow beside everything that may happen to it, with fair workers.
SPECIFICATION FairSpec
CONSTANTS
    h1 = h1
    h2 = h2
    none = none
    pr = pr
    nopr = nopr
    ReviewLimit = 1
    RetryLimit = 1
    Heads = {h1, h2}
    NoHead = none
    PRs = {pr}
    NoPR = nopr
    Proposal = pr
    LabelDuringTurn = FALSE
    PreparationLost = FALSE
    Activations = {FALSE, TRUE}
    Steps = {"TRIGGER", "PUSH", "HUMAN_INPUT", "EFFECT_EXHAUSTED", "ISSUE_CLOSED", "ISSUE_REOPENED", "REVIEW_OBSERVED"}
    EventBound = 3
INVARIANT NoInvalidDecision
PROPERTIES WorkMovesOn ClosureSettles
CHECK_DEADLOCK FALSE
