\* The worker of a preparation is killed.
SPECIFICATION FairSpec
CONSTANTS
    h1 = h1
    h2 = h2
    none = none
    pr = pr
    nopr = nopr
    ReviewLimit = 1
    RetryLimit = 1
    Heads = {h1, h2}
    NoHead = none
    PRs = {pr}
    NoPR = nopr
    Proposal = pr
    Activations = {FALSE}
    Steps = {"TRIGGER"}
    EventBound = 1
    LabelDuringTurn = FALSE
    PreparationLost = TRUE
PROPERTIES KilledPreparationRecovers
CHECK_DEADLOCK FALSE
