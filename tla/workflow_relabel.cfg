\* The label is set again while a turn is active.
SPECIFICATION FairSpec
CONSTANTS
    h1 = h1
    h2 = h2
    none = none
    pr = pr
    nopr = nopr
    ReviewLimit = 1
    RetryLimit = 1
    Heads = {h1, h2}
    NoHead = none
    PRs = {pr}
    NoPR = nopr
    Proposal = pr
    Activations = {FALSE}
    Steps = {"TRIGGER"}
    EventBound = 2
    LabelDuringTurn = TRUE
    PreparationLost = FALSE
PROPERTIES RelabelledWorkContinues
CHECK_DEADLOCK FALSE
