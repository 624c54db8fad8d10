\* A turn that asks for clarification while a push waits behind it.
SPECIFICATION Spec
CONSTANTS
    h1 = h1
    h2 = h2
    none = none
    pr = pr
    nopr = nopr
    ReviewLimit = 1
    RetryLimit = 1
    Heads = {h1, h2}
    NoHead = none
    PRs = {pr}
    NoPR = nopr
    Proposal = pr
    Activations = {FALSE}
    Steps = {"TRIGGER", "PUSH"}
    EventBound = 2
    LabelDuringTurn = FALSE
    PreparationLost = FALSE
INVARIANTS ClarificationSettles
CHECK_DEADLOCK FALSE
