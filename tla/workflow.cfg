\* A Workflow beside pushes, people, failing effects and the closing of its issue.
SPECIFICATION Spec
CONSTANTS
    h1 = h1
    h2 = h2
    none = none
    pr = pr
    nopr = nopr
    ReviewLimit = 1
    RetryLimit = 1
    Heads = {h1, h2}
    NoHead = none
    PRs = {pr}
    NoPR = nopr
    Proposal = pr
    LabelDuringTurn = FALSE
    PreparationLost = FALSE
    Activations = {FALSE, TRUE}
    Steps = {"TRIGGER", "PUSH", "HUMAN_INPUT", "EFFECT_EXHAUSTED", "ISSUE_CLOSED", "ISSUE_REOPENED"}
    EventBound = 4
INVARIANTS CurrentPreparationIsUsable VerdictsHold WorkHasOneAuthority DeferredEventsHeld
SYMMETRY Symmetry
CHECK_DEADLOCK FALSE
