\* Three events of an issue, and the other parts each with the bounds MCWork gives it.
SPECIFICATION WorkSpec
CONSTANTS
    MaxDelivery = 3
    Kinds = {"run", "closed", "reopened"}
    Processors = {p1, p2}
    Collectors = {c1, c2}
    MaxTries = 1
    MaxAttempts = 1
    ClaimBound = 2
    Persons = {"p1", "p2"}
    MaxRevision = 4
    MaxTurns = 2
    LabelWorkers = {l1, l2}
    MaxShown = 3
    MaxPresentation = 2
    EffectAttempts = 2
    Commands = {"answer", "confirm"}
    MaxInput = 2
    MaxRound = 1
    MaxDecision = 1
    MaxCheckpoint = 1
    MaxTurn = 2
INVARIANTS ReopenHoldsTheLine CollectionIsSafe NothingSaidIsPassedOver OneWriter
           LabelsTellTheState HandoffsAreToldOrTakenBack
CHECK_DEADLOCK FALSE
