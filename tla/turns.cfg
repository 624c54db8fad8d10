\* Two turns of a lineage and one mutation on an open issue, and the other parts each with the bounds MCTurns gives it.
SPECIFICATION TurnsSpec
CONSTANTS
    MaxTurn = 2
    Ops = {publish}
    Frozen = {}
    MaxAttempts = 1
    MaxCommit = 2
    MaxRow = 3
    MaxDevTurn = 2
    MaxForeign = 0
    MayClose = FALSE
    Launchers = {l1, l2}
    Operators = {o1, o2}
    MaxEpoch = 2
    MaxWrite = 1
    MaxLoss = 1
INVARIANTS LedgerTellsTheTruth NeverTwice HandoverIsClean PublishedWorkStands AbsenceIsFinal WorkIsNotLost
PROPERTIES KeepsPromise NothingIsTakenOff SessionIsKept
CHECK_DEADLOCK FALSE
