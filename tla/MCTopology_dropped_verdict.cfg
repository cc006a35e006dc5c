\* DeadNodesAreRemoved does not hold of the code.
SPECIFICATION Spec
CONSTANTS
    LocalId = L
    Ids = {a}
    Transporters = {t1}
    Versions = {0}
    CanVerify = TRUE
    StaleAfter = 0
    Window = 0
    MinPeriod = 1
    MaxPeriod = 3
    Lag = 0
    MaxTime = 3
PROPERTY DeadNodesAreRemoved
CHECK_DEADLOCK FALSE
