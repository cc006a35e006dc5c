\* Discovery only introduces the nodes: removeUnreachableAfterMs is set.  The one
\* id is again remote until the local node is bound to it.
SPECIFICATION Spec
CONSTANTS
    LocalId = a
    Ids = {a}
    Transporters = {t1, t2}
    Versions = {0}
    CanVerify = FALSE
    StaleAfter = 0
    Window = 2
    MinPeriod = 1
    MaxPeriod = 3
    Lag = 1
    MaxTime = 5
SYMMETRY TransporterSymmetry
INVARIANTS EventsTellReachability DownNodesLeave
PROPERTY NoEvictionInsideWindow
CHECK_DEADLOCK FALSE
