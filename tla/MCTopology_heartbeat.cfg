\* Discovery with heartbeats and verify(): staleAfterMs is set.  The one id is
\* that of the local node: until it is bound it lives as any remote node does,
\* and afterwards every snapshot, report and verdict of it is an echo.
SPECIFICATION Spec
CONSTANTS
    LocalId = L
    Ids = {L}
    Transporters = {t1}
    Versions = {0, 1}
    CanVerify = TRUE
    StaleAfter = 2
    Window = 0
    MinPeriod = 1
    MaxPeriod = 3
    Lag = 0
    MaxTime = 4
INVARIANTS TracesMatchMembership EventsTellMembership SilentNodesLeave LocalNodeStays
PROPERTY DeadVerdictIsCurrent
CHECK_DEADLOCK FALSE
