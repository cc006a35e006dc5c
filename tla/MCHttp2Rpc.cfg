\* Two nodes, of which one may move, leave and come back.
SPECIFICATION Spec
CONSTANTS
    a = a
    b = b
    x = x
    y = y
    Peers = {a, b}
    Sorted <- MCSorted
    FirstMembers <- MCSorted
    Nobody = Nobody
    Hash = 1
    Targets = {x, y}
    TargetsOf <- MCTargetsOf
    AtStart <- MCAtStart
    Nowhere = Nowhere
    UnreachableAfter = 2
    MaxChanges <- MCChanges
    MaxSessions <- MCSessions
    MaxProbes <- MCProbes
    Requests = {r1}
    MaxItems = 1
INVARIANTS KeepsKnocking ReachIsCurrent DownNodesAreReported ActiveIsExact CallsAreCarried StopsForGood
CHECK_DEADLOCK FALSE
