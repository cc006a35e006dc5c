\* One call that is tried twice, a timeout on each attempt; fairness of the timers alone.
SPECIFICATION TimerSpec
CONSTANTS
    Calls = {c1}
    Nodes = {n1}
    NoNode = NoNode
    Retry = 1
    HasTimeout = TRUE
    MaxItems = 1
INVARIANT PendingIsCurrent
PROPERTIES KeepsPromise CallsEnd
ACTION_CONSTRAINT NothingMute
CHECK_DEADLOCK FALSE
