\* CancelledStreamsStop does not hold of the code.
SPECIFICATION Spec
CONSTANTS
    Calls = {c1}
    Nodes = {n1}
    NoNode = NoNode
    Retry = 0
    HasTimeout = FALSE
    MaxItems = 1
INVARIANT CancelledStreamsStop
CHECK_DEADLOCK FALSE
