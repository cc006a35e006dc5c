\* A process waits for a service and makes one attempt without a timeout, a stream of
\* up to two values, while a call of the provider's own takes one of the slots.
SPECIFICATION ServiceFairSpec
CONSTANTS
    Calls = {c1}
    Nodes = {n1, n2}
    NoNode = NoNode
    Retry = 0
    HasTimeout = FALSE
    MaxItems = 2
    Locals = {l1}
    Limit = 1
    MaxSubscribers = 2
    Providers = {n1, n2}
    Early = {n1}
    Wanted = {n2}
    MaxFaults = 1
    t1 = t1
    t2 = t2
    Rpcs <- MCRpcs
    Probes = {t1}
    MaxPolls = 2
    MaxTurns = 3
INVARIANTS TypeOK CancelsAreExact RunningMatchesStreams SlotsAreExact
PROPERTIES KeepsPromise AttemptsEnd OfflineSparesOthers WaitsEnd
CHECK_DEADLOCK FALSE
