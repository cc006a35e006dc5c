\* A provider that connects twice and speaks up once of one of two services; the relay may crash.
SPECIFICATION Spec
CONSTANTS
    c = c
    p = p
    v = v
    Nodes = {c, p}
    Relays = {A}
    NoNode = NoNode
    NoSocket = NoSocket
    NoRelay = NoRelay
    MaxSockets <- MCSockets
    Services = {v, w}
    Topics = {t1}
    Requests = {}
    CallerOf <- MCCallerOf
    Crashing = {A}
    Offers <- MCOffers
    MaxQueue = 1
    MaxItems = 1
    MaxSpeaks <- MCOnlyP
    MaxCloses <- MCNone
INVARIANTS IndexIsExact DirectoryIsCurrent StaleNodesAreUnreachable SubscriptionsAreExact
CHECK_DEADLOCK FALSE
