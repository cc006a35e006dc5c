\* One call to a provider that may connect twice; the caller may close its connection.
SPECIFICATION FairSpec
CONSTANTS
    c = c
    p = p
    v = v
    Nodes = {c, p}
    Relays = {A}
    NoNode = NoNode
    NoSocket = NoSocket
    NoRelay = NoRelay
    MaxSockets <- MCSockets
    Services = {v}
    Topics = {}
    Requests = {r1}
    CallerOf <- MCCallerOf
    Crashing = {}
    Offers <- MCOffers
    MaxQueue = 2
    MaxItems = 1
    MaxSpeaks <- MCNone
    MaxCloses <- MCOnlyC
INVARIANTS CallsAreInGoodHands AbandonedStreamsStop PendingHasBothEnds
PROPERTIES CallsEnd
CHECK_DEADLOCK FALSE
