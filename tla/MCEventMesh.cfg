SPECIFICATION Spec
CONSTANTS
    a = a
    b = b
    pa = pa
    pb = pb
    pc = pc
    x = x
    y = y
    z = z
    t0 = t0
    Nodes = {a, b}
    Topics = {t0}
    Names <- MCNames
    Endpoints <- MCEndpoints
    AtStart = {a, b}
    MaxSockets <- MCSockets
    MaxChanges = 3
    Leavers = {b}
    RpcName = "http2"
    RpcEndpoint = "port"
    RpcUsers = {b}
    Instances = {pa, pb, pc}
    HomeOf <- MCHomeOf
    NameOf <- MCNameOf
    Early = {pa, pb}
    Links = {x, y, z}
    HostOf <- MCHostOf
    TopicOf <- MCTopicOf
    RequestedBy <- MCRequested
    MaxListeners <- MCListeners
    Messages = {m}
    Publishers = {x}
    Kept <- MCKept
INVARIANTS PublishersKnowListeners VerifyTellsTheTruth ResolvedMeansDelivered
CHECK_DEADLOCK FALSE
