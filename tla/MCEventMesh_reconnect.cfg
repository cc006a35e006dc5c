\* Reconnects does not hold of the code.
SPECIFICATION FairSpec
CONSTANTS
    a = a
    b = b
    pa = pa
    pb = pb
    pc = pc
    x = x
    y = y
    z = z
    t0 = t0
    Nodes = {a, b}
    Topics = {t0}
    Names <- MCNames
    Endpoints <- MCEndpoints
    AtStart = {a, b}
    MaxSockets <- MCSockets
    MaxChanges = 2
    Leavers = {b}
    RpcName = "http2"
    RpcEndpoint = "port"
    RpcUsers = {}
    Instances = {}
    HomeOf <- MCHomeOf
    NameOf <- MCNameOf
    Early = {}
    Links = {}
    HostOf <- MCHostOf
    TopicOf <- MCTopicOf
    RequestedBy <- MCRequested
    MaxListeners <- MCListeners
    Messages = {}
    Publishers = {}
    Kept = {}
PROPERTY Reconnects
CHECK_DEADLOCK FALSE
