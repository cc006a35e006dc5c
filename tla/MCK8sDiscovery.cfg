\* A pod with two addresses, of which a later pod gets one.
SPECIFICATION FairSpec
CONSTANTS
    self = self
    p = p
    q = q
    at0 = at0
    a = a
    b = b
    Targets = {at0, a, b}
    Processes = {self, p, q}
    Self = self
    SelfTarget = at0
    AddressOf <- MCAddressOf
    Nobody = Nobody
    MaxEdits <- MCEdits
    MaxFaults = 1
    Settings <- MCSettings
    Slices = {"IPv4", "IPv6"}
    SliceOf <- MCSliceOf
    AtStart = {self, p}
    Fickle = {p, q}
    MaxVersions = 3
INVARIANTS PeersAreCurrent MembersArePeers
PROPERTIES KeepsReadyNodesUnlessPartial Converges
CHECK_DEADLOCK FALSE
