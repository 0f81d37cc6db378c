SPECIFICATION Spec
CONSTANTS
    c1 = c1
    c2 = c2
    s1 = s1
    s2 = s2
    e1 = e1
    e2 = e2
    i1 = i1
    i2 = i2
    Manual = Manual
    None = None
    Clusters = {c1, c2}
    RouteServers = {s1}
    Endpoints = {e1, e2}
    IPs = {i1, i2}
    ServerOf <- OneServer
    EndpointAZ <- EndpointZones
    NodeAZ <- NodeZones
    Homes <- OwnHomes
    Broken = {}
    MaxChanges = 4
    MaxMeddling = 0
    MaxFaults = 1
SYMMETRY SwapHalves
INVARIANT TypeOK
INVARIANT PeersReconciled
INVARIANT CleanupComplete
PROPERTY NoInterference
CHECK_DEADLOCK FALSE
