SPECIFICATION FairSpec
CONSTANTS
    c1 = c1
    c2 = c2
    s1 = s1
    s2 = s2
    e1 = e1
    e2 = e2
    i1 = i1
    i2 = i2
    Manual = Manual
    None = None
    Clusters = {c1}
    RouteServers = {s1, s2}
    Endpoints = {e1, e2}
    IPs = {i1, i2}
    ServerOf <- TwoServers
    EndpointAZ <- EndpointZone
    NodeAZ <- NodeZone
    Homes <- AnyHomes
    Broken = {i2}
    MaxChanges = 3
    MaxMeddling = 1
    MaxFaults = 1
PROPERTY Converges
PROPERTY DeletionEnds
CHECK_DEADLOCK FALSE
