SPECIFICATION Spec
CONSTANTS
    n1 = n1
    n2 = n2
    s1 = s1
    s2 = s2
    s3 = s3
    e1 = e1
    e2 = e2
    e3 = e3
    e4 = e4
    Absent = Absent
    Nodes = {n1, n2}
    NodeObjects <- Objects
    InitialNodes <- OneRouter
    RouteServers = {s1, s2}
    Endpoints = {e1, e2, e3, e4}
    Planned = {e1}
    ServerOf <- Servers
    ZoneOf <- ZoneMap
    a = 1
    b = 2
    NoZone = 0
    Zones = {0, 1, 2}
    Specs <- Wishes
    MaxChanges = 2
    MaxFaults = 1
INVARIANT TypeOK
INVARIANT SessionsMatch
INVARIANT ConfiguredAsReported
INVARIANT RoutersForward
PROPERTY ReconcileIdempotent
CHECK_DEADLOCK FALSE
