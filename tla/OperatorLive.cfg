SPECIFICATION OperatorFairSpec
CONSTANTS
    r1 = r1
    n1 = n1
    Routings = {r1}
    Networks = {n1}
    Claims <- ClaimsOne
    MaxGeneration = 1
    MaxLag = 1
    MaxEdits = 4
    MaxFaults = 1
    Absent = Absent
    Foreign = Foreign
CHECK_DEADLOCK FALSE
PROPERTY FollowsConfig
