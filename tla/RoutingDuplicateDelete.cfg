SPECIFICATION Spec
CONSTANTS
    r1 = r1
    r2 = r2
    n1 = n1
    n2 = n2
    Routings = {r1, r2}
    Networks = {n1}
    Claims <- ClaimsSame
    MaxGeneration = 1
    MaxLag = 2
    MaxEdits = 3
    MaxFaults = 0
    Absent = Absent
    Foreign = Foreign
CHECK_DEADLOCK FALSE
INVARIANTS
    DeletesOwnCUDN
