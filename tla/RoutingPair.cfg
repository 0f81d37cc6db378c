SPECIFICATION Spec
CONSTANTS
    r1 = r1
    r2 = r2
    n1 = n1
    n2 = n2
    Routings = {r1, r2}
    Networks = {n1, n2}
    Claims <- ClaimsAny
    MaxGeneration = 1
    MaxLag = 2
    MaxEdits = 3
    MaxFaults = 1
    Absent = Absent
    Foreign = Foreign
SYMMETRY SwapAny
CHECK_DEADLOCK FALSE
INVARIANTS
    TypeOK
    NetworkExclusive
    RAKept
    NoOrphanCUDN
