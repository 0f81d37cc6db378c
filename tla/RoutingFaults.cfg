SPECIFICATION Spec
CONSTANTS
    r1 = r1
    r2 = r2
    n1 = n1
    n2 = n2
    Routings = {r1}
    Networks = {n1}
    Claims <- ClaimsAny
    MaxGeneration = 2
    MaxLag = 3
    MaxEdits = 4
    MaxFaults = 2
    Absent = Absent
    Foreign = Foreign
CHECK_DEADLOCK FALSE
INVARIANTS
    NeverForgotten
    StatusCoherent
    CUDNDriftNoticed
    RADriftNoticed
