SPECIFICATION Spec
CONSTANTS
    cluster = cluster
    other = other
    Absent = Absent
    Foreign = Foreign
    Names = {cluster}
    SingletonName = cluster
    ZoneCount = 2
    ZoneLists = {{2}}
    MaxGeneration = 2
    MaxLag = 1
    MaxEdits = 3
    MaxFaults = 1
INVARIANT NeverForgotten
INVARIANT StatusCoherent
INVARIANT FRRDriftNoticed
INVARIANT NoOrphanFRR
PROPERTY KeepsLifecycle
CHECK_DEADLOCK FALSE
