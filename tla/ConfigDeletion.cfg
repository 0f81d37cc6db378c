SPECIFICATION Spec
CONSTANTS
    cluster = cluster
    other = other
    Absent = Absent
    Foreign = Foreign
    Names = {cluster}
    SingletonName = cluster
    ZoneCount = 1
    ZoneLists = {{1}}
    MaxGeneration = 1
    MaxLag = 2
    MaxEdits = 3
    MaxFaults = 0
INVARIANT DeletionBlocked
CHECK_DEADLOCK FALSE
