SPECIFICATION FairSpec
CONSTANTS
    cluster = cluster
    other = other
    Absent = Absent
    Foreign = Foreign
    Names = {cluster, other}
    SingletonName = cluster
    ZoneCount = 1
    ZoneLists = {{1}}
    MaxGeneration = 1
    MaxLag = 1
    MaxEdits = 2
    MaxFaults = 1
INVARIANT TypeOK
PROPERTY Settles
PROPERTY DeletionEnds
CHECK_DEADLOCK FALSE
