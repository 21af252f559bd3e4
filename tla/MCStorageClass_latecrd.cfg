CONSTANTS
    rbd0 = rbd0  rbd1 = rbd1  rbd2 = rbd2  fs1 = fs1
    Types = {"RBD", "CephFS"}
    TypeOf <- TypesOfSpecs
    ValidSpecs = {rbd1}
    InvalidSpecs = {}
    ClusterIDs = {k1}
    Options = {"crc"}
    SnapshotCRD = "late"
    MapperFails = FALSE
    StaleReads = FALSE
    Meddling = {}
    MaxLives = 1
    MaxEdits = 0
    MaxFaults = 0
SPECIFICATION FairSpec
PROPERTY SnapshotsFollowCRD
CHECK_DEADLOCK FALSE
