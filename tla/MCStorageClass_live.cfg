CONSTANTS
    rbd0 = rbd0  rbd1 = rbd1  rbd2 = rbd2  fs1 = fs1
    Types = {"RBD", "CephFS"}
    TypeOf <- TypesOfSpecs
    ValidSpecs = {rbd1}
    InvalidSpecs = {rbd0}
    ClusterIDs = {k1, k2}
    Options = {"crc", "legacy"}
    SnapshotCRD = "installed"
    MapperFails = FALSE
    StaleReads = FALSE
    Meddling = {"connection", "sc"}
    MaxLives = 1
    MaxEdits = 1
    MaxFaults = 2
SPECIFICATION FairSpec
INVARIANT ReadyMeansInPlace
PROPERTY EventuallySettled
CHECK_DEADLOCK FALSE
