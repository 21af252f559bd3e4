CONSTANTS
    rbd0 = rbd0  rbd1 = rbd1  rbd2 = rbd2  fs1 = fs1
    Types = {"RBD", "CephFS"}
    TypeOf <- TypesOfSpecs
    ValidSpecs = {rbd1}
    InvalidSpecs = {}
    ClusterIDs = {k1}
    Options = {"crc"}
    SnapshotCRD = "installed"
    MapperFails = FALSE
    StaleReads = TRUE
    Meddling = {"sc"}
    MaxLives = 1
    MaxEdits = 1
    MaxFaults = 2
SPECIFICATION Spec
PROPERTY ForeignKept
CHECK_DEADLOCK FALSE
