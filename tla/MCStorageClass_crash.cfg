CONSTANTS
    rbd0 = rbd0  rbd1 = rbd1  rbd2 = rbd2  fs1 = fs1
    Types = {"RBD", "CephFS"}
    TypeOf <- TypesOfSpecs
    ValidSpecs = {rbd1, fs1}
    InvalidSpecs = {}
    ClusterIDs = {k1}
    Options = {"crc"}
    SnapshotCRD = "late"
    MapperFails = FALSE
    StaleReads = FALSE
    Meddling = {"vsc", "sc"}
    MaxLives = 2
    MaxEdits = 1
    MaxFaults = 2
SPECIFICATION FairSpec
INVARIANTS TypeOK NoOrphans
PROPERTIES GuardsItsAssets ForeignKept DeletionCompletes CorrectClassKept
CHECK_DEADLOCK FALSE
