CONSTANTS
    k1 = k1  k2 = k2
    Conns = {c1}
    ClusterIDs = {k1}
    CidOf <- OneCluster
    ClassConn = c1
    ConnSpecs = {v1}
    ClassSpecs = {rbd1}
    Options = {"crc"}
    SnapshotCRD = "absent"
    ListFails = TRUE
    MaxLives = 1
    MaxClassLives = 1
    MaxGen = 1
    MaxFaults = 1
SPECIFICATION Spec
INVARIANT RemovalReleases
CHECK_DEADLOCK FALSE
