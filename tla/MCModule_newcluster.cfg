CONSTANTS
    k1 = k1  k2 = k2
    Conns = {c1}
    ClusterIDs = {k1, k2}
    CidOf <- NewClusters
    ClassConn = c1
    ConnSpecs = {v1}
    ClassSpecs = {rbd1}
    Options = {"crc"}
    SnapshotCRD = "installed"
    ListFails = FALSE
    MaxLives = 2
    MaxClassLives = 1
    MaxGen = 1
    MaxFaults = 0
SPECIFICATION Spec
INVARIANT SameCluster
CHECK_DEADLOCK FALSE
