CONSTANTS
    c1 = c1  c2 = c2  k1 = k1  k2 = k2
    Conns = {c1}
    ClusterIDs = {k1, k2}
    CidOf <- NewClusters
    ValidSpecs = {v1, v2}
    InvalidSpecs = {bad}
    StaleReads = FALSE
    Tampering = {"deleteConfigMap", "corruptConfigMap", "deleteSecret"}
    MaxLives = 2
    MaxGen = 2
    MaxFaults = 2
SPECIFICATION FairSpec
INVARIANTS TypeOK NoOrphans
PROPERTIES GuardsItsAssets DeletionCompletes
CHECK_DEADLOCK FALSE
