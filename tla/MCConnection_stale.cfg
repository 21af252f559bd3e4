CONSTANTS
    c1 = c1  c2 = c2  k1 = k1  k2 = k2
    Conns = {c1, c2}
    ClusterIDs = {k1, k2}
    CidOf <- OwnClusters
    ValidSpecs = {v1}
    InvalidSpecs = {}
    StaleReads = TRUE
    Tampering = {}
    MaxLives = 1
    MaxGen = 1
    MaxFaults = 1
SPECIFICATION Spec
INVARIANT ReadyMeansInPlace
PROPERTY NoLostUpdate
CHECK_DEADLOCK FALSE
