CONSTANTS
    c1 = c1  c2 = c2  k1 = k1  k2 = k2
    Conns = {c1}
    ClusterIDs = {k1}
    CidOf <- OwnClusters
    ValidSpecs = {v1, v2}
    InvalidSpecs = {}
    StaleReads = TRUE
    Tampering = {}
    MaxLives = 1
    MaxGen = 3
    MaxFaults = 0
SPECIFICATION Spec
INVARIANT ReadyMeansInPlace
CHECK_DEADLOCK FALSE
