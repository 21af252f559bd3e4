CONSTANTS
    c1 = c1  c2 = c2  k1 = k1  k2 = k2
    Conns = {c1, c2}
    ClusterIDs = {k1}
    CidOf <- OneCluster
    ValidSpecs = {v1}
    InvalidSpecs = {}
    StaleReads = FALSE
    Tampering = {}
    MaxLives = 1
    MaxGen = 1
    MaxFaults = 0
SPECIFICATION Spec
INVARIANT ReadyMeansInPlace
CHECK_DEADLOCK FALSE
