CONSTANTS
    c1 = c1  c2 = c2  k1 = k1  k2 = k2
    Conns = {c1}
    ClusterIDs = {k1}
    CidOf <- OwnClusters
    ValidSpecs = {v1, v2}
    InvalidSpecs = {}
    StaleReads = FALSE
    Tampering = {"deleteConfigMap"}
    MaxLives = 1
    MaxGen = 2
    MaxFaults = 1
SPECIFICATION Spec
PROPERTY ReadyVerdictIsEarned
CHECK_DEADLOCK FALSE
