CONSTANTS
    d1 = d1  d2 = d2  c1 = c1  c2 = c2  p1 = p1  p2 = p2  p3 = p3
    s1 = s1  s2 = s2  k1 = k1  k2 = k2
    Drivers = {d2}
    Classes = {c2}
    PVs = {p3}
    VSClasses = {s2}
    Contents = {}
    DriverOf <- DriversOfClasses
    NilExpansion = {c2}
    ClassOf <- ClassesOfPVs
    RefsOf <- AllRefs
    PolicyOf <- DeletePolicies
    OwnerOf <- OwnersOfVSClasses
    VSClassOf <- ClassesOfContents
    InUse = {p3}
    SnapshotCRD = TRUE
    Restorer = FALSE
    MaxFaults = 0
SPECIFICATION FairSpec
PROPERTY EventuallyFinished
CHECK_DEADLOCK FALSE
