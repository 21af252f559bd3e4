CONSTANTS
    d1 = d1  d2 = d2  c1 = c1  c2 = c2  p1 = p1  p2 = p2  p3 = p3
    s1 = s1  s2 = s2  k1 = k1  k2 = k2
    Drivers = {d1, d2}
    Classes = {c1, c2}
    PVs = {p1, p2, p3}
    VSClasses = {s1, s2}
    Contents = {k1}
    DriverOf <- DriversOfClasses
    NilExpansion = {}
    ClassOf <- ClassesOfPVs
    RefsOf <- AllRefs
    PolicyOf <- DeletePolicies
    OwnerOf <- OwnersOfVSClasses
    VSClassOf <- ClassesOfContents
    InUse = {p1, p2, p3}
    SnapshotCRD = TRUE
    Restorer = FALSE
    MaxFaults = 3
SPECIFICATION Spec
INVARIANTS TypeOK NothingLost SecretWillExist LabelledMeansMigrated
PROPERTY DeletedSafely
CHECK_DEADLOCK FALSE
