CONSTANTS
    d1 = d1  d2 = d2  c1 = c1  c2 = c2  p1 = p1  p2 = p2  p3 = p3
    s1 = s1  s2 = s2  k1 = k1  k2 = k2
    Drivers = {d1}
    Classes = {c1}
    PVs = {p1}
    VSClasses = {s1}
    Contents = {k1}
    DriverOf <- DriversOfClasses
    NilExpansion = {}
    ClassOf <- ClassesOfPVs
    RefsOf <- NoRefsOfP1
    PolicyOf <- DeletePolicies
    OwnerOf <- OwnersOfVSClasses
    VSClassOf <- ClassesOfContents
    InUse = {p1}
    SnapshotCRD = TRUE
    Restorer = FALSE
    MaxFaults = 0
SPECIFICATION Spec
INVARIANT AnnotationsFollow
CHECK_DEADLOCK FALSE
