SPECIFICATION Spec
CONSTANTS
    i1 = i1  i2 = i2  i3 = i3  i4 = i4
    None = None  Gone = Gone
    Drivers = {d1, d2}
    Ids = {i1, i2, i3, i4}
    KindOf <- MCKindOf
    HostIds = {i3}
    InitialLimits <- MCLimits
    Grants <- MCGrants
    MaxLimit = 3
    MaxNow = 4
    MaxCrashes = 1
    MaxCost = 1
    Lease = 2
    Invocation = 3
    Events = {"early"}
SYMMETRY MCSymmetry
INVARIANTS
    OfflineExcluded
CHECK_DEADLOCK FALSE
