SPECIFICATION InstancesSpec
CONSTANTS
    o1 = o1
    o2 = o2
    o3 = o3
    Orders = {o1, o2, o3}
    SegmentsOf <- FirstWithReference
    MaxGenerations = 2
    Window = 1
    Stoppable = {o1}
    MaxTime = 2
    MaxCrashes = 1
INVARIANTS
    SpendingBounded
    ManifestBacked
PROPERTIES
    OperationKept
    RunsEnd
CHECK_DEADLOCK FALSE
