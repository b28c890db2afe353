SPECIFICATION FairSpec
CONSTANTS
    p1 = p1
    p2 = p2
    p3 = p3
    k1 = k1
    k2 = k2
    k3 = k3
    Processes = {p1, p2, p3}
    Calls = {k1, k2, k3}
    ProcessOf <- OwnProcesses
    MaxDepth = 2
    MaxTries = 2
INVARIANTS
    OneWorker
    SpendingBounded
PROPERTIES
    NoCallAfterAnswer
    DeadOwnersRecovered
CHECK_DEADLOCK FALSE
