SPECIFICATION FairSpec
CONSTANTS
    p1 = p1
    p2 = p2
    p3 = p3
    t1 = t1
    t2 = t2
    Procs = {p1, p2, p3}
    Txns = {t1, t2}
    Overlap = FALSE
    MaxPowerLosses = 1
INVARIANTS
    StoreSound
PROPERTIES
    ImplementsAtomicStore
\* The last process may be gone.
CHECK_DEADLOCK FALSE
