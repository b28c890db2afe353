SPECIFICATION FairSpec
CONSTANTS
    Clients = {"page", "tab"}
    Modes = {"auto", "confirm"}
    MaxRevisions = 2
    MaxRestarts = 1
INVARIANTS
    RecordsConsistent
    BuysAsAgreed
PROPERTIES
    NoPurchaseAfterAnswer
    WorkAndCancellationEnd
\* A delegation may come to rest.
CHECK_DEADLOCK FALSE
