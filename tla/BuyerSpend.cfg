SPECIFICATION Spec
CONSTANTS
    Campaigns = {c1}
    Clients = {p1}
    Requests = {"resume", "execute", "sync", "cancel", "retry"}
    Price = 2
    Allowance = 0
    Limit = 5
    MaxPending = 1
    MaxQuotes = 1
    MaxSends = 2
    MaxRestarts = 1
    ExternalPayer = FALSE
    Settles = FALSE
    c1 = c1
    c2 = c2
    p1 = p1
    p2 = p2
INVARIANTS
    RecordsConsistent
    OneSubmission
    ReservationKept
PROPERTIES
    NoSubmitAfterCancel
\* A campaign may come to rest, and the bounds end the rest.
CHECK_DEADLOCK FALSE
