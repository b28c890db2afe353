SPECIFICATION Spec
CONSTANTS
    Campaigns = {c1}
    Clients = {p1, p2}
    Requests = {"resume"}
    Price = 2
    Allowance = 0
    Limit = 5
    MaxPending = 1
    MaxQuotes = 2
    MaxSends = 2
    MaxRestarts = 1
    ExternalPayer = FALSE
    Settles = FALSE
    c1 = c1
    c2 = c2
    p1 = p1
    p2 = p2
INVARIANTS
    SentOnce
\* A campaign may come to rest, and the bounds end the rest.
CHECK_DEADLOCK FALSE
