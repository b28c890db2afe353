SPECIFICATION FairSpec
CONSTANTS
    Campaigns = {c1}
    Clients = {p1}
    Requests = {"cancel"}
    Price = 2
    Allowance = 0
    Limit = 5
    MaxPending = 1
    MaxQuotes = 1
    MaxSends = 2
    MaxRestarts = 0
    ExternalPayer = FALSE
    Settles = FALSE
    c1 = c1
    c2 = c2
    p1 = p1
    p2 = p2
PROPERTIES
    PaymentAccounted
    CampaignsResolve
\* A campaign may come to rest, and the bounds end the rest.
CHECK_DEADLOCK FALSE
