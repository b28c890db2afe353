SPECIFICATION BudgetSpec
CONSTANTS
    Campaigns = {c1, c2}
    Clients = {}
    Requests = {"execute"}
    Price = 2
    Allowance = 1
    Limit = 5
    MaxPending = 1
    MaxQuotes = 1
    MaxSends = 2
    MaxRestarts = 0
    ExternalPayer = FALSE
    Settles = FALSE
    c1 = c1
    c2 = c2
    p1 = p1
    p2 = p2
PROPERTIES
    ImplementsLedger
\* A campaign may come to rest, and the bounds end the rest.
CHECK_DEADLOCK FALSE
