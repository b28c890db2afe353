SPECIFICATION SellerSpec
CONSTANTS
    o1 = o1
    o2 = o2
    Orders = {o1, o2}
    Clients = {"api"}
    MaxProductions = 1
    MaxRetries = 1
    MaxRestarts = 1
    PayUnlinked = TRUE
INVARIANTS
    TypeOK
    PaymentGate
    CancellationMatchesPayment
    RecordedBuildHasReceipt
    StopIsBeforeProduction
    ProductionsBounded
PROPERTIES
    NoSubmissionAfterCancellation
    NothingRegresses
    BuildIdKept
    PaymentNoticed
    PaidWorkResolves
\* An order may come to rest.
CHECK_DEADLOCK FALSE
