SPECIFICATION DeliverySpec
CONSTANTS
    MaxFaults = 2
    MaxRetries = 1
    Clients = {"tab"}
    MaxFailures = 2
INVARIANTS
    DeliverySound
PROPERTIES
    BuildKept
    DeliveryEnds
\* Everything may be done.
CHECK_DEADLOCK FALSE
