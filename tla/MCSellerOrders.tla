--------------------------- MODULE MCSellerOrders ---------------------------
(* Small instances of SellerOrders for TLC. *)
EXTENDS SellerOrders

\* A reachable state in which every order was just found paid and settled by a poll:
\* they compete for the production slots.  What leads here is run elsewhere.
JustPaid ==
    /\ order = [o \in Orders |->
            [NoOrder EXCEPT !.st = "paid", !.pay = "settled", !.prod = "queued"]]
    /\ remote = [o \in Orders |-> "settled"]
    /\ watch = [o \in Orders |-> TRUE]
    /\ job = [o \in Orders |-> "fresh"]
    /\ ptask = [o \in Orders |-> "none"]
    /\ slot = [o \in Orders |-> [c \in Callers |->
            IF c = "poll" THEN InSlot("start") ELSE Idle]]
    /\ task = [o \in Orders |-> NoTask]
    /\ waiting = {}
    /\ retries = 0
    /\ restarts = 0

\* One order from its beginning, or all of them in the queue: then nobody calls.
Solo == CHOOSE o \in Orders : TRUE
QueueOnly == \A o \in Orders : order[o].st # "absent"
OneOrQueue ==
    IF QueueOnly
    THEN /\ retries' = retries
         /\ \A o \in Orders : order'[o].canc = "none" /\ \A c \in Clients : slot'[o][c] = slot[o][c]
    ELSE \A o \in Orders \ {Solo} : order'[o].st = "absent"

SellerSpec == (Init \/ JustPaid) /\ [][Next /\ OneOrQueue]_vars /\ Fairness
=============================================================================
