---------------------------- MODULE SellerOrders ----------------------------
(***************************************************************************)
(* The Seller's order service: invoices, payment reconciliation,           *)
(* cancellation and paid production.                                       *)
(*                                                                         *)
(* `order` is the durable JsonStore snapshot and `job` the marker files of *)
(* the Hypit adapter; both survive a restart.  `ptask`, `slot`, `task` and *)
(* `waiting` are the promises and maps of one Node.js process and are lost *)
(* with it.  `remote` is the GoBTC invoice.  Store transactions are serial *)
(* and atomic; every await outside one is a point where other steps run.   *)
(***************************************************************************)
EXTENDS Naturals, FiniteSets

CONSTANTS
    Orders,           \* the orders clients may create
    Clients,          \* concurrent API requests per order
    MaxProductions,   \* maxConcurrentProductions
    MaxRetries,       \* bound: operator retry requests
    MaxRestarts,      \* bound: process crashes
    PayUnlinked       \* may an invoice be paid before the Seller linked it?

ASSUME SellerAssumption ==
    /\ IsFiniteSet(Orders)
    /\ MaxProductions \in Nat \ {0}
    /\ MaxRetries \in Nat
    /\ MaxRestarts \in Nat
    /\ PayUnlinked \in BOOLEAN
    /\ "poll" \notin Clients

VARIABLES order, remote, watch, job, ptask, slot, task, waiting, retries, restarts

process == <<ptask, slot, task, waiting>>
bounds == <<retries, restarts>>
vars == <<order, remote, watch, job, ptask, slot, task, waiting, retries, restarts>>

Callers == Clients \cup {"poll"}

\* What a GoBTC invoice can say: paymentView keeps status and chain evidence.
Views == {"initiated", "paid", "settled", "expired"}
Authorized(pay) == pay \in {"paid", "settled"}

OrderStates == {"absent", "creating_payment", "awaiting_payment",
    "payment_creation_failed", "payment_expired", "paid", "fulfilling",
    "fulfillment_failed", "completed", "cancellation_pending",
    "cancelled_unpaid", "refund_review_required", "cost_review_required"}
Cancellations == {"none", "stop_requested", "cancelled_unpaid",
    "refund_review_required", "cost_review_required"}
Productions == {"locked", "queued", "producing", "completed", "failed", "stopped"}

\* Production error codes by what retryProduction does with them.
Ambiguous == "ambiguous"      \* hypit_command_failed, _timeout, _spawn_failed
Uncertain == "uncertain"      \* a submission that left no durable build id
Incomplete == "incomplete"    \* hypit_build_incomplete
Terminal == "terminal"        \* Veo ended without a usable video
Other == "other"
Errors == {Ambiguous, Uncertain, Incomplete, Terminal, Other}

\* started: production.attempts > 0; build: a durable production.buildId.
OrderRecord == [st : OrderStates, pay : Views \cup {"null"}, canc : Cancellations,
    prod : Productions, build : BOOLEAN, err : Errors \cup {"none"}, started : BOOLEAN]

\* Mutant: an order without an invoice has an undefined payment.
NoOrderUndefinedPay == [st |-> "absent", pay |-> "undefined", canc |-> "none",
    prod |-> "locked", build |-> FALSE, err |-> "none", started |-> FALSE]

NoOrder == [st |-> "absent", pay |-> "null", canc |-> "none", prod |-> "locked",
            build |-> FALSE, err |-> "none", started |-> FALSE]

TaskSteps == {"none", "claim", "submit", "approved", "building", "retry", "record",
              "resume", "reattach", "complete", "running", "fail"}
TaskRecord == [pc : TaskSteps, again : BOOLEAN, err : Errors \cup {"none"}]
At(pc, again) == [pc |-> pc, again |-> again, err |-> "none"]
NoTask == At("none", FALSE)
FailWith(e) == [pc |-> "fail", again |-> FALSE, err |-> e]

SlotRecord == [pc : {"idle", "asking", "answered", "start"}, view : Views \cup {"none"}]
Idle == [pc |-> "idle", view |-> "none"]
InSlot(pc) == [pc |-> pc, view |-> "none"]

\* fresh: no marker; attempted: build.attempt.json only; the others hold
\* build.receipt.json and say how the Hypit Build stands.
Jobs == {"fresh", "attempted", "running", "complete", "incomplete"}
HasReceipt(o) == job[o] \in {"running", "complete", "incomplete"}

TypeOK ==
    /\ order \in [Orders -> OrderRecord]
    /\ remote \in [Orders -> Views \cup {"absent"}]
    /\ watch \in [Orders -> BOOLEAN]
    /\ job \in [Orders -> Jobs]
    /\ ptask \in [Orders -> Views \cup {"none", "asking", "failed"}]
    /\ slot \in [Orders -> [Callers -> SlotRecord]]
    /\ task \in [Orders -> TaskRecord]
    /\ waiting \in SUBSET Orders
    /\ retries \in 0 .. MaxRetries
    /\ restarts \in 0 .. MaxRestarts

Init ==
    /\ order = [o \in Orders |-> NoOrder]
    /\ remote = [o \in Orders |-> "absent"]
    /\ watch = [o \in Orders |-> TRUE]
    /\ job = [o \in Orders |-> "fresh"]
    /\ ptask = [o \in Orders |-> "none"]
    /\ slot = [o \in Orders |-> [c \in Callers |-> Idle]]
    /\ task = [o \in Orders |-> NoTask]
    /\ waiting = {}
    /\ retries = 0
    /\ restarts = 0

Exists(o) == order[o].st # "absent"
Cancelled(o) == order[o].canc # "none"

-----------------------------------------------------------------------------
(* Orders and their invoices. *)

\* The order and its idempotency key are one transaction; the same handler
\* then creates the invoice.  A repeated key finds the order: see ApiSync.
CreateOrder(o) ==
    /\ ~Exists(o)
    /\ order' = [order EXCEPT ![o].st = "creating_payment"]
    /\ ptask' = [ptask EXCEPT ![o] = "asking"]
    /\ UNCHANGED <<remote, watch, job, slot, task, waiting, bounds>>

\* GoBTC answers createPayment; externalId makes it idempotent, so a second
\* request returns the invoice as it now stands.  The answer may be lost.
InvoiceCreated(o) ==
    /\ ptask[o] = "asking"
    /\ remote' = [remote EXCEPT ![o] = IF @ = "absent" THEN "initiated" ELSE @]
    /\ \E answer \in {remote'[o], "failed"} : ptask' = [ptask EXCEPT ![o] = answer]
    /\ UNCHANGED <<order, watch, job, slot, task, waiting, bounds>>

InvoiceRefused(o) ==
    /\ ptask[o] = "asking"
    /\ ptask' = [ptask EXCEPT ![o] = "failed"]
    /\ UNCHANGED <<order, remote, watch, job, slot, task, waiting, bounds>>

LinkPayment(o) ==
    /\ ptask[o] \in Views
    /\ order' = [order EXCEPT
            ![o].pay = ptask[o],
            ![o].st = IF order[o].canc # "stop_requested" THEN "awaiting_payment" ELSE @]
    /\ ptask' = [ptask EXCEPT ![o] = "none"]
    /\ UNCHANGED <<remote, watch, job, slot, task, waiting, bounds>>

PaymentCreationFailed(o) ==
    /\ ptask[o] = "failed"
    /\ order' = [order EXCEPT ![o].st = IF Cancelled(o) THEN @ ELSE "payment_creation_failed"]
    /\ ptask' = [ptask EXCEPT ![o] = "none"]
    /\ UNCHANGED <<remote, watch, job, slot, task, waiting, bounds>>

-----------------------------------------------------------------------------
(* Reconciliation: read GoBTC outside the store, then commit what it said. *)

\* syncOrder up to its getPayment request.  An order without an invoice first
\* gets one (one task per order); its sync goes on as a new BeginSync.
BeginSync(o, c) ==
    \/ /\ order[o].pay = "null" /\ ptask[o] = "none"
       /\ ptask' = [ptask EXCEPT ![o] = "asking"]
       /\ UNCHANGED slot
    \/ /\ order[o].pay # "null" /\ slot[o][c] = Idle
       /\ slot' = [slot EXCEPT ![o][c] = InSlot("asking")]
       /\ UNCHANGED ptask

\* Mutants: polling leaves out settled orders that await production; unpaid
\* cancellations inside their watch.
PollSelectsUnsettled(o) ==
    order[o].pay \notin {"settled", "expired"} \/ order[o].prod = "locked"
PollSelectsLive(o) ==
    order[o].pay # "expired" \/ order[o].prod \in {"queued", "producing"}

\* The orders pollOnce picks; nextCheckAt only delays a pick.
PollSelects(o) ==
    LET active == order[o].prod \in {"queued", "producing"} IN
    \/ order[o].pay = "null"
    \/ /\ order[o].pay # "settled" \/ active \/ order[o].prod = "locked"
       /\ \/ order[o].pay # "expired"
          \/ order[o].canc = "cancelled_unpaid" /\ watch[o]
          \/ active

\* Polling starts once every production that recover() resumed has ended.
Poll(o) ==
    /\ waiting = {} /\ Exists(o) /\ PollSelects(o)
    /\ BeginSync(o, "poll")
    /\ UNCHANGED <<order, remote, watch, job, task, waiting, bounds>>

ApiSync(o, c) ==
    /\ Exists(o)
    /\ BeginSync(o, c)
    /\ UNCHANGED <<order, remote, watch, job, task, waiting, bounds>>

ProviderAnswers(o, c) ==
    /\ slot[o][c].pc = "asking"
    /\ slot' = [slot EXCEPT ![o][c] = [pc |-> "answered", view |-> remote[o]]]
    /\ UNCHANGED <<order, remote, watch, job, ptask, task, waiting, bounds>>

SyncFails(o, c) ==
    /\ slot[o][c].pc = "asking"
    /\ slot' = [slot EXCEPT ![o][c] = Idle]
    /\ UNCHANGED <<order, remote, watch, job, ptask, task, waiting, bounds>>

\* Mutants: an answer may take back settlement, or authorization.
RegressesFromAuthorized(o, v) == Authorized(order[o].pay) /\ ~Authorized(v)
RegressesFromSettled(o, v) == order[o].pay = "settled" /\ v # "settled"

\* An answer that would take back authorization or settlement is refused.
\* The same test before the transaction can only refuse earlier.
Regresses(o, v) ==
    \/ Authorized(order[o].pay) /\ ~Authorized(v)
    \/ order[o].pay = "settled" /\ v # "settled"

RefuseStale(o, c) ==
    /\ slot[o][c].pc = "answered"
    /\ Regresses(o, slot[o][c].view)
    /\ slot' = [slot EXCEPT ![o][c] = Idle]
    /\ UNCHANGED <<order, remote, watch, job, ptask, task, waiting, bounds>>

\* The order after an answer v: only a first authorization, a provider-confirmed
\* terminal status, or a stop with an authorized payment changes more than pay.
StopForRefund(r) == [r EXCEPT !.canc = "refund_review_required",
                              !.st = "refund_review_required"]

\* Mutant: a closed or reviewed cancellation does not hold a late payment back.
AuthorizeClosed(r) ==
    IF r.canc = "stop_requested" THEN [StopForRefund(r) EXCEPT !.prod = "stopped"]
    ELSE [r EXCEPT !.st = "paid", !.prod = "queued"]

Authorize(r) ==
    IF r.canc \in {"stop_requested", "cancelled_unpaid"}
    THEN [StopForRefund(r) EXCEPT !.prod = "stopped"]
    ELSE IF r.canc = "cost_review_required"
         THEN [r EXCEPT !.st = "cost_review_required"]
         ELSE [r EXCEPT !.st = "paid", !.prod = "queued"]

EndUnpaid(r) ==
    IF r.canc = "stop_requested"
    THEN [r EXCEPT !.st = "cancelled_unpaid", !.canc = "cancelled_unpaid"]
    ELSE [r EXCEPT !.st = "payment_expired"]

Reconciled(r, v) ==
    LET seen == [r EXCEPT !.pay = v]
        was == Authorized(r.pay)
    IN IF ~was /\ v = "expired" THEN EndUnpaid(seen)
       ELSE IF ~was /\ Authorized(v) THEN Authorize(seen)
       ELSE IF Authorized(v) /\ r.canc = "stop_requested" THEN StopForRefund(seen)
       ELSE seen

SyncCommit(o, c) ==
    LET r == Reconciled(order[o], slot[o][c].view) IN
    /\ slot[o][c].pc = "answered"
    /\ ~Regresses(o, slot[o][c].view)
    /\ order' = [order EXCEPT ![o] = r]
    /\ slot' = [slot EXCEPT ![o][c] =
            IF r.prod \in {"queued", "producing"} THEN InSlot("start") ELSE Idle]
    /\ UNCHANGED <<remote, watch, job, ptask, task, waiting, bounds>>

\* #startProduction: one task per order, at most MaxProductions of them.
Running == {o \in Orders : task[o].pc # "none"}
HasRoom == Cardinality(Running) < MaxProductions
\* Mutant: a sync starts its production whatever else is running.
WithTaskUnbounded(o) ==
    IF task[o] = NoTask THEN [task EXCEPT ![o] = At("claim", FALSE)] ELSE task

WithTask(o) ==
    IF task[o] = NoTask /\ HasRoom THEN [task EXCEPT ![o] = At("claim", FALSE)] ELSE task

StartProduction(o, c) ==
    /\ slot[o][c].pc = "start"
    /\ slot' = [slot EXCEPT ![o][c] = Idle]
    /\ task' = WithTask(o)
    /\ UNCHANGED <<order, remote, watch, job, ptask, waiting, bounds>>

-----------------------------------------------------------------------------
(* Stopping and retrying. *)

\* Mutant: a production in progress is not yet a started one.
ProductionEnded(o) == order[o].prod \in {"completed", "failed"}

ProductionStarted(o) == order[o].prod \in {"producing", "completed", "failed"}

\* One transaction decides whether the stop or the production claim came first.
\* A repeated request changes nothing and only reconciles again: ApiSync.
RequestCancellation(o, c) ==
    /\ Exists(o) /\ ~Cancelled(o)
    /\ slot[o][c] = Idle
    /\ order' = [order EXCEPT ![o] = IF ProductionStarted(o)
            THEN [@ EXCEPT !.canc = "cost_review_required", !.st = "cost_review_required"]
            ELSE [@ EXCEPT !.canc = "stop_requested", !.prod = "stopped",
                           !.st = "cancellation_pending"]]
    /\ slot' = [slot EXCEPT ![o][c] =
            IF order[o].pay # "null" THEN InSlot("asking") ELSE Idle]
    /\ UNCHANGED <<remote, watch, job, ptask, task, waiting, bounds>>

\* canRetryBeforeBuild: the markers prove that no Build was submitted.
ProvenPreBuild(o, e) == e = Ambiguous /\ job[o] = "fresh"

MayRequeue(o) ==
    /\ order[o].prod = "failed"
    /\ order[o].err # Terminal
    /\ \/ order[o].build
       \/ order[o].err \notin {Ambiguous, Uncertain}
       \/ ProvenPreBuild(o, order[o].err)

\* Mutant: every retry forgets the recorded build.
KeepsNoBuild(o) == FALSE

\* Only a confirmed terminal build failure permits a new build.
KeepsBuild(o) == order[o].build /\ order[o].err # Incomplete

RetryProduction(o, c) ==
    /\ retries < MaxRetries
    /\ Exists(o) /\ ~Cancelled(o) /\ Authorized(order[o].pay)
    /\ slot[o][c] = Idle
    /\ \/ /\ order[o].prod = "producing" /\ order[o].build
          /\ UNCHANGED order
       \/ /\ MayRequeue(o)
          /\ order' = [order EXCEPT ![o] = [@ EXCEPT
                !.build = KeepsBuild(o),
                !.prod = "queued", !.err = "none"]]
    /\ retries' = retries + 1
    /\ slot' = [slot EXCEPT ![o][c] = InSlot("start")]
    /\ UNCHANGED <<remote, watch, job, ptask, task, waiting, restarts>>

-----------------------------------------------------------------------------
(* The production task: claim, submit, record the build id, await the Build. *)

TaskAt(o, pc) == task[o].pc = pc
MoveTask(o, t) == task' = [task EXCEPT ![o] = t]
RestUnchanged == UNCHANGED <<remote, watch, ptask, slot, bounds>>

Claimable(o) == ~Cancelled(o) /\ order[o].prod \in {"queued", "producing"}
                /\ Authorized(order[o].pay)

ClaimStart(o) ==
    /\ TaskAt(o, "claim") /\ Claimable(o)
    /\ order[o].prod = "queued" /\ ~order[o].build
    /\ order' = [order EXCEPT ![o] = [@ EXCEPT
            !.st = "fulfilling", !.prod = "producing", !.started = TRUE]]
    /\ MoveTask(o, At("submit", TRUE))
    /\ RestUnchanged /\ UNCHANGED <<job, waiting>>

ClaimRecovery(o) ==
    /\ TaskAt(o, "claim") /\ Claimable(o)
    /\ order[o].prod = "producing" \/ order[o].build
    /\ MoveTask(o, IF order[o].build THEN At("resume", TRUE) ELSE At("submit", FALSE))
    /\ RestUnchanged /\ UNCHANGED <<order, job, waiting>>

\* Mutant: the attempt marker is taken for the receipt of a Build.
FindAnyMarker(o) ==
    /\ TaskAt(o, "submit") /\ job[o] # "fresh"
    /\ MoveTask(o, At("record", FALSE))
    /\ RestUnchanged /\ UNCHANGED <<order, job, waiting>>

\* HypitAdapter.start until its last spend check: an earlier submission is
\* found by its markers; preparing the inputs may fail before any marker.
FindReceipt(o) ==
    /\ TaskAt(o, "submit") /\ HasReceipt(o)
    /\ MoveTask(o, At("record", FALSE))
    /\ RestUnchanged /\ UNCHANGED <<order, job, waiting>>

\* Mutant: start does not look at the durable cancellation again.
PassWithoutGate(o) ==
    /\ TaskAt(o, "submit") /\ job[o] = "fresh"
    /\ MoveTask(o, At("approved", FALSE))
    /\ RestUnchanged /\ UNCHANGED <<order, job, waiting>>

PassSpendGate(o) ==
    /\ TaskAt(o, "submit") /\ job[o] = "fresh" /\ ~Cancelled(o)
    /\ MoveTask(o, At("approved", FALSE))
    /\ RestUnchanged /\ UNCHANGED <<order, job, waiting>>

WriteAttempt(o) ==
    /\ TaskAt(o, "approved")
    /\ job' = [job EXCEPT ![o] = "attempted"]
    /\ MoveTask(o, At("building", FALSE))
    /\ RestUnchanged /\ UNCHANGED <<order, waiting>>

BuildAccepted(o) ==
    /\ TaskAt(o, "building")
    /\ job' = [job EXCEPT ![o] = "running"]
    /\ MoveTask(o, At("record", FALSE))
    /\ RestUnchanged /\ UNCHANGED <<order, waiting>>

SubmissionErrors(o) ==
    CASE TaskAt(o, "submit") /\ job[o] = "fresh" -> {Ambiguous, Terminal, Other}
      [] TaskAt(o, "submit") /\ job[o] = "attempted" -> {Uncertain}
      [] TaskAt(o, "submit") /\ job[o] \notin {"fresh", "attempted"} -> {Other}
      [] TaskAt(o, "building") -> {Ambiguous, Uncertain, Other}
      [] OTHER -> {}

SubmitFails(o) ==
    /\ \E e \in SubmissionErrors(o) : MoveTask(o, FailWith(e))
    /\ RestUnchanged /\ UNCHANGED <<order, job, waiting>>

\* One safe retry, only of a first submission the markers prove never sent.
SafePreBuildRetry(o) ==
    /\ TaskAt(o, "submit") /\ task[o].again /\ ~Cancelled(o)
    /\ \E e \in SubmissionErrors(o) : ProvenPreBuild(o, e)
    /\ MoveTask(o, At("retry", FALSE))
    /\ RestUnchanged /\ UNCHANGED <<order, job, waiting>>

CountRetry(o) ==
    /\ task[o].pc \in {"retry", "reattach"}
    /\ order' = [order EXCEPT ![o].started = TRUE]
    /\ MoveTask(o, At(IF TaskAt(o, "retry") THEN "submit" ELSE "resume", FALSE))
    /\ RestUnchanged /\ UNCHANGED <<job, waiting>>

RecordBuild(o) ==
    /\ TaskAt(o, "record")
    /\ order' = [order EXCEPT ![o].build = TRUE]
    /\ MoveTask(o, At("resume", TRUE))
    /\ RestUnchanged /\ UNCHANGED <<job, waiting>>

\* The Hypit Build itself, and HypitAdapter.resume watching it.
BuildEnds(o) ==
    /\ job[o] = "running"
    /\ \E outcome \in {"complete", "incomplete"} : job' = [job EXCEPT ![o] = outcome]
    /\ UNCHANGED <<order, remote, watch, process, bounds>>

ResumeReturns(o) ==
    /\ TaskAt(o, "resume")
    /\ \/ \E e \in {Ambiguous, Other} : MoveTask(o, FailWith(e))
       \/ job[o] = "running" /\ MoveTask(o, At("running", FALSE))
       \/ job[o] = "complete" /\ MoveTask(o, At("complete", FALSE))
       \/ job[o] = "incomplete" /\ MoveTask(o, FailWith(Incomplete))
    /\ RestUnchanged /\ UNCHANGED <<order, job, waiting>>

SafeReattach(o) ==
    /\ TaskAt(o, "resume") /\ task[o].again /\ ~Cancelled(o)
    /\ MoveTask(o, At("reattach", FALSE))
    /\ RestUnchanged /\ UNCHANGED <<order, job, waiting>>

\* The task leaves the map and the queue is drained in the same turn.
Drainable(p) == order'[p].prod = "queued" /\ Authorized(order'[p].pay)
                /\ order'[p].canc = "none"
Release(o) ==
    LET ready == {p \in Orders : Drainable(p)}
        freed == [task EXCEPT ![o] = NoTask]
    IN /\ waiting' = waiting \ {o}
       /\ \/ ready = {} /\ task' = freed
          \/ \E p \in ready : task' =
                IF freed[p] = NoTask /\ Cardinality(Running \ {o}) < MaxProductions
                THEN [freed EXCEPT ![p] = At("claim", FALSE)] ELSE freed

ClaimRefused(o) ==
    /\ TaskAt(o, "claim") /\ ~Claimable(o)
    /\ UNCHANGED order
    /\ Release(o)
    /\ RestUnchanged /\ UNCHANGED job

\* An order state follows production only while no cancellation owns it.
Ended(o, st, prod, err) ==
    order' = [order EXCEPT ![o] = [@ EXCEPT
        !.st = IF Cancelled(o) THEN order[o].st ELSE st, !.prod = prod, !.err = err]]

FinishProduction(o) ==
    /\ \/ TaskAt(o, "complete") /\ Ended(o, "completed", "completed", "none")
       \/ TaskAt(o, "running") /\ Ended(o, "fulfilling", "producing", "none")
       \/ TaskAt(o, "fail") /\ Ended(o, "fulfillment_failed", "failed", task[o].err)
    /\ Release(o)
    /\ RestUnchanged /\ UNCHANGED job

-----------------------------------------------------------------------------
(* GoBTC, time and the process. *)

PayerPays(o) ==
    /\ remote[o] \in {"initiated", "expired"}
    /\ PayUnlinked \/ order[o].pay # "null"
    /\ remote' = [remote EXCEPT ![o] = "paid"]
    /\ UNCHANGED <<order, watch, job, process, bounds>>

InvoiceExpires(o) ==
    /\ remote[o] = "initiated"
    /\ remote' = [remote EXCEPT ![o] = "expired"]
    /\ UNCHANGED <<order, watch, job, process, bounds>>

ChainSettles(o) ==
    /\ remote[o] = "paid"
    /\ remote' = [remote EXCEPT ![o] = "settled"]
    /\ UNCHANGED <<order, watch, job, process, bounds>>

\* Seven days after the stop request, pollOnce gives a dead invoice up.
WatchLapses(o) ==
    /\ watch[o] /\ order[o].canc = "cancelled_unpaid"
    /\ watch' = [watch EXCEPT ![o] = FALSE]
    /\ UNCHANGED <<order, remote, job, process, bounds>>

\* A crash at any point, and recover() in the next process.
Restart ==
    LET interrupted == {o \in Orders : /\ Authorized(order[o].pay)
                                       /\ order[o].prod \in {"queued", "producing"}}
    IN
    /\ restarts < MaxRestarts
    /\ restarts' = restarts + 1
    /\ ptask' = [o \in Orders |-> "none"]
    /\ slot' = [o \in Orders |-> [c \in Callers |-> Idle]]
    /\ \E resumed \in SUBSET interrupted :
        /\ Cardinality(resumed) <= MaxProductions
        /\ resumed = interrupted \/ Cardinality(resumed) = MaxProductions
        /\ task' = [o \in Orders |-> IF o \in resumed THEN At("claim", FALSE) ELSE NoTask]
        /\ waiting' = resumed
    /\ UNCHANGED <<order, remote, watch, job, retries>>

-----------------------------------------------------------------------------
Payments(o) ==
    \/ CreateOrder(o) \/ InvoiceCreated(o) \/ InvoiceRefused(o)
    \/ LinkPayment(o) \/ PaymentCreationFailed(o)

Request(o, c) ==
    \/ ProviderAnswers(o, c) \/ SyncFails(o, c) \/ RefuseStale(o, c)
    \/ SyncCommit(o, c) \/ StartProduction(o, c)

ClientCall(o, c) ==
    \/ ApiSync(o, c) \/ RequestCancellation(o, c) \/ RetryProduction(o, c)

Submission(o) ==
    \/ ClaimStart(o) \/ ClaimRecovery(o) \/ ClaimRefused(o) \/ FindReceipt(o)
    \/ PassSpendGate(o) \/ WriteAttempt(o) \/ BuildAccepted(o) \/ SubmitFails(o)
    \/ SafePreBuildRetry(o) \/ CountRetry(o) \/ RecordBuild(o)

Watching(o) == ResumeReturns(o) \/ SafeReattach(o) \/ FinishProduction(o)

Environment(o) ==
    \/ PayerPays(o) \/ InvoiceExpires(o) \/ ChainSettles(o) \/ WatchLapses(o) \/ BuildEnds(o)

Next ==
    \/ \E o \in Orders :
        \/ Payments(o) \/ Poll(o) \/ Submission(o) \/ Watching(o) \/ Environment(o)
        \/ \E c \in Callers : Request(o, c)
        \/ \E c \in Clients : ClientCall(o, c)
    \/ Restart

Spec == Init /\ [][Next]_vars

\* The poll timer keeps firing and every continuation of the event loop runs;
\* GoBTC answers again and again, and a Hypit Build comes to an end.  Clients,
\* the payer and time promise nothing.
Fairness ==
    \A o \in Orders :
        /\ WF_vars(Poll(o))
        /\ SF_vars(InvoiceCreated(o) /\ ptask'[o] # "failed")
        /\ WF_vars(LinkPayment(o) \/ PaymentCreationFailed(o))
        /\ SF_vars(ProviderAnswers(o, "poll"))
        /\ \A c \in Callers :
            WF_vars(RefuseStale(o, c) \/ SyncCommit(o, c) \/ StartProduction(o, c))
        /\ WF_vars(Submission(o))
        /\ WF_vars(Watching(o))
        /\ WF_vars(BuildEnds(o))

FairSpec == Spec /\ Fairness

-----------------------------------------------------------------------------
(* Properties. *)

\* Production is unlocked only by an authorized payment, whatever answers,
\* stops, retries and restarts came before, and no task works without one.
PaymentGate ==
    \A o \in Orders :
        \/ order[o].prod \in {"queued", "producing", "completed", "failed"}
        \/ task[o].pc \notin {"none", "claim"}
        => Authorized(order[o].pay)

\* A cancelled order is refunded or reviewed only against an authorized
\* payment, and one that closed as unpaid never holds one.
CancellationMatchesPayment ==
    \A o \in Orders :
        /\ order[o].canc \in {"refund_review_required", "cost_review_required"}
              => Authorized(order[o].pay)
        /\ order[o].canc = "cancelled_unpaid" => ~Authorized(order[o].pay)

\* A refund of the full service price is recorded only when production never
\* started (docs/PAYMENT_LIFECYCLE.md: "before production").
RefundOnlyBeforeProduction ==
    \A o \in Orders :
        order[o].canc = "refund_review_required" => ~order[o].started

\* The stop and the claim share a transaction, so only one can win: a stopped
\* order has no task that may still submit or watch a Build.
OneWinnerOfStopAndClaim ==
    \A o \in Orders :
        order[o].prod = "stopped" => task[o].pc \in {"none", "claim"}

\* Both, before an operator retries: a stop leaves nothing running and gives money
\* back only for work that was never begun.
StopIsBeforeProduction ==
    retries = 0 => RefundOnlyBeforeProduction /\ OneWinnerOfStopAndClaim

\* Once a cancellation is durable no task passes the spend gate any more, and
\* no Build is submitted except by a task that had already passed it.
NoSubmissionAfterCancellation ==
    [][\A o \in Orders :
        Cancelled(o) /\ job[o] = "fresh" /\ ~TaskAt(o, "approved")
        => job'[o] = "fresh" /\ task'[o].pc # "approved"]_vars

\* A delayed GoBTC answer never takes back authorization or settlement.
PaymentNeverRegresses ==
    [][\A o \in Orders :
        /\ Authorized(order[o].pay) => Authorized(order'[o].pay)
        /\ order[o].pay = "settled" => order'[o].pay = "settled"]_vars

\* Cancellation moves only forward, as the Buyer's assertCancellationProgress
\* requires of every order it reads, and a review is final.
Progress(canc) ==
    IF canc = "none" THEN 0 ELSE IF canc = "stop_requested" THEN 1
    ELSE IF canc = "cancelled_unpaid" THEN 2 ELSE 3
CancellationOnlyAdvances ==
    [][\A o \in Orders :
        /\ Progress(order'[o].canc) >= Progress(order[o].canc)
        /\ Progress(order[o].canc) = 3 => order'[o].canc = order[o].canc]_vars

\* Neither the payment nor the cancellation of an order is ever taken back.
NothingRegresses == PaymentNeverRegresses /\ CancellationOnlyAdvances

\* The recorded build id always has the receipt file behind it, and a recorded
\* id is dropped only for a Build that is known to have ended badly.
RecordedBuildHasReceipt ==
    \A o \in Orders : order[o].build => HasReceipt(o)
BuildIdKept ==
    [][\A o \in Orders :
        order[o].build /\ ~order'[o].build => job[o] = "incomplete"]_vars

\* The process never runs more productions than its operator allowed, whether
\* a sync, the drained queue or recovery starts them.
ProductionsBounded == Cardinality(Running) <= MaxProductions

\* Paid work does not starve: a queued or interrupted production completes,
\* fails visibly or is cancelled, through restarts and a full set of tasks.
PaidWorkResolves ==
    \A o \in Orders :
        order[o].prod \in {"queued", "producing"}
            ~> order[o].prod \in {"completed", "failed"} \/ Cancelled(o)

\* What polling must not leave as it is: a payment the Seller has not noticed, money that
\* came after an unpaid cancellation and within its watch, and a stop that was never
\* compared with the fate of its invoice (pollOnce, 482-489; a stop on a final answer is
\* outside the filter).
Behind(o) ==
    \/ order[o].pay = "initiated" /\ remote[o] \in {"paid", "settled"}
    \/ order[o].canc = "cancelled_unpaid" /\ watch[o] /\ remote[o] \in {"paid", "settled"}
    \/ /\ order[o].canc = "stop_requested" /\ order[o].pay \in {"initiated", "paid"}
       /\ remote[o] \in {"paid", "settled", "expired"}

\* The Seller catches up with GoBTC, and a payment it has noticed has unlocked
\* production unless the order was cancelled.
PaymentNoticed ==
    \A o \in Orders :
        Behind(o) ~> /\ ~Behind(o)
                     /\ Authorized(order[o].pay) => order[o].prod # "locked" \/ Cancelled(o)
=============================================================================
