----------------------------- MODULE BuyerSpend -----------------------------
(***************************************************************************)
(* The Buyer's campaign service: decision, spend reservation, ordering,    *)
(* signing, the one submission, reconciliation, cancellation, packaging.   *)
(*                                                                         *)
(* `camp` is the durable campaign record.  `call` holds the asynchronous   *)
(* calls in flight and `pack` the completion task; a restart loses both.   *)
(* `sel` is what the Seller has for the quote, `sent` counts the wallet's  *)
(* submitPrepared calls.  A store transaction is one action, and what its  *)
(* caller does before the next await on I/O happens with it: the next      *)
(* transaction cannot commit sooner, because it writes the file first.     *)
(* The mandate is auto_within_budget: no purchase is confirmed separately. *)
(***************************************************************************)
EXTENDS Naturals, FiniteSets, FiniteSetsExt

CONSTANTS
    Campaigns,
    Clients,          \* concurrent API requests per campaign
    Requests,         \* bound: the operations clients may ask for
    Price,            \* amountSats of every quote
    Allowance,        \* its network-fee allowance
    Limit,            \* maxLifetimeSpendSats
    MaxPending,       \* maxPendingPayments
    MaxQuotes,        \* bound: decisions per campaign
    MaxSends,         \* bound: submissions per order
    MaxRestarts,      \* bound: process crashes
    ExternalPayer,    \* may another wallet pay the invoice?
    Settles           \* do paid invoices settle on chain while we look?

ASSUME BuyerAssumption ==
    /\ IsFiniteSet(Campaigns)
    /\ Price \in Nat \ {0} /\ Allowance \in Nat
    /\ Limit \in Nat /\ MaxPending \in Nat
    /\ MaxQuotes \in Nat \ {0} /\ MaxSends \in Nat \ {0} /\ MaxRestarts \in Nat
    /\ {ExternalPayer, Settles} \subseteq BOOLEAN
    /\ Clients \cap {"exec", "main"} = {}
    /\ Requests \subseteq {"resume", "execute", "sync", "cancel", "retry"}

VARIABLES camp, sel, sent, call, pack, booting, restarts

vars == <<camp, sel, sent, call, pack, booting, restarts>>

\* executeCampaign runs once per campaign; main is the poll timer and recover().
Procs == Clients \cup {"exec", "main"}
Quotes == 1 .. MaxQuotes

\* The Seller's public order, as far as the Buyer reads it.
Pays == {"initiated", "paid", "settled", "expired"}
Stops == {"none", "stop_requested", "cancelled_unpaid", "refund_review_required",
          "cost_review_required"}
Views == [pay : Pays, canc : Stops, prod : {"idle", "started", "completed", "failed"}]
NoView == [pay |-> "none", canc |-> "none", prod |-> "idle"]
Opened == [pay |-> "initiated", canc |-> "none", prod |-> "idle"]
Authorized(v) == v.pay \in {"paid", "settled"}
Delivered(v) == v.prod = "completed" /\ v.canc = "none"

CancellationStates == {"cancelled", "cancellation_pending", "refund_review_required",
    "cost_review_required"}
CampaignStates == CancellationStates \cup {"absent", "analyzing", "decision_ready",
    "decision_failed", "ordering", "order_failed", "spend_blocked",
    "awaiting_payment", "signing", "payment_preparation_failed",
    "submitting_payment", "payment_submitted", "payment_uncertain",
    "payment_failed", "payment_origin_review_required", "fulfillment",
    "fulfillment_failed", "packaging", "packaging_failed", "completed"}
Attempts == {"none", "prepared", "submitting", "submitted", "uncertain"}
Reservations == {"none", "reserved", "prepared", "submitting", "submitted",
    "uncertain", "committed"}

\* quote: the decision in force; ord, oq: the recorded Seller order and its
\* quote; psbt: signing material is stored; held: the reservation's total;
\* canc: who asked for cancellation, derived when only the Seller's answer did;
\* late: history: a decision was written over a submission in progress.
CampaignRecord == [st : CampaignStates, quote : 0 .. MaxQuotes,
    ord : Views \cup {NoView}, oq : 0 .. MaxQuotes,
    att : Attempts, psbt : BOOLEAN, rcpt : BOOLEAN, fee : 0 .. Allowance,
    res : Reservations, held : 0 .. Price + Allowance, paid : BOOLEAN,
    canc : {"none", "derived", "local", "remote"}, conflict : BOOLEAN, pkg : BOOLEAN,
    late : BOOLEAN]
NoCampaign == [st |-> "absent", quote |-> 0, ord |-> NoView, oq |-> 0,
    att |-> "none", psbt |-> FALSE, rcpt |-> FALSE, fee |-> 0, res |-> "none",
    held |-> 0, paid |-> FALSE, canc |-> "none", conflict |-> FALSE, pkg |-> FALSE,
    late |-> FALSE]

Steps == {"idle", "evaluate", "mark", "cancel", "reorder", "reordered", "stop",
    "stopped", "sync", "synced", "retry", "reserve", "order", "create", "created",
    "prepare", "sign", "gate", "blocked", "submit"}
\* then: what follows an evaluation or a sync.
CallRecord == [pc : Steps, q : 0 .. MaxQuotes, view : Views \cup {NoView},
    then : {"none", "create", "resume", "requoted", "retry"}]
For(pc, q) == [pc |-> pc, q |-> q, view |-> NoView, then |-> "none"]
Idle == For("idle", 0)
AllIdle == [p \in Procs |-> Idle]

TypeOK ==
    /\ camp \in [Campaigns -> CampaignRecord]
    /\ sel \in [Campaigns -> [Quotes -> Views \cup {NoView}]]
    /\ sent \in [Campaigns -> [Quotes -> 0 .. MaxSends]]
    /\ call \in [Campaigns -> [Procs -> CallRecord]]
    /\ pack \in [Campaigns -> {"none", "claim", "working"}]
    /\ booting \in BOOLEAN
    /\ restarts \in 0 .. MaxRestarts

Init ==
    /\ camp = [c \in Campaigns |-> NoCampaign]
    /\ sel = [c \in Campaigns |-> [q \in Quotes |-> NoView]]
    /\ sent = [c \in Campaigns |-> [q \in Quotes |-> 0]]
    /\ call = [c \in Campaigns |-> AllIdle]
    /\ pack = [c \in Campaigns |-> "none"]
    /\ booting = FALSE
    /\ restarts = 0

Cancelling(r) == r.st \in CancellationStates
Asked(r) == r.canc \in {"local", "remote"}
MaySent(r) == r.att \in {"submitting", "submitted", "uncertain"}
Active(r) == r.res \in {"reserved", "prepared", "submitting", "submitted", "uncertain"}
HasReceipt(r) == r.att = "submitted" /\ r.rcpt
Release(r) == [r EXCEPT !.res = "none", !.held = 0]
Suspend(r) == [r EXCEPT !.res = IF @ = "none" THEN @ ELSE "uncertain"]
\* A reservation that must exist: recreated at the prepared total if need be.
Unsettle(r) == [r EXCEPT !.res = "uncertain",
                         !.held = IF r.res = "none" THEN Price + r.fee ELSE @]

-----------------------------------------------------------------------------
(* What the Seller's answers do to a campaign record. *)

Progress == [stop_requested |-> 1, cancelled_unpaid |-> 2,
             refund_review_required |-> 3, cost_review_required |-> 3]

\* A recorded cancellation never steps back or sideways.
KeepsStop(old, new) ==
    old # "none" => /\ new # "none" /\ Progress[new] >= Progress[old]
                    /\ Progress[old] = 3 => new = old

\* The answer for quote q is for the recorded order and loses no cancellation.
Acceptable(r, q, v) == q = r.oq /\ KeepsStop(r.ord.canc, v.canc)

\* Where cancellationResolution leaves a campaign whose order is v.
Resolved(r, v) ==
    LET conflict == v.canc = "cancelled_unpaid" /\ (MaySent(r) \/ r.paid)
        st == IF v.canc = "cancelled_unpaid" /\ ~conflict THEN "cancelled"
              ELSE IF v.canc \in {"refund_review_required", "cost_review_required"}
                   THEN v.canc ELSE "cancellation_pending"
        s == [r EXCEPT !.st = st,
                       !.canc = IF @ = "none" THEN "derived" ELSE @,
                       !.conflict = @ \/ conflict]
    IN IF st = "cancelled" THEN Release(s)
       ELSE IF conflict /\ ~r.paid THEN Unsettle(s) ELSE s

Produced(r, v) ==
    IF Asked(r) THEN Resolved(r, v)
    ELSE IF Delivered(v) THEN [r EXCEPT !.st = IF r.pkg THEN "completed" ELSE "packaging"]
    ELSE IF v.prod = "failed" THEN [r EXCEPT !.st = "fulfillment_failed"]
    ELSE r

\* Paid, but this Buyer holds no matching submission receipt.
OriginUnverified(r, v) ==
    LET s == Suspend([r EXCEPT !.ord = v]) IN
    IF Asked(r) THEN Resolved(s, v)
    ELSE [s EXCEPT !.st = "payment_origin_review_required"]

Committed(r, v) ==
    [r EXCEPT !.ord = v, !.paid = TRUE, !.res = "committed",
              !.held = Price + r.fee, !.psbt = FALSE,
              !.st = IF Delivered(v) THEN "packaging" ELSE "fulfillment"]

\* Mutant: an invoice that ended unpaid always gives the allocation back.
EndedUnpaidReleased(r, v) ==
    [Release([r EXCEPT !.ord = v, !.psbt = FALSE]) EXCEPT
        !.st = IF MaySent(r) THEN "payment_uncertain" ELSE "payment_failed"]

\* The invoice ended unpaid: a payment that may have been sent stays allocated.
EndedUnpaid(r, v) ==
    LET s == [r EXCEPT !.ord = v, !.psbt = FALSE] IN
    IF MaySent(r) THEN [Unsettle(s) EXCEPT !.st = "payment_uncertain", !.conflict = TRUE]
    ELSE [Release(s) EXCEPT !.st = "payment_failed"]

StillOpen(r, v) ==
    [r EXCEPT !.ord = v, !.st = IF @ = "payment_uncertain" THEN @ ELSE "awaiting_payment"]

\* The transaction of syncCampaign for an accepted answer v.
Synced(r, v) ==
    IF Authorized(v) /\ ~HasReceipt(r) /\ ~r.paid THEN OriginUnverified(r, v)
    ELSE IF Authorized(v) THEN Produced(Committed(r, v), v)
    ELSE IF v.pay = "expired" THEN Produced(EndedUnpaid(r, v), v)
    ELSE Produced(StillOpen(r, v), v)

-----------------------------------------------------------------------------
(* Where a call goes on: entries that run up to their first await. *)

\* Mutant: a sync never takes up an unresolved cancellation.
SyncEntryPlain(r) == IF r.ord = NoView THEN Idle ELSE For("sync", r.oq)

\* syncCampaign: an unresolved cancellation asks the Seller to stop instead.
\* nextCheckAt only delays a request.
SyncEntry(r) ==
    IF r.st = "cancellation_pending" /\ ~r.conflict THEN For("cancel", 0)
    ELSE IF r.ord = NoView THEN Idle
    ELSE For("sync", r.oq)

Packaging(r) == r.st \in {"packaging", "packaging_failed"}

\* #execute up to the spend reservation, with the quote it captures.
ExecEntry(r) ==
    IF Cancelling(r) THEN For("cancel", 0)
    ELSE IF r.st = "payment_origin_review_required" \/ Packaging(r) THEN Idle
    ELSE IF \/ r.st \in {"completed", "fulfillment", "payment_submitted", "payment_uncertain"}
            \/ r.st = "awaiting_payment" /\ r.att # "none"
         THEN SyncEntry(r)
    ELSE IF \/ r.quote = 0
            \/ /\ r.st \notin {"decision_ready", "ordering", "order_failed", "spend_blocked"}
               /\ r.ord = NoView
         THEN Idle
    ELSE For("reserve", r.quote)

\* #execute once the order is recorded.
OrderedEntry(r, q) ==
    IF Cancelling(r) THEN For("cancel", 0)
    ELSE IF r.st = "payment_origin_review_required" THEN Idle
    ELSE IF r.att \in {"uncertain", "submitted"} THEN SyncEntry(r)
    ELSE IF r.att = "none" THEN For("prepare", q)
    ELSE For("gate", q)

\* executeCampaign joins a running execution; calls k, campaign record r.
Execution(k, r) == IF k["exec"] = Idle THEN [k EXCEPT !["exec"] = ExecEntry(r)] ELSE k
\* #startCompletion joins a running completion.
Completion(t, r) == IF t = "none" /\ Packaging(r) THEN "claim" ELSE t
\* An execution of a packaging campaign, unless it joins one, starts completion.
Packed(c, r) == IF call[c]["exec"] = Idle THEN Completion(pack[c], r) ELSE pack[c]

\* Mutant: an interrupted submission is executed like any other state.
ResumptionBlind(k, p, r) ==
    IF r.st \in {"completed", "cancelled", "fulfillment_failed",
                 "payment_origin_review_required"} THEN [k EXCEPT ![p] = Idle]
    ELSE IF r.st \in {"analyzing", "decision_failed"}
         THEN [k EXCEPT ![p] = [For("evaluate", 0) EXCEPT !.then = "resume"]]
    ELSE IF Cancelling(r) THEN [k EXCEPT ![p] = For("cancel", 0)]
    ELSE Execution([k EXCEPT ![p] = Idle], r)

\* What resumeCampaign of process p does with record r, the calls being k.
Resumption(k, p, r) ==
    IF r.st \in {"completed", "cancelled", "fulfillment_failed",
                 "payment_origin_review_required"} THEN [k EXCEPT ![p] = Idle]
    ELSE IF r.st = "submitting_payment" THEN [k EXCEPT ![p] = For("mark", 0)]
    ELSE IF r.st \in {"analyzing", "decision_failed"}
         THEN [k EXCEPT ![p] = [For("evaluate", 0) EXCEPT !.then = "resume"]]
    ELSE IF Cancelling(r) THEN [k EXCEPT ![p] = For("cancel", 0)]
    ELSE Execution([k EXCEPT ![p] = Idle], r)

At(c, p, pc) == call[c][p].pc = pc
Move(c, p, k) == call' = [call EXCEPT ![c][p] = k]
Write(c, r) == camp' = [camp EXCEPT ![c] = r]
SellerUnchanged == UNCHANGED <<sel, sent>>
ProcessUnchanged == UNCHANGED <<booting, restarts>>
Exists(c) == camp[c].st # "absent"
Served(c, p, request) ==
    /\ request \in Requests /\ p \in Clients
    /\ ~booting /\ call[c][p] = Idle /\ Exists(c)

-----------------------------------------------------------------------------
(* What clients, the poll timer and the decision engine start. *)

CreateCampaign(c, p) ==
    /\ p \in Clients /\ ~booting /\ ~Exists(c)
    /\ Write(c, [NoCampaign EXCEPT !.st = "analyzing"])
    /\ Move(c, p, [For("evaluate", 0) EXCEPT !.then = "create"])
    /\ UNCHANGED pack /\ SellerUnchanged /\ ProcessUnchanged

ResumeCampaign(c, p) ==
    /\ Served(c, p, "resume")
    /\ call' = [call EXCEPT ![c] = Resumption(@, p, camp[c])]
    /\ pack' = [pack EXCEPT ![c] = Packed(c, camp[c])]
    /\ UNCHANGED camp /\ SellerUnchanged /\ ProcessUnchanged

ExecuteCampaign(c) ==
    /\ "execute" \in Requests /\ ~booting /\ Exists(c)
    /\ call' = [call EXCEPT ![c] = Execution(@, camp[c])]
    /\ pack' = [pack EXCEPT ![c] = Packed(c, camp[c])]
    /\ UNCHANGED camp /\ SellerUnchanged /\ ProcessUnchanged

SyncCampaign(c, p) ==
    /\ Served(c, p, "sync")
    /\ Move(c, p, SyncEntry(camp[c]))
    /\ UNCHANGED <<camp, pack>> /\ SellerUnchanged /\ ProcessUnchanged

CancelCampaign(c, p) ==
    /\ Served(c, p, "cancel")
    /\ Move(c, p, For("cancel", 0))
    /\ UNCHANGED <<camp, pack>> /\ SellerUnchanged /\ ProcessUnchanged

RetryFulfillment(c, p) ==
    /\ Served(c, p, "retry") /\ camp[c].st = "fulfillment_failed" /\ camp[c].ord # NoView
    /\ Move(c, p, [SyncEntry(camp[c]) EXCEPT !.then = "retry"])
    /\ UNCHANGED <<camp, pack>> /\ SellerUnchanged /\ ProcessUnchanged

\* Mutant: polling leaves out submitted payments.
PollSelectsUnsubmitted(r) ==
    /\ r.ord # NoView
    /\ r.st \in {"awaiting_payment", "payment_uncertain", "fulfillment", "packaging",
            "cancellation_pending", "refund_review_required", "cost_review_required"}

\* A cancelled campaign is polled for seven days; see Fairness.
PollSelects(r) ==
    /\ r.ord # NoView
    /\ \/ r.st \in {"awaiting_payment", "payment_submitted", "payment_uncertain",
            "payment_origin_review_required", "fulfillment", "packaging",
            "packaging_failed", "completed", "cancellation_pending",
            "refund_review_required", "cost_review_required"}
       \/ r.st = "cancelled" /\ Asked(r)
    /\ \/ r.ord.pay # "settled"
       \/ r.st \in {"fulfillment", "packaging", "packaging_failed"}

Poll(c) ==
    /\ ~booting /\ call[c]["main"] = Idle
    /\ PollSelects(camp[c])
    /\ Move(c, "main", SyncEntry(camp[c]))
    /\ UNCHANGED <<camp, pack>> /\ SellerUnchanged /\ ProcessUnchanged

\* The caller of an evaluation goes on with the record r it left.
AfterEvaluation(c, p, r) ==
    LET k == [call[c] EXCEPT ![p] = Idle]
        then == call[c][p].then
        run == CASE then = "create" -> r.st = "decision_ready"
                 [] then = "resume" -> ~Cancelling(r)
                 [] OTHER -> r.st = "decision_ready"
    IN IF run /\ then = "requoted"
       THEN [k EXCEPT !["exec"] = [ExecEntry(r) EXCEPT !.then = "requoted"]]
       ELSE IF run THEN Execution(k, r)
       ELSE IF then = "resume" /\ r.st # "cancelled"
            THEN [k EXCEPT ![p] = For("cancel", 0)]
       ELSE k

\* No guard keeps a decision from a campaign that has gone on to pay.
Redecided(r) == [r EXCEPT !.late = @ \/ r.att = "submitting"]

\* The Seller quotes anew for every decision.  The result is written over
\* whatever state the campaign has reached, except a cancellation.
Evaluated(c, p) ==
    /\ At(c, p, "evaluate")
    /\ \E ready \in BOOLEAN :
         LET r == IF Cancelling(camp[c]) THEN camp[c]
                  ELSE IF ready THEN [Redecided(camp[c]) EXCEPT !.st = "decision_ready", !.quote = @ + 1]
                  ELSE [Redecided(camp[c]) EXCEPT !.st = "decision_failed"]
         IN /\ r.quote <= MaxQuotes
            /\ Write(c, r)
            /\ call' = [call EXCEPT ![c] = AfterEvaluation(c, p, r)]
    /\ UNCHANGED pack /\ SellerUnchanged /\ ProcessUnchanged

\* resumeCampaign found a submission in progress; it does not look again.
MarkInterrupted(c, p) ==
    LET r == [camp[c] EXCEPT !.st = "payment_uncertain", !.att = "uncertain"] IN
    /\ At(c, p, "mark") /\ camp[c].att # "none"
    /\ Write(c, r)
    /\ call' = [call EXCEPT ![c] = Execution([@ EXCEPT ![p] = Idle], r)]
    /\ UNCHANGED pack /\ SellerUnchanged /\ ProcessUnchanged

-----------------------------------------------------------------------------
(* cancelCampaign. *)

Final(r) == r.st \in {"completed", "cancelled", "refund_review_required",
                      "cost_review_required"}

\* The first transaction: stop here, or ask the Seller to stop its order.
Cancelled(r) ==
    LET remote == r.canc = "remote" \/ r.st = "ordering" \/ r.ord # NoView
        s == [r EXCEPT !.st = IF remote THEN "cancellation_pending" ELSE "cancelled",
                       !.canc = IF @ # "none" THEN @ ELSE IF remote THEN "remote" ELSE "local",
                       !.psbt = FALSE]
    IN IF Final(r) THEN r ELSE IF remote THEN s ELSE Release(s)

CancelEntry(r) ==
    IF r.st \in {"cancelled", "refund_review_required", "cost_review_required"} THEN Idle
    ELSE IF r.ord # NoView THEN For("stop", r.oq)
    ELSE IF r.quote # 0 THEN For("reorder", r.quote)
    ELSE Idle

RequestCancellation(c, p) ==
    LET r == Cancelled(camp[c]) IN
    /\ At(c, p, "cancel")
    /\ Write(c, r)
    /\ Move(c, p, CancelEntry(r))
    /\ UNCHANGED pack /\ SellerUnchanged /\ ProcessUnchanged

\* The original order again, by its idempotency key.
RecordReordered(c, p) ==
    LET k == call[c][p] IN
    /\ At(c, p, "reordered")
    /\ IF camp[c].ord = NoView \/ camp[c].oq = k.q
       THEN /\ Write(c, [camp[c] EXCEPT !.ord = k.view, !.oq = k.q])
            /\ Move(c, p, For("cancel", 0))
       ELSE /\ UNCHANGED camp
            /\ Move(c, p, Idle)
    /\ UNCHANGED pack /\ SellerUnchanged /\ ProcessUnchanged

RecordStopped(c, p) ==
    LET k == call[c][p]
        r == Resolved([camp[c] EXCEPT !.ord = k.view], k.view)
    IN /\ At(c, p, "stopped")
       /\ IF Acceptable(camp[c], k.q, k.view)
          THEN /\ Write(c, r)
               /\ Move(c, p, IF Final(r) /\ r.st # "cancelled" THEN SyncEntry(r) ELSE Idle)
          ELSE /\ UNCHANGED camp
               /\ Move(c, p, Idle)
       /\ UNCHANGED pack /\ SellerUnchanged /\ ProcessUnchanged

-----------------------------------------------------------------------------
(* syncCampaign, retryFulfillment and the completion task. *)

RecordSynced(c, p) ==
    LET k == call[c][p]
        r == Synced(camp[c], k.view)
        retry == k.then = "retry" /\ r.st = "fulfillment_failed" /\ k.view.prod = "failed"
    IN /\ At(c, p, "synced")
       /\ IF Acceptable(camp[c], k.q, k.view)
          THEN /\ Write(c, r)
               /\ pack' = [pack EXCEPT ![c] =
                       IF r.st = "packaging" THEN Completion(@, r) ELSE @]
               /\ \E next \in {Idle} \cup (IF retry THEN {For("retry", r.oq)} ELSE {}) :
                    Move(c, p, next)
          ELSE /\ UNCHANGED <<camp, pack>>
               /\ Move(c, p, Idle)
       /\ SellerUnchanged /\ ProcessUnchanged

ClaimCompletion(c) ==
    /\ pack[c] = "claim"
    /\ IF Packaging(camp[c])
       THEN /\ Write(c, [camp[c] EXCEPT !.st = "packaging"])
            /\ pack' = [pack EXCEPT ![c] = "working"]
       ELSE /\ UNCHANGED camp
            /\ pack' = [pack EXCEPT ![c] = "none"]
    /\ UNCHANGED call /\ SellerUnchanged /\ ProcessUnchanged

CompletionEnds(c) ==
    /\ pack[c] = "working"
    /\ \E made \in BOOLEAN :
         Write(c, [camp[c] EXCEPT
             !.pkg = @ \/ made,
             !.st = IF Asked(camp[c]) THEN @
                    ELSE IF made THEN "completed" ELSE "packaging_failed"])
    /\ pack' = [pack EXCEPT ![c] = "none"]
    /\ UNCHANGED call /\ SellerUnchanged /\ ProcessUnchanged

-----------------------------------------------------------------------------
(* The execution: reserve, order, sign, pass the gate, submit once. *)

\* Mutant: only reservations that reached the wallet count against the limits.
HoldingSent(c) == {d \in Campaigns \ {c} : camp[d].res \in {"submitted", "uncertain"}}

\* What the other campaigns hold and what all have spent.
Holding(c) == {d \in Campaigns \ {c} : Active(camp[d])}
HeldOf(d) == camp[d].held
Spent == MapThenSumSet(HeldOf, {d \in Campaigns : camp[d].paid})
Fits(c, total) ==
    /\ MapThenSumSet(HeldOf, Holding(c)) + Spent + total <= Limit
    /\ Cardinality(Holding(c)) < MaxPending

\* Before the reservation: the policy cannot be loaded, the quote exceeds it or
\* the hard deadline can no longer be met.
NotExecutable(c) ==
    /\ At(c, "exec", "reserve")
    /\ Move(c, "exec", Idle)
    /\ UNCHANGED <<camp, pack>> /\ SellerUnchanged /\ ProcessUnchanged

\* Mutant: every execution orders anew.
ReserveAndOrder(c) ==
    LET r == camp[c] IN
    /\ At(c, "exec", "reserve") /\ ~Cancelling(r)
    /\ \/ (Active(r) \/ r.paid) /\ UNCHANGED camp
       \/ /\ ~Active(r) /\ ~r.paid /\ Fits(c, Price + Allowance)
          /\ Write(c, [r EXCEPT !.res = "reserved", !.held = Price + Allowance])
    /\ call' = [call EXCEPT ![c]["exec"].pc = "order"]
    /\ UNCHANGED pack /\ SellerUnchanged /\ ProcessUnchanged

ReserveSpend(c) ==
    LET r == camp[c] IN
    /\ At(c, "exec", "reserve")
    /\ \/ /\ Cancelling(r)
          /\ Move(c, "exec", For("cancel", 0)) /\ UNCHANGED camp
       \/ /\ ~Cancelling(r)
          /\ \/ (Active(r) \/ r.paid) /\ UNCHANGED camp
             \/ /\ ~Active(r) /\ ~r.paid /\ Fits(c, Price + Allowance)
                /\ Write(c, [r EXCEPT !.res = "reserved", !.held = Price + Allowance])
          /\ call' = [call EXCEPT ![c]["exec"] =
                IF r.ord = NoView THEN [@ EXCEPT !.pc = "order"]
                ELSE OrderedEntry(r, @.q)]
    /\ UNCHANGED pack /\ SellerUnchanged /\ ProcessUnchanged

\* Payments may be disabled, and daily or campaign limits exceeded, at any time.
ReservationRefused(c) ==
    /\ At(c, "exec", "reserve") /\ ~Cancelling(camp[c])
    /\ Write(c, [camp[c] EXCEPT !.st = "spend_blocked"])
    /\ Move(c, "exec", Idle)
    /\ UNCHANGED pack /\ SellerUnchanged /\ ProcessUnchanged

BeginOrder(c) ==
    /\ At(c, "exec", "order")
    /\ IF Cancelling(camp[c])
       THEN UNCHANGED camp /\ Move(c, "exec", For("cancel", 0))
       ELSE /\ Write(c, [camp[c] EXCEPT !.st = "ordering"])
            /\ call' = [call EXCEPT ![c]["exec"].pc = "create"]
    /\ UNCHANGED pack /\ SellerUnchanged /\ ProcessUnchanged

RecordOrder(c) ==
    LET k == call[c]["exec"]
        linked == [camp[c] EXCEPT !.ord = k.view, !.oq = k.q]
        r == IF Cancelling(linked) THEN linked
             ELSE IF Authorized(k.view)
             THEN [linked EXCEPT !.st = "payment_origin_review_required", !.res = "uncertain"]
             ELSE [linked EXCEPT !.st = "awaiting_payment"]
    IN /\ At(c, "exec", "created")
       /\ Write(c, r)
       /\ Move(c, "exec", OrderedEntry(r, k.q))
       /\ UNCHANGED pack /\ SellerUnchanged /\ ProcessUnchanged

\* The answer to createOrder is lost or refused: an invoice may exist.
OrderFails(c) ==
    /\ At(c, "exec", "create")
    /\ Write(c, IF Cancelling(camp[c]) THEN camp[c]
                ELSE [Suspend(camp[c]) EXCEPT !.st = "order_failed"])
    /\ Move(c, "exec", Idle)
    /\ UNCHANGED pack /\ SellerUnchanged /\ ProcessUnchanged

\* quote_expired proves that no invoice was issued; a new decision, once.
QuoteExpired(c) ==
    LET k == call[c]["exec"] IN
    /\ At(c, "exec", "create") /\ sel[c][k.q] = NoView
    /\ Write(c, IF Cancelling(camp[c]) THEN camp[c]
                ELSE [Release(camp[c]) EXCEPT !.st = "order_failed"])
    /\ Move(c, "exec", IF Cancelling(camp[c]) \/ k.then = "requoted" THEN Idle
                       ELSE [For("evaluate", 0) EXCEPT !.then = "requoted"])
    /\ UNCHANGED pack /\ SellerUnchanged /\ ProcessUnchanged

BeginSigning(c) ==
    /\ At(c, "exec", "prepare")
    /\ IF Cancelling(camp[c])
       THEN UNCHANGED camp /\ Move(c, "exec", For("cancel", 0))
       ELSE /\ Write(c, [camp[c] EXCEPT !.st = "signing"])
            /\ call' = [call EXCEPT ![c]["exec"].pc = "sign"]
    /\ UNCHANGED pack /\ SellerUnchanged /\ ProcessUnchanged

\* Mutant: what was signed is recorded without looking at the cancellation.
RecordSignedAnyway(c) ==
    /\ At(c, "exec", "sign")
    /\ \E fee \in 0 .. Allowance :
         LET r == [camp[c] EXCEPT !.res = "prepared", !.held = Price + fee,
                           !.fee = fee, !.att = "prepared", !.psbt = TRUE, !.rcpt = FALSE]
         IN /\ Write(c, r)
            /\ Move(c, "exec", IF Cancelling(r) THEN For("cancel", 0)
                    ELSE For("gate", call[c]["exec"].q))
    /\ UNCHANGED pack /\ SellerUnchanged /\ ProcessUnchanged

\* The signed payment replaces the reservation, whatever became of that.
RecordSigned(c) ==
    /\ At(c, "exec", "sign")
    /\ \E fee \in 0 .. Allowance :
         LET r == IF Cancelling(camp[c]) THEN camp[c]
                  ELSE [camp[c] EXCEPT !.res = "prepared", !.held = Price + fee,
                           !.fee = fee, !.att = "prepared", !.psbt = TRUE, !.rcpt = FALSE]
         IN /\ Write(c, r)
            /\ Move(c, "exec", IF Cancelling(r) THEN For("cancel", 0)
                    ELSE For("gate", call[c]["exec"].q))
    /\ UNCHANGED pack /\ SellerUnchanged /\ ProcessUnchanged

SigningFails(c) ==
    /\ At(c, "exec", "sign")
    /\ \E st \in {"spend_blocked", "payment_preparation_failed"} :
         Write(c, IF Cancelling(camp[c]) THEN camp[c]
                  ELSE [Release(camp[c]) EXCEPT !.st = st])
    /\ Move(c, "exec", Idle)
    /\ UNCHANGED pack /\ SellerUnchanged /\ ProcessUnchanged

\* Mutant: the cancellation is not looked at again before submission.
SubmitUngated(c) ==
    LET total == Price + camp[c].fee IN
    /\ At(c, "exec", "gate") /\ Fits(c, total) /\ sent[c][camp[c].oq] < MaxSends
    /\ Write(c, [camp[c] EXCEPT !.st = "submitting_payment", !.att = "submitting",
                                !.res = "submitting", !.held = total])
    /\ sent' = [sent EXCEPT ![c][camp[c].oq] = @ + 1]
    /\ call' = [call EXCEPT ![c]["exec"].pc = "submit"]
    /\ UNCHANGED <<sel, pack>> /\ ProcessUnchanged

\* The submission gate: cancellation, policy and limits once more, then the one
\* call of submitPrepared.
Submit(c) ==
    LET r == camp[c]
        total == Price + r.fee
    IN /\ At(c, "exec", "gate")
       /\ \/ /\ Cancelling(r)
             /\ Move(c, "exec", For("cancel", 0)) /\ UNCHANGED <<camp, sent>>
          \/ /\ ~Cancelling(r) /\ Fits(c, total) /\ sent[c][r.oq] < MaxSends
             /\ Write(c, [r EXCEPT !.st = "submitting_payment", !.att = "submitting",
                                   !.res = "submitting", !.held = total])
             /\ sent' = [sent EXCEPT ![c][r.oq] = @ + 1]
             /\ call' = [call EXCEPT ![c]["exec"].pc = "submit"]
       /\ UNCHANGED <<sel, pack>> /\ ProcessUnchanged

GateRefuses(c) ==
    /\ At(c, "exec", "gate") /\ ~Cancelling(camp[c])
    /\ call' = [call EXCEPT ![c]["exec"].pc = "blocked"]
    /\ UNCHANGED <<camp, pack>> /\ SellerUnchanged /\ ProcessUnchanged

DiscardAttempt(c) ==
    /\ At(c, "exec", "blocked")
    /\ Write(c, IF Cancelling(camp[c]) THEN camp[c]
                ELSE [Release(camp[c]) EXCEPT !.st = "spend_blocked", !.psbt = FALSE,
                                              !.att = "none", !.fee = 0])
    /\ Move(c, "exec", Idle)
    /\ UNCHANGED pack /\ SellerUnchanged /\ ProcessUnchanged

Outcome(r, att, st) ==
    [r EXCEPT !.att = att, !.res = att, !.st = IF Cancelling(r) THEN @ ELSE st]

\* Both end in a sync.  The signing material goes with the receipt only.
RecordReceipt(c) ==
    LET r == [Outcome(camp[c], "submitted", "payment_submitted")
                EXCEPT !.rcpt = TRUE, !.psbt = FALSE] IN
    /\ At(c, "exec", "submit")
    /\ Write(c, r)
    /\ Move(c, "exec", SyncEntry(r))
    /\ UNCHANGED pack /\ SellerUnchanged /\ ProcessUnchanged

SubmissionUncertain(c) ==
    LET r == Outcome(camp[c], "uncertain", "payment_uncertain") IN
    /\ At(c, "exec", "submit")
    /\ Write(c, r)
    /\ Move(c, "exec", SyncEntry(r))
    /\ UNCHANGED pack /\ SellerUnchanged /\ ProcessUnchanged

-----------------------------------------------------------------------------
(* The Seller, as the Buyer's requests meet it. *)

Put(c, q, v) == sel' = [sel EXCEPT ![c][q] = v]
Answered(c, p, pc, v) == call' = [call EXCEPT ![c][p] = [@ EXCEPT !.pc = pc, !.view = v]]

\* createOrder is idempotent and its answer may be lost; an expired invoice is
\* refused by validateSellerOrder, as is any order that differs from its quote.
OrderAnswered(c, p) ==
    LET q == call[c][p].q
        v == IF sel[c][q] = NoView THEN Opened ELSE sel[c][q]
    IN /\ call[c][p].pc \in {"create", "reorder"}
       /\ Put(c, q, v)
       /\ \/ v.pay # "expired"
             /\ Answered(c, p, IF At(c, p, "create") THEN "created" ELSE "reordered", v)
          \/ UNCHANGED call
       /\ UNCHANGED <<camp, sent, pack>> /\ ProcessUnchanged

Reviewed(v) ==
    IF v.canc = "stop_requested" /\ Authorized(v)
    THEN [v EXCEPT !.canc = "refund_review_required"]
    ELSE IF v.canc = "stop_requested" /\ v.pay = "expired"
    THEN [v EXCEPT !.canc = "cancelled_unpaid"]
    ELSE v

\* A stop is durable even if the reconciliation that follows it fails.
StopAnswered(c, p) ==
    LET q == call[c][p].q
        v == sel[c][q]
        stop == IF v.canc # "none" THEN v
                ELSE [v EXCEPT !.canc = IF v.prod = "idle" THEN "stop_requested"
                                        ELSE "cost_review_required"]
    IN /\ At(c, p, "stop")
       /\ \/ Put(c, q, Reviewed(stop)) /\ Answered(c, p, "stopped", Reviewed(stop))
          \/ Put(c, q, stop) /\ Move(c, p, Idle)
       /\ UNCHANGED <<camp, sent, pack>> /\ ProcessUnchanged

SyncAnswered(c, p) ==
    /\ At(c, p, "sync")
    /\ Answered(c, p, "synced", sel[c][call[c][p].q])
    /\ UNCHANGED <<camp, pack>> /\ SellerUnchanged /\ ProcessUnchanged

RetryAnswered(c, p) ==
    LET q == call[c][p].q IN
    /\ At(c, p, "retry")
    /\ sel[c][q].prod = "failed" /\ sel[c][q].canc = "none"
    /\ Put(c, q, [sel[c][q] EXCEPT !.prod = "idle"])
    /\ Move(c, p, SyncEntry(camp[c]))
    /\ UNCHANGED <<camp, sent, pack>> /\ ProcessUnchanged

RequestFails(c, p) ==
    /\ call[c][p].pc \in {"reorder", "stop", "sync", "retry"}
    /\ Move(c, p, Idle)
    /\ UNCHANGED <<camp, pack>> /\ SellerUnchanged /\ ProcessUnchanged

\* What the Seller's order does by itself; see SellerOrders.
SellerMoves(v, payable) ==
    {Reviewed([v EXCEPT !.pay = pay]) :
        pay \in IF v.pay = "initiated" THEN {"expired"} \cup (IF payable THEN {"paid"} ELSE {})
                ELSE IF v.pay = "expired" /\ payable THEN {"paid"}
                ELSE IF v.pay = "paid" /\ Settles THEN {"settled"} ELSE {}}
    \cup {[v EXCEPT !.prod = prod] :
        prod \in IF v.prod = "started" THEN {"completed", "failed"}
                 ELSE IF v.prod = "idle" /\ v.canc = "none" /\ Authorized(v)
                 THEN {"started"} ELSE {}}

\* An invoice paid after its unpaid cancellation needs a refund review.
LatePayment(v) == IF v.canc = "cancelled_unpaid" /\ Authorized(v)
                  THEN [v EXCEPT !.canc = "refund_review_required"] ELSE v

\* A sync of the Buyer makes the Seller reconcile an open stop.
SellerReconciles(c, q) ==
    /\ sel[c][q] # Reviewed(sel[c][q])
    /\ Put(c, q, Reviewed(sel[c][q]))
    /\ UNCHANGED <<camp, sent, call, pack>> /\ ProcessUnchanged

SellerProceeds(c, q) ==
    LET v == sel[c][q] IN
    /\ v # NoView
    /\ \E w \in SellerMoves(v, sent[c][q] > 0 \/ ExternalPayer) :
         w # v /\ Put(c, q, LatePayment(w))
    /\ UNCHANGED <<camp, sent, call, pack>> /\ ProcessUnchanged

-----------------------------------------------------------------------------
(* A crash loses calls and completions; recover() resumes what it finds, and
   neither requests nor polling start before those resumptions have ended. *)

Recoverable(r) == r.st \notin {"absent", "completed", "cancelled", "fulfillment_failed"}

Restart ==
    /\ restarts < MaxRestarts
    /\ restarts' = restarts + 1
    /\ booting' = TRUE
    /\ call' = [c \in Campaigns |-> IF Recoverable(camp[c])
            THEN Resumption(AllIdle, "main", camp[c]) ELSE AllIdle]
    /\ pack' = [c \in Campaigns |-> IF Recoverable(camp[c])
            THEN Completion("none", camp[c]) ELSE "none"]
    /\ UNCHANGED camp /\ SellerUnchanged

FinishBoot ==
    /\ booting
    /\ \A c \in Campaigns : call[c] = AllIdle /\ pack[c] = "none"
    /\ booting' = FALSE
    /\ UNCHANGED <<camp, call, pack, restarts>> /\ SellerUnchanged

CallStep(c, p) ==
    \/ Evaluated(c, p) \/ MarkInterrupted(c, p)
    \/ RequestCancellation(c, p) \/ RecordReordered(c, p) \/ RecordStopped(c, p)
    \/ RecordSynced(c, p)

ClientStep(c, p) ==
    \/ CreateCampaign(c, p) \/ ResumeCampaign(c, p) \/ SyncCampaign(c, p)
    \/ CancelCampaign(c, p) \/ RetryFulfillment(c, p)

AnswerStep(c, p) ==
    \/ OrderAnswered(c, p) \/ StopAnswered(c, p) \/ SyncAnswered(c, p)
    \/ RetryAnswered(c, p) \/ RequestFails(c, p)

ExecStep(c) ==
    \/ NotExecutable(c) \/ ReserveSpend(c) \/ ReservationRefused(c) \/ BeginOrder(c)
    \/ RecordOrder(c) \/ OrderFails(c) \/ QuoteExpired(c) \/ BeginSigning(c)
    \/ RecordSigned(c) \/ SigningFails(c) \/ Submit(c) \/ GateRefuses(c)
    \/ DiscardAttempt(c) \/ RecordReceipt(c) \/ SubmissionUncertain(c)

Next ==
    \/ \E c \in Campaigns :
          \/ \E p \in Procs : CallStep(c, p) \/ ClientStep(c, p) \/ AnswerStep(c, p)
          \/ ExecStep(c)
          \/ ExecuteCampaign(c) \/ Poll(c) \/ ClaimCompletion(c) \/ CompletionEnds(c)
          \/ \E q \in Quotes : SellerProceeds(c, q) \/ SellerReconciles(c, q)
    \/ Restart \/ FinishBoot

Spec == Init /\ [][Next]_vars

\* The poll timer fires for ever, though it leaves a cancelled campaign after
\* seven days; continuations run; the poll timer's requests may fail, but not
\* always; the completer and the Seller's reconciliation end.  Nobody else
\* promises anything.
Fairness ==
    /\ WF_vars(FinishBoot)
    /\ \A c \in Campaigns :
          /\ WF_vars(Poll(c) /\ camp[c].st # "cancelled")
          /\ WF_vars(ExecStep(c)) /\ WF_vars(ClaimCompletion(c)) /\ WF_vars(CompletionEnds(c))
          /\ \A q \in Quotes : WF_vars(SellerReconciles(c, q))
          /\ \A p \in Procs : WF_vars(CallStep(c, p) \/ AnswerStep(c, p))
          /\ SF_vars(SyncAnswered(c, "main"))
          /\ SF_vars(StopAnswered(c, "main") /\ call'[c]["main"].pc = "stopped")
FairSpec == Spec /\ Fairness

-----------------------------------------------------------------------------
(* Safety. *)

Unsent(c) == \A q \in Quotes : sent[c][q] = 0

SubmittedOnce(c) == \A q \in Quotes :
    /\ sent[c][q] <= 1
    /\ \A r \in Quotes : sent[c][q] > 0 /\ sent[c][r] > 0 => q = r

\* One campaign pays one order once: whatever crashes, cancellations, repeated
\* requests and lost answers come between, submitPrepared is called at most once
\* (buyer-service.mjs:1017; docs/SECURITY.md:29 "A `submitting_payment` restart becomes
\* `payment_uncertain` and only status reconciliation is allowed").
SentOnce == \A c \in Campaigns : SubmittedOnce(c)

\* Only what a late decision has touched may have been submitted otherwise than its
\* record says: resumptions and evaluations that overlap, requoting, cancellation and
\* crashes never lead to a second submitPrepared (buyer-service.mjs 696-748, 1017).
OneSubmission == \A c \in Campaigns : camp[c].late \/ SubmittedOnce(c)

\* A payment that may have left the wallet keeps its part of the allocation until
\* it is booked (583-586, 1043): no path releases it to another purchase.
ReservationKept == \A c \in Campaigns :
    MaySent(camp[c]) /\ ~camp[c].paid => Active(camp[c])

\* A campaign closed as unpaid never called submitPrepared, unless a late decision
\* had touched it (580-604, 167-204).
ClosedMeansUnsent == \A c \in Campaigns :
    camp[c].st \in {"cancelled", "payment_failed"} => camp[c].late \/ Unsent(c)

\* A cancelled campaign holds no allocation, and one that is being cancelled or is
\* booked no signed material, though its execution may still be about to reserve,
\* sign or record when the cancellation commits (60-67, 203, 341, 349, 537, 929).
CancelledHoldsNothing == \A c \in Campaigns :
    /\ camp[c].st = "cancelled" => camp[c].res = "none"
    /\ Asked(camp[c]) \/ camp[c].paid => ~camp[c].psbt

\* What the record of a campaign says and what its wallet did agree.
RecordsConsistent == TypeOK /\ ClosedMeansUnsent /\ CancelledHoldsNothing

\* A debit is booked only for an order this Buyer itself paid (497-521), and no
\* later answer, however late, gives the booked amount back.
BookedIsOwn == \A c \in Campaigns : camp[c].paid =>
    /\ camp[c].rcpt /\ sent[c][camp[c].oq] > 0
    /\ camp[c].res = "committed" \/ Active(camp[c])

DebitOf(c) == Price + camp[c].fee

\* Once a cancellation is committed, no execution already under way submits: the
\* gate is in the same store as the cancellation (980, 334).
NoSubmitAfterCancel ==
    [][\A c \in Campaigns : sent'[c] # sent[c] => ~Asked(camp[c]) /\ ~Cancelling(camp[c])]_vars

\* The invoice a campaign paid is the order it has on record: requoting and a
\* cancellation's own order never leave a paid order behind (873, 361-363).
PaidOrderOnRecord == \A c \in Campaigns : \A q \in Quotes :
    sent[c][q] > 0 => camp[c].oq = q

\* Both, under overlapping evaluations, a second quote and a stranger who may pay.
PaidIsOnRecord == PaidOrderOnRecord /\ BookedIsOwn

-----------------------------------------------------------------------------
(* Liveness, under FairSpec. *)

SellersOrder(c) == IF camp[c].oq = 0 THEN NoView ELSE sel[c][camp[c].oq]

\* A payment the Buyer has a receipt for and the Seller reports as authorized is
\* booked, whatever stops or failing requests come in between; only a resumption
\* that marks the submission as interrupted takes the receipt's force (666-681).
PaymentAccounted == \A c \in Campaigns :
    HasReceipt(camp[c]) /\ Authorized(SellersOrder(c))
        ~> camp[c].paid \/ ~HasReceipt(camp[c])

\* A cancellation that waits for a recorded order ends once its invoice is decided,
\* or is put down as conflicting with a submission (167-204, 468-476).
CancellationReconciled == \A c \in Campaigns :
    (/\ camp[c].st = "cancellation_pending" /\ camp[c].ord # NoView
     /\ SellersOrder(c).pay # "initiated")
        ~> camp[c].st # "cancellation_pending" \/ camp[c].conflict

\* Paid and delivered work reaches packaging, and packaging ends (621-640, 1056).
DeliveryPackaged == \A c \in Campaigns :
    camp[c].paid /\ Delivered(SellersOrder(c))
        ~> \/ camp[c].pkg \/ Asked(camp[c])
           \/ camp[c].st \in {"packaging_failed", "fulfillment_failed"}

\* Both: no campaign is left waiting for what has already been decided or delivered.
CampaignsResolve == CancellationReconciled /\ DeliveryPackaged
=============================================================================
