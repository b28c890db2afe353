------------------------ MODULE SellerOrders_proofs ------------------------
(***************************************************************************)
(* Proofs about SellerOrders, for every set of orders and clients and      *)
(* every value of the bounds.                                              *)
(***************************************************************************)
EXTENDS SellerOrders, FiniteSetTheorems, TLAPS

\* An invoice is linked once, and only then may it be asked about.
Linked(o) ==
    /\ ptask[o] # "none" => order[o].pay = "null"
    /\ ptask[o] \in Views => remote[o] # "absent"
    /\ order[o].pay # "null" => remote[o] # "absent"
    /\ ~Exists(o) => order[o].pay = "null" /\ order[o].canc = "none"
    /\ \A c \in Callers :
        /\ slot[o][c].pc # "idle" => order[o].pay # "null"
        /\ slot[o][c].pc = "answered" => slot[o][c].view \in Views

\* What authorization and cancellation owe each other.
Gated(o) ==
    /\ order[o].prod \in {"queued", "producing", "completed", "failed"}
        => Authorized(order[o].pay)
    /\ task[o].pc \notin {"none", "claim"} => Authorized(order[o].pay)
    /\ order[o].canc \in {"refund_review_required", "cost_review_required"}
        => Authorized(order[o].pay)
    /\ order[o].canc = "cancelled_unpaid" => ~Authorized(order[o].pay)
    /\ order[o].pay = "null" => order[o].canc \in {"none", "stop_requested"}

\* A recorded build id, and a task about to record one, have a receipt.
Marked(o) ==
    /\ order[o].build => HasReceipt(o)
    /\ task[o].pc = "record" => HasReceipt(o)
    /\ task[o].pc = "approved" => job[o] = "fresh"
    /\ task[o].pc = "building" => job[o] = "attempted"

\* The inductive invariant.
IInv == /\ TypeOK
        /\ \A o \in Orders : Linked(o)
        /\ \A o \in Orders : Gated(o)
        /\ \A o \in Orders : Marked(o)

LEMMA InitIInv == Init => IInv
<1> SUFFICES ASSUME Init PROVE IInv
  OBVIOUS
<1>1. NoOrder \in OrderRecord /\ NoTask \in TaskRecord /\ Idle \in SlotRecord
  BY DEF NoOrder, NoTask, At, Idle, OrderRecord, TaskRecord, TaskSteps, SlotRecord,
         OrderStates, Cancellations, Productions
<1>2. TypeOK
  BY <1>1, SellerAssumption DEF Init, TypeOK, Jobs
<1>3. ASSUME NEW o \in Orders PROVE Linked(o) /\ Gated(o) /\ Marked(o)
  BY <1>3 DEF Init, Linked, Gated, Marked, Exists, NoOrder, NoTask, At, Idle, Views
<1> QED
  BY <1>2, <1>3 DEF IInv

-----------------------------------------------------------------------------
(* What an answer v does to an order record r. *)

LEMMA EndUnpaidRecord ==
  ASSUME NEW r \in OrderRecord
  PROVE  /\ EndUnpaid(r) \in OrderRecord
         /\ EndUnpaid(r).pay = r.pay /\ EndUnpaid(r).build = r.build
         /\ EndUnpaid(r).prod = r.prod /\ EndUnpaid(r).st # "absent"
         /\ EndUnpaid(r).canc = IF r.canc = "stop_requested" THEN "cancelled_unpaid" ELSE r.canc
  BY DEF EndUnpaid, OrderRecord, OrderStates, Cancellations

LEMMA StopForRefundRecord ==
  ASSUME NEW r \in OrderRecord
  PROVE  /\ StopForRefund(r) \in OrderRecord
         /\ StopForRefund(r).pay = r.pay /\ StopForRefund(r).build = r.build
         /\ StopForRefund(r).prod = r.prod /\ StopForRefund(r).st # "absent"
         /\ StopForRefund(r).canc = "refund_review_required"
  BY DEF StopForRefund, OrderRecord, OrderStates, Cancellations

LEMMA AuthorizeRecord ==
  ASSUME NEW r \in OrderRecord
  PROVE  /\ Authorize(r) \in OrderRecord /\ Authorize(r).st # "absent"
         /\ Authorize(r).pay = r.pay /\ Authorize(r).build = r.build
         /\ Authorize(r).canc = IF r.canc \in {"stop_requested", "cancelled_unpaid"}
                                THEN "refund_review_required" ELSE r.canc
<1>1. CASE r.canc \in {"stop_requested", "cancelled_unpaid"}
  <2>1. [StopForRefund(r) EXCEPT !.prod = "stopped"] \in OrderRecord
    BY StopForRefundRecord DEF OrderRecord, Productions
  <2> QED
    BY <1>1, <2>1, StopForRefundRecord DEF Authorize, OrderRecord
<1>2. CASE r.canc = "cost_review_required"
  BY <1>2 DEF Authorize, OrderRecord, OrderStates
<1>3. CASE r.canc \notin {"stop_requested", "cancelled_unpaid", "cost_review_required"}
  BY <1>3 DEF Authorize, OrderRecord, OrderStates, Productions
<1> QED
  BY <1>1, <1>2, <1>3

LEMMA ReconciledRecord ==
  ASSUME NEW r \in OrderRecord, NEW v \in Views
  PROVE  /\ Reconciled(r, v) \in OrderRecord
         /\ Reconciled(r, v).pay = v
         /\ Reconciled(r, v).build = r.build
         /\ r.st # "absent" => Reconciled(r, v).st # "absent"
<1> DEFINE seen == [r EXCEPT !.pay = v]
<1>1. /\ seen \in OrderRecord /\ seen.pay = v
      /\ seen.build = r.build /\ seen.st = r.st
  BY DEF OrderRecord
<1>2. Reconciled(r, v) \in {EndUnpaid(seen), Authorize(seen), StopForRefund(seen), seen}
  BY DEF Reconciled
<1> HIDE DEF seen
<1> QED
  BY <1>1, <1>2, EndUnpaidRecord, AuthorizeRecord, StopForRefundRecord

LEMMA ReconciledCancellation ==
  ASSUME NEW r \in OrderRecord, NEW v \in Views
  PROVE  \/ Reconciled(r, v).canc = r.canc
         \/ /\ r.canc = "stop_requested"
            /\ Reconciled(r, v).canc \in {"cancelled_unpaid", "refund_review_required"}
         \/ /\ r.canc = "cancelled_unpaid"
            /\ Reconciled(r, v).canc = "refund_review_required"
<1> DEFINE seen == [r EXCEPT !.pay = v]
<1>1. seen \in OrderRecord /\ seen.canc = r.canc
  BY DEF OrderRecord
<1>2. \/ Reconciled(r, v) \in {EndUnpaid(seen), Authorize(seen), seen}
      \/ r.canc = "stop_requested" /\ Reconciled(r, v) = StopForRefund(seen)
  BY DEF Reconciled
<1> HIDE DEF seen
<1> QED
  BY <1>1, <1>2, EndUnpaidRecord, AuthorizeRecord, StopForRefundRecord

\* The part of Gated that is about the record alone.
Sound(r) ==
    /\ r.prod \in {"queued", "producing", "completed", "failed"} => Authorized(r.pay)
    /\ r.canc \in {"refund_review_required", "cost_review_required"} => Authorized(r.pay)
    /\ r.canc = "cancelled_unpaid" => ~Authorized(r.pay)

LEMMA ReconciledSound ==
  ASSUME NEW r \in OrderRecord, NEW v \in Views, Sound(r),
         Authorized(r.pay) => Authorized(v)
  PROVE  Sound(Reconciled(r, v))
<1> DEFINE seen == [r EXCEPT !.pay = v]
<1>1. /\ seen \in OrderRecord /\ seen.pay = v
      /\ seen.prod = r.prod /\ seen.canc = r.canc
  BY DEF OrderRecord
<1>2. Authorized("expired") = FALSE
  BY DEF Authorized
<1>3. CASE ~Authorized(r.pay) /\ v = "expired"
  <2>1. Reconciled(r, v) = EndUnpaid(seen)
    BY <1>3 DEF Reconciled
  <2> HIDE DEF seen
  <2> QED
    BY <1>1, <1>2, <1>3, <2>1, EndUnpaidRecord DEF Sound
<1>4. CASE ~Authorized(r.pay) /\ v # "expired" /\ Authorized(v)
  <2>1. Reconciled(r, v) = Authorize(seen)
    BY <1>4 DEF Reconciled
  <2> HIDE DEF seen
  <2> QED
    BY <1>1, <1>4, <2>1, AuthorizeRecord DEF Sound
<1>5. CASE Authorized(r.pay) /\ r.canc = "stop_requested"
  <2>1. Reconciled(r, v) = StopForRefund(seen)
    BY <1>5 DEF Reconciled
  <2> HIDE DEF seen
  <2> QED
    BY <1>1, <1>5, <2>1, StopForRefundRecord DEF Sound
<1>6. CASE \/ Authorized(r.pay) /\ r.canc # "stop_requested"
           \/ ~Authorized(r.pay) /\ v # "expired" /\ ~Authorized(v)
  <2>1. Reconciled(r, v) = seen
    BY <1>6 DEF Reconciled
  <2> HIDE DEF seen
  <2> QED
    BY <1>1, <1>6, <2>1 DEF Sound
<1> QED
  BY <1>3, <1>4, <1>5, <1>6

LEMMA CreateOrderKeeps ==
  ASSUME IInv, NEW o \in Orders, CreateOrder(o)
  PROVE  IInv'
<1>1. order[o] \in OrderRecord
  BY DEF IInv, TypeOK
<1>2. [order[o] EXCEPT !.st = "creating_payment"]
        \in OrderRecord
  BY <1>1 DEF OrderRecord, OrderStates
<1> USE DEF IInv
<1>3. TypeOK'
  BY <1>2 DEF TypeOK, CreateOrder, bounds, TaskRecord, SlotRecord, TaskSteps, Views,
       Jobs, Errors
<1>4. ASSUME NEW p \in Orders PROVE Linked(p)'
  BY DEF TypeOK, CreateOrder, bounds, Linked, Exists, Views, OrderRecord
<1>5. ASSUME NEW p \in Orders PROVE Gated(p)'
  BY DEF TypeOK, CreateOrder, bounds, Gated, Linked, Authorized, OrderRecord, Views,
       Productions
<1>6. ASSUME NEW p \in Orders PROVE Marked(p)'
  BY DEF TypeOK, CreateOrder, bounds, Marked, HasReceipt, OrderRecord
<1> QED
  BY <1>3, <1>4, <1>5, <1>6

LEMMA InvoiceCreatedKeeps ==
  ASSUME IInv, NEW o \in Orders, InvoiceCreated(o)
  PROVE  IInv'
<1> USE DEF IInv
<1>1. TypeOK'
  BY DEF TypeOK, InvoiceCreated, bounds, TaskRecord, SlotRecord, TaskSteps, Views,
       Jobs, Errors
<1>2. ASSUME NEW p \in Orders PROVE Linked(p)'
  BY DEF TypeOK, InvoiceCreated, bounds, Linked, Exists, Views
<1>3. ASSUME NEW p \in Orders PROVE Gated(p)'
  BY DEF TypeOK, InvoiceCreated, bounds, Gated, Linked, Authorized
<1>4. ASSUME NEW p \in Orders PROVE Marked(p)'
  BY DEF TypeOK, InvoiceCreated, bounds, Marked, HasReceipt
<1> QED
  BY <1>1, <1>2, <1>3, <1>4

LEMMA InvoiceRefusedKeeps ==
  ASSUME IInv, NEW o \in Orders, InvoiceRefused(o)
  PROVE  IInv'
<1> USE DEF IInv
<1>1. TypeOK'
  BY DEF TypeOK, InvoiceRefused, bounds, TaskRecord, SlotRecord, TaskSteps, Views,
       Jobs, Errors
<1>2. ASSUME NEW p \in Orders PROVE Linked(p)'
  BY DEF TypeOK, InvoiceRefused, bounds, Linked, Exists, Views
<1>3. ASSUME NEW p \in Orders PROVE Gated(p)'
  BY DEF TypeOK, InvoiceRefused, bounds, Gated, Linked, Authorized
<1>4. ASSUME NEW p \in Orders PROVE Marked(p)'
  BY DEF TypeOK, InvoiceRefused, bounds, Marked, HasReceipt
<1> QED
  BY <1>1, <1>2, <1>3, <1>4

LEMMA LinkPaymentKeeps ==
  ASSUME IInv, NEW o \in Orders, LinkPayment(o)
  PROVE  IInv'
<1>1. order[o] \in OrderRecord
  BY DEF IInv, TypeOK
<1>2. [order[o] EXCEPT !.pay = ptask[o],
          !.st = IF order[o].canc # "stop_requested" THEN "awaiting_payment" ELSE @]
        \in OrderRecord
  BY <1>1 DEF OrderRecord, OrderStates, Views, LinkPayment
<1> USE DEF IInv
<1>3. TypeOK'
  BY <1>2 DEF TypeOK, LinkPayment, bounds, TaskRecord, SlotRecord, TaskSteps, Views,
       Jobs, Errors
<1>4. ASSUME NEW p \in Orders PROVE Linked(p)'
  BY DEF TypeOK, LinkPayment, bounds, Linked, Exists, Views, OrderRecord
<1>5. ASSUME NEW p \in Orders PROVE Gated(p)'
  BY DEF TypeOK, LinkPayment, bounds, Gated, Linked, Authorized, OrderRecord, Views,
       Productions
<1>6. ASSUME NEW p \in Orders PROVE Marked(p)'
  BY DEF TypeOK, LinkPayment, bounds, Marked, HasReceipt, OrderRecord
<1> QED
  BY <1>3, <1>4, <1>5, <1>6

LEMMA PaymentCreationFailedKeeps ==
  ASSUME IInv, NEW o \in Orders, PaymentCreationFailed(o)
  PROVE  IInv'
<1>1. order[o] \in OrderRecord
  BY DEF IInv, TypeOK
<1>2. [order[o] EXCEPT !.st = IF Cancelled(o) THEN @ ELSE "payment_creation_failed"]
        \in OrderRecord
  BY <1>1 DEF OrderRecord, OrderStates
<1> USE DEF IInv
<1>3. TypeOK'
  BY <1>2 DEF TypeOK, PaymentCreationFailed, bounds, Cancelled, TaskRecord,
       SlotRecord, TaskSteps, Views, Jobs, Errors
<1>4. ASSUME NEW p \in Orders PROVE Linked(p)'
  BY DEF TypeOK, PaymentCreationFailed, bounds, Cancelled, Linked, Exists, Views,
       OrderRecord
<1>5. ASSUME NEW p \in Orders PROVE Gated(p)'
  BY DEF TypeOK, PaymentCreationFailed, bounds, Cancelled, Gated, Linked, Authorized,
       OrderRecord, Views, Productions
<1>6. ASSUME NEW p \in Orders PROVE Marked(p)'
  BY DEF TypeOK, PaymentCreationFailed, bounds, Cancelled, Marked, HasReceipt, OrderRecord
<1> QED
  BY <1>3, <1>4, <1>5, <1>6

LEMMA ProviderAnswersKeeps ==
  ASSUME IInv, NEW o \in Orders, NEW c \in Callers, ProviderAnswers(o, c)
  PROVE  IInv'
<1> USE DEF IInv
<1>1. TypeOK'
  BY DEF TypeOK, ProviderAnswers, bounds, Linked, TaskRecord, SlotRecord, TaskSteps,
       Views, Jobs, Errors
<1>2. ASSUME NEW p \in Orders PROVE Linked(p)'
  BY DEF TypeOK, ProviderAnswers, bounds, Linked, Exists, Views
<1>3. ASSUME NEW p \in Orders PROVE Gated(p)'
  BY DEF TypeOK, ProviderAnswers, bounds, Linked, Gated,  Authorized
<1>4. ASSUME NEW p \in Orders PROVE Marked(p)'
  BY DEF TypeOK, ProviderAnswers, bounds, Linked, Marked, HasReceipt
<1> QED
  BY <1>1, <1>2, <1>3, <1>4

LEMMA SyncFailsKeeps ==
  ASSUME IInv, NEW o \in Orders, NEW c \in Callers, SyncFails(o, c)
  PROVE  IInv'
<1> USE DEF IInv
<1>1. TypeOK'
  BY DEF TypeOK, SyncFails, bounds, Idle, TaskRecord, SlotRecord, TaskSteps, Views,
       Jobs, Errors
<1>2. ASSUME NEW p \in Orders PROVE Linked(p)'
  BY DEF TypeOK, SyncFails, bounds, Idle, Linked, Exists, Views
<1>3. ASSUME NEW p \in Orders PROVE Gated(p)'
  BY DEF TypeOK, SyncFails, bounds, Idle, Gated, Linked, Authorized
<1>4. ASSUME NEW p \in Orders PROVE Marked(p)'
  BY DEF TypeOK, SyncFails, bounds, Idle, Marked, HasReceipt
<1> QED
  BY <1>1, <1>2, <1>3, <1>4

LEMMA RefuseStaleKeeps ==
  ASSUME IInv, NEW o \in Orders, NEW c \in Callers, RefuseStale(o, c)
  PROVE  IInv'
<1> USE DEF IInv
<1>1. TypeOK'
  BY DEF TypeOK, RefuseStale, bounds, Idle, TaskRecord, SlotRecord, TaskSteps, Views,
       Jobs, Errors
<1>2. ASSUME NEW p \in Orders PROVE Linked(p)'
  BY DEF TypeOK, RefuseStale, bounds, Idle, Linked, Exists, Views
<1>3. ASSUME NEW p \in Orders PROVE Gated(p)'
  BY DEF TypeOK, RefuseStale, bounds, Idle, Gated, Linked, Authorized
<1>4. ASSUME NEW p \in Orders PROVE Marked(p)'
  BY DEF TypeOK, RefuseStale, bounds, Idle, Marked, HasReceipt
<1> QED
  BY <1>1, <1>2, <1>3, <1>4

LEMMA StartProductionKeeps ==
  ASSUME IInv, NEW o \in Orders, NEW c \in Callers, StartProduction(o, c)
  PROVE  IInv'
<1> USE DEF IInv
<1>1. TypeOK'
  BY DEF TypeOK, StartProduction, bounds, Idle, WithTask, At, TaskRecord, SlotRecord,
       TaskSteps, Views, Jobs, Errors
<1>2. ASSUME NEW p \in Orders PROVE Linked(p)'
  BY DEF TypeOK, StartProduction, bounds, Idle, WithTask, At, Linked, Exists, Views
<1>3. ASSUME NEW p \in Orders PROVE Gated(p)'
  BY DEF TypeOK, StartProduction, bounds, Idle, WithTask, At, Gated, Linked, Authorized
<1>4. ASSUME NEW p \in Orders PROVE Marked(p)'
  BY DEF TypeOK, StartProduction, bounds, Idle, WithTask, At, Marked, HasReceipt
<1> QED
  BY <1>1, <1>2, <1>3, <1>4

LEMMA ClaimStartKeeps ==
  ASSUME IInv, NEW o \in Orders, ClaimStart(o)
  PROVE  IInv'
<1>1. order[o] \in OrderRecord
  BY DEF IInv, TypeOK
<1>2. [order[o] EXCEPT !.st = "fulfilling", !.prod = "producing", !.started = TRUE]
        \in OrderRecord
  BY <1>1 DEF OrderRecord, OrderStates, Productions
<1> USE DEF IInv
<1>3. TypeOK'
  BY <1>2 DEF TypeOK, ClaimStart, bounds, TaskAt, MoveTask, RestUnchanged, At,
       Claimable, TaskRecord, SlotRecord, TaskSteps, Views, Jobs, Errors
<1>4. ASSUME NEW p \in Orders PROVE Linked(p)'
  BY DEF TypeOK, ClaimStart, bounds, TaskAt, MoveTask, RestUnchanged, At, Claimable,
       Linked, Exists, Views, OrderRecord, Gated, Authorized
<1>5. ASSUME NEW p \in Orders PROVE Gated(p)'
  BY DEF TypeOK, ClaimStart, bounds, TaskAt, MoveTask, RestUnchanged, At, Claimable,
       Gated, Linked, Authorized, OrderRecord, Views, Productions
<1>6. ASSUME NEW p \in Orders PROVE Marked(p)'
  BY DEF TypeOK, ClaimStart, bounds, TaskAt, MoveTask, RestUnchanged, At, Claimable,
       Marked, HasReceipt, OrderRecord
<1> QED
  BY <1>3, <1>4, <1>5, <1>6

LEMMA ClaimRecoveryKeeps ==
  ASSUME IInv, NEW o \in Orders, ClaimRecovery(o)
  PROVE  IInv'
<1> USE DEF IInv
<1>1. TypeOK'
  BY DEF TypeOK, ClaimRecovery, bounds, TaskAt, MoveTask, RestUnchanged, At,
       Claimable, TaskRecord, SlotRecord, TaskSteps, Views, Jobs, Errors
<1>2. ASSUME NEW p \in Orders PROVE Linked(p)'
  BY DEF TypeOK, ClaimRecovery, bounds, TaskAt, MoveTask, RestUnchanged, At,
       Claimable, Linked, Exists, Views
<1>3. ASSUME NEW p \in Orders PROVE Gated(p)'
  BY DEF TypeOK, ClaimRecovery, bounds, TaskAt, MoveTask, RestUnchanged, At,
       Claimable, Gated, Linked, Authorized
<1>4. ASSUME NEW p \in Orders PROVE Marked(p)'
  BY DEF TypeOK, ClaimRecovery, bounds, TaskAt, MoveTask, RestUnchanged, At,
       Claimable, Marked, HasReceipt
<1> QED
  BY <1>1, <1>2, <1>3, <1>4

LEMMA FindReceiptKeeps ==
  ASSUME IInv, NEW o \in Orders, FindReceipt(o)
  PROVE  IInv'
<1> USE DEF IInv
<1>1. TypeOK'
  BY DEF TypeOK, FindReceipt, bounds, TaskAt, MoveTask, RestUnchanged, At, TaskRecord,
       SlotRecord, TaskSteps, Views, Jobs, Errors
<1>2. ASSUME NEW p \in Orders PROVE Linked(p)'
  BY DEF TypeOK, FindReceipt, bounds, TaskAt, MoveTask, RestUnchanged, At, Linked,
       Exists, Views
<1>3. ASSUME NEW p \in Orders PROVE Gated(p)'
  BY DEF TypeOK, FindReceipt, bounds, TaskAt, MoveTask, RestUnchanged, At, Gated,
       Linked, Authorized
<1>4. ASSUME NEW p \in Orders PROVE Marked(p)'
  BY DEF TypeOK, FindReceipt, bounds, TaskAt, MoveTask, RestUnchanged, At, Marked,
       HasReceipt
<1> QED
  BY <1>1, <1>2, <1>3, <1>4

LEMMA PassSpendGateKeeps ==
  ASSUME IInv, NEW o \in Orders, PassSpendGate(o)
  PROVE  IInv'
<1> USE DEF IInv
<1>1. TypeOK'
  BY DEF TypeOK, PassSpendGate, bounds, TaskAt, MoveTask, RestUnchanged, At,
       TaskRecord, SlotRecord, TaskSteps, Views, Jobs, Errors
<1>2. ASSUME NEW p \in Orders PROVE Linked(p)'
  BY DEF TypeOK, PassSpendGate, bounds, TaskAt, MoveTask, RestUnchanged, At, Linked,
       Exists, Views
<1>3. ASSUME NEW p \in Orders PROVE Gated(p)'
  BY DEF TypeOK, PassSpendGate, bounds, TaskAt, MoveTask, RestUnchanged, At, Gated,
       Linked, Authorized
<1>4. ASSUME NEW p \in Orders PROVE Marked(p)'
  BY DEF TypeOK, PassSpendGate, bounds, TaskAt, MoveTask, RestUnchanged, At, Marked,
       HasReceipt
<1> QED
  BY <1>1, <1>2, <1>3, <1>4

LEMMA WriteAttemptKeeps ==
  ASSUME IInv, NEW o \in Orders, WriteAttempt(o)
  PROVE  IInv'
<1> USE DEF IInv
<1>1. TypeOK'
  BY DEF TypeOK, WriteAttempt, bounds, TaskAt, MoveTask, RestUnchanged, At,
       TaskRecord, SlotRecord, TaskSteps, Views, Jobs, Errors
<1>2. ASSUME NEW p \in Orders PROVE Linked(p)'
  BY DEF TypeOK, WriteAttempt, bounds, TaskAt, MoveTask, RestUnchanged, At, Linked,
       Exists, Views
<1>3. ASSUME NEW p \in Orders PROVE Gated(p)'
  BY DEF TypeOK, WriteAttempt, bounds, TaskAt, MoveTask, RestUnchanged, At, Gated,
       Linked, Authorized
<1>4. ASSUME NEW p \in Orders PROVE Marked(p)'
  BY DEF TypeOK, WriteAttempt, bounds, TaskAt, MoveTask, RestUnchanged, At, Marked,
       HasReceipt
<1> QED
  BY <1>1, <1>2, <1>3, <1>4

LEMMA BuildAcceptedKeeps ==
  ASSUME IInv, NEW o \in Orders, BuildAccepted(o)
  PROVE  IInv'
<1> USE DEF IInv
<1>1. TypeOK'
  BY DEF TypeOK, BuildAccepted, bounds, TaskAt, MoveTask, RestUnchanged, At,
       TaskRecord, SlotRecord, TaskSteps, Views, Jobs, Errors
<1>2. ASSUME NEW p \in Orders PROVE Linked(p)'
  BY DEF TypeOK, BuildAccepted, bounds, TaskAt, MoveTask, RestUnchanged, At, Linked,
       Exists, Views
<1>3. ASSUME NEW p \in Orders PROVE Gated(p)'
  BY DEF TypeOK, BuildAccepted, bounds, TaskAt, MoveTask, RestUnchanged, At, Gated,
       Linked, Authorized
<1>4. ASSUME NEW p \in Orders PROVE Marked(p)'
  BY DEF TypeOK, BuildAccepted, bounds, TaskAt, MoveTask, RestUnchanged, At, Marked,
       HasReceipt
<1> QED
  BY <1>1, <1>2, <1>3, <1>4

LEMMA SubmitFailsKeeps ==
  ASSUME IInv, NEW o \in Orders, SubmitFails(o)
  PROVE  IInv'
<1> USE DEF IInv
<1>1. TypeOK'
  BY DEF TypeOK, SubmitFails, bounds, TaskAt, MoveTask, RestUnchanged, FailWith,
       SubmissionErrors, TaskRecord, SlotRecord, TaskSteps, Views, Jobs, Errors
<1>2. ASSUME NEW p \in Orders PROVE Linked(p)'
  BY DEF TypeOK, SubmitFails, bounds, TaskAt, MoveTask, RestUnchanged, FailWith,
       SubmissionErrors, Linked, Exists, Views
<1>3. ASSUME NEW p \in Orders PROVE Gated(p)'
  BY DEF TypeOK, SubmitFails, bounds, TaskAt, MoveTask, RestUnchanged, FailWith,
       SubmissionErrors, Gated, Linked, Authorized
<1>4. ASSUME NEW p \in Orders PROVE Marked(p)'
  BY DEF TypeOK, SubmitFails, bounds, TaskAt, MoveTask, RestUnchanged, FailWith,
       SubmissionErrors, Marked, HasReceipt
<1> QED
  BY <1>1, <1>2, <1>3, <1>4

LEMMA SafePreBuildRetryKeeps ==
  ASSUME IInv, NEW o \in Orders, SafePreBuildRetry(o)
  PROVE  IInv'
<1> USE DEF IInv
<1>1. TypeOK'
  BY DEF TypeOK, SafePreBuildRetry, bounds, TaskAt, MoveTask, RestUnchanged, At,
       TaskRecord, SlotRecord, TaskSteps, Views, Jobs, Errors
<1>2. ASSUME NEW p \in Orders PROVE Linked(p)'
  BY DEF TypeOK, SafePreBuildRetry, bounds, TaskAt, MoveTask, RestUnchanged, At,
       Linked, Exists, Views
<1>3. ASSUME NEW p \in Orders PROVE Gated(p)'
  BY DEF TypeOK, SafePreBuildRetry, bounds, TaskAt, MoveTask, RestUnchanged, At,
       Gated, Linked, Authorized
<1>4. ASSUME NEW p \in Orders PROVE Marked(p)'
  BY DEF TypeOK, SafePreBuildRetry, bounds, TaskAt, MoveTask, RestUnchanged, At,
       Marked, HasReceipt
<1> QED
  BY <1>1, <1>2, <1>3, <1>4

LEMMA CountRetryKeeps ==
  ASSUME IInv, NEW o \in Orders, CountRetry(o)
  PROVE  IInv'
<1>1. order[o] \in OrderRecord
  BY DEF IInv, TypeOK
<1>2. [order[o] EXCEPT !.started = TRUE]
        \in OrderRecord
  BY <1>1 DEF OrderRecord
<1> USE DEF IInv
<1>3. TypeOK'
  BY <1>2 DEF TypeOK, CountRetry, bounds, TaskAt, MoveTask, RestUnchanged, At,
       TaskRecord, SlotRecord, TaskSteps, Views, Jobs, Errors
<1>4. ASSUME NEW p \in Orders PROVE Linked(p)'
  BY DEF TypeOK, CountRetry, bounds, TaskAt, MoveTask, RestUnchanged, At, Linked,
       Exists, Views, OrderRecord
<1>5. ASSUME NEW p \in Orders PROVE Gated(p)'
  BY DEF TypeOK, CountRetry, bounds, TaskAt, MoveTask, RestUnchanged, At, Gated,
       Linked, Authorized, OrderRecord, Views, Productions
<1>6. ASSUME NEW p \in Orders PROVE Marked(p)'
  BY DEF TypeOK, CountRetry, bounds, TaskAt, MoveTask, RestUnchanged, At, Marked,
       HasReceipt, OrderRecord
<1> QED
  BY <1>3, <1>4, <1>5, <1>6

LEMMA RecordBuildKeeps ==
  ASSUME IInv, NEW o \in Orders, RecordBuild(o)
  PROVE  IInv'
<1>1. order[o] \in OrderRecord
  BY DEF IInv, TypeOK
<1>2. [order[o] EXCEPT !.build = TRUE]
        \in OrderRecord
  BY <1>1 DEF OrderRecord
<1> USE DEF IInv
<1>3. TypeOK'
  BY <1>2 DEF TypeOK, RecordBuild, bounds, TaskAt, MoveTask, RestUnchanged, At,
       TaskRecord, SlotRecord, TaskSteps, Views, Jobs, Errors
<1>4. ASSUME NEW p \in Orders PROVE Linked(p)'
  BY DEF TypeOK, RecordBuild, bounds, TaskAt, MoveTask, RestUnchanged, At, Linked,
       Exists, Views, OrderRecord
<1>5. ASSUME NEW p \in Orders PROVE Gated(p)'
  BY DEF TypeOK, RecordBuild, bounds, TaskAt, MoveTask, RestUnchanged, At, Gated,
       Linked, Authorized, OrderRecord, Views, Productions
<1>6. ASSUME NEW p \in Orders PROVE Marked(p)'
  BY DEF TypeOK, RecordBuild, bounds, TaskAt, MoveTask, RestUnchanged, At, Marked,
       HasReceipt, OrderRecord
<1> QED
  BY <1>3, <1>4, <1>5, <1>6

LEMMA BuildEndsKeeps ==
  ASSUME IInv, NEW o \in Orders, BuildEnds(o)
  PROVE  IInv'
<1> USE DEF IInv
<1>1. TypeOK'
  BY DEF TypeOK, BuildEnds, bounds, process, TaskRecord, SlotRecord, TaskSteps, Views,
       Jobs, Errors
<1>2. ASSUME NEW p \in Orders PROVE Linked(p)'
  BY DEF TypeOK, BuildEnds, bounds, process, Linked, Exists, Views
<1>3. ASSUME NEW p \in Orders PROVE Gated(p)'
  BY DEF TypeOK, BuildEnds, bounds, process, Gated, Linked, Authorized
<1>4. ASSUME NEW p \in Orders PROVE Marked(p)'
  BY DEF TypeOK, BuildEnds, bounds, process, Marked, HasReceipt
<1> QED
  BY <1>1, <1>2, <1>3, <1>4

LEMMA ResumeReturnsKeeps ==
  ASSUME IInv, NEW o \in Orders, ResumeReturns(o)
  PROVE  IInv'
<1>1. /\ At("running", FALSE) \in TaskRecord /\ At("complete", FALSE) \in TaskRecord
      /\ \A e \in Errors : FailWith(e) \in TaskRecord
      /\ Ambiguous \in Errors /\ Other \in Errors /\ Incomplete \in Errors
  BY DEF At, FailWith, TaskRecord, TaskSteps, Errors
<1>2. PICK t \in TaskRecord :
        /\ task' = [task EXCEPT ![o] = t]
        /\ t.pc \in {"running", "complete", "fail"}
  <2>1. CASE \E e \in {Ambiguous, Other} : MoveTask(o, FailWith(e))
    BY <1>1, <2>1 DEF MoveTask, FailWith
  <2>2. CASE \/ MoveTask(o, At("running", FALSE)) \/ MoveTask(o, At("complete", FALSE))
             \/ MoveTask(o, FailWith(Incomplete))
    BY <1>1, <2>2 DEF MoveTask, FailWith, At
  <2> QED
    BY <2>1, <2>2 DEF ResumeReturns
<1> USE DEF IInv
<1>3. TypeOK'
  BY <1>2 DEF TypeOK, ResumeReturns, RestUnchanged, bounds
<1>4. ASSUME NEW p \in Orders PROVE Linked(p)'
  BY DEF TypeOK, ResumeReturns, RestUnchanged, bounds, Linked, Exists
<1>5. ASSUME NEW p \in Orders PROVE Gated(p)'
  BY <1>2 DEF TypeOK, ResumeReturns, RestUnchanged, TaskAt, Gated
<1>6. ASSUME NEW p \in Orders PROVE Marked(p)'
  BY <1>2 DEF TypeOK, ResumeReturns, RestUnchanged, Marked, HasReceipt
<1> QED
  BY <1>3, <1>4, <1>5, <1>6

LEMMA SafeReattachKeeps ==
  ASSUME IInv, NEW o \in Orders, SafeReattach(o)
  PROVE  IInv'
<1> USE DEF IInv
<1>1. TypeOK'
  BY DEF TypeOK, SafeReattach, bounds, TaskAt, MoveTask, RestUnchanged, At,
       TaskRecord, SlotRecord, TaskSteps, Views, Jobs, Errors
<1>2. ASSUME NEW p \in Orders PROVE Linked(p)'
  BY DEF TypeOK, SafeReattach, bounds, TaskAt, MoveTask, RestUnchanged, At, Linked,
       Exists, Views
<1>3. ASSUME NEW p \in Orders PROVE Gated(p)'
  BY DEF TypeOK, SafeReattach, bounds, TaskAt, MoveTask, RestUnchanged, At, Gated,
       Linked, Authorized
<1>4. ASSUME NEW p \in Orders PROVE Marked(p)'
  BY DEF TypeOK, SafeReattach, bounds, TaskAt, MoveTask, RestUnchanged, At, Marked,
       HasReceipt
<1> QED
  BY <1>1, <1>2, <1>3, <1>4

LEMMA PayerPaysKeeps ==
  ASSUME IInv, NEW o \in Orders, PayerPays(o)
  PROVE  IInv'
<1> USE DEF IInv
<1>1. TypeOK'
  BY DEF TypeOK, PayerPays, bounds, process, TaskRecord, SlotRecord, TaskSteps, Views,
       Jobs, Errors
<1>2. ASSUME NEW p \in Orders PROVE Linked(p)'
  BY DEF TypeOK, PayerPays, bounds, process, Linked, Exists, Views
<1>3. ASSUME NEW p \in Orders PROVE Gated(p)'
  BY DEF TypeOK, PayerPays, bounds, process, Gated, Linked, Authorized
<1>4. ASSUME NEW p \in Orders PROVE Marked(p)'
  BY DEF TypeOK, PayerPays, bounds, process, Marked, HasReceipt
<1> QED
  BY <1>1, <1>2, <1>3, <1>4

LEMMA InvoiceExpiresKeeps ==
  ASSUME IInv, NEW o \in Orders, InvoiceExpires(o)
  PROVE  IInv'
<1> USE DEF IInv
<1>1. TypeOK'
  BY DEF TypeOK, InvoiceExpires, bounds, process, TaskRecord, SlotRecord, TaskSteps,
       Views, Jobs, Errors
<1>2. ASSUME NEW p \in Orders PROVE Linked(p)'
  BY DEF TypeOK, InvoiceExpires, bounds, process, Linked, Exists, Views
<1>3. ASSUME NEW p \in Orders PROVE Gated(p)'
  BY DEF TypeOK, InvoiceExpires, bounds, process, Gated, Linked, Authorized
<1>4. ASSUME NEW p \in Orders PROVE Marked(p)'
  BY DEF TypeOK, InvoiceExpires, bounds, process, Marked, HasReceipt
<1> QED
  BY <1>1, <1>2, <1>3, <1>4

LEMMA ChainSettlesKeeps ==
  ASSUME IInv, NEW o \in Orders, ChainSettles(o)
  PROVE  IInv'
<1> USE DEF IInv
<1>1. TypeOK'
  BY DEF TypeOK, ChainSettles, bounds, process, TaskRecord, SlotRecord, TaskSteps,
       Views, Jobs, Errors
<1>2. ASSUME NEW p \in Orders PROVE Linked(p)'
  BY DEF TypeOK, ChainSettles, bounds, process, Linked, Exists, Views
<1>3. ASSUME NEW p \in Orders PROVE Gated(p)'
  BY DEF TypeOK, ChainSettles, bounds, process, Gated, Linked, Authorized
<1>4. ASSUME NEW p \in Orders PROVE Marked(p)'
  BY DEF TypeOK, ChainSettles, bounds, process, Marked, HasReceipt
<1> QED
  BY <1>1, <1>2, <1>3, <1>4

LEMMA WatchLapsesKeeps ==
  ASSUME IInv, NEW o \in Orders, WatchLapses(o)
  PROVE  IInv'
<1> USE DEF IInv
<1>1. TypeOK'
  BY DEF TypeOK, WatchLapses, bounds, process, TaskRecord, SlotRecord, TaskSteps,
       Views, Jobs, Errors
<1>2. ASSUME NEW p \in Orders PROVE Linked(p)'
  BY DEF TypeOK, WatchLapses, bounds, process, Linked, Exists, Views
<1>3. ASSUME NEW p \in Orders PROVE Gated(p)'
  BY DEF TypeOK, WatchLapses, bounds, process, Gated, Linked, Authorized
<1>4. ASSUME NEW p \in Orders PROVE Marked(p)'
  BY DEF TypeOK, WatchLapses, bounds, process, Marked, HasReceipt
<1> QED
  BY <1>1, <1>2, <1>3, <1>4


LEMMA BeginSyncKeeps ==
  ASSUME IInv, NEW o \in Orders, NEW c \in Callers, Exists(o), BeginSync(o, c),
         UNCHANGED <<order, remote, watch, job, task, waiting, bounds>>
  PROVE  IInv'
<1> USE DEF IInv
<1>1. CASE /\ order[o].pay = "null"
           /\ ptask' = [ptask EXCEPT ![o] = "asking"] /\ UNCHANGED slot
  <2>1. TypeOK'
    BY <1>1 DEF TypeOK, bounds
  <2>2. ASSUME NEW p \in Orders PROVE Linked(p)'
    BY <1>1 DEF TypeOK, bounds, Linked, Exists, Views
  <2>3. ASSUME NEW p \in Orders PROVE Gated(p)' /\ Marked(p)'
    BY <1>1 DEF TypeOK, bounds, Gated, Marked, HasReceipt
  <2> QED
    BY <2>1, <2>2, <2>3
<1>2. CASE /\ order[o].pay # "null" /\ slot[o][c] = Idle
           /\ slot' = [slot EXCEPT ![o][c] = InSlot("asking")] /\ UNCHANGED ptask
  <2>1. TypeOK'
    BY <1>2 DEF TypeOK, bounds, InSlot, SlotRecord
  <2>2. ASSUME NEW p \in Orders PROVE Linked(p)'
    BY <1>2 DEF TypeOK, bounds, Linked, Exists, InSlot
  <2>3. ASSUME NEW p \in Orders PROVE Gated(p)' /\ Marked(p)'
    BY <1>2 DEF TypeOK, bounds, Gated, Marked, HasReceipt
  <2> QED
    BY <2>1, <2>2, <2>3
<1> QED
  BY <1>1, <1>2 DEF BeginSync

LEMMA RequestCancellationKeeps ==
  ASSUME IInv, NEW o \in Orders, NEW c \in Callers, RequestCancellation(o, c)
  PROVE  IInv'
<1> DEFINE r == order'[o]
           started == order[o].prod \in {"producing", "completed", "failed"}
<1>1. order[o] \in OrderRecord /\ Gated(o) /\ Linked(o)
  BY DEF IInv, TypeOK
<1>2. /\ order' = [order EXCEPT ![o] = r]
      /\ r = IF started
             THEN [order[o] EXCEPT !.canc = "cost_review_required",
                                   !.st = "cost_review_required"]
             ELSE [order[o] EXCEPT !.canc = "stop_requested", !.prod = "stopped",
                                   !.st = "cancellation_pending"]
  BY DEF RequestCancellation, ProductionStarted, IInv, TypeOK
<1>3. /\ r \in OrderRecord /\ r.pay = order[o].pay /\ r.build = order[o].build
      /\ r.st # "absent"
  BY <1>1, <1>2 DEF OrderRecord, OrderStates, Cancellations, Productions
<1>4. r.prod \in {"queued", "producing", "completed", "failed"} => Authorized(r.pay)
  BY <1>1, <1>2, <1>3 DEF OrderRecord, Gated
<1>5. /\ r.canc \in {"cost_review_required", "stop_requested"}
      /\ r.canc = "cost_review_required" => Authorized(r.pay)
  BY <1>1, <1>2, <1>3 DEF OrderRecord, Gated
<1>6. r.pay = "null" => r.canc = "stop_requested"
  BY <1>1, <1>3, <1>5 DEF Authorized
<1> HIDE DEF r, started
<1> USE DEF IInv
<1>7. TypeOK'
  BY <1>2, <1>3 DEF TypeOK, RequestCancellation, bounds, InSlot, Idle, SlotRecord
<1>8. ASSUME NEW p \in Orders PROVE Linked(p)'
  BY <1>1, <1>2, <1>3 DEF TypeOK, RequestCancellation, bounds, Linked, Exists, InSlot,
       Idle
<1>9. ASSUME NEW p \in Orders PROVE Gated(p)'
  <2>1. CASE p = o
    BY <1>1, <1>2, <1>3, <1>4, <1>5, <1>6, <2>1 DEF TypeOK, RequestCancellation, Gated
  <2>2. CASE p # o
    BY <1>2, <2>2 DEF TypeOK, RequestCancellation, Gated
  <2> QED
    BY <2>1, <2>2
<1>10. ASSUME NEW p \in Orders PROVE Marked(p)'
  BY <1>2, <1>3 DEF TypeOK, RequestCancellation, Marked, HasReceipt
<1> QED
  BY <1>7, <1>8, <1>9, <1>10

LEMMA RetryProductionKeeps ==
  ASSUME IInv, NEW o \in Orders, NEW c \in Callers, RetryProduction(o, c)
  PROVE  IInv'
<1> DEFINE r == order'[o]
<1>1. order[o] \in OrderRecord /\ Gated(o) /\ Linked(o)
  BY DEF IInv, TypeOK
<1>2. /\ order' = [order EXCEPT ![o] = r]
      /\ \/ r = order[o]
         \/ r = [order[o] EXCEPT !.build = order[o].build /\ order[o].err # Incomplete,
                                 !.prod = "queued", !.err = "none"]
  BY DEF RetryProduction, KeepsBuild, IInv, TypeOK
<1>3. /\ r \in OrderRecord /\ r.pay = order[o].pay /\ r.canc = order[o].canc
      /\ r.build => order[o].build
      /\ r.st = order[o].st
  BY <1>1, <1>2 DEF OrderRecord, Productions
<1>4. Authorized(order[o].pay) /\ order[o].pay # "null"
  BY DEF RetryProduction, Authorized
<1> HIDE DEF r
<1> USE DEF IInv
<1>5. TypeOK'
  BY <1>2, <1>3, SellerAssumption DEF TypeOK, RetryProduction, InSlot, SlotRecord
<1>6. ASSUME NEW p \in Orders PROVE Linked(p)'
  BY <1>1, <1>2, <1>3, <1>4 DEF TypeOK, RetryProduction, Linked, Exists, InSlot
<1>7. ASSUME NEW p \in Orders PROVE Gated(p)'
  BY <1>1, <1>2, <1>3, <1>4 DEF TypeOK, RetryProduction, Gated
<1>8. ASSUME NEW p \in Orders PROVE Marked(p)'
  BY <1>2, <1>3 DEF TypeOK, RetryProduction, Marked, HasReceipt
<1> QED
  BY <1>5, <1>6, <1>7, <1>8

LEMMA SyncCommitKeeps ==
  ASSUME IInv, NEW o \in Orders, NEW c \in Callers, SyncCommit(o, c)
  PROVE  IInv'
<1> DEFINE v == slot[o][c].view
           r == Reconciled(order[o], v)
<1>1. /\ order[o] \in OrderRecord /\ Gated(o) /\ Linked(o) /\ v \in Views
      /\ order[o].pay # "null" /\ order[o].st # "absent"
  BY DEF IInv, TypeOK, SyncCommit, Linked, Exists
<1>2. Sound(order[o]) /\ (Authorized(order[o].pay) => Authorized(v))
  BY <1>1 DEF Gated, Sound, SyncCommit, Regresses
<1>3. r \in OrderRecord /\ r.pay = v /\ r.build = order[o].build /\ r.st # "absent"
  BY <1>1, ReconciledRecord
<1>4. Sound(r)
  BY <1>1, <1>2, ReconciledSound
<1>5. v # "null"
  BY <1>1 DEF Views
<1>6. PICK s \in {InSlot("start"), Idle} :
        /\ order' = [order EXCEPT ![o] = r]
        /\ slot' = [slot EXCEPT ![o][c] = s]
        /\ UNCHANGED <<remote, watch, job, ptask, task, waiting, bounds>>
  BY DEF SyncCommit
<1>7. s \in SlotRecord /\ s.pc \in {"start", "idle"}
  BY DEF InSlot, Idle, SlotRecord
<1> HIDE DEF v, r
<1> USE DEF IInv
<1>8. TypeOK'
  BY <1>3, <1>6, <1>7 DEF TypeOK, bounds
<1>9. ASSUME NEW p \in Orders PROVE Linked(p)'
  BY <1>1, <1>3, <1>5, <1>6, <1>7 DEF TypeOK, bounds, Linked, Exists
<1>10. ASSUME NEW p \in Orders PROVE Gated(p)'
  BY <1>1, <1>2, <1>3, <1>4, <1>5, <1>6 DEF TypeOK, Gated, Sound
<1>11. ASSUME NEW p \in Orders PROVE Marked(p)'
  BY <1>3, <1>6 DEF TypeOK, Marked, HasReceipt
<1> QED
  BY <1>8, <1>9, <1>10, <1>11

\* Ending a task frees its entry and may let one queued order claim.
LEMMA ReleaseTask ==
  ASSUME TypeOK, NEW o \in Orders, Release(o)
  PROVE  /\ task' \in [Orders -> TaskRecord]
         /\ \A p \in Orders : task'[p] = task[p] \/ task'[p].pc \in {"none", "claim"}
         /\ waiting' \in SUBSET Orders
<1> DEFINE freed == [task EXCEPT ![o] = NoTask]
<1>1. NoTask \in TaskRecord /\ At("claim", FALSE) \in TaskRecord
  BY DEF NoTask, At, TaskRecord, TaskSteps
<1>2. /\ freed \in [Orders -> TaskRecord]
      /\ \A p \in Orders : freed[p] = task[p] \/ freed[p].pc = "none"
  BY <1>1 DEF TypeOK, NoTask, At
<1> HIDE DEF freed
<1>3. \/ task' = freed
      \/ \E p \in Orders : task' = [freed EXCEPT ![p] = At("claim", FALSE)]
  BY DEF Release, freed
<1>4. At("claim", FALSE).pc = "claim"
  BY DEF At
<1>5. waiting' \in SUBSET Orders
  BY DEF Release, TypeOK
<1> QED
  BY <1>1, <1>2, <1>3, <1>4, <1>5

LEMMA ClaimRefusedKeeps ==
  ASSUME IInv, NEW o \in Orders, ClaimRefused(o)
  PROVE  IInv'
<1>1. /\ task' \in [Orders -> TaskRecord] /\ waiting' \in SUBSET Orders
      /\ \A p \in Orders : task'[p] = task[p] \/ task'[p].pc \in {"none", "claim"}
  BY ReleaseTask DEF IInv, ClaimRefused
<1>2. UNCHANGED <<order, remote, watch, job, ptask, slot, bounds>>
  BY DEF ClaimRefused, RestUnchanged
<1> USE DEF IInv
<1>3. TypeOK'
  BY <1>1, <1>2 DEF TypeOK, bounds
<1>4. ASSUME NEW p \in Orders PROVE Linked(p)' /\ Gated(p)' /\ Marked(p)'
  BY <1>1, <1>2 DEF Linked, Exists, Gated, Marked, HasReceipt
<1> QED
  BY <1>3, <1>4

LEMMA FinishProductionKeeps ==
  ASSUME IInv, NEW o \in Orders, FinishProduction(o)
  PROVE  IInv'
<1> DEFINE r == order'[o]
<1>1. /\ task' \in [Orders -> TaskRecord] /\ waiting' \in SUBSET Orders
      /\ \A p \in Orders : task'[p] = task[p] \/ task'[p].pc \in {"none", "claim"}
  BY ReleaseTask DEF IInv, FinishProduction
<1>2. UNCHANGED <<remote, watch, job, ptask, slot, bounds>>
  BY DEF FinishProduction, RestUnchanged
<1>3. /\ order[o] \in OrderRecord /\ task[o].err \in Errors \cup {"none"}
      /\ Authorized(order[o].pay) /\ order[o].pay # "null" /\ Exists(o)
  BY DEF IInv, TypeOK, TaskRecord, Gated, Linked, Authorized, FinishProduction, TaskAt
<1>4. /\ order' = [order EXCEPT ![o] = r]
      /\ r \in OrderRecord /\ r.pay = order[o].pay /\ r.canc = order[o].canc
      /\ r.build = order[o].build /\ r.st # "absent"
  <2>1. ASSUME NEW st \in OrderStates \ {"absent"}, NEW prod \in Productions,
               NEW err \in Errors \cup {"none"}, Ended(o, st, prod, err)
        PROVE  /\ order' = [order EXCEPT ![o] = r]
               /\ r \in OrderRecord /\ r.pay = order[o].pay /\ r.canc = order[o].canc
               /\ r.build = order[o].build /\ r.st # "absent"
    <3>1. /\ order' = [order EXCEPT ![o] = r]
          /\ r = [order[o] EXCEPT !.st = IF Cancelled(o) THEN order[o].st ELSE st,
                                  !.prod = prod, !.err = err]
      BY <2>1 DEF IInv, TypeOK, Ended
    <3> QED
      BY <1>3, <3>1 DEF OrderRecord, Exists
  <2> QED
    BY <1>3, <2>1 DEF FinishProduction, OrderStates, Productions
<1> HIDE DEF r
<1> USE DEF IInv
<1>5. TypeOK'
  BY <1>1, <1>2, <1>4 DEF TypeOK, bounds
<1>6. ASSUME NEW p \in Orders PROVE Linked(p)'
  BY <1>2, <1>3, <1>4 DEF TypeOK, Linked, Exists
<1>7. ASSUME NEW p \in Orders PROVE Gated(p)'
  BY <1>1, <1>2, <1>3, <1>4 DEF TypeOK, Gated
<1>8. ASSUME NEW p \in Orders PROVE Marked(p)'
  BY <1>1, <1>2, <1>4 DEF TypeOK, Marked, HasReceipt
<1> QED
  BY <1>5, <1>6, <1>7, <1>8

LEMMA RestartKeeps ==
  ASSUME IInv, Restart
  PROVE  IInv'
<1>1. /\ task' \in [Orders -> TaskRecord] /\ waiting' \in SUBSET Orders
      /\ \A p \in Orders : task'[p].pc \in {"none", "claim"}
  BY DEF Restart, NoTask, At, TaskRecord, TaskSteps
<1>2. /\ slot' = [o \in Orders |-> [c \in Callers |-> Idle]]
      /\ ptask' = [o \in Orders |-> "none"]
      /\ restarts' = restarts + 1 /\ restarts < MaxRestarts
      /\ UNCHANGED <<order, remote, watch, job, retries>>
  BY DEF Restart
<1> USE DEF IInv
<1>3. TypeOK'
  BY <1>1, <1>2, SellerAssumption DEF TypeOK, Idle, SlotRecord
<1>4. ASSUME NEW p \in Orders PROVE Linked(p)' /\ Gated(p)' /\ Marked(p)'
  BY <1>1, <1>2 DEF TypeOK, Linked, Exists, Gated, Marked, HasReceipt, Idle, Views
<1> QED
  BY <1>3, <1>4

-----------------------------------------------------------------------------
(* The invariant is inductive. *)

LEMMA StepIInv == IInv /\ [Next]_vars => IInv'
<1> SUFFICES ASSUME IInv, [Next]_vars PROVE IInv'
  OBVIOUS
<1>1. CASE UNCHANGED vars
  BY <1>1 DEF IInv, TypeOK, Linked, Exists, Gated, Marked, HasReceipt, vars
<1>2. ASSUME NEW o \in Orders, Payments(o) PROVE IInv'
  BY <1>2, CreateOrderKeeps, InvoiceCreatedKeeps, InvoiceRefusedKeeps,
     LinkPaymentKeeps, PaymentCreationFailedKeeps DEF Payments
<1>3. ASSUME NEW o \in Orders, Poll(o) PROVE IInv'
  <2>1. "poll" \in Callers
    BY DEF Callers
  <2> QED
    BY <1>3, <2>1, BeginSyncKeeps DEF Poll
<1>4. ASSUME NEW o \in Orders, Submission(o) PROVE IInv'
  BY <1>4, ClaimStartKeeps, ClaimRecoveryKeeps, ClaimRefusedKeeps, FindReceiptKeeps,
     PassSpendGateKeeps, WriteAttemptKeeps, BuildAcceptedKeeps, SubmitFailsKeeps,
     SafePreBuildRetryKeeps, CountRetryKeeps, RecordBuildKeeps DEF Submission
<1>5. ASSUME NEW o \in Orders, Watching(o) PROVE IInv'
  BY <1>5, ResumeReturnsKeeps, SafeReattachKeeps, FinishProductionKeeps DEF Watching
<1>6. ASSUME NEW o \in Orders, Environment(o) PROVE IInv'
  BY <1>6, PayerPaysKeeps, InvoiceExpiresKeeps, ChainSettlesKeeps, WatchLapsesKeeps,
     BuildEndsKeeps DEF Environment
<1>7. ASSUME NEW o \in Orders, NEW c \in Callers, Request(o, c) PROVE IInv'
  BY <1>7, ProviderAnswersKeeps, SyncFailsKeeps, RefuseStaleKeeps, SyncCommitKeeps,
     StartProductionKeeps DEF Request
<1>8. ASSUME NEW o \in Orders, NEW c \in Clients, ClientCall(o, c) PROVE IInv'
  <2>1. c \in Callers
    BY DEF Callers
  <2> QED
    BY <1>8, <2>1, BeginSyncKeeps, RequestCancellationKeeps, RetryProductionKeeps
       DEF ClientCall, ApiSync
<1>9. CASE Restart
  BY <1>9, RestartKeeps
<1> QED
  BY <1>1, <1>2, <1>3, <1>4, <1>5, <1>6, <1>7, <1>8, <1>9 DEF Next

LEMMA AlwaysIInv == Spec => []IInv
  BY InitIInv, StepIInv, PTL DEF Spec

\* Every reachable state is well formed, for any orders, clients and bounds.
THEOREM TypeCorrect == Spec => []TypeOK
<1>1. IInv => TypeOK
  BY DEF IInv
<1> QED
  BY <1>1, AlwaysIInv, PTL

\* No production state and no working task without an authorized payment.
THEOREM PaymentGateHolds == Spec => []PaymentGate
<1>1. IInv => PaymentGate
  BY DEF IInv, Gated, PaymentGate
<1> QED
  BY <1>1, AlwaysIInv, PTL

\* Reviews follow authorized payments; an unpaid cancellation holds none.
THEOREM CancellationSound == Spec => []CancellationMatchesPayment
<1>1. IInv => CancellationMatchesPayment
  BY DEF IInv, Gated, CancellationMatchesPayment
<1> QED
  BY <1>1, AlwaysIInv, PTL

\* The build id in the store is always backed by the adapter's receipt file.
THEOREM ReceiptBehindBuild == Spec => []RecordedBuildHasReceipt
<1>1. IInv => RecordedBuildHasReceipt
  BY DEF IInv, Marked, RecordedBuildHasReceipt
<1> QED
  BY <1>1, AlwaysIInv, PTL

-----------------------------------------------------------------------------
(* What one step may do to a payment and to a cancellation. *)

\* Only linking an invoice and committing an answer change pay; only a stop
\* request and a committed answer change canc.
Steady(p) == order'[p].pay = order[p].pay /\ order'[p].canc = order[p].canc

LEMMA OthersSteady ==
  ASSUME IInv, [Next]_vars, NEW p \in Orders
  PROVE  \/ Steady(p)
         \/ LinkPayment(p)
         \/ \E c \in Callers : SyncCommit(p, c) \/ RequestCancellation(p, c)
<1> USE DEF IInv, Steady
<1>1. CASE UNCHANGED order
  BY <1>1
<1>0. order \in [Orders -> OrderRecord]
  BY DEF TypeOK
<1> HIDE DEF IInv
<1>2. ASSUME NEW o \in Orders, CreateOrder(o) \/ PaymentCreationFailed(o) PROVE Steady(p)
  <2>1. CASE CreateOrder(o)
    BY <1>0, <2>1 DEF OrderRecord, CreateOrder
  <2>2. CASE PaymentCreationFailed(o)
    BY <1>0, <2>2 DEF OrderRecord, PaymentCreationFailed
  <2> QED
    BY <1>2, <2>1, <2>2
<1>3. ASSUME NEW o \in Orders, ClaimStart(o) \/ CountRetry(o) \/ RecordBuild(o)
      PROVE Steady(p)
  <2>1. CASE ClaimStart(o)
    BY <1>0, <2>1 DEF OrderRecord, ClaimStart
  <2>2. CASE CountRetry(o)
    BY <1>0, <2>2 DEF OrderRecord, CountRetry
  <2>3. CASE RecordBuild(o)
    BY <1>0, <2>3 DEF OrderRecord, RecordBuild
  <2> QED
    BY <1>3, <2>1, <2>2, <2>3
<1>4. ASSUME NEW o \in Orders, NEW st, NEW prod, NEW err, Ended(o, st, prod, err)
      PROVE Steady(p)
  BY <1>0, <1>4 DEF OrderRecord, Ended
<1>5. ASSUME NEW o \in Orders, FinishProduction(o) PROVE Steady(p)
  BY <1>4, <1>5 DEF FinishProduction
<1>6. ASSUME NEW o \in Orders, NEW c \in Clients, RetryProduction(o, c) PROVE Steady(p)
  <2>1. CASE UNCHANGED order
    BY <2>1
  <2>2. CASE order' = [order EXCEPT ![o] = [@ EXCEPT
              !.build = order[o].build /\ order[o].err # Incomplete,
              !.prod = "queued", !.err = "none"]]
    BY <1>0, <2>2 DEF OrderRecord
  <2> QED
    BY <1>6, <2>1, <2>2 DEF RetryProduction, KeepsBuild
<1>7. ASSUME NEW o \in Orders, LinkPayment(o) PROVE Steady(p) \/ LinkPayment(p)
  BY <1>0, <1>7 DEF LinkPayment
<1>8. ASSUME NEW o \in Orders, NEW c \in Callers, SyncCommit(o, c)
      PROVE Steady(p) \/ SyncCommit(p, c)
  BY <1>0, <1>8 DEF SyncCommit
<1>9. ASSUME NEW o \in Orders, NEW c \in Clients, RequestCancellation(o, c)
      PROVE Steady(p) \/ (c \in Callers /\ RequestCancellation(p, c))
  BY <1>0, <1>9 DEF RequestCancellation, Callers
<1>10. ASSUME NEW o \in Orders, Payments(o)
       PROVE UNCHANGED order \/ CreateOrder(o) \/ LinkPayment(o) \/ PaymentCreationFailed(o)
  BY <1>10 DEF Payments, InvoiceCreated, InvoiceRefused
<1>11. ASSUME NEW o \in Orders, Submission(o)
       PROVE UNCHANGED order \/ ClaimStart(o) \/ CountRetry(o) \/ RecordBuild(o)
  BY <1>11 DEF Submission, ClaimRecovery, ClaimRefused, FindReceipt, PassSpendGate,
     WriteAttempt, BuildAccepted, SubmitFails, SafePreBuildRetry
<1>12. ASSUME NEW o \in Orders, Watching(o)
       PROVE UNCHANGED order \/ FinishProduction(o)
  BY <1>12 DEF Watching, ResumeReturns, SafeReattach
<1>13. ASSUME NEW o \in Orders, Environment(o) \/ Poll(o) PROVE UNCHANGED order
  BY <1>13 DEF Environment, Poll, PayerPays, InvoiceExpires, ChainSettles, WatchLapses,
     BuildEnds
<1>14. ASSUME NEW o \in Orders, NEW c \in Callers, Request(o, c)
       PROVE UNCHANGED order \/ SyncCommit(o, c)
  BY <1>14 DEF Request, ProviderAnswers, SyncFails, RefuseStale, StartProduction
<1>15. ASSUME NEW o \in Orders, NEW c \in Clients, ClientCall(o, c)
       PROVE UNCHANGED order \/ RequestCancellation(o, c) \/ RetryProduction(o, c)
  BY <1>15 DEF ClientCall, ApiSync
<1>16. Restart \/ UNCHANGED vars => UNCHANGED order
  BY DEF Restart, vars
<1>17. \/ UNCHANGED order
       \/ \E o \in Orders :
            \/ CreateOrder(o) \/ PaymentCreationFailed(o) \/ LinkPayment(o)
            \/ ClaimStart(o) \/ CountRetry(o) \/ RecordBuild(o) \/ FinishProduction(o)
            \/ \E c \in Callers : SyncCommit(o, c)
            \/ \E c \in Clients : RequestCancellation(o, c) \/ RetryProduction(o, c)
  BY <1>10, <1>11, <1>12, <1>13, <1>14, <1>15, <1>16 DEF Next
<1> HIDE DEF IInv, Steady
<1> QED
  BY <1>1, <1>2, <1>3, <1>5, <1>6, <1>7, <1>8, <1>9, <1>17 DEF Steady

\* No step takes back authorization or settlement, however late its answer.
THEOREM PaymentMonotone == Spec => PaymentNeverRegresses
<1> DEFINE Kept(p) == /\ Authorized(order[p].pay) => Authorized(order'[p].pay)
                      /\ order[p].pay = "settled" => order'[p].pay = "settled"
<1>1. ASSUME IInv, [Next]_vars, NEW p \in Orders PROVE Kept(p)
  <2>1. CASE Steady(p)
    BY <2>1 DEF Steady
  <2>2. CASE LinkPayment(p)
    BY <1>1, <2>2 DEF IInv, Linked, LinkPayment, Authorized, Views
  <2>3. ASSUME NEW c \in Callers, SyncCommit(p, c) PROVE Kept(p)
    <3>1. /\ order[p] \in OrderRecord /\ slot[p][c].view \in Views
          /\ order' = [order EXCEPT ![p] = Reconciled(order[p], slot[p][c].view)]
          /\ order \in [Orders -> OrderRecord]
      BY <1>1, <2>3 DEF IInv, TypeOK, Linked, SyncCommit
    <3>2. order'[p].pay = slot[p][c].view
      BY <3>1, ReconciledRecord
    <3> QED
      BY <2>3, <3>2 DEF SyncCommit, Regresses
  <2>4. ASSUME NEW c \in Callers, RequestCancellation(p, c) PROVE Kept(p)
    BY <1>1, <2>4 DEF IInv, TypeOK, OrderRecord, RequestCancellation
  <2> QED
    BY <1>1, <2>1, <2>2, <2>3, <2>4, OthersSteady
<1>2. IInv /\ [Next]_vars
        => [\A o \in Orders :
              /\ Authorized(order[o].pay) => Authorized(order'[o].pay)
              /\ order[o].pay = "settled" => order'[o].pay = "settled"]_vars
  BY <1>1
<1> QED
  BY <1>2, AlwaysIInv, PTL DEF Spec, PaymentNeverRegresses

\* The order of cancellation states the Buyer enforces is the Seller's own, and
\* a review never changes.
THEOREM CancellationAdvances == Spec => CancellationOnlyAdvances
<1> DEFINE Ahead(p) ==
      /\ Progress(order'[p].canc) >= Progress(order[p].canc)
      /\ Progress(order[p].canc) = 3 => order'[p].canc = order[p].canc
<1>1. ASSUME IInv, [Next]_vars, NEW p \in Orders PROVE Ahead(p)
  <2>1. order \in [Orders -> OrderRecord]
    BY <1>1 DEF IInv, TypeOK
  <2>2. CASE order'[p].canc = order[p].canc
    BY <2>2 DEF Progress
  <2>3. CASE LinkPayment(p)
    BY <2>1, <2>2, <2>3 DEF LinkPayment, OrderRecord
  <2>4. ASSUME NEW c \in Callers, SyncCommit(p, c) PROVE Ahead(p)
    <3>1. /\ order[p] \in OrderRecord /\ slot[p][c].view \in Views
          /\ order'[p] = Reconciled(order[p], slot[p][c].view)
      BY <1>1, <2>1, <2>4 DEF IInv, Linked, SyncCommit
    <3> QED
      BY <3>1, ReconciledCancellation DEF Progress
  <2>5. ASSUME NEW c \in Callers, RequestCancellation(p, c) PROVE Ahead(p)
    <3>1. order[p].canc = "none"
      BY <2>5 DEF RequestCancellation, Cancelled
    <3> QED
      BY <3>1 DEF Progress
  <2> QED
    BY <1>1, <2>2, <2>3, <2>4, <2>5, OthersSteady DEF Steady
<1>2. IInv /\ [Next]_vars
        => [\A o \in Orders :
              /\ Progress(order'[o].canc) >= Progress(order[o].canc)
              /\ Progress(order[o].canc) = 3 => order'[o].canc = order[o].canc]_vars
  BY <1>1
<1> QED
  BY <1>2, AlwaysIInv, PTL DEF Spec, CancellationOnlyAdvances

(***************************************************************************)
(* Neither the payment nor the cancellation of an order is ever taken back, *)
(* whichever answers of the provider come late or twice (syncOrder,         *)
(* requestCancellation).                                                   *)
(***************************************************************************)
THEOREM ProgressKept == Spec => NothingRegresses
  BY PaymentMonotone, CancellationAdvances DEF NothingRegresses

-----------------------------------------------------------------------------
(* How many productions run. *)

\* What a released task leaves: its own entry is free or claims again, another
\* entry is as it was or claims.
LEMMA ReleaseSlots ==
  ASSUME TypeOK, NEW o \in Orders, Release(o), NEW p \in Orders
  PROVE  \/ task'[p] \in {NoTask, At("claim", FALSE)}
         \/ p # o /\ task'[p] = task[p]
<1> DEFINE freed == [task EXCEPT ![o] = NoTask]
<1>0. task \in [Orders -> TaskRecord]
  BY DEF TypeOK
<1>1. /\ DOMAIN freed = Orders
      /\ p = o => freed[p] = NoTask
      /\ p # o => freed[p] = task[p]
  BY <1>0
<1>2. \/ task' = freed
      \/ \E q \in Orders : task' = [freed EXCEPT ![q] = At("claim", FALSE)]
  BY DEF Release
<1> HIDE DEF freed
<1> QED
  BY <1>1, <1>2

\* One more task than before stays within the bound when there was room.
LEMMA OneMoreTask ==
  ASSUME NEW S \in SUBSET Orders, NEW T \in SUBSET S, NEW o \in Orders,
         NEW U \in SUBSET (T \cup {o}), Cardinality(T) < MaxProductions
  PROVE  Cardinality(U) <= MaxProductions
<1>1. IsFiniteSet(T)
  BY SellerAssumption, FS_Subset
<1>2. /\ IsFiniteSet(T \cup {o})
      /\ Cardinality(T \cup {o}) \in {Cardinality(T), Cardinality(T) + 1}
  BY <1>1, FS_AddElement
<1>3. IsFiniteSet(U) /\ Cardinality(U) <= Cardinality(T \cup {o})
  BY <1>2, FS_Subset
<1>4. Cardinality(T) \in Nat /\ Cardinality(U) \in Nat
  BY <1>1, <1>3, FS_CardinalityType
<1> QED
  BY <1>2, <1>3, <1>4, SellerAssumption

\* A step that starts no task keeps the bound.
LEMMA NoMoreTasks ==
  ASSUME ProductionsBounded, NEW U \in SUBSET Running
  PROVE  Cardinality(U) <= MaxProductions
<1>1. IsFiniteSet(Running)
  BY SellerAssumption, FS_Subset DEF Running
<1>2. IsFiniteSet(U) /\ Cardinality(U) <= Cardinality(Running)
  BY <1>1, FS_Subset
<1>3. Cardinality(Running) \in Nat /\ Cardinality(U) \in Nat
  BY <1>1, <1>2, FS_CardinalityType
<1> QED
  BY <1>2, <1>3, SellerAssumption DEF ProductionsBounded

LEMMA StartProductionBounded ==
  ASSUME TypeOK, ProductionsBounded, NEW o \in Orders, task' = WithTask(o)
  PROVE  ProductionsBounded'
<1>1. CASE task' = task
  <2>1. Running' \in SUBSET Running
    BY <1>1 DEF Running
  <2> QED
    BY <2>1, NoMoreTasks DEF ProductionsBounded
<1>2. CASE HasRoom /\ task' = [task EXCEPT ![o] = At("claim", FALSE)]
  <2>1. Running' \in SUBSET (Running \cup {o})
    BY <1>2 DEF Running, TypeOK
  <2>2. Running \in SUBSET Orders /\ Running \in SUBSET Running
    BY DEF Running
  <2>3. Cardinality(Running) < MaxProductions
    BY <1>2 DEF HasRoom
  <2> HIDE DEF Running
  <2>4. Cardinality(Running') <= MaxProductions
    BY <2>1, <2>2, <2>3, OneMoreTask
  <2> QED
    BY <2>4 DEF ProductionsBounded
<1> QED
  BY <1>1, <1>2 DEF WithTask

LEMMA ReleaseBounded ==
  ASSUME TypeOK, ProductionsBounded, NEW o \in Orders, Release(o)
  PROVE  ProductionsBounded'
<1> DEFINE freed == [task EXCEPT ![o] = NoTask]
           others == Running \ {o}
<1>1. freed \in [Orders -> TaskRecord] /\ \A p \in Orders : freed[p].pc # "none" => p \in others
  BY DEF TypeOK, NoTask, At, TaskRecord, TaskSteps, Running
<1>2. others \in SUBSET Running /\ Running \in SUBSET Orders
  BY DEF Running
<1>3. CASE task' = freed
  <2>1. Running' \in SUBSET Running
    BY <1>1, <1>2, <1>3 DEF Running
  <2> QED
    BY <2>1, NoMoreTasks DEF ProductionsBounded
<1>4. ASSUME NEW p \in Orders, Cardinality(others) < MaxProductions,
             task' = [freed EXCEPT ![p] = At("claim", FALSE)]
      PROVE  ProductionsBounded'
  <2> HIDE DEF freed
  <2>1. Running' \in SUBSET (others \cup {p})
    BY <1>1, <1>4 DEF Running
  <2> HIDE DEF others
  <2>2. Cardinality(Running') <= MaxProductions
    BY <1>2, <1>4, <2>1, OneMoreTask
  <2> QED
    BY <2>2 DEF ProductionsBounded
<1> QED
  BY <1>3, <1>4 DEF Release

LEMMA RestartBounded ==
  ASSUME Restart
  PROVE  ProductionsBounded'
<1>1. PICK resumed \in SUBSET Orders :
        /\ Cardinality(resumed) <= MaxProductions
        /\ task' = [o \in Orders |-> IF o \in resumed THEN At("claim", FALSE) ELSE NoTask]
  BY DEF Restart
<1>2. Running' = resumed
  BY <1>1 DEF Running, At, NoTask
<1> QED
  BY <1>1, <1>2 DEF ProductionsBounded

\* Every other step leaves the tasks alone or moves one that is running.
Moves == task' = task \/ \E o \in Orders, t \in TaskRecord :
            task[o].pc # "none" /\ task' = [task EXCEPT ![o] = t]

LEMMA WhoStartsTasks ==
  ASSUME TypeOK, [Next]_vars
  PROVE  \/ Moves
         \/ \E o \in Orders : task' = WithTask(o) \/ Release(o)
         \/ Restart
<1>1. ASSUME NEW o \in Orders, Payments(o) \/ Environment(o) \/ Poll(o) PROVE task' = task
  BY <1>1 DEF Payments, CreateOrder, InvoiceCreated, InvoiceRefused, LinkPayment,
     PaymentCreationFailed, Environment, PayerPays, InvoiceExpires, ChainSettles,
     WatchLapses, BuildEnds, process, Poll
<1>2. ASSUME NEW o \in Orders, NEW c \in Callers, Request(o, c)
      PROVE task' = task \/ task' = WithTask(o)
  BY <1>2 DEF Request, ProviderAnswers, SyncFails, RefuseStale, SyncCommit, StartProduction
<1>3. ASSUME NEW o \in Orders, NEW c \in Clients, ClientCall(o, c) PROVE task' = task
  BY <1>3 DEF ClientCall, ApiSync, RequestCancellation, RetryProduction
<1>4. ASSUME NEW o \in Orders, Submission(o) PROVE Moves \/ Release(o)
  <2>1. ASSUME NEW pc \in TaskSteps, NEW again \in BOOLEAN PROVE At(pc, again) \in TaskRecord
    BY DEF At, TaskRecord
  <2>2. ASSUME NEW e \in Errors PROVE FailWith(e) \in TaskRecord
    BY DEF FailWith, TaskRecord, TaskSteps
  <2>3. CASE ClaimStart(o) \/ ClaimRecovery(o) \/ FindReceipt(o) \/ PassSpendGate(o)
    BY <2>1, <2>3 DEF ClaimStart, ClaimRecovery, FindReceipt, PassSpendGate, TaskAt, MoveTask,
       TaskSteps, Moves
  <2>4. CASE \/ WriteAttempt(o) \/ BuildAccepted(o) \/ SafePreBuildRetry(o) \/ CountRetry(o)
             \/ RecordBuild(o)
    BY <2>1, <2>4 DEF WriteAttempt, BuildAccepted, SafePreBuildRetry, CountRetry, RecordBuild,
       TaskAt, MoveTask, TaskSteps, Moves
  <2>5. CASE SubmitFails(o)
    <3>1. task[o].pc \in {"submit", "building"}
      BY <2>5 DEF SubmitFails, SubmissionErrors, TaskAt
    <3>2. SubmissionErrors(o) \subseteq Errors
      BY DEF SubmissionErrors, Errors
    <3> QED
      BY <2>2, <2>5, <3>1, <3>2 DEF SubmitFails, MoveTask, Moves
  <2> QED
    BY <1>4, <2>3, <2>4, <2>5 DEF Submission, ClaimRefused
<1>5. ASSUME NEW o \in Orders, Watching(o) PROVE Moves \/ Release(o)
  <2>1. CASE ResumeReturns(o)
    <3>1. PICK t \in TaskRecord : task' = [task EXCEPT ![o] = t]
      BY <2>1 DEF ResumeReturns, MoveTask, FailWith, At, TaskRecord, TaskSteps, Errors
    <3> QED
      BY <2>1, <3>1 DEF ResumeReturns, TaskAt, Moves
  <2>2. CASE SafeReattach(o)
    BY <2>2 DEF SafeReattach, TaskAt, MoveTask, At, TaskRecord, TaskSteps, Moves
  <2> QED
    BY <1>5, <2>1, <2>2 DEF Watching, FinishProduction
<1>6. CASE UNCHANGED vars
  BY <1>6 DEF vars, Moves
<1> QED
  BY <1>1, <1>2, <1>3, <1>4, <1>5, <1>6 DEF Next, Moves

LEMMA BoundedStep ==
  ASSUME TypeOK, ProductionsBounded, [Next]_vars
  PROVE  ProductionsBounded'
<1>1. CASE Moves
  <2>1. Running' \in SUBSET Running
    BY <1>1 DEF Moves, Running, TypeOK
  <2> QED
    BY <2>1, NoMoreTasks DEF ProductionsBounded
<1> QED
  BY <1>1, StartProductionBounded, ReleaseBounded, RestartBounded, WhoStartsTasks

\* The process never runs more productions than the operator allowed, whether a
\* sync, the drained queue or recovery starts them (#startProduction, recover).
THEOREM ConcurrencyLimited == Spec => []ProductionsBounded
<1>1. Init => ProductionsBounded
  <2> SUFFICES ASSUME Init PROVE ProductionsBounded
    OBVIOUS
  <2>1. Running = {}
    BY DEF Init, Running, NoTask, At
  <2> QED
    BY <2>1, FS_EmptySet, SellerAssumption DEF ProductionsBounded
<1>2. TypeOK /\ ProductionsBounded /\ [Next]_vars => ProductionsBounded'
  BY BoundedStep
<1> QED
  BY <1>1, <1>2, TypeCorrect, PTL DEF Spec
-----------------------------------------------------------------------------
(* The stop, the submission and the recorded build. *)

\* Until an operator retries, an order that has not been claimed is untouched,
\* its task works only while it is producing, and a stop has taken it out.
Untouched(o) ==
    /\ order[o].prod \in {"locked", "queued", "stopped"}
        => ~order[o].build /\ ~order[o].started
    /\ task[o].pc \notin {"none", "claim"} => order[o].prod = "producing"
    /\ order[o].canc \in {"stop_requested", "cancelled_unpaid", "refund_review_required"}
        => order[o].prod = "stopped"

\* An order or a task that blames its Build has one that ended badly.
Blamed(o) ==
    /\ order[o].err = Incomplete => job[o] = "incomplete"
    /\ task[o].err = Incomplete => job[o] = "incomplete"

Life(o) == (retries = 0 => Untouched(o)) /\ Blamed(o)

\* What an answer does to the parts of a record that Life is about.
LEMMA ReconciledLife ==
  ASSUME NEW r \in OrderRecord, NEW v \in Views
  PROVE  /\ Reconciled(r, v).build = r.build /\ Reconciled(r, v).err = r.err
         /\ Reconciled(r, v).started = r.started
         /\ \/ Reconciled(r, v).prod = r.prod
            \/ /\ ~Authorized(r.pay) /\ Reconciled(r, v).prod \in {"queued", "stopped"}
               /\ Reconciled(r, v).prod = "queued" <=>
                    r.canc \notin {"stop_requested", "cancelled_unpaid", "cost_review_required"}
<1> DEFINE seen == [r EXCEPT !.pay = v]
<1>1. seen \in OrderRecord /\ seen.pay = v
  BY DEF OrderRecord
<1>2. /\ seen.build = r.build /\ seen.err = r.err /\ seen.started = r.started
      /\ seen.prod = r.prod /\ seen.canc = r.canc
  BY DEF OrderRecord
<1>3. ASSUME NEW q \in OrderRecord
      PROVE  /\ EndUnpaid(q).build = q.build /\ EndUnpaid(q).err = q.err
             /\ EndUnpaid(q).started = q.started /\ EndUnpaid(q).prod = q.prod
             /\ StopForRefund(q).build = q.build /\ StopForRefund(q).err = q.err
             /\ StopForRefund(q).started = q.started /\ StopForRefund(q).prod = q.prod
             /\ StopForRefund(q) \in OrderRecord
  BY DEF EndUnpaid, StopForRefund, OrderRecord, OrderStates, Cancellations
<1>4. ASSUME NEW q \in OrderRecord
      PROVE  /\ Authorize(q).build = q.build /\ Authorize(q).err = q.err
             /\ Authorize(q).started = q.started
             /\ Authorize(q).prod =
                  IF q.canc \in {"stop_requested", "cancelled_unpaid"} THEN "stopped"
                  ELSE IF q.canc = "cost_review_required" THEN q.prod ELSE "queued"
  <2>1. CASE q.canc \in {"stop_requested", "cancelled_unpaid"}
    <3>1. Authorize(q) = [StopForRefund(q) EXCEPT !.prod = "stopped"]
      BY <2>1 DEF Authorize
    <3> QED
      BY <1>3, <2>1, <3>1 DEF OrderRecord
  <2>2. CASE q.canc \notin {"stop_requested", "cancelled_unpaid"}
    BY <2>2 DEF Authorize, OrderRecord
  <2> QED
    BY <2>1, <2>2
<1>5. \/ Reconciled(r, v) \in {EndUnpaid(seen), StopForRefund(seen), seen}
      \/ ~Authorized(r.pay) /\ Reconciled(r, v) = Authorize(seen)
  BY DEF Reconciled
<1> HIDE DEF seen
<1> QED
  BY <1>1, <1>2, <1>3, <1>4, <1>5

LEMMA InitLife == Init => \A p \in Orders : Life(p)
  BY DEF Init, Life, Untouched, Blamed, NoOrder, NoTask, At, Incomplete

\* Steps that change no order's production, cancellation, build or error and
\* start or move no task.
LEMMA QuietLife ==
  ASSUME TypeOK, NEW p \in Orders, Life(p), retries' = retries, job' = job,
         order'[p].prod = order[p].prod, order'[p].canc = order[p].canc,
         order'[p].build = order[p].build, order'[p].err = order[p].err,
         order'[p].started = order[p].started,
         task'[p] \in {task[p], NoTask, At("claim", FALSE)}
  PROVE  Life(p)'
  BY DEF Life, Untouched, Blamed, NoTask, At, Incomplete

LEMMA PaymentsLife ==
  ASSUME TypeOK, NEW p \in Orders, Life(p), NEW o \in Orders, Payments(o)
  PROVE  Life(p)'
<1>1. /\ task' = task /\ job' = job /\ retries' = retries
      /\ order \in [Orders -> OrderRecord]
  BY DEF TypeOK, Payments, CreateOrder, InvoiceCreated, InvoiceRefused, LinkPayment,
     PaymentCreationFailed, bounds
<1>2. /\ order'[p].prod = order[p].prod /\ order'[p].canc = order[p].canc
      /\ order'[p].build = order[p].build /\ order'[p].err = order[p].err
      /\ order'[p].started = order[p].started
  <2>1. CASE CreateOrder(o)
    BY <1>1, <2>1 DEF CreateOrder, OrderRecord
  <2>2. CASE LinkPayment(o)
    BY <1>1, <2>2 DEF LinkPayment, OrderRecord
  <2>3. CASE PaymentCreationFailed(o)
    BY <1>1, <2>3 DEF PaymentCreationFailed, OrderRecord
  <2>4. CASE InvoiceCreated(o) \/ InvoiceRefused(o)
    BY <2>4 DEF InvoiceCreated, InvoiceRefused
  <2> QED
    BY <2>1, <2>2, <2>3, <2>4 DEF Payments
<1> QED
  BY <1>1, <1>2, QuietLife

LEMMA SyncCommitLife ==
  ASSUME IInv, NEW p \in Orders, Life(p), NEW c \in Callers, SyncCommit(p, c)
  PROVE  Life(p)'
<1> DEFINE r == Reconciled(order[p], slot[p][c].view)
<1>1. /\ order[p] \in OrderRecord /\ slot[p][c].view \in Views
      /\ order'[p] = r /\ UNCHANGED <<task, job, retries>>
  BY DEF IInv, TypeOK, Linked, SyncCommit, bounds
<1>2. /\ r.build = order[p].build /\ r.err = order[p].err /\ r.started = order[p].started
      /\ \/ r.prod = order[p].prod
         \/ /\ ~Authorized(order[p].pay) /\ r.prod \in {"queued", "stopped"}
            /\ r.prod = "queued" <=> order[p].canc \notin
                    {"stop_requested", "cancelled_unpaid", "cost_review_required"}
  BY <1>1, ReconciledLife
<1>3. \/ r.canc = order[p].canc
      \/ /\ order[p].canc = "stop_requested"
         /\ r.canc \in {"cancelled_unpaid", "refund_review_required"}
      \/ order[p].canc = "cancelled_unpaid" /\ r.canc = "refund_review_required"
  BY <1>1, ReconciledCancellation
<1> HIDE DEF r
<1>4. Blamed(p)'
  BY <1>1, <1>2 DEF Life, Blamed
<1>5. ASSUME retries = 0 PROVE Untouched(p)'
  <2>1. Untouched(p) /\ Gated(p)
    BY <1>5 DEF Life, IInv
  <2>2. CASE r.prod = order[p].prod
    <3>1. /\ order'[p].prod = order[p].prod /\ order'[p].build = order[p].build
          /\ order'[p].started = order[p].started /\ task'[p] = task[p]
      BY <1>1, <1>2, <2>2
    <3>2. order'[p].canc \in {"stop_requested", "cancelled_unpaid", "refund_review_required"}
            => order[p].prod = "stopped"
      BY <1>1, <1>3, <2>1 DEF Untouched
    <3> QED
      BY <2>1, <3>1, <3>2 DEF Untouched
  <2>3. CASE r.prod # order[p].prod
    <3>1. order[p].prod \in {"locked", "stopped"} /\ task[p].pc \in {"none", "claim"}
      <4>1. ~Authorized(order[p].pay)
        BY <1>2, <2>3
      <4>2. order[p].prod \in Productions
        BY <1>1 DEF OrderRecord
      <4> QED
        BY <2>1, <4>1, <4>2 DEF Gated, Productions
    <3>2. order[p].canc \notin {"stop_requested", "cancelled_unpaid", "refund_review_required"}
      BY <1>2, <2>1, <2>3 DEF Untouched, Gated
    <3>3. r.canc = order[p].canc
      BY <1>3, <3>2
    <3> QED
      BY <1>1, <1>2, <2>1, <2>3, <3>1, <3>2, <3>3 DEF Untouched
  <2> QED
    BY <2>2, <2>3
<1> QED
  BY <1>1, <1>4, <1>5 DEF Life

LEMMA RequestCancellationLife ==
  ASSUME IInv, NEW p \in Orders, Life(p), NEW c \in Callers, RequestCancellation(p, c)
  PROVE  Life(p)'
<1>1. /\ order[p] \in OrderRecord /\ order \in [Orders -> OrderRecord]
      /\ UNCHANGED <<task, job, retries>>
  BY DEF IInv, TypeOK, RequestCancellation, bounds
<1>2. CASE ProductionStarted(p)
  BY <1>1, <1>2 DEF RequestCancellation, ProductionStarted, OrderRecord, Life, Untouched, Blamed
<1>3. CASE ~ProductionStarted(p)
  <2>1. /\ order'[p].prod = "stopped" /\ order'[p].build = order[p].build
        /\ order'[p].started = order[p].started /\ order'[p].err = order[p].err
    BY <1>1, <1>3 DEF RequestCancellation, OrderRecord
  <2>2. order[p].prod \in {"locked", "queued", "stopped"}
    BY <1>1, <1>3 DEF ProductionStarted, OrderRecord, Productions
  <2> QED
    BY <1>1, <2>1, <2>2 DEF Life, Untouched, Blamed
<1> QED
  BY <1>2, <1>3

\* A retry is counted, so only the blame of a Build is left to keep.
LEMMA RetryProductionLife ==
  ASSUME IInv, NEW p \in Orders, Life(p), NEW o \in Orders, NEW c \in Callers,
         RetryProduction(o, c)
  PROVE  Life(p)'
<1>1. order \in [Orders -> OrderRecord] /\ retries \in Nat /\ retries' = retries + 1
  BY SellerAssumption DEF IInv, TypeOK, RetryProduction
<1>2. UNCHANGED <<task, job>> /\ order'[p].err \in {order[p].err, "none"}
  BY <1>1 DEF RetryProduction, OrderRecord
<1> QED
  BY <1>1, <1>2 DEF Life, Blamed, Incomplete

\* The steps of the task of p itself, one by one.
LEMMA SubmissionLife ==
  ASSUME IInv, NEW p \in Orders, Life(p), Submission(p)
  PROVE  Life(p)'
<1>0. RestUnchanged
  BY DEF Submission, ClaimStart, ClaimRecovery, ClaimRefused, FindReceipt, PassSpendGate,
     WriteAttempt, BuildAccepted, SubmitFails, SafePreBuildRetry, CountRetry, RecordBuild
<1>1. /\ order \in [Orders -> OrderRecord] /\ task \in [Orders -> TaskRecord]
      /\ job \in [Orders -> Jobs] /\ retries' = retries
      /\ Marked(p) /\ TypeOK
  BY <1>0 DEF IInv, TypeOK, RestUnchanged, bounds
<1>2. CASE ClaimStart(p)
  <2>1. /\ order'[p].prod = "producing" /\ order'[p].canc = order[p].canc
        /\ order'[p].err = order[p].err /\ job' = job /\ task'[p].err = "none"
        /\ order[p].canc = "none"
    BY <1>1, <1>2 DEF ClaimStart, Claimable, Cancelled, OrderRecord, MoveTask, At
  <2> QED
    BY <1>1, <2>1 DEF Life, Untouched, Blamed, Incomplete
<1>3. CASE ClaimRecovery(p)
  <2>1. /\ UNCHANGED <<order, job>> /\ task'[p].err = "none"
    BY <1>1, <1>3 DEF ClaimRecovery, MoveTask, At
  <2>2. order[p].prod \in {"queued", "producing"}
    BY <1>3 DEF ClaimRecovery, Claimable
  <2>3. order[p].prod = "producing" \/ order[p].build
    BY <1>3, Zenon DEF ClaimRecovery
  <2>4. retries = 0 /\ order[p].prod = "queued" => ~order[p].build
    BY DEF Life, Untouched
  <2>5. retries = 0 /\ order[p].prod = "queued" => FALSE
    BY <2>3, <2>4
  <2> QED
    BY <1>1, <2>1, <2>2, <2>5 DEF Life, Untouched, Blamed, Incomplete
<1>4. CASE ClaimRefused(p)
  <2>1. task'[p] \in {NoTask, At("claim", FALSE)} /\ UNCHANGED <<order, job>>
    BY <1>1, <1>4, ReleaseSlots DEF ClaimRefused
  <2> QED
    BY <1>1, <2>1, QuietLife
<1>5. CASE FindReceipt(p) \/ PassSpendGate(p) \/ SafePreBuildRetry(p)
  <2>1. /\ UNCHANGED <<order, job>> /\ task[p].pc = "submit" /\ task'[p].err = "none"
    BY <1>1, <1>5 DEF FindReceipt, PassSpendGate, SafePreBuildRetry, TaskAt, MoveTask, At
  <2> QED
    BY <1>1, <2>1 DEF Life, Untouched, Blamed, Incomplete
<1>6. CASE WriteAttempt(p) \/ BuildAccepted(p)
  <2>1. /\ UNCHANGED order /\ task[p].pc \in {"approved", "building"}
        /\ task'[p].err = "none" /\ job[p] # "incomplete"
    BY <1>1, <1>6 DEF WriteAttempt, BuildAccepted, TaskAt, MoveTask, At, Marked
  <2> QED
    BY <1>1, <2>1 DEF Life, Untouched, Blamed, Incomplete
<1>7. CASE SubmitFails(p)
  <2>1. PICK e \in SubmissionErrors(p) : task' = [task EXCEPT ![p] = FailWith(e)]
    BY <1>7 DEF SubmitFails, MoveTask
  <2>2. task[p].pc \in {"submit", "building"} /\ e # Incomplete
    BY <2>1 DEF SubmissionErrors, TaskAt, Ambiguous, Uncertain, Incomplete, Terminal, Other
  <2>3. UNCHANGED <<order, job>> /\ task'[p].err = e
    BY <1>1, <1>7, <2>1 DEF SubmitFails, FailWith
  <2> QED
    BY <1>1, <2>2, <2>3 DEF Life, Untouched, Blamed
<1>8. CASE CountRetry(p) \/ RecordBuild(p)
  <2>1. /\ order'[p].prod = order[p].prod /\ order'[p].canc = order[p].canc
        /\ order'[p].err = order[p].err /\ job' = job
    <3>1. CASE CountRetry(p)
      BY <1>1, <3>1 DEF CountRetry, OrderRecord
    <3>2. CASE RecordBuild(p)
      BY <1>1, <3>2 DEF RecordBuild, OrderRecord
    <3> QED
      BY <1>8, <3>1, <3>2
  <2>2. task[p].pc \in {"retry", "reattach", "record"} /\ task'[p].err = "none"
    BY <1>1, <1>8 DEF CountRetry, RecordBuild, TaskAt, MoveTask, At
  <2> QED
    BY <1>1, <2>1, <2>2 DEF Life, Untouched, Blamed, Incomplete
<1> QED
  BY <1>2, <1>3, <1>4, <1>5, <1>6, <1>7, <1>8 DEF Submission

LEMMA WatchingLife ==
  ASSUME IInv, NEW p \in Orders, Life(p), Watching(p)
  PROVE  Life(p)'
<1>1. /\ order \in [Orders -> OrderRecord] /\ task \in [Orders -> TaskRecord]
      /\ retries' = retries /\ job' = job /\ TypeOK
  BY DEF IInv, TypeOK, Watching, RestUnchanged, bounds, ResumeReturns, SafeReattach,
     FinishProduction
<1>2. CASE ResumeReturns(p) \/ SafeReattach(p)
  <2>1. /\ UNCHANGED order /\ task[p].pc = "resume"
    BY <1>2 DEF ResumeReturns, SafeReattach, TaskAt
  <2>2. task'[p].err = Incomplete => job[p] = "incomplete"
    BY <1>1, <1>2 DEF ResumeReturns, SafeReattach, MoveTask, At, FailWith, Incomplete,
       Ambiguous, Other
  <2> QED
    BY <1>1, <2>1, <2>2 DEF Life, Untouched, Blamed
<1>3. CASE FinishProduction(p)
  <2>1. task'[p] \in {NoTask, At("claim", FALSE)}
    BY <1>1, <1>3, ReleaseSlots DEF FinishProduction
  <2>2. task'[p].pc \in {"none", "claim"} /\ task'[p].err # Incomplete
    BY <2>1 DEF NoTask, At, Incomplete
  <2>3. /\ order'[p].prod \in {"completed", "producing", "failed"}
        /\ order'[p].canc = order[p].canc
        /\ order'[p].err \in {"none", task[p].err}
        /\ task[p].pc \notin {"none", "claim"}
    <3>1. ASSUME NEW st, NEW prod, NEW err, Ended(p, st, prod, err)
          PROVE  /\ order'[p].prod = prod /\ order'[p].err = err
                 /\ order'[p].canc = order[p].canc
      BY <1>1, <3>1 DEF Ended, OrderRecord
    <3> QED
      BY <1>3, <3>1 DEF FinishProduction, TaskAt
  <2> QED
    BY <1>1, <2>2, <2>3 DEF Life, Untouched, Blamed, Incomplete
<1> QED
  BY <1>2, <1>3 DEF Watching

LEMMA EnvironmentLife ==
  ASSUME IInv, NEW p \in Orders, Life(p), NEW o \in Orders, Environment(o)
  PROVE  Life(p)'
<1>1. UNCHANGED <<order, task, retries>>
  BY DEF Environment, PayerPays, InvoiceExpires, ChainSettles, WatchLapses, BuildEnds,
     process, bounds
<1>2. job[p] = "incomplete" => job'[p] = "incomplete"
  BY DEF Environment, PayerPays, InvoiceExpires, ChainSettles, WatchLapses, BuildEnds, IInv,
     TypeOK
<1> QED
  BY <1>1, <1>2 DEF Life, Untouched, Blamed

LEMMA RequestLife ==
  ASSUME IInv, NEW p \in Orders, Life(p), NEW o \in Orders, NEW c \in Callers, Request(o, c)
  PROVE  Life(p)'
<1>1. CASE SyncCommit(o, c)
  <2>1. CASE o = p
    BY <1>1, <2>1, SyncCommitLife
  <2>2. CASE o # p
    <3>1. order'[p] = order[p] /\ UNCHANGED <<task, job, retries>>
      BY <1>1, <2>2 DEF SyncCommit, IInv, TypeOK, bounds
    <3> QED
      BY <3>1 DEF Life, Untouched, Blamed
  <2> QED
    BY <2>1, <2>2
<1>2. CASE ProviderAnswers(o, c) \/ SyncFails(o, c) \/ RefuseStale(o, c)
  <2>1. UNCHANGED <<order, task, job, retries>>
    BY <1>2 DEF ProviderAnswers, SyncFails, RefuseStale, bounds
  <2> QED
    BY <2>1 DEF Life, Untouched, Blamed
<1>3. CASE StartProduction(o, c)
  <2>1. /\ UNCHANGED <<order, job, retries>> /\ TypeOK
        /\ task'[p] \in {task[p], NoTask, At("claim", FALSE)}
    BY <1>3 DEF StartProduction, WithTask, bounds, IInv, TypeOK
  <2> QED
    BY <2>1, QuietLife
<1> QED
  BY <1>1, <1>2, <1>3 DEF Request

LEMMA ClientCallLife ==
  ASSUME IInv, NEW p \in Orders, Life(p), NEW o \in Orders, NEW c \in Clients, ClientCall(o, c)
  PROVE  Life(p)'
<1>1. CASE ApiSync(o, c)
  <2>1. UNCHANGED <<order, task, job, retries>>
    BY <1>1 DEF ApiSync, bounds
  <2> QED
    BY <2>1 DEF Life, Untouched, Blamed
<1>2. CASE RequestCancellation(o, c)
  <2>1. CASE o = p
    BY <1>2, <2>1, RequestCancellationLife DEF Callers
  <2>2. CASE o # p
    <3>1. order'[p] = order[p] /\ UNCHANGED <<task, job, retries>>
      BY <1>2, <2>2 DEF RequestCancellation, IInv, TypeOK, bounds
    <3> QED
      BY <3>1 DEF Life, Untouched, Blamed
  <2> QED
    BY <2>1, <2>2
<1>3. CASE RetryProduction(o, c)
  BY <1>3, RetryProductionLife DEF Callers
<1> QED
  BY <1>1, <1>2, <1>3 DEF ClientCall

\* A step of another order's task leaves p alone, or lets it claim.
LEMMA OtherTaskLife ==
  ASSUME IInv, NEW p \in Orders, Life(p), NEW o \in Orders, o # p,
         Submission(o) \/ Watching(o)
  PROVE  Life(p)'
<1>1. /\ order \in [Orders -> OrderRecord] /\ task \in [Orders -> TaskRecord]
      /\ job \in [Orders -> Jobs] /\ TypeOK
  BY DEF IInv, TypeOK
<1>2. retries' = retries
  BY DEF Submission, Watching, RestUnchanged, bounds, ClaimStart, ClaimRecovery, ClaimRefused,
     FindReceipt, PassSpendGate, WriteAttempt, BuildAccepted, SubmitFails, SafePreBuildRetry,
     CountRetry, RecordBuild, ResumeReturns, SafeReattach, FinishProduction
<1>3. order'[p] = order[p]
  BY <1>1 DEF Submission, Watching, ClaimStart, ClaimRecovery, ClaimRefused, FindReceipt,
     PassSpendGate, WriteAttempt, BuildAccepted, SubmitFails, SafePreBuildRetry, CountRetry,
     RecordBuild, ResumeReturns, SafeReattach, FinishProduction, Ended
<1>4. job'[p] = job[p]
  BY <1>1 DEF Submission, Watching, ClaimStart, ClaimRecovery, ClaimRefused, FindReceipt,
     PassSpendGate, WriteAttempt, BuildAccepted, SubmitFails, SafePreBuildRetry, CountRetry,
     RecordBuild, ResumeReturns, SafeReattach, FinishProduction
<1>5. task'[p] \in {task[p], NoTask, At("claim", FALSE)}
  <2>1. CASE Release(o)
    BY <1>1, <2>1, ReleaseSlots
  <2>2. CASE ~Release(o)
    <3>1. \/ ClaimStart(o) \/ ClaimRecovery(o) \/ FindReceipt(o) \/ PassSpendGate(o)
          \/ WriteAttempt(o) \/ BuildAccepted(o) \/ SubmitFails(o) \/ SafePreBuildRetry(o)
          \/ CountRetry(o) \/ RecordBuild(o) \/ ResumeReturns(o) \/ SafeReattach(o)
      BY <2>2 DEF Submission, Watching, ClaimRefused, FinishProduction
    <3>2. \E t : task' = [task EXCEPT ![o] = t]
      BY <3>1 DEF ClaimStart, ClaimRecovery, FindReceipt, PassSpendGate, WriteAttempt,
         BuildAccepted, SubmitFails, SafePreBuildRetry, CountRetry, RecordBuild,
         ResumeReturns, SafeReattach, MoveTask
    <3> QED
      BY <1>1, <3>2
  <2> QED
    BY <2>1, <2>2
<1> QED
  BY <1>2, <1>3, <1>4, <1>5 DEF Life, Untouched, Blamed, NoTask, At, Incomplete

LEMMA RestartLife ==
  ASSUME NEW p \in Orders, Life(p), Restart
  PROVE  Life(p)'
<1>1. UNCHANGED <<order, job, retries>> /\ task'[p] \in {NoTask, At("claim", FALSE)}
  BY DEF Restart
<1> QED
  BY <1>1 DEF Life, Untouched, Blamed, NoTask, At, Incomplete

LEMMA LifeStep ==
  ASSUME IInv, [Next]_vars, NEW p \in Orders, Life(p)
  PROVE  Life(p)'
<1>1. CASE UNCHANGED vars
  BY <1>1 DEF vars, Life, Untouched, Blamed
<1>2. ASSUME NEW o \in Orders, Poll(o) PROVE Life(p)'
  <2>1. UNCHANGED <<order, task, job, retries>>
    BY <1>2 DEF Poll, bounds
  <2> QED
    BY <2>1 DEF Life, Untouched, Blamed
<1>3. ASSUME NEW o \in Orders, Submission(o) \/ Watching(o) PROVE Life(p)'
  BY <1>3, SubmissionLife, WatchingLife, OtherTaskLife
<1>4. ASSUME NEW o \in Orders, Payments(o) PROVE Life(p)'
  BY <1>4, PaymentsLife DEF IInv
<1> QED
  BY <1>1, <1>2, <1>3, <1>4, EnvironmentLife, RequestLife, ClientCallLife, RestartLife
     DEF Next

LEMMA AlwaysLife == Spec => [](IInv /\ \A p \in Orders : Life(p))
<1>1. IInv /\ (\A p \in Orders : Life(p)) /\ [Next]_vars
        => (IInv /\ \A p \in Orders : Life(p))'
  <2> SUFFICES ASSUME IInv, \A p \in Orders : Life(p), [Next]_vars
               PROVE  IInv' /\ \A p \in Orders : Life(p)'
    OBVIOUS
  <2> QED
    BY LifeStep, StepIInv
<1> QED
  BY InitIInv, InitLife, <1>1, PTL DEF Spec

(***************************************************************************)
(* Until an operator retries a production, a stop leaves no task at work on *)
(* its order, and the full price is given back only where none had begun    *)
(* (requestCancellation against the claim of #produceOrder).               *)
(***************************************************************************)
THEOREM StopBeforeWork == Spec => []StopIsBeforeProduction
<1>1. (\A p \in Orders : Life(p)) => StopIsBeforeProduction
  BY DEF Life, Untouched, StopIsBeforeProduction, RefundOnlyBeforeProduction,
     OneWinnerOfStopAndClaim
<1> QED
  BY <1>1, AlwaysLife, PTL

\* Only the operator's retry takes a recorded build id away.
LEMMA BuildKeepers ==
  ASSUME IInv, [Next]_vars, NEW p \in Orders, order[p].build, ~order'[p].build
  PROVE  \E o \in Orders, c \in Clients : RetryProduction(o, c)
<1>0. order \in [Orders -> OrderRecord]
  BY DEF IInv, TypeOK
<1>1. CASE UNCHANGED order
  BY <1>1
<1>2. ASSUME NEW o \in Orders, Payments(o) PROVE FALSE
  BY <1>0, <1>2 DEF Payments, CreateOrder, InvoiceCreated, InvoiceRefused, LinkPayment,
     PaymentCreationFailed, OrderRecord
<1>3. ASSUME NEW o \in Orders, Submission(o) PROVE FALSE
  BY <1>0, <1>3 DEF Submission, ClaimStart, ClaimRecovery, ClaimRefused, FindReceipt,
     PassSpendGate, WriteAttempt, BuildAccepted, SubmitFails, SafePreBuildRetry, CountRetry,
     RecordBuild, OrderRecord
<1>4. ASSUME NEW o \in Orders, Watching(o) PROVE FALSE
  <2>1. ASSUME NEW st, NEW prod, NEW err, Ended(o, st, prod, err)
        PROVE  order'[p].build = order[p].build
    BY <1>0, <2>1 DEF Ended, OrderRecord
  <2>2. UNCHANGED order \/ FinishProduction(o)
    BY <1>4 DEF Watching, ResumeReturns, SafeReattach
  <2>3. order'[p].build = order[p].build
    BY <2>1, <2>2 DEF FinishProduction
  <2> QED
    BY <2>3
<1>5. ASSUME NEW o \in Orders, NEW c \in Callers, Request(o, c) PROVE FALSE
  <2>1. SyncCommit(o, c)
    BY <1>5 DEF Request, ProviderAnswers, SyncFails, RefuseStale, StartProduction
  <2>2. order[o] \in OrderRecord /\ slot[o][c].view \in Views
    BY <2>1 DEF IInv, TypeOK, Linked, SyncCommit
  <2>3. order' = [order EXCEPT ![o] = Reconciled(order[o], slot[o][c].view)]
    BY <2>1 DEF SyncCommit
  <2>4. Reconciled(order[o], slot[o][c].view).build = order[o].build
    BY <2>2, ReconciledRecord
  <2> QED
    BY <1>0, <2>3, <2>4
<1>6. ASSUME NEW o \in Orders, NEW c \in Clients, ClientCall(o, c) PROVE RetryProduction(o, c)
  <2>1. CASE RequestCancellation(o, c)
    BY <1>0, <2>1 DEF RequestCancellation, OrderRecord
  <2> QED
    BY <1>6, <2>1 DEF ClientCall, ApiSync
<1>7. (\E o \in Orders : Poll(o) \/ Environment(o)) \/ Restart \/ UNCHANGED vars
        => UNCHANGED order
  BY DEF Poll, Environment, PayerPays, InvoiceExpires, ChainSettles, WatchLapses, BuildEnds,
     Restart, vars
<1> QED
  BY <1>1, <1>2, <1>3, <1>4, <1>5, <1>6, <1>7 DEF Next

\* A recorded build id is forgotten only when its Build is known to have ended
\* badly, through retries and restarts (retryProduction).
THEOREM BuildIdHeld == Spec => BuildIdKept
<1>1. ASSUME IInv, [Next]_vars, NEW p \in Orders, Life(p), order[p].build, ~order'[p].build
      PROVE  job[p] = "incomplete"
  <2>1. order \in [Orders -> OrderRecord]
    BY <1>1 DEF IInv, TypeOK
  <2>2. ASSUME NEW o \in Orders, NEW c \in Clients, RetryProduction(o, c)
        PROVE  order[p].err = Incomplete
    BY <1>1, <2>1, <2>2 DEF RetryProduction, KeepsBuild, OrderRecord
  <2>3. PICK o \in Orders, c \in Clients : RetryProduction(o, c)
    BY <1>1, BuildKeepers
  <2> QED
    BY <1>1, <2>2, <2>3 DEF Life, Blamed
<1>2. (IInv /\ \A p \in Orders : Life(p)) /\ [Next]_vars
        => [\A o \in Orders :
              order[o].build /\ ~order'[o].build => job[o] = "incomplete"]_vars
  BY <1>1
<1> QED
  BY <1>2, AlwaysLife, PTL DEF Spec, BuildIdKept

\* A marker appears only from a task past the gate, and a Build's state changes
\* only after a receipt.
LEMMA WhoSubmits ==
  ASSUME IInv, [Next]_vars, NEW p \in Orders, job[p] = "fresh", job'[p] # "fresh"
  PROVE  task[p].pc \in {"approved", "building"}
<1>0. job \in [Orders -> Jobs]
  BY DEF IInv, TypeOK
<1>1. CASE UNCHANGED job
  BY <1>1
<1>2. ASSUME NEW o \in Orders, Submission(o) PROVE task[p].pc \in {"approved", "building"}
  <2>1. UNCHANGED job \/ WriteAttempt(o) \/ BuildAccepted(o)
    BY <1>2 DEF Submission, ClaimStart, ClaimRecovery, ClaimRefused, FindReceipt, PassSpendGate,
       SubmitFails, SafePreBuildRetry, CountRetry, RecordBuild
  <2> QED
    BY <1>0, <2>1 DEF WriteAttempt, BuildAccepted, TaskAt
<1>3. ASSUME NEW o \in Orders, BuildEnds(o) PROVE FALSE
  BY <1>0, <1>3 DEF BuildEnds
<1>4. ASSUME NEW o \in Orders, Payments(o) \/ Poll(o) \/ Watching(o) PROVE UNCHANGED job
  BY <1>4 DEF Payments, CreateOrder, InvoiceCreated, InvoiceRefused, LinkPayment,
     PaymentCreationFailed, Poll, Watching, ResumeReturns, SafeReattach, FinishProduction
<1>5. ASSUME NEW o \in Orders, Environment(o) PROVE UNCHANGED job \/ BuildEnds(o)
  BY <1>5 DEF Environment, PayerPays, InvoiceExpires, ChainSettles, WatchLapses
<1>6. ASSUME NEW o \in Orders, NEW c \in Callers, Request(o, c) PROVE UNCHANGED job
  BY <1>6 DEF Request, ProviderAnswers, SyncFails, RefuseStale, SyncCommit, StartProduction
<1>7. ASSUME NEW o \in Orders, NEW c \in Clients, ClientCall(o, c) PROVE UNCHANGED job
  BY <1>7 DEF ClientCall, ApiSync, RequestCancellation, RetryProduction
<1>8. Restart \/ UNCHANGED vars => UNCHANGED job
  BY DEF Restart, vars
<1> QED
  BY <1>1, <1>2, <1>3, <1>4, <1>5, <1>6, <1>7, <1>8 DEF Next

\* A task becomes approved only by the spend gate, which reads the cancellation.
LEMMA WhoPassesTheGate ==
  ASSUME IInv, [Next]_vars, NEW p \in Orders, task[p].pc # "approved",
         task'[p].pc = "approved"
  PROVE  ~Cancelled(p)
<1>0. task \in [Orders -> TaskRecord] /\ TypeOK
  BY DEF IInv, TypeOK
<1>1. task'[p] # task[p] /\ task'[p] \notin {NoTask, At("claim", FALSE)}
  BY DEF NoTask, At
<1>2. ASSUME NEW o \in Orders, Release(o) \/ task' = WithTask(o) PROVE FALSE
  BY <1>0, <1>1, <1>2, ReleaseSlots DEF WithTask
<1>3. ~Restart
  BY <1>1 DEF Restart
<1>4. ASSUME NEW o \in Orders, Submission(o) PROVE ~Cancelled(p)
  <2>1. CASE PassSpendGate(o)
    BY <1>0, <1>1, <2>1 DEF PassSpendGate, MoveTask
  <2>2. CASE ~PassSpendGate(o) /\ ~ClaimRefused(o)
    <3>1. PICK t : task' = [task EXCEPT ![o] = t] /\ t.pc # "approved"
      BY <1>4, <2>2 DEF Submission, ClaimStart, ClaimRecovery, FindReceipt, WriteAttempt,
         BuildAccepted, SubmitFails, SafePreBuildRetry, CountRetry, RecordBuild, MoveTask,
         At, FailWith
    <3> QED
      BY <1>0, <1>1, <3>1
  <2> QED
    BY <1>2, <1>4, <2>1, <2>2 DEF ClaimRefused
<1>5. ASSUME NEW o \in Orders, Watching(o) PROVE FALSE
  <2>1. CASE ~FinishProduction(o)
    <3>1. PICK t : task' = [task EXCEPT ![o] = t] /\ t.pc # "approved"
      BY <1>5, <2>1 DEF Watching, ResumeReturns, SafeReattach, MoveTask, At, FailWith
    <3> QED
      BY <1>0, <1>1, <3>1
  <2> QED
    BY <1>2, <2>1 DEF FinishProduction
<1>6. ASSUME NEW o \in Orders, Payments(o) \/ Environment(o) \/ Poll(o) PROVE FALSE
  BY <1>1, <1>6 DEF Payments, CreateOrder, InvoiceCreated, InvoiceRefused, LinkPayment,
     PaymentCreationFailed, Environment, PayerPays, InvoiceExpires, ChainSettles,
     WatchLapses, BuildEnds, process, Poll
<1>7. ASSUME NEW o \in Orders, NEW c \in Callers, Request(o, c) PROVE FALSE
  BY <1>1, <1>2, <1>7 DEF Request, ProviderAnswers, SyncFails, RefuseStale, SyncCommit,
     StartProduction
<1>8. ASSUME NEW o \in Orders, NEW c \in Clients, ClientCall(o, c) PROVE FALSE
  BY <1>1, <1>8 DEF ClientCall, ApiSync, RequestCancellation, RetryProduction
<1>9. ~UNCHANGED vars
  BY <1>1 DEF vars
<1> QED
  BY <1>3, <1>4, <1>5, <1>6, <1>7, <1>8, <1>9 DEF Next

\* Once a cancellation is durable no task passes the spend gate any more, and a
\* Build is submitted only by a task that had passed it (the spend check that
\* #produceOrder hands to HypitAdapter.start).
THEOREM CancellationStopsSubmission == Spec => NoSubmissionAfterCancellation
<1>1. ASSUME IInv, [Next]_vars, NEW p \in Orders,
             Cancelled(p), job[p] = "fresh", ~TaskAt(p, "approved")
      PROVE  job'[p] = "fresh" /\ task'[p].pc # "approved"
  <2>1. job'[p] = "fresh"
    BY <1>1, WhoSubmits DEF IInv, Marked, TaskAt
  <2>2. task'[p].pc # "approved"
    BY <1>1, WhoPassesTheGate DEF TaskAt
  <2> QED
    BY <2>1, <2>2
<1>2. IInv /\ [Next]_vars
        => [\A o \in Orders :
              Cancelled(o) /\ job[o] = "fresh" /\ ~TaskAt(o, "approved")
              => job'[o] = "fresh" /\ task'[o].pc # "approved"]_vars
  BY <1>1
<1> QED
  BY <1>2, AlwaysIInv, PTL DEF Spec, NoSubmissionAfterCancellation
=============================================================================
