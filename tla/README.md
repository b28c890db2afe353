# Hirebit: formal model

TLA+ models of Hirebit, a marketplace in which a Buyer agent plans and pays for
short marketing videos in bitcoin and a Seller agent produces them.  Two Node.js
processes (the Buyer and the Seller) talk over HTTP, a payment provider (GoBTC)
stands between them, and both keep their state in a JSON file that survives a
crash.  TLC checks the models on small instances, TLAPS proves the theorems for
every value of the constants.

    tlc -config SellerOrders.cfg MCSellerOrders      # one run
    tlapm SellerOrders_proofs.tla                    # the proofs

## 1. The system

| Component | State it keeps | Operations | What makes it correct |
| --- | --- | --- | --- |
| Seller order service (`seller-service.mjs`, `server.mjs`, `index.mjs`) | durable: quotes, orders, idempotency keys, audit; in memory: payment and production task maps, poll flag | createOrder, syncOrder, requestCancellation, retryProduction, pollOnce, recover, startProduction, drainProductionQueue | production only against authorized money; a late answer never takes a payment back; stop and claim have one winner; paid work and late money are not forgotten |
| Hypit adapter (`hypit-adapter.mjs`) | the order's job directory: commission, `build.attempt.json`, `build.receipt.json`, the exported artifacts | start, recoverUnsubmitted, canRetryBeforeBuild, resume, requestCancellation | a Build is submitted at most once per commission unless it is known to have failed; what is recorded is what was exported |
| Worker isolation (`docker-hypit-runner.mjs`) | per order a container and a volume in the Docker daemon, which outlive the Seller | run, copyOut, cleanup | a failing start throws away nothing but what it made itself, as far as it can tell: a failing inspect makes it take what is there for missing |
| GoBTC client and demo rail (`gobtcpay.mjs`, `demo-payment.mjs`) | the provider's invoice | createPayment, getPayment; prepare and submit on the Buyer's side | creation is idempotent by `externalId`; a status may be late but is not made up |
| Durable store (`json-store.mjs`) | the file, the in-memory state, the queue of transactions, the process lock | initialize, snapshot, transaction, acquireProcessLock | a transaction is all or nothing and in order; one process owns a file |
| Buyer campaign service (`buyer/buyer-service.mjs`) | campaigns, reservations, audit, running executions | createCampaign, execute, cancel, retry, resume, sync, poll, recover | spend stays within policy; nothing is signed or sent twice; uncertain money stays reserved |
| Instant wallet (`buyer/instant-wallet.mjs`) | a registered wallet | preparePayment, submitPrepared | what is signed is what was approved |
| Buyer intake (`buyer/intake-service.mjs`) | delegations: brief, mandate versions, authorization, quota | create, answer, retry, confirmMandate, confirmPurchase, cancel, sync, resolve | only the current mandate version is authorized; one campaign per delegation |
| Supplier attempts (`seller-provider-attempt.mjs`) | attempt counters and lock files | reserve, lock, recover a dead owner, call twice | at most two paid attempts per work item, across restarts and processes |
| Production inputs (`production-input-preparer.mjs`, `#context` of the adapter, `reference-vision-planner.mjs`, `external-resource.mjs`) | localized files, the shared cache of reference videos, analysis, copy, recordings, manifest | localize, analyse, write copy, speak, verify | each paid item is bought at most twice and never after its answer; nothing is built on a torn file |
| Veo segments (`google-veo-video-provider.mjs`) | a receipt and a video per segment, the hourly ledger of all orders, the queue of reservations | prepare, reserve, submit, poll, reattach | a known operation is polled, never bought again; the cap holds over all orders; a stop lets one request through at most |
| Campaign completion (`buyer/campaign-completion.mjs`) | the package directory and its record in the campaign | complete, refreshPaymentProof | a package on record is the Seller's delivery and is on disk |
| Catalog (`catalog.mjs`), decision engine, extractor, advisor, compiler, media checks, security, scripts, web | configuration, files | pure functions, calls to a model or a tool, presentation | see section 12 |

How they interact.  The Buyer's campaign asks the Seller for a quote and an order;
the Seller creates a GoBTC invoice; the Buyer prepares, signs and submits a payment
for it; the Seller's poll reads `paid`, unlocks production and later records
settlement; the Hypit adapter prepares inputs (each paid supplier call counted by
the attempt ledger), has Veo make its segments, submits one Build in a container and
watches it, exports the result and removes the worker; the Buyer's poll reads the
order back, commits or releases its reservation, downloads the result and assembles
the package, whose payment proof it rewrites when the money settles.

Every `await` outside a store transaction is a point where another request, the
poll timer or a continuation of an earlier call may run, and every point is one
where the process may die.  The hard behaviours, each with its line, are the
`hazards` of PROJECT.json.

## 2. Plan

Order of work; the most important behaviour first.

| Step | Module | State |
| --- | --- | --- |
| 1 | `SellerOrders`: the Seller's money and production decisions, with the Build markers of the adapter | modelled, checked, safety proved |
| 2 | `BuyerSpend`: execution, reservations, the submission gate, cancellation, reconciliation, recovery; implements the abstract `SpendLedger` | modelled, checked, safety and the refinement proved |
| 3 | `SupplierAttempt`: lock files with dead owners, two paid attempts per work item | modelled, checked, safety proved |
| 4 | `Intake`: mandate versions, confirmation, one campaign per delegation, cancellation of any of it | modelled, checked, safety proved |
| 5 | `JsonStore`: process lock, transactions, rename, failures and power loss; implements the abstract `AtomicStore` | modelled, checked, safety and the refinement of its steps proved |
| 6 | `VeoSegments`: paid segments with receipts and the hourly ledger; `ProductionInputs`: everything else an order buys before its Build | modelled, checked, safety proved |
| 7 | `HypitBuild`: container, volume, Build and export; `CampaignPackage`: the Buyer's package; `Delivery`: both composed | modelled, checked, safety proved |
| 8 | `Purchase`: Buyer, Seller and GoBTC composed over the order the Buyer sees | open |

Which module composes which: `Delivery` EXTENDS `HypitBuild` and instantiates
`CampaignPackage` over what the Seller answers; `BuyerSpendLedger` and `JsonStore`
instantiate their abstract specifications.  `VeoSegments` and `ProductionInputs` take
the lock of `SupplierAttempt` as one step, `SellerOrders`, `BuyerSpend` and `Intake` take a
transaction of `JsonStore` as one, which is what `StoreIsAtomic` allows them.

The modules with theorems use no recursive operator.  Sums over campaigns are
`MapThenSumSet` of the community modules.

## 3. SellerOrders

| Variable | In the code |
| --- | --- |
| `order` | `state.orders[id]` of the Seller's store: `st` is `order.state`; `pay` the recorded `payment` (`null`, or what its status, authorization and settlement say); `canc` is `cancellation.state`; `prod` is `production.state`; `build` says whether `production.buildId` is recorded; `err` is the class of `production.error.code`; `started` is `production.attempts > 0` |
| `remote` | the invoice as GoBTC has it |
| `watch` | whether the seven days after a cancellation request still run |
| `job` | the adapter's marker files and how the Hypit Build stands |
| `ptask` | the order's entry in `paymentTasks` and the answer it waits for |
| `slot` | one `syncOrder` in flight per caller (a client or the poll timer) and the answer it holds |
| `task` | the order's entry in `productionTasks` and where its async function stands |
| `waiting` | the productions `recover()` resumed and `index.mjs` still awaits before it starts polling |
| `retries`, `restarts` | bounds only |

A store transaction is one action.  Between actions anything may happen, so the
answer a sync holds can be stale when it commits (`SyncCommit`, `RefuseStale`), the
stop can fall anywhere between claim and submission, and `Restart` can follow any
step: it clears everything in memory and takes up the interrupted productions the
way `recover()` does.  `Reconciled` is the body of the sync transaction as a function
of the order and the answer.

Producer is the HypitAdapter, the only one the Seller is started with: the branches
of `#startProduction` for a producer without `recoverUnsubmitted`, `start` or
`resume` do not occur.  Error codes are kept as the five classes `retryProduction`
distinguishes.  The stop marker the adapter writes repeats the durable cancellation
and is not modelled.  `nextCheckAt` only delays a poll; the seven-day watch and the
expiry of an invoice are actions that time may take.  The transient error of a
Build that still runs is not kept.  The check for a regressed status before the
transaction refuses nothing that the check inside would not refuse.  Store
transactions are atomic here; the store itself is `JsonStore`, what a Build leaves in
Docker and on the host is `HypitBuild`.

### Runs

| Run | Shows | Bounds and why they are enough |
| --- | --- | --- |
| `seller_orders` | production, refunds and reviews are backed by authorized money; payment and cancellation only move forward (`NothingRegresses`); build ids are kept and have a receipt; nothing is submitted after a stop; before an operator retries, stop and claim have one winner and a refund is only of an untouched order (`StopIsBeforeProduction`); the production limit holds; payments are noticed, late ones reviewed, open stops reconciled (`PaymentNoticed`), and paid work ends (`PaidWorkResolves`) | two kinds of start, `SellerSpec` of `MCSellerOrders`.  One order from nothing, under a client, the timer, one operator retry, one crash and an invoice that may be paid before it is linked: orders share nothing but the production slots.  And two paid orders in the queue for one slot, with a crash and no requests of clients, since what leads there is the first kind |

Fairness (`FairSpec`).  The poll timer fires for ever (`setInterval`) and every
continuation runs, so `Poll`, the sync continuations and the production task are
weakly fair.  GoBTC's answers are strongly fair: a request may fail any number of
times but not always.  A Hypit Build ends.  Clients, payers and time promise
nothing.  Restarts are bounded, so that each liveness property speaks of the last
process too.

### Proofs

`SellerOrders_proofs` proves for any orders, clients, limits and bounds:
`TypeCorrect`, `PaymentGateHolds`, `CancellationSound`, `ReceiptBehindBuild`,
`ProgressKept` (`NothingRegresses`, from `PaymentMonotone` and `CancellationAdvances`),
`ConcurrencyLimited` (`ProductionsBounded`), `StopBeforeWork` (`StopIsBeforeProduction`),
`BuildIdHeld` (`BuildIdKept`) and `CancellationStopsSubmission`
(`NoSubmissionAfterCancellation`).
The only assumption is `SellerAssumption` on the constants.

The inductive invariant `IInv` joins four parts.  `TypeOK`.  `Linked`: an order that
does not exist has no task, no request and no invoice, and a request in flight belongs
to an order with an invoice; without it a commit could hit an absent order.  `Gated`:
production beyond `locked` and `stopped`, a task beyond its claim and every review
need an authorized payment; it is `PaymentGate` and `CancellationMatchesPayment`
together, since each is needed to keep the other.  `Marked`: a recorded build id, and
a task at or past the point of recording one, has the receipt on disk.  One lemma
per action shows that it keeps `IInv`; `ReconciledSound` and its companions say what
the sync transaction does to an order record.  The two action properties follow from
`IInv` and `OthersSteady`, which says which actions touch payment and cancellation
at all.

`ConcurrencyLimited` needs no more than types: `WhoStartsTasks` says that only a sync, a
released task and a restart put a task where none was, and each of the three is within
the limit by what the library knows of the cardinality of finite sets.

`StopBeforeWork` and `BuildIdHeld` need a second invariant, `Life`.  `Untouched` holds
until an operator retries: an order that is locked, queued or stopped has no build and was
never started, a task past its claim belongs to an order that is producing, and every
cancellation short of a cost review has stopped the order.  Without the second part a task
that ends could overwrite `stopped`, and without the third a late payment could queue a
stopped order.  `Blamed` holds always: an order, or a task, whose error is an incomplete
Build has one that ended so; the state of such a Build is final.
`CancellationStopsSubmission` follows from `Marked` and from which actions write a marker
(`WhoSubmits`) or pass the gate (`WhoPassesTheGate`).

TLC only: liveness, which is out of the prover's reach.

## 4. BuyerSpend

| Variable | In the code |
| --- | --- |
| `camp` | `state.campaigns[id]` and its `state.spendReservations` entry: `st` is `state`; `quote` counts the decisions; `ord`, `oq` are `sellerOrder` and the quote it was made for; `att` and `rcpt` are `paymentAttempt.state` and its receipt; `psbt` says whether signing material is stored; `fee` is the network fee; `res`, `held` are the reservation's state and total; `paid` is the booked spend; `canc` says who asked for the cancellation; `conflict` is `cancellation.conflict`; `pkg` is a finished package; `late` is history: a decision was written over a submission in progress (`Redecided`, lines 692-731) |
| `sel` | the Seller's public order per quote (`NoView` while there is none) |
| `sent` | how often `submitPrepared` was called for the order of a quote; history, the code has no such counter |
| `call` | asynchronous calls in flight: one per client, `exec` for the shared `executeCampaign`, `main` for the poll timer and `recover()`; with the quote captured and the answer held |
| `pack` | the completion task |
| `booting` | whether `recover()` still runs; requests and polling start after it |
| `restarts` | bound only |

Every store transaction of `#evaluate`, `#execute`, `cancelCampaign`, `syncCampaign`,
`resumeCampaign` and `#startCompletion` is an action, and every request to the
Seller another one, which may lose its answer after the Seller has acted
(`OrderAnswered`, `StopAnswered`).  What a caller does after its transaction and
before its next I/O is part of the action: the next transaction cannot commit
sooner, since a transaction writes and syncs its file.  `Synced` is the body of
syncCampaign's transaction as a function of record and answer, `Resolved` is
`cancellationResolution`, the `...Entry` operators are what a call runs through up to
its first await.  `SellerProceeds` and `SellerReconciles` are the Seller as the Buyer
sees it; `SellerOrders` has the detail.

What is abstracted.  All campaigns are `auto_within_budget`; a decision is a fresh
quote or a failure.  One lifetime allocation (`Limit`) and one bound on unresolved
payments (`MaxPending`) stand for the limits; the daily and the per-campaign limit,
`paymentsEnabled` and a policy that cannot be loaded are refusals that may happen at
any time (`ReservationRefused`, `GateRefuses`, `NotExecutable`).  Every quote has the
same price and allowance.  `nextCheckAt` only delays.  A poll pass treats campaigns
one by one, so each has its own `main`.  A wallet outcome is a receipt or unknown.

### Abstract specification

`SpendLedger` is what the bookkeeping promises about one wallet allocation: amounts
may be held and released, an amount is sent only if it fits beside everything held,
sent and spent, and a sent amount is never free again, only booked.
A sent amount may also be *disowned*: then nothing is promised about it any more, and
everything about the others.  `BuyerSpendLedger` maps a campaign to its entry, which is
disowned once a decision was written over its submission, and `ImplementsLedger` says
that every behaviour of `BuyerSpend` is one of the ledger.

### Runs

| Run | Shows | Bounds and why they are enough |
| --- | --- | --- |
| `buyer_spend` | one submission (`OneSubmission`); uncertain money stays held (`ReservationKept`); a closed campaign never sent, a cancelled one holds nothing, and no signing material outlives a cancellation or booking (`RecordsConsistent`); no execution submits after the cancellation (`NoSubmitAfterCancel`) | one campaign under one client that may resume, execute, sync, cancel and retry, with the execution, the poll timer and one crash as further actors |
| `buyer_overlap` | when evaluations overlap, only a decision written over the submission itself leads to a second one (`OneSubmission`), the paid invoice is the one on record and only own payments are booked (`PaidIsOnRecord`) | two symmetric clients that resume and execute, which is what starts a second evaluation; two quotes, one crash and its recovery, a stranger who may pay.  `OverlapSpec` of `MCBuyerSpend` leaves production out, which begins after the payment |
| `buyer_budget` | `SpendLedger` is implemented: the allocation holds where money leaves | two campaigns, one pending payment allowed, limit 5 for debits of 2 or 3, so that both fit together for some fees and not for others; cancellations and crashes are left to `buyer_spend` |
| `buyer_live` | own payments get booked (`PaymentAccounted`), cancellations end and delivered work is packaged (`CampaignsResolve`) | one campaign, one client that cancels; without settlement (see section 11) |
| `buyer_resend_after_late_decision` | the code departs from its documentation | the smallest instance that shows it |

What the violation shows: `#evaluate` writes `decision_ready` over any state but a
cancellation.  A second evaluation that ends while the first one's execution is
submitting hides `submitting_payment`; after a crash the recovery executes the
campaign and submits a second time.  `OneSubmission` is `SentOnce` without the campaigns
this has happened to (`late`), and so says that nothing else leads there.

Fairness (`FairSpec`).  The timer fires for ever (`setInterval`), so `Poll` is weakly
fair, except for cancelled campaigns, which the code polls for seven days only.
Continuations and the completer run.  The timer's requests may fail any number of
times but not always (strong fairness of the answers to `main`).  The Seller
reconciles an open stop.  Clients, payers and time promise nothing.

### Proofs

`BuyerSpend_proofs` proves, from `BuyerAssumption`, for any campaigns, clients, limits,
quotes and number of crashes:

- `CampaignPaysOnce` (`OneSubmission`) and `RecordsAreConsistent` (`RecordsConsistent`),
  whose first part, `ClosedMeansUnsent`, excepts the same campaigns;
- `PaidOrderIsOwnAndOnRecord` (`PaidIsOnRecord`), `MaybeSentStaysAllocated`
  (`ReservationKept`), `CancellationStopsSubmission` (`NoSubmitAfterCancel`) and
  `CancellationReleases` (the types, and `CancelledHoldsNothing`, the second part of
  `RecordsConsistent`), which except nothing;
- `LedgerImplemented` (`ImplementsLedger`), in which such a campaign disowns its entry.

None of them assumes anything of when evaluations run.  The exception is needed:
`buyer_resend_after_late_decision` shows it for one submission, and when the gate refuses
the second submission in the same history, the attempt that was already sent is
discarded, its reservation given up (`buyer-service.mjs:1003-1009`) and the campaign may
be closed as unpaid.  `ReservationKept` stays true without it because it speaks of the
attempt on record.

The inductive invariant `IInv` speaks of one campaign at a time: `TypeOK` and, for each,
`Sound`.  `Recorded` ties the record to the wallet: only the order on record was ever
sent, an attempt that may have been sent was sent, and it holds its reservation until it
is booked.  `Stated` is what each campaign state implies, for
instance that a running cancellation without an attempt shows in the state.  `Called`
relates the calls in flight to the record, which is what makes the first two
inductive: `Executing` says what the execution may rely on at each of its steps
(ordering: no attempt yet; signing: an order and no attempt; the gate: an attempt that
is prepared or, found by a late execution, submitting), although it read the record
several commits ago; `Informed` what a call holds of the Seller; `Interrupted` that who
marks a submission as interrupted found one, and its execution is still there or gone
with the last process; `Submitting` that `submitting_payment` always has its execution or
the start that finds it; `Alone` that only the execution works towards a payment.  Where
no late decision has touched the campaign the same parts say more: an order was sent once
exactly if its attempt may have been, and the gate sees an unsent attempt.  `Follows` names
what a cancellation, sync, stop or completion leaves alone in a record, and
`RecordFollowed` shows that every call in flight survives such a change.  One lemma per
action shows that it keeps `IInv`.

`LedgerImplemented` proves `ImplementsLedger` for `Spec`, so with every request, crash and
lost answer; the run `buyer_budget` checks it on the smaller `BudgetSpec`.  The
argument has three parts.

- *Accounts.*  Every step but the submission and a late decision changes the record of one
  campaign only, in a way `Accounted` names (`StepAccounts`): nothing that counts changes, an unsent
  reservation is made, kept or given up, or a sent amount is booked.  `Accounted` moves an
  entry as the ledger allows (`EntryMoves`).  This needs one more invariant,
  `AllOnAccount`: what may have been sent and is not disowned holds exactly the debit its
  receipt will book.
- *The gate.*  `#spendTotals` adds up two overlapping classes of records, reserved and
  booked ones, and the ledger one class; `SumUnion` shows that the gate adds up at
  least as much (`GateSeesLedger`), so an amount that passes it fits the ledger as well.
- *Sums.*  `MapThenSumSet` is a fold.  The library's induction theorems cannot be
  instantiated here, so `SumExists` and `SumUnique` take a smallest set on which they would
  fail (`SmallestSet`, from the well-foundedness theorem for sets) and remove an element.

TLC only: liveness, which is out of the prover's reach.

## 5. SupplierAttempt

| Variable | In the code |
| --- | --- |
| `alive` | the processes that `process.kill(pid, 0)` finds |
| `lock` | the files `<path>.active`, `.active.recovery`, `.active.recovery.recovery` ...; `torn` is a file without content |
| `first`, `second` | the attempt record and its `.retry-2.json` |
| `returned` | `.provider-returned.json` |
| `call` | a run of `callSellerProviderTwice`: where it stands, which depth of lock it is after or holds, how often it tried each and whose token it saw there |
| `paid` | calls made to the supplier; history |

Every file operation is an action, since other processes run between them; creating
and filling a file are two.  A call that finds a lock whose owner is dead takes the
lock one deeper, looks again, renames the dead lock and goes back (`ReadOwner`,
`Recheck`, `RenameStale`, `Release`, `Unlink`, `Released`).  Below the locks,
`CheckReturned` to `MarkReturned` are the two attempts.  `Crash` ends a process at any
point and leaves its files.  That the process of a dead owner's pid exists again
ends the call like a living owner does, and is not a case of its own.

`supplier_attempt` checks three calls in three processes: enough for two reclaimers of
one dead owner, and for a reclaimer that dies and is itself recovered; `MaxDepth = 2`
is then never exceeded, and `MaxTries = 2` is reached.  It shows `OneWorker`,
`SpendingBounded` (the types and `PaidIsCounted`), `NoCallAfterAnswer` and, with started
calls weakly fair, that a call that meets only dead owners gets to work (`DeadOwnersRecovered`), unless it dies,
another interferes or a lock file is left empty: such a lock is for an operator.

### Proofs

`SupplierAttempt_proofs` proves `Exclusion` (`OneWorker`), `CallsCounted`
(`SpendingBounded`) and `AnswerEndsPaying` (`NoCallAfterAnswer`) for any calls,
processes, depth and tries, from `SupplierAssumption` alone.  The inductive invariant
adds to `TypeOK` and `PaidIsCounted`: `Placed`, a running call's process lives and the
owners it goes after are dead (tokens are never reused and processes do not
revive); `Guarded`, a held lock carries its holder's token, an empty one being written
has one writer, and a call about to rename finds the dead owner's token there;
`Accounted`, whoever is past the answer marker has no answer, and whoever is past a
reservation has a marker not paid for yet.  Exclusion follows since two holders of
one lock would both be its token.  The rename is safe because the dead owner's
token can only be removed under the lock of the next depth, which the renamer
holds.  `DeadOwnersRecovered` is liveness and stays with TLC.

## 6. Intake

| Variable | In the code |
| --- | --- |
| `dlg` | one `state.delegations[id]`: `st` is `state` (`approval_refinable` is `approval_required` with only optional questions open); `rev` is `revision` and the version of the mandate; `mode` its `authorizationMode`; `approved` the version in `approval`; `cancel` is `cancellationRequestedAt`; `link` is `campaignId`; `resumable` says that the stored copy of the campaign is paused |
| `camp` | the campaigns, by the mandate version in their idempotency key `delegation-<id>-v<version>`; a state stands for those the intake treats alike, `buying` for an execution before its submission, `auto` for an authorization that still holds |
| `interp` | the task `interpret:<id>`: about to reserve its attempt, or waiting for the model with the revision it read |
| `run` | one request per client, and `maker`, the task `campaign:<id>`: where it waits, what it asked the campaign service, the state it was answered, whether an error is caught |
| `phase` | whether the recoveries of a start still run; requests come after them |
| `agreed`, `told` | history: the versions and purchases clients agreed to; whether a client has the answer of this process to a cancellation |
| `restarts` | bound only |

A transaction is an action.  Where a request checks the delegation before a
transaction that repeats the check, the two are one action.  A request on the
campaign reads the delegation, waits for the campaign service (`CampaignAnswers`,
`ExecutionStopped`, `CampaignRefuses`), and records what it was told
(`RecordCampaign`, `RecordFailure`), however old that is by then.  The campaign service
is `BuyerSpend` seen from outside: a call ends in one of the states its code can leave
the campaign in; that cancellations, executions and evaluations inside it are sound is
what `BuyerSpend` checks.  A shared execution gives all its callers its result.
`LinkCampaign`, `StopLinked` and `CheckCancellation` are the steps of `#ensureCampaign`
between which a cancellation may come.  `Restart` loses the tasks and lets
`BuyerService.recover()` finish, as `buyer-index.mjs:89` does, before `intake.recover()`.

The number of interpretations in an hour is not counted; reserving an attempt may
succeed or hit the limit.  Resolution requests, quotas and conflicting idempotency
keys are left out.

### Runs

| Run | Shows | Bounds and why they are enough |
| --- | --- | --- |
| `intake` | a campaign exists and buys only for what was agreed to, and not once the delegation is shown as cancelled (`BuysAsAgreed`); one campaign per delegation, and a cancellation stays visible (`RecordsConsistent`); no campaign pays after the answer to a cancellation in the same process (`NoPurchaseAfterAnswer`); every interpretation and creation ends and a cancellation reaches its campaign, through a crash (`WorkAndCancellationEnd`) | one page that synchronises and cancels beside a client that makes every other request, both in flight with the two tasks; two versions of the mandate, so that one may be confirmed while it is replaced; both modes that buy; one crash |

`NoPurchaseAfterAnswer` speaks of one process; across a crash it does not hold, see
*Cancellation lost across a crash* in section 11.

Fairness (`FairSpec`).  Continuations, the model's answer and executions are weakly
fair.  The page stays open: in the states named by `Polled` it posts a
synchronisation every 3.5 seconds once it knows of a campaign (`web/app.js:1560`), and
what it asks may fail any number of times but not always (strong fairness).  Other
clients promise nothing.  That a cancellation before the link comes to an end is not
claimed: see section 11.

### Proofs

`Intake_proofs` proves `IntakeInvariant`, `RecordsAgree` (`RecordsConsistent`),
`BuysOnlyAsAgreed` (`BuysAsAgreed`) and `AnswerEndsBuying` (`NoPurchaseAfterAnswer`) for
any clients, modes, versions and restarts, from `IntakeAssumption` alone.  The two
invariants are not inductive, because what a request does is decided by what it
read before its last wait.  `IInv` adds to `TypeOK`:

- `Mandate`: the mandate does not move under its approval.  An interpretation under
  way belongs to a delegation nobody has approved, or to a cancelled one, so the
  version it replaces is never one a campaign is being created for.
- `Owned`: the one campaign is that of the approved version, is never cancelled under a
  delegation that goes on, and buys only what was agreed to; none buys before its link.
- `Handled`: a request in flight is about the approved version; past the link the campaign
  exists; a cancellation it has seen is still one, however old the answer it holds.
- `Told`: whoever has the answer to a cancellation can rely on it.  Either the campaign
  is past buying, or it is not linked yet, or the creation that linked it is just about to
  stop it (`Stopping`), where no other request is already on its way to buy.

A step of the campaign service changes one campaign, in one of the ways `Evolves` names
(a cancelled campaign stays cancelled, one that buys may).  `Reached` says which states
each kind of call can end in; `OneEvolves` and `CallStepKeeps` then carry every other
part of the invariant over such a step once, for all of them.  One lemma per action
shows that it keeps `IInv`.  `AnswerEndsBuying` is an action property: a campaign gets to
pay only from `buying` or by an execution that is answered (`SpendsFromBuying`), and after
`told` the invariant leaves neither.  `WorkAndCancellationEnd` is liveness and stays with
TLC, which has also checked `IInv` itself on the instance of `intake`.

## 7. JsonStore

| Variable | In the code |
| --- | --- |
| `lock` | the file of `acquireProcessLock`: absent (`NoLock`), created and still empty, or with its owner's pid |
| `proc[p].pc` | where a process stands: taking the lock, loading, idle, or in `#persist` before the rename, after it, and after the sync of the directory |
| `proc[p].mem`, `.draft`, `.queue` | `this.state`, the clone the mutator works on, the promise chain of `transaction()`; `ready` says that `initialize()` is over, `released` that `release()` has removed the lock |
| `disk` | the content of the state file, as the set of transactions whose effect is in it |
| `maybe` | the contents a power failure may leave under the file's name |
| `asked`, `sure` | history: the transactions requested, and those whose promise was fulfilled |

The temporary file is private and synchronised before the rename, so creating and
filling it is part of `Rename`; failures of any call of `#persist` are `Fails`, which may
come on either side of the rename.  A process is one run of `index.mjs` or
`buyer-index.mjs`; it starts once, and a crash leaves its lock file behind.  What the
directory sync makes durable and what it leaves open is the file system's part
(`PowerLoss`, external).

`Overlap = FALSE` says that no process is started while another one still starts or
leaves.  The code needs it: see *Two starts at once* in section 11.

`AtomicStore` is what a durable store promises: transactions take effect whole and on
all that was reported, nothing takes effect unasked, a reported one is never lost, and
each is answered.  `ImplementsAtomicStore` maps its value to the file, those that wait
to the queues: the rename is the write, the return of `transaction()` the report, a
throwing mutator or a failing call the refusal.  A refused transaction may have taken
effect (the directory sync fails after the rename); the next one starts from the memory,
which it did not change.

`store` checks `StoreSound` (types, one owner, nothing reported is lost) and
`ImplementsAtomicStore` with three processes, so that a second one may die while it
takes over the lock of a first, two transactions, so that one waits while the other
fails, and one power failure.  Fairness: a process that is not killed goes on with its
transactions.

### Proofs

`JsonStore_proofs` proves, from `StoreAssumption` and `~Overlap`, for any processes,
transactions and number of power failures: `StoreStaysSound` (`StoreSound`) and
`StoreIsAtomic`, that every step is one of `AtomicStore` or none.  The answer to every
transaction is liveness and stays with TLC.

The inductive invariant has, per process, `Locked`, `Waits` and `Persists`.  `Locked`:
who is between start and load, or has released, is the only such process; who works
and has not released is the owner written in the lock file; who is about to unlink has
found a dead owner; who is about to write its pid created the file.  That gives one
owner, since two who work would both be named in the file, and it is what needs
`~Overlap`: `unlink` goes by name.  `Waits`: only a ready process has waiting
transactions, all distinct and asked for, and a persisting one works on the head of its
queue.  `Persists`: memory is between what was reported and the file, the file is the
draft after the rename, and certain after the sync.  `Durable` says the same of what a
power failure may leave.

## 8. VeoSegments

| Variable | In the code |
| --- | --- |
| `run[o]` | the run of `prepare()` for an order: where it stands, its segment, and the ledger as `#reserveUnlocked` read it |
| `receipt` | `receipt-<segment>.json`: `status`, `submissionAttempts`, and the attempt the recorded operation name came from |
| `file` | the downloaded video of a segment, by the operation it came from |
| `manifest` | whether the manifest of the order's segments is written |
| `ledger`, `tail` | the hourly ledger all orders share; who has the turn in the queue of reservations |
| `stopped`, `now`, `crashes` | durable cancellations, the clock, and the bound on crashes |
| `sent`, `late` | history: requests that left, and those that left after the stop |

Every write of a file and every request is an action; a file is written beside its name
and renamed, so it is there or not.  Reading the ledger (`TakeTurn`) and writing it
(`Reserve`) are two, because other orders run in between.  `Send` and `Answered` are two,
so a crash can fall between a purchase and the name of its operation.  The loop over
attempts comes back to `EnterSegment`, which looks at the receipt the way the next
process will.  The segment's lock is that of `SupplierAttempt`; the run that holds it is
the only one of its order.

Properties.  `SpendingBounded`: a segment is submitted at most twice and never more often
than its receipt admits, every admitted attempt has an entry of its own in the ledger
and no window holds more than the cap, and after a stop at most the one request that had
passed the gate leaves.  `OperationKept`: a recorded operation is neither forgotten nor
bought again.  `ManifestBacked`: a manifest stands for videos that are on disk and came
from the recorded operations.  `RunsEnd`: every run comes to an end.

`veo_segments` checks two instances in one run: an order of two segments, stopped at
any moment (from one segment to the next the gate is passed again), and two orders of
one segment that compete for a cap of two with a window of one tick, so that a window
passes between attempts.  One crash; two ticks.  Fairness: requests time out and
continuations run (weak), and the promise chain is first in, first out (`TakeTurn`
strong).

### Proofs

`VeoSegments_proofs` proves `SpendingStaysBounded`, `ManifestsStandForVideos` and
`OperationsStayKnown` for any orders, cap, window and bounds, from `VeoAssumption`.  The
inductive invariant: `Turns`, at most one run is between reading and writing the
ledger, and what it read is the ledger still; `Entries`, every window is within the cap
and no entry is of the future; and, per order, `OrderSound`, which counts the requests
sent against the attempts on the receipt at each place of the run, says what the receipt
must be there, that every attempt is listed, that a run past its gate after a stop has
one request left at most, and that succeeded segments have their video.  Cardinalities
of windows are the only arithmetic over sets; `FiniteSetTheorems` supply it.
`RunsEnd` is liveness.

## 9. ProductionInputs

| Variable | In the code |
| --- | --- |
| `reference`, `film`, `cached` | whether the order has a reference video, the order's copy of it, and the Seller's shared cache |
| `commission`, `manifest` | the two JSON files written once (`wx`): absent, torn or whole |
| `tries`, `closed` | the attempt markers of `callSellerProviderTwice` for each paid item, and whether its answer is on record or a marker is unreadable, which ends all calls for good |
| `audio`, `result` | the recording of a turn; the file that says what was bought (analysis, copy envelope, turn record) |
| `copy` | how many speaker turns the copy has, and whether they exceed the characters the order may use |
| `run` | where the order's one run stands |
| `stopped`, `built` | the durable stop; whether the Build was handed over |
| `paid`, `late` | history: calls per item, and calls after the stop |

The files are created exclusively and not renamed into place, so that a crash or a
full disk may leave any of them torn, and the next run takes up what it finds.
The localized image is overwritten by each run and needs no variable.  `OtherOrders`
changes the shared cache at any time.  The lock and the markers of a call are one step
(`Reserve`); `SupplierAttempt` has the detail.  Veo's segments are part of `Compile`, which
may throw; `VeoSegments` has them.  What copy and analysis say is left out.

Properties.  `SpendingBounded`: each item is called for at most as often as its markers
say, twice in all, and at most one call leaves after a stop.  `AnswerNotRebought`: an
item whose answer is on record is never called for again, whatever is lost afterwards.
`BuiltOnWhole`: nothing is bought, and no Build handed over, on the strength of something
torn or missing.

`production_inputs` has three turns, so that a first, a middle and a last one exist, with and without a
reference video, and crashes without a bound (222,664 states).

### Proofs

`ProductionInputs_proofs` proves `CostBounded`, `BuiltOnlyOnWhole` and `AnswersFinal` for any
number of turns, from `InputsAssumption`.  The inductive invariant says, by the place
of the run, what has been found whole on the way there, and for each item that calls
stay within the markers, with one marker to spare between reserving and calling.

## 10. HypitBuild, CampaignPackage, Delivery

| Variable | In the code |
| --- | --- |
| `container`, `volume` | the order's container and volume in the Docker daemon; a volume is `empty`, holds a `torn` copy of the job directory or the whole `job` |
| `build` | the Hypit Build inside the volume; `killed` if its container went while it worked, `lost` once its volume is gone |
| `marker` | `build.attempt.json`, `build.receipt.json` |
| `export` | the deliverable, which is hashed as it is found, and the commission receipt, which is parsed; `torn` while `docker cp` is under way and after one that was cut off; `unfit` is whole, and not what was ordered |
| `prod` | `order.production`: state, whether the build id is recorded, the class of the error, and what the recorded digest is of |
| `run` | the production task: the step of `start()` or `resume()`, the step of `#ensureContainer` before a command (`undo` and `scrap` remove container and volume, in its catch and in `cleanup()`), `newVolume` (`fresh`), the retry it has used, the digest it has taken.  `blind` is history: what an inspect of this call did not find though it may be there |
| `bound`, `builds` | bounds; history: Builds begun |
| `settled` | whether the Seller reports the settlement |
| `camp` | the campaign of the Buyer after its payment, with the package on record: which video, and which payment status its documents carry |
| `disk`, `temp` | the package directory, and the temporary file beside each document |
| `sync`, `pack` | `syncCampaign` per caller with the answer it holds; the entry in `completionTasks` |

`HypitBuild` is one order on the Seller's side from the compiled commission to the
recorded result.  Every command is preceded by `#ensureContainer`, whose steps are
actions, since the container may stop and the process may die between any two.  The two
inspects are as blind as in the code: whatever goes wrong in them is taken for "there is
none" (`InspectFails`, the second half of `CreateVolume`).  Creating a volume that is there
succeeds and counts as made by this call; running a container whose name is taken is
refused (`RunRefused`).  After a failing run or copy the container is removed whatever it
holds, which kills a Build that works in it, and the volume if it counts as made here
(`RemoveContainer`, `RemoveVolume`).  `cleanup()` goes through the same two removals; each
may fail without notice.  A command that fails ends in `CommandFails`: the one free retry
of `#startProduction` where it is allowed, otherwise a failed production for the operator.
The Docker daemon outlives the Seller.

Where the repository is silent.  The containers run `sleep infinity`; what `hypit status`
makes of a Build whose container went is Hypit's affair, so `BuildTaken` may take it up,
find it failed, or never happen: no fairness is assumed of it, and until then a poll finds
no outcome.  A command in a volume without the whole job directory fails.  A command whose
client gives up has had its effect or never has it.  What a Build makes may be unfit.

`CampaignPackage` is the Buyer's side of the delivery of one paid campaign.  The media
check is a function of the downloaded file: `MediaRejected` rejects a torn or unfit video
every time, without a bound, and only what it lets through is packaged.  The tools it runs
may fail as well (`PackFails`, bounded).  The payment
proof stands for the documents that follow the settlement (proof and report).  `complete()`
takes a `revision` that no caller passes; it is left out.

`Delivery` composes them: `SellerAnswer` is what `GET /v1/orders/:id` and the artifact
request return in the current state.

Properties.  `BuildSound`: one order never begins two Builds; a completed order has its
receipt whole and recorded the digest of the file that is served.  `BuildKept`: a Build is
killed only when its container stops, and lost only once it has failed or once its receipt
is whole and its video on the host.  The exception is what the code cannot know of: a
container or volume that an inspect of the same call has just failed to find.  Section 11
says what happens then.  `DeliverySound` adds to `BuildSound` that a package on record is
the recorded file, whole, with every document it lists in the directory.  `DeliveryEnds`:
a production that is taken up comes to an `Outcome`: a failure an operator sees, a package,
or a recorded video that is not whole, which no packaging accepts; unless its Build was
killed and Hypit never takes it up.

`delivery` (426,689 states) lets two things go wrong on the Seller's side (crashes, failing
commands and inspects, a stopping container; `MaxFaults`) and two on the Buyer's (crashes,
failing requests, downloads and writes; `MaxFailures`), with one operator retry and a page
that synchronises beside the poll timer.  Two faults of the Seller are what it takes to lose
a volume in which a Build works (two blind inspects, or a blind one and a failing run), to
meet the free retry of the first, and to cut a copy off and crash after it.

Fairness: the poll timer claims and the task runs on; a Build ends while its container
runs; the Buyer's timer and packaging go on.

### Proofs

`Delivery_proofs` proves, of `HypitBuild` alone, `BuildStaysSound` and `PaidBuildKept`
(`BuildKept`), and of `Delivery` `PackageStandsForDelivery` (`DeliverySound`) and
`PaidBuildKeptInDelivery`, for any bounds and callers, from `BuildAssumption` and
`PackageAssumption`.  The invariant of the Build: `Marked`, the attempt marker precedes
every Build, and a run that is about to begin one has just written it for the first
time; `Exported`, what a run has fetched and hashed is on the host and no longer
touched; `Kept`, a Build lives in a volume with the whole job directory and works while
its container runs.  Two parts of `Kept` are about what a call of `#ensureContainer` may
throw away: a volume it made because there was none holds no Build (`Fresh`), and when
its inspect was right about the container no Build works (`Unseen`); neither says
anything of a call that was blind.  `PaidBuildKept` needs of a step only whether it may
end a Build otherwise than by its own end (`BuildChanges`: the removals and a stopping
container), and for these that what they end is of no more use (`StepKeeps`).  The
invariant of the package adds that the Seller's recorded answer never
changes once given (`AnswerStands`, a step lemma about `HypitBuild`), that a sync and
a packaging task that hold it are right, that a packaging task past the media check has a
whole video, and that what it has written so far is on disk.  `DeliveryEnds` is liveness.


## 11. Departures from the documents without a run of their own

Met while modelling; each follows from the lines named.  They are kept out of the
checked properties, or the properties name the condition.

- *Refund after a retry.*  `requestCancellation` decides "not started" from
  `production.state` (`seller-service.mjs:250`), which `retryProduction` sets back to
  `queued` (449).  A stop before the next claim records a full refund for an order
  whose production had begun, against `PAYMENT_LIFECYCLE.md:55-56`.
- *Stop during a resumed Build.*  A retry that reattaches to a recorded build id leaves
  `production.state` at `queued` while its task works (`seller-service.mjs:590`); a stop
  then finds the order not started, records a full refund and the Build goes on,
  against `PAYMENT_LIFECYCLE.md:30`.
- *Forgotten stop.*  A stop on a settled or expired order whose own sync fails is
  outside the poll filters (`seller-service.mjs:482-489`) and stays open, against
  `PAYMENT_LIFECYCLE.md:21`.
- *Failed Build not replaced.*  A retry after a failed Build clears the build id, but
  the receipt file (`hypit-adapter.mjs:610`) brings the failed Build back, against the
  comment at `seller-service.mjs:444`.
- *Paid at the link.*  If the invoice is already paid when the idempotent
  `createPayment` of a retry links it (`seller-service.mjs:536`), every later sync takes
  the authorization for known (358) and production stays locked, against
  `README.md:170`.  `PaymentNoticed` asks for the unlocking only of payments the Seller
  was behind with.
- *Paid overwritten.*  `syncCampaign` compares identity and cancellation, not payment
  progress (`buyer-service.mjs:493`), so the slower of two overlapping syncs takes a
  paid order back to initiated until the next sync, against `README.md:199`.
- *Discarded PSBT.*  A sync discards signing material (`buyer-service.mjs:577-579`) but
  not the prepared attempt that refers to it; an execution then passes the gate
  (911) without material, which the comment at 1006 excludes.
- *Receipt marked uncertain.*  `resumeCampaign` marks a submission as interrupted from
  a snapshot (`buyer-service.mjs:437`); the submission may have been recorded in
  between, and the order then looks like one paid by somebody else (503).
- *Order left open.*  A campaign in `order_failed` is cancelled locally
  (`buyer-service.mjs:340`) though the Seller may have made the order and only its
  answer was lost, against `PAYMENT_LIFECYCLE.md:21`.
- *Settled orders are not polled.*  A stop that is pending on a settled order is outside
  the Buyer's filter (`buyer-service.mjs:671`), against `PAYMENT_LIFECYCLE.md:32-33`;
  the same filter leaves out a submitted payment whose order settled before its
  sync.  `buyer_live` therefore runs without settlement.
- *Cancellation without an order.*  `cancellation_pending` with no recorded order is
  never polled (`buyer-service.mjs:667`), against `README.md:182`.
- *Completed, then cancelled.*  `cancelDelegation` returns early only for a delegation
  in state `cancelled` or without a campaign (`intake-service.mjs:569`); a completed one
  goes on to `cancelCampaign`, which asks the Seller to stop delivered work and may
  turn the campaign to `cost_review_required`.  If that request fails there is no
  `cancellation` to note the error in (`buyer-service.mjs:392`), and the catch at 573
  writes `cancellation_pending` over `completed`.
- *Cancellation that waits for a creation.*  When the creation keeps failing, for
  instance because the deadline has passed (`intake-service.mjs:846`), a cancelled
  delegation without a campaign stays `cancellation_pending`, and the page only reads
  it (`web/app.js:1561`).
- *Stale synchronisation.*  A synchronisation that read the campaign before it was
  cancelled takes a `cancelled` delegation back to `cancellation_pending`
  (`intake-service.mjs:930`) until the next one.
- *Resumed though cancelled.*  `resumeDelegation` (`intake-service.mjs:538`) does not ask
  about a cancellation; one that is not yet with the campaign lets it buy.  `told` is
  reset there: who resumes takes the cancellation back.
- *Cancellation lost across a crash.*  A delegation is cancelled while its campaign is
  being created, and the customer has the answer.  A crash after the campaign is stored
  and before it is linked leaves it `analyzing`; at the next start the campaigns recover
  first (`buyer-index.mjs:89`), this one is evaluated, executed and paid, and only then
  does the intake find its cancellation, against `SECURITY.md:33`.
- *Two starts at once.*  Two processes that are started together can both find the lock
  of a dead owner; the slower one's `unlink` (`json-store.mjs:114`) removes the file the
  faster one has just created, and both own the state file, against `SECURITY.md:31`.
  `release()` by name has the same effect on a process that starts while another leaves.
  With `Overlap = TRUE` TLC finds both.
- *A pid that lives again.*  A dead owner whose pid another program has by now blocks the
  start until somebody removes the file (`json-store.mjs:109`).
- *A volume without its job directory.*  A crash between `docker volume create` and the
  end of `docker cp` (`docker-hypit-runner.mjs:233-258`) leaves a volume that is empty or
  holds a part of the job directory; every later start finds it, does not copy, and the
  commands fail: the order cannot be produced any more.
- *Docker failure read as missing.*  Any failure of `docker inspect` or `docker volume
  inspect`, a time limit or a stalled daemon included, is taken for a missing container
  (`docker-hypit-runner.mjs:222-230`) or volume (233-240).  The run that follows conflicts
  with the container's name, and 262 removes the running container with the Build in it;
  if the volume counts as made here, 263-265 removes it too.  A paid Build is then killed
  or lost, and the order's markers keep it from being begun again.  `BuildKept` names
  these steps as its exception.
- *A killed Build.*  A container that is started again runs `sleep infinity`
  (`docker-hypit-runner.mjs:254`), and nothing in the repository restarts the Build that
  worked in it; while Hypit reports no outcome the polls find it still running
  (`hypit-adapter.mjs:750-751`), for ever.  `DeliveryEnds` excepts it.
- *A torn export.*  Artifacts are exported under their own name and taken as they are if
  they exist (`hypit-adapter.mjs:782`).  After a crash or a time limit during the export a
  torn video is hashed and recorded as the result (`ResultStands` only says that what is
  served is what was recorded); the Buyer downloads it with the right digest, its media
  check (`campaign-completion.mjs:185`, `media-validator.mjs:134-149, 187`) rejects it at
  every attempt, and a paid campaign stays `packaging_failed`.  The last case of
  `Outcome` is this one.  A torn receipt fails to parse at every later attempt.
- *Cleanup before the record.*  The worker and its volume are removed
  (`hypit-adapter.mjs:868`) before the result is recorded.  After a crash in between, the
  recorded build id is looked for in an empty volume and the production fails, though
  the artifacts are on the host (the video perhaps a torn one), against `SECURITY.md:30`.
- *Proof and record apart.*  `refreshPaymentProof` rewrites the documents before the
  transaction that records their digests; a crash in between, or a second refresh that
  renames the shared temporary file, leaves digests that are not those of the files until
  the next refresh.  A settled campaign that is already completed is not polled again
  (`buyer-service.mjs:671`), so only a request of a client brings it about.
- *An attempt outside its window.*  A crash between the ledger entry and the receipt of a
  Veo segment makes the next run find its reservation (`google-veo-video-provider.mjs:494`)
  and submit under it, even hours later: the request then counts in a window that has
  passed.  `EveryWindow` is therefore about entries.
- *Files that stay torn.*  The commission, the manifest of inputs and the records of
  paid items are created exclusively; one that a crash leaves torn ends every later run
  of the order and nothing removes it.  So does a recording whose record is missing
  (`production-input-preparer.mjs:806`), though it was paid for.
- *A cache that fails.*  A reference video that was fetched but cannot be put into the
  shared cache fails the order's run (`hypit-adapter.mjs:181-204`) though the cache is
  only an optimisation.

## 12. Not modelled, and why

- *Model calls* (decision engine, mandate extraction, creative advice): they return data
  that is validated and have no state of their own; where their failing or being late
  matters they are actions of `BuyerSpend` and `Intake`.
- *Catalog and pricing, transaction review, commission compiler, media probes, security
  helpers*: pure functions of configuration, text or files, without an interleaving or a
  durable state; a reference definition would repeat the code.
- *confirm_before_purchase, advisory_only, delivery disputes* of the Buyer's campaigns and
  *resolution requests and quotas* of the intake: left for a later extension.
- *PSBT validation and cryptography* of the instant wallet: out of TLC's reach; the
  wallet is what `BuyerSpend` sees of it.
- *The web console, the edge worker and the operator scripts* show state or run once.

Only model-checked: the liveness of every module, `Answered` of `AtomicStore` included.
