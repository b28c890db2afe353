------------------------------- MODULE Intake -------------------------------
(***************************************************************************)
(* The Buyer's intake: one delegation from the customer's brief over the   *)
(* mandate to its campaign, and its cancellation.                          *)
(*                                                                         *)
(* `dlg` is the durable delegation, `camp` the durable campaigns by the    *)
(* mandate version in their idempotency key.  A restart loses `interp`,    *)
(* the interpretation task, and `run`: the requests in flight and the      *)
(* campaign task ("maker").  A store transaction is one action.  Requests  *)
(* read the delegation before they wait for the campaign service, so what  *)
(* they record may be old.                                                 *)
(***************************************************************************)
EXTENDS Naturals, FiniteSets

CONSTANTS
    Clients,        \* concurrent requests; "page" is the customer's open page
    Modes,          \* authorizationMode of a complete extraction
    MaxRevisions,   \* bound: versions of the mandate
    MaxRestarts     \* bound: process crashes

ASSUME IntakeAssumption ==
    /\ Modes \subseteq {"auto", "confirm", "advisory"}
    /\ MaxRevisions \in Nat /\ MaxRestarts \in Nat
    /\ "maker" \notin Clients

VARIABLES dlg, camp, interp, run, phase,
    agreed,         \* ghost: what clients have agreed to
    told,           \* ghost: a client has the answer to a cancellation
    restarts

vars == <<dlg, camp, interp, run, phase, agreed, told, restarts>>

Procs == Clients \cup {"maker"}
Versions == 1 .. MaxRevisions

-----------------------------------------------------------------------------
(* Campaigns, as the intake meets them; see BuyerSpend. *)

\* paused: spend_blocked, order_failed, payment_preparation_failed.  buying: an
\* execution before its submission.  paid: what follows it, whether the work and
\* the payment are in order or not (payment_origin_review_required too).  in_review: refund or cost review.
CancellationStates == {"cancelled", "cancellation_pending", "in_review"}
Unpaid == {"analyzing", "decision_failed", "decision_ready", "paused", "buying"}
Bought == {"paid", "completed"}
CampaignStates == {"none"} \cup Unpaid \cup Bought \cup CancellationStates

\* auto: the campaign may be executed without another confirmation.
Campaigns == [st : CampaignStates, mode : Modes \cup {"none"}, auto : BOOLEAN]
NoCampaign == [st |-> "none", mode |-> "none", auto |-> FALSE]
Created(mode) == [st |-> "analyzing", mode |-> mode, auto |-> mode = "auto"]

\* cancelCampaign.  A remote order leaves the cancellation pending; delivered
\* work still goes to review.
CancelOutcomes(c) ==
    IF c.st \in {"analyzing", "decision_ready", "decision_failed"} THEN {"cancelled"}
    ELSE IF c.st = "completed" THEN {"in_review"}
    ELSE IF c.st \in {"cancelled", "in_review"} THEN {c.st}
    ELSE CancellationStates

\* executeCampaign: the spend policy may refuse, the mandate may not allow it.
ExecuteOutcomes(c) ==
    IF c.st \in {"decision_ready", "paused"} THEN {"buying", "paused"} ELSE {c.st}

\* #evaluate, and the execution that follows it when it needs no confirmation.
EvaluateOutcomes(c) ==
    {"decision_failed"} \cup (IF c.auto THEN {"buying", "paused"} ELSE {"decision_ready"})

\* What it leaves behind when that execution refuses the decision.
EvaluatedOnly(c) ==
    IF c.st \in {"analyzing", "decision_failed"} /\ c.auto THEN {"decision_ready"} ELSE {}

ResumeOutcomes(c) ==
    IF c.st \in {"analyzing", "decision_failed"} THEN EvaluateOutcomes(c)
    ELSE IF c.st \in CancellationStates THEN CancelOutcomes(c)
    ELSE IF c.auto THEN ExecuteOutcomes(c) ELSE {c.st}

\* An execution runs to its submission, pauses, or comes back with another quote,
\* for which a purchase has to be confirmed again; polling follows the order.
Ends == {"paid", "paused", "decision_failed", "decision_ready"}
Moved(c, s) ==
    [c EXCEPT !.st = s, !.auto = @ /\ (s = "decision_ready" => c.mode = "auto")]
Followed(c) ==
    CASE c.st = "paid" -> {"completed"}
      [] c.st = "cancellation_pending" -> {"cancelled", "in_review"}
      [] c.st = "cancelled" -> {"in_review"}
      [] OTHER -> {}

-----------------------------------------------------------------------------
(* The delegation. *)

DelegationStates == {"absent", "interpreting", "interpretation_failed",
    "clarification_required", "approval_required", "approval_refinable", "declined",
    "creating_campaign", "campaign_creation_failed", "campaign_active",
    "campaign_failed", "execution_paused", "advisory_ready",
    "awaiting_purchase_confirmation", "completed"} \cup CancellationStates

\* st: approval_refinable is approval_required with optional questions open; rev:
\* revision and mandate version; mode: of the mandate; approved: the version
\* approved; cancel: cancellationRequestedAt; link: campaignId; resumable: the
\* campaign copy is paused.
Delegation == [st : DelegationStates, rev : 0 .. MaxRevisions, mode : Modes \cup {"none"},
    approved : 0 .. MaxRevisions, cancel : BOOLEAN, link : 0 .. MaxRevisions, resumable : BOOLEAN]
NoDelegation == [st |-> "absent", rev |-> 0, mode |-> "none", approved |-> 0,
    cancel |-> FALSE, link |-> 0, resumable |-> FALSE]
Approvable(d) == d.st \in {"approval_required", "approval_refinable"}

\* questionsFor and makeMandate: required questions, optional ones, or none.
\* A mandate without a mode has a required question.
Readings ==
    [st : {"approval_required", "approval_refinable"}, mode : Modes]
    \cup [st : {"clarification_required"}, mode : {"none"}]

\* delegationState of a campaign in state s.
DelegationState(s, mode) ==
    CASE s \in {"completed"} \cup CancellationStates -> s
      [] s = "decision_failed" -> "campaign_failed"
      [] s = "paused" -> "execution_paused"
      [] s = "decision_ready" /\ mode = "advisory" -> "advisory_ready"
      [] s = "decision_ready" /\ mode = "confirm" -> "awaiting_purchase_confirmation"
      [] OTHER -> "campaign_active"

\* Mutant: a recorded campaign decides the state, whatever was asked.
RecordedPlain(d, id, s) ==
    [d EXCEPT !.link = id, !.resumable = s = "paused", !.st = DelegationState(s, d.mode)]
\* #recordCampaign.
Recorded(d, id, s) ==
    [d EXCEPT !.link = id, !.resumable = s = "paused",
        !.st = IF d.cancel /\ s \notin CancellationStates THEN "cancellation_pending"
               ELSE DelegationState(s, d.mode)]

\* Mutant: a failed creation is not in flight.
CreationMayBeInFlightNow(d) == d.st \in {"creating_campaign", "cancellation_pending"}
CreationMayBeInFlight(d) ==
    d.st \in {"creating_campaign", "campaign_creation_failed", "cancellation_pending"}

\* The transaction of cancelDelegation.
Cancelled(d) ==
    IF d.st \in {"completed", "cancelled", "declined"} THEN d
    ELSE [d EXCEPT !.cancel = TRUE,
            !.st = IF d.link # 0 \/ CreationMayBeInFlight(d) THEN "cancellation_pending"
                   ELSE "cancelled"]

Answerable(d) ==
    d.st \in {"clarification_required", "interpretation_failed", "approval_refinable"}

Confirms(d, v) == Approvable(d) /\ v = d.rev

-----------------------------------------------------------------------------
Steps == {"idle", "call", "wait", "record", "caught",
    "begin", "create", "link", "stop", "check"}
Operations == {"none", "purchase", "sync", "resume", "cancel", "create", "found"}
\* id: the campaign called, got: the state it returned; try: an error is caught
\* and recorded.
Handler == [at : Steps, op : Operations, id : 0 .. MaxRevisions, got : CampaignStates,
    try : BOOLEAN]
Idle == [at |-> "idle", op |-> "none", id |-> 0, got |-> "none", try |-> FALSE]
Calling(op, id, try) == [Idle EXCEPT !.at = "call", !.op = op, !.id = id, !.try = try]
AllIdle == [p \in Procs |-> Idle]

TypeOK ==
    /\ dlg \in Delegation
    /\ camp \in [Versions -> Campaigns]
    /\ interp \in [at : {"idle", "reserve", "answer"}, rev : 0 .. MaxRevisions]
    /\ run \in [Procs -> Handler]
    /\ phase \in {"up", "boot"}
    /\ agreed \subseteq Versions \X {"mandate", "purchase"}
    /\ told \in BOOLEAN
    /\ restarts \in 0 .. MaxRestarts

NoTask == [at |-> "idle", rev |-> 0]

Init ==
    /\ dlg = NoDelegation
    /\ camp = [v \in Versions |-> NoCampaign]
    /\ interp = NoTask
    /\ run = AllIdle
    /\ phase = "up"
    /\ agreed = {} /\ told = FALSE /\ restarts = 0

At(p, step) == run[p].at = step
Free(p) == p \in Clients /\ At(p, "idle") /\ phase = "up" /\ dlg.st # "absent"
Move(p, h) == run' = [run EXCEPT ![p] = h]
\* #interpret and #ensureCampaign join a task that runs already.
Interpreting == interp' = IF interp.at = "idle" THEN [interp EXCEPT !.at = "reserve"] ELSE interp
Making(h) == IF h["maker"].at = "idle" THEN [h EXCEPT !["maker"].at = "begin"] ELSE h
ProcessUnchanged == UNCHANGED <<phase, restarts>>
GhostsUnchanged == UNCHANGED <<agreed, told>>

-----------------------------------------------------------------------------
(* Requests on the mandate. *)

\* A repeated key returns the delegation it made.
CreateDelegation(p) ==
    /\ p \in Clients /\ At(p, "idle") /\ phase = "up" /\ dlg.st = "absent"
    /\ dlg' = [NoDelegation EXCEPT !.st = "interpreting"]
    /\ Interpreting
    /\ UNCHANGED <<camp, run>> /\ GhostsUnchanged /\ ProcessUnchanged

\* The checks before these transactions refuse nothing that the transactions,
\* which repeat them, would not.
Transacts(p, d) ==
    /\ Free(p)
    /\ dlg' = d
    /\ UNCHANGED <<camp, told>> /\ ProcessUnchanged

AnswerQuestions(p) ==
    /\ Answerable(dlg)
    /\ Transacts(p, [dlg EXCEPT !.st = "interpreting"])
    /\ Interpreting /\ UNCHANGED <<run, agreed>>

RetryInterpretation(p) ==
    /\ dlg.st = "interpretation_failed"
    /\ Transacts(p, [dlg EXCEPT !.st = "interpreting"])
    /\ Interpreting /\ UNCHANGED <<run, agreed>>

\* A customer may agree to a version that was on display before.
ConfirmMandate(p, v) ==
    /\ Confirms(dlg, v)
    /\ Transacts(p, [dlg EXCEPT !.st = "creating_campaign", !.approved = dlg.rev])
    /\ agreed' = agreed \cup {<<v, "mandate">>}
    /\ run' = Making(run) /\ UNCHANGED interp

DeclineMandate(p) ==
    /\ Approvable(dlg)
    /\ Transacts(p, [dlg EXCEPT !.st = "declined"])
    /\ UNCHANGED <<run, agreed, interp>>

\* An approved mandate is confirmed again after its campaign could not be created.
ConfirmAgain(p) ==
    /\ Free(p)
    /\ dlg.st \in {"creating_campaign", "campaign_creation_failed"} /\ dlg.approved # 0
    /\ run' = Making(run)
    /\ UNCHANGED <<dlg, camp, interp>> /\ GhostsUnchanged /\ ProcessUnchanged

-----------------------------------------------------------------------------
(* #interpret *)

\* The attempt is reserved before the paid provider is called, if the last hour
\* has room for it.
ReserveAttempt ==
    /\ interp.at = "reserve"
    /\ \/ /\ ~dlg.cancel /\ dlg.st = "interpreting"
          /\ \/ interp' = [at |-> "answer", rev |-> dlg.rev] /\ UNCHANGED dlg
             \/ interp' = NoTask /\ dlg' = [dlg EXCEPT !.st = "interpretation_failed"]
       \/ (dlg.cancel \/ dlg.st # "interpreting") /\ interp' = NoTask /\ UNCHANGED dlg
    /\ UNCHANGED <<camp, run>> /\ GhostsUnchanged /\ ProcessUnchanged

\* The result goes over whatever state the delegation is in, unless cancelled.
Interpreted ==
    /\ interp.at = "answer"
    /\ interp' = NoTask
    /\ \/ dlg.cancel /\ UNCHANGED dlg
       \/ ~dlg.cancel /\ interp.rev < MaxRevisions /\ \E r \in Readings :
            dlg' = [dlg EXCEPT !.rev = interp.rev + 1, !.st = r.st, !.mode = r.mode]
       \/ ~dlg.cancel /\ dlg' = [dlg EXCEPT !.st = "interpretation_failed"]
    /\ UNCHANGED <<camp, run>> /\ GhostsUnchanged /\ ProcessUnchanged

-----------------------------------------------------------------------------
(* Requests on the campaign. *)

Request(p, h) ==
    /\ Move(p, h)
    /\ UNCHANGED <<dlg, camp, interp, told>> /\ ProcessUnchanged

ConfirmPurchase(p) ==
    /\ Free(p) /\ dlg.st = "awaiting_purchase_confirmation"
    /\ agreed' = agreed \cup {<<dlg.link, "purchase">>}
    /\ Request(p, Calling("purchase", dlg.link, FALSE))

SyncDelegation(p) ==
    /\ Free(p) /\ dlg.link # 0
    /\ Request(p, Calling(IF dlg.cancel THEN "cancel" ELSE "sync", dlg.link, FALSE))
    /\ UNCHANGED agreed

\* Synchronising a cancellation whose campaign is not known yet.
SyncUnlinked(p) ==
    /\ Free(p) /\ dlg.link = 0 /\ dlg.st = "cancellation_pending" /\ dlg.approved # 0
    /\ run' = Making(run)
    /\ UNCHANGED <<dlg, camp, interp>> /\ GhostsUnchanged /\ ProcessUnchanged

\* Nothing here asks about a cancellation: who resumes takes it back.
ResumeDelegation(p) ==
    /\ Free(p) /\ dlg.link # 0 /\ dlg.resumable
    /\ Move(p, Calling("resume", dlg.link, FALSE))
    /\ told' = FALSE
    /\ UNCHANGED <<dlg, camp, interp, agreed>> /\ ProcessUnchanged

\* What the Seller makes of it shows like any other progress of the campaign.
RetryFulfillment(p) ==
    /\ Free(p) /\ dlg.link # 0
    /\ Request(p, Calling("sync", dlg.link, FALSE))
    /\ UNCHANGED agreed

\* Whoever cancelled has an answer that says so.
Answered(d) == told' = (told \/ d.cancel)

\* Without a campaign, and on a cancelled delegation, the transaction is all; a
\* completed one goes on like the others.
CancelDelegation(p) ==
    LET d == Cancelled(dlg) IN
    /\ Free(p)
    /\ dlg' = d
    /\ IF d.link = 0 \/ d.st = "cancelled"
       THEN Answered(d) /\ UNCHANGED run
       ELSE Move(p, Calling("cancel", d.link, TRUE)) /\ UNCHANGED told
    /\ UNCHANGED <<camp, interp, agreed>> /\ ProcessUnchanged

-----------------------------------------------------------------------------
(* The campaign service answers. *)

Outcomes(op, c) ==
    CASE op = "cancel" -> CancelOutcomes(c)
      [] op = "resume" -> ResumeOutcomes(c)
      [] op = "create" /\ c.st = "analyzing" -> EvaluateOutcomes(c)
      [] op = "purchase" -> IF c.st \in CancellationStates THEN CancelOutcomes(c)
                            ELSE ExecuteOutcomes(c)
      [] OTHER -> {c.st}

\* The answer of a creation is followed by another look at the delegation.
Returned(h, s) ==
    IF s = "buying" /\ h.op # "sync" THEN [h EXCEPT !.at = "wait"]
    ELSE [h EXCEPT !.at = IF h.op \in {"create", "found"} THEN "check" ELSE "record",
              !.op = "none", !.got = s]

Refused(h) == IF h.try THEN [h EXCEPT !.at = "caught"] ELSE Idle

CampaignAnswers(p) ==
    LET h == run[p] IN
    /\ At(p, "call")
    /\ \E s \in Outcomes(h.op, camp[h.id]) :
         /\ camp' = [camp EXCEPT ![h.id].st = s,
                        ![h.id].auto = @ \/ (h.op = "purchase" /\ s \in {"buying", "paused"})]
         /\ Move(p, Returned(h, s))
    /\ UNCHANGED <<dlg, interp>> /\ GhostsUnchanged /\ ProcessUnchanged

\* An execution that a cancellation overtook notices it and ends.
ExecutionStopped(p) ==
    LET h == run[p] IN
    /\ At(p, "wait") /\ camp[h.id].st # "buying"
    /\ Move(p, Returned(h, camp[h.id].st))
    /\ UNCHANGED <<dlg, camp, interp>> /\ GhostsUnchanged /\ ProcessUnchanged

\* cancelCampaign keeps its own errors, except for delivered work.
CampaignRefuses(p) ==
    LET h == run[p] IN
    /\ At(p, "call")
    /\ h.op = "cancel" => camp[h.id].st = "completed"
    /\ \E s \in {camp[h.id].st}
               \cup (IF h.op \in {"create", "resume"} THEN EvaluatedOnly(camp[h.id]) ELSE {}) :
         camp' = [camp EXCEPT ![h.id] = Moved(@, s)]
    /\ Move(p, Refused(h))
    /\ UNCHANGED <<dlg, interp>> /\ GhostsUnchanged /\ ProcessUnchanged

\* A delegation linked to another campaign refuses this one.
RecordCampaign(p) ==
    LET h == run[p]
        d == Recorded(dlg, h.id, h.got)
    IN
    /\ At(p, "record")
    /\ IF dlg.link \notin {0, h.id}
       THEN Move(p, Refused(h)) /\ UNCHANGED <<dlg, told>>
       ELSE /\ dlg' = d
            /\ IF p \in Clients /\ h.try THEN Answered(d) ELSE UNCHANGED told
            /\ Move(p, Idle)
    /\ UNCHANGED <<camp, interp, agreed>> /\ ProcessUnchanged

\* The catch blocks of cancelDelegation and #ensureCampaign.
RecordFailure(p) ==
    LET d == [dlg EXCEPT !.st = IF p \in Clients \/ dlg.cancel THEN "cancellation_pending"
                                ELSE "campaign_creation_failed"]
    IN /\ At(p, "caught")
       /\ dlg' = d
       /\ IF p \in Clients THEN Answered(d) ELSE UNCHANGED told
       /\ Move(p, Idle)
       /\ UNCHANGED <<camp, interp, agreed>> /\ ProcessUnchanged

-----------------------------------------------------------------------------
(* #ensureCampaign *)

Maker(h) == Move("maker", h)

BeginCampaign ==
    /\ At("maker", "begin")
    /\ IF dlg.st = "cancelled" THEN Maker(Idle)
       ELSE IF dlg.link # 0
       THEN Maker(Calling(IF dlg.cancel THEN "cancel" ELSE "resume", dlg.link, FALSE))
       ELSE Maker([Idle EXCEPT !.at = "create", !.id = dlg.rev, !.try = TRUE])
    /\ UNCHANGED <<dlg, camp, interp>> /\ GhostsUnchanged /\ ProcessUnchanged

\* The deadline has passed, the upload service is missing, the input is refused.
CreationFails ==
    /\ At("maker", "create")
    /\ Maker([run["maker"] EXCEPT !.at = "caught"])
    /\ UNCHANGED <<dlg, camp, interp>> /\ GhostsUnchanged /\ ProcessUnchanged

\* The idempotency key names the mandate version.
CreateCampaign ==
    LET h == run["maker"]
        new == camp[h.id] = NoCampaign
    IN /\ At("maker", "create")
       /\ camp' = IF new THEN [camp EXCEPT ![h.id] = Created(dlg.mode)] ELSE camp
       /\ Maker([h EXCEPT !.at = "link", !.op = IF new THEN "create" ELSE "found",
                    !.got = camp'[h.id].st])
       /\ UNCHANGED <<dlg, interp>> /\ GhostsUnchanged /\ ProcessUnchanged

\* Mutant: the campaign is evaluated although the customer has cancelled.
LinkOnly ==
    LET h == run["maker"] IN
    /\ At("maker", "link")
    /\ IF dlg.link \notin {0, h.id}
       THEN Maker([h EXCEPT !.at = "caught"]) /\ UNCHANGED dlg
       ELSE /\ dlg' = [dlg EXCEPT !.link = h.id, !.resumable = h.got = "paused",
                            !.st = IF dlg.cancel THEN "cancellation_pending" ELSE @]
            /\ Maker([h EXCEPT !.at = "call"])
    /\ UNCHANGED <<camp, interp>> /\ GhostsUnchanged /\ ProcessUnchanged

\* onCreated links the campaign before it is evaluated, and stops it there if
\* the customer has cancelled.
LinkCampaign ==
    LET h == run["maker"] IN
    /\ At("maker", "link")
    /\ IF dlg.link \notin {0, h.id}
       THEN Maker([h EXCEPT !.at = "caught"]) /\ UNCHANGED dlg
       ELSE /\ dlg' = [dlg EXCEPT !.link = h.id, !.resumable = h.got = "paused",
                            !.st = IF dlg.cancel THEN "cancellation_pending" ELSE @]
            /\ Maker([h EXCEPT !.at = IF dlg.cancel THEN "stop" ELSE "call"])
    /\ UNCHANGED <<camp, interp>> /\ GhostsUnchanged /\ ProcessUnchanged

StopLinked ==
    LET h == run["maker"] IN
    /\ At("maker", "stop")
    /\ \E s \in CancelOutcomes(camp[h.id]) : camp' = [camp EXCEPT ![h.id].st = s]
    /\ Maker([h EXCEPT !.at = "call"])
    /\ UNCHANGED <<dlg, interp>> /\ GhostsUnchanged /\ ProcessUnchanged

StopLinkedFails ==
    LET h == run["maker"] IN
    /\ At("maker", "stop") /\ camp[h.id].st = "completed"
    /\ Maker([h EXCEPT !.at = "caught"])
    /\ UNCHANGED <<dlg, camp, interp>> /\ GhostsUnchanged /\ ProcessUnchanged

CheckCancellation ==
    LET h == run["maker"] IN
    /\ At("maker", "check")
    /\ Maker(IF dlg.cancel THEN Calling("cancel", h.id, TRUE) ELSE [h EXCEPT !.at = "record"])
    /\ UNCHANGED <<dlg, camp, interp>> /\ GhostsUnchanged /\ ProcessUnchanged

-----------------------------------------------------------------------------
(* Campaigns move by themselves; processes stop and come back. *)

\* Its callers get its result, or that the new quote may not be bought.
ExecutionEnds(v, s) ==
    /\ camp[v].st = "buying" /\ s \in Ends
    /\ camp' = [camp EXCEPT ![v] = Moved(@, s)]
    /\ run' = [p \in Procs |->
                 IF ~(At(p, "wait") /\ run[p].id = v) THEN run[p]
                 ELSE IF s = "decision_ready" /\ camp[v].mode = "auto" THEN Refused(run[p])
                 ELSE Returned(run[p], s)]
    /\ UNCHANGED <<dlg, interp>> /\ GhostsUnchanged /\ ProcessUnchanged

CampaignFollowed(v, s) ==
    /\ s \in Followed(camp[v])
    /\ camp' = [camp EXCEPT ![v].st = s]
    /\ UNCHANGED <<dlg, interp, run>> /\ GhostsUnchanged /\ ProcessUnchanged

\* Mutant: recovery forgets creations under way.
RecoveredNoCreation(d) ==
    IF d.st = "interpreting" THEN "interp"
    ELSE IF d.st = "cancellation_pending" /\ d.link = 0 /\ d.approved # 0
    THEN "maker" ELSE "none"
\* The task recover() takes up.
Recovered(d) ==
    IF d.st = "interpreting" THEN "interp"
    ELSE IF \/ d.st = "creating_campaign"
            \/ d.st = "cancellation_pending" /\ d.link = 0 /\ d.approved # 0
    THEN "maker" ELSE "none"

\* BuyerService.recover() comes first and is waited for: it evaluates, and
\* executes what needs no confirmation.
CampaignRecovered(c, s) ==
    IF c.st \in {"analyzing", "buying"} \/ (c.auto /\ c.st \in Unpaid)
    THEN \/ s \in EvaluatedOnly(c)
         \/ \E r \in ResumeOutcomes(c) : IF r = "buying" THEN s \in Ends ELSE s = r
    ELSE s = c.st

\* Nothing else happens before both recoveries have begun.
Restart ==
    /\ restarts < MaxRestarts /\ restarts' = restarts + 1
    /\ phase' = "boot"
    /\ \E f \in [Versions -> CampaignStates] :
         /\ \A v \in Versions : CampaignRecovered(camp[v], f[v])
         /\ camp' = [v \in Versions |-> Moved(camp[v], f[v])]
    /\ interp' = [NoTask EXCEPT !.at = IF Recovered(dlg) = "interp" THEN "reserve" ELSE "idle"]
    /\ run' = IF Recovered(dlg) = "maker" THEN Making(AllIdle) ELSE AllIdle
    /\ told' = FALSE
    /\ UNCHANGED <<dlg, agreed>>

\* The server listens once the intake's recovery has ended too.
FinishBoot ==
    /\ phase = "boot" /\ interp.at = "idle" /\ At("maker", "idle")
    /\ phase' = "up"
    /\ UNCHANGED <<dlg, camp, interp, run, restarts>> /\ GhostsUnchanged

-----------------------------------------------------------------------------
\* Bound: the page synchronises and cancels, other clients make the other requests.
ClientStep(p) ==
    IF p = "page" THEN SyncDelegation(p) \/ CancelDelegation(p)
    ELSE \/ CreateDelegation(p) \/ AnswerQuestions(p) \/ RetryInterpretation(p)
         \/ DeclineMandate(p) \/ \E v \in 1 .. dlg.rev : ConfirmMandate(p, v)
         \/ ConfirmAgain(p) \/ ConfirmPurchase(p) \/ SyncUnlinked(p)
         \/ ResumeDelegation(p) \/ RetryFulfillment(p)

CallStep(p) ==
    \/ CampaignAnswers(p) \/ ExecutionStopped(p) \/ CampaignRefuses(p)
    \/ RecordCampaign(p) \/ RecordFailure(p)

InterpretStep == ReserveAttempt \/ Interpreted

MakerStep ==
    \/ BeginCampaign \/ CreationFails \/ CreateCampaign \/ LinkCampaign \/ StopLinked
    \/ StopLinkedFails \/ CheckCancellation

Next ==
    \/ \E p \in Clients : ClientStep(p)
    \/ \E p \in Procs : CallStep(p)
    \/ InterpretStep \/ MakerStep
    \/ \E v \in Versions, s \in CampaignStates : ExecutionEnds(v, s) \/ CampaignFollowed(v, s)
    \/ Restart \/ FinishBoot

Spec == Init /\ [][Next]_vars

\* The states in which the page goes on synchronising a linked campaign.
Polled == {"creating_campaign", "campaign_active", "cancellation_pending"}

\* Continuations run, executions end, and boot goes on.  The page stays open, and
\* what it asks is not refused for ever.
Fairness ==
    /\ WF_vars(InterpretStep) /\ WF_vars(MakerStep)
    /\ WF_vars(FinishBoot)
    /\ \A p \in Procs : WF_vars(CallStep(p))
    /\ WF_vars(\E v \in Versions, s \in Ends : ExecutionEnds(v, s))
    /\ SF_vars(dlg.st \in Polled /\ SyncDelegation("page"))
    /\ SF_vars(CampaignAnswers("page") /\ run["page"].op \in {"sync", "cancel"})
FairSpec == Spec /\ Fairness

-----------------------------------------------------------------------------
(* Safety. *)

\* A campaign exists only for the mandate version a customer agreed to, although
\* an optional answer may replace the mandate while it is being confirmed, and one
\* that asks before purchase buys only what was confirmed (483, 507-520).
NothingWithoutConsent == \A v \in Versions :
    /\ camp[v] # NoCampaign => <<v, "mandate">> \in agreed
    /\ camp[v].st \in {"buying"} \cup Bought /\ camp[v].mode # "auto"
            => <<v, "purchase">> \in agreed

\* However often a creation is retried, recovered or confirmed again, a delegation
\* has one campaign (888: the key names the mandate version).
OneCampaign == Cardinality({v \in Versions : camp[v] # NoCampaign}) <= 1

\* A cancelled delegation never again shows a state in which it goes on, whichever
\* interpretation, creation or older synchronisation commits last (764, 810, 930).
CancellationShown == dlg.cancel => dlg.st \in CancellationStates

\* A delegation that says it is cancelled has no campaign that can still buy, also
\* when its creation was under way (569).
CancelledBuysNothing ==
    dlg.st = "cancelled" => \A v \in Versions : camp[v].st \in {"none"} \cup CancellationStates

\* What a delegation shows and what has been made of it agree.
RecordsConsistent == TypeOK /\ OneCampaign /\ CancellationShown

\* A campaign buys only what was agreed to, and nothing once it is shown as cancelled.
BuysAsAgreed == NothingWithoutConsent /\ CancelledBuysNothing

Spends(v) == camp[v].st \in Unpaid /\ camp'[v].st \in Bought
\* Once the customer has the answer to a cancellation, a campaign that has not
\* submitted its payment never does while the process runs, even if the campaign is
\* still to be created (840-879).
NoPurchaseAfterAnswer ==
    [][told /\ told' => \A v \in Versions : ~Spends(v)]_vars

-----------------------------------------------------------------------------
(* Liveness, under FairSpec. *)

\* No crash leaves a delegation interpreting for ever, nor creating its campaign,
\* whichever step the crash came after (684-692, 822-920).
WorkEnds == \A s \in {"interpreting", "creating_campaign"} : dlg.st = s ~> dlg.st # s

\* A cancellation reaches the campaign it is linked to (528-538).
CancellationReachesCampaign ==
    dlg.cancel /\ dlg.link # 0 ~> \E v \in Versions : v = dlg.link /\ camp[v].st \in CancellationStates

\* Both: nothing a customer waits for is left lying, whatever the process died over.
WorkAndCancellationEnd == WorkEnds /\ CancellationReachesCampaign
=============================================================================
