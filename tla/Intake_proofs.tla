---------------------------- MODULE Intake_proofs ----------------------------
(***************************************************************************)
(* Proofs about Intake, for every set of clients and modes and every value *)
(* of the bounds.                                                          *)
(***************************************************************************)
EXTENDS Intake, FiniteSetTheorems, TLAPS

\* Before anyone has agreed, and while the campaign is being created.
Early == {"absent", "interpreting", "interpretation_failed", "clarification_required",
    "approval_required", "approval_refinable", "declined"}
Creating == {"creating_campaign", "campaign_creation_failed"}
Done == {"completed"} \cup CancellationStates
Past == Bought \cup CancellationStates

\* The mandate does not move under its approval: an interpretation under way
\* belongs to a delegation that nobody has approved, or to a cancelled one.
Mandate ==
    /\ dlg.approved \in {0, dlg.rev}
    /\ dlg.approved # 0 => <<dlg.approved, "mandate">> \in agreed
    /\ dlg.link \in {0, dlg.approved}
    /\ dlg.st \in Early => dlg.approved = 0
    /\ dlg.st \in Creating => dlg.approved # 0
    /\ dlg.link = 0 => dlg.st \in Early \cup Creating \cup {"cancellation_pending", "cancelled"}
    /\ dlg.link = 0 /\ dlg.approved # 0 => dlg.st # "cancelled"
    /\ dlg.cancel => dlg.st \in CancellationStates
    /\ interp.at # "idle" => dlg.cancel \/ dlg.st = "interpreting"
    /\ interp.at = "answer" => interp.rev = dlg.rev

\* The one campaign is that of the approved version, and what it may buy was
\* agreed to.
Owned(v) ==
    /\ camp[v] # NoCampaign => v = dlg.approved /\ camp[v].st # "none"
    /\ camp[v].auto => camp[v].mode = "auto" \/ <<v, "purchase">> \in agreed
    /\ camp[v].st \in {"buying"} \cup Bought /\ camp[v].mode # "auto"
            => <<v, "purchase">> \in agreed
    /\ dlg.link = 0 => camp[v].st # "buying"
    /\ v = dlg.link => camp[v] # NoCampaign
    /\ dlg.st = "cancelled" => camp[v].st \in {"none"} \cup CancellationStates

\* What a client that cancels holds while it waits for the campaign.
Cancelling(h) ==
    /\ h.at = "call" => h.op = "cancel"
    /\ h.at # "wait"
    /\ h.at = "record" => h.got \in CancellationStates

\* A request in flight is about the approved version, past its link the campaign
\* exists, and the cancellation it has seen is still one.
Handled(p) ==
    LET h == run[p] IN
    /\ h.at # "idle" => dlg.approved # 0
    /\ h.at \notin {"idle", "begin"} => h.id = dlg.approved
    /\ h.at \in {"call", "wait", "record", "stop", "check"} => dlg.link # 0
    /\ h.at \in {"create", "link"} => dlg.link = 0
    /\ h.at = "link" => camp[dlg.approved] # NoCampaign
    /\ h.op = "purchase" => <<h.id, "purchase">> \in agreed
    /\ h.got \in CancellationStates => h.id \in Versions /\ camp[h.id].st \in CancellationStates
    /\ p \in Clients =>
        /\ h.at \in {"idle", "call", "wait", "record", "caught"}
        /\ h.op \notin {"create", "found"}
        /\ h.try => Cancelling(h)
        /\ h.at = "caught" => h.try /\ dlg.link # 0 /\ camp[dlg.approved].st \in Done

\* Whoever has the answer to a cancellation can rely on it: the campaign is past
\* buying, or is not linked yet and will be stopped where it is.
Stopping ==
    /\ run["maker"].at = "stop"
    /\ camp[dlg.link].st # "buying"
    /\ \A p \in Clients : run[p].at = "call" => run[p].op \in {"cancel", "sync"}
Told ==
    told => /\ dlg.cancel
            /\ dlg.link = 0 \/ camp[dlg.link].st \in Past \/ Stopping

\* The inductive invariant.
IInv == /\ TypeOK
        /\ Mandate
        /\ \A v \in Versions : Owned(v)
        /\ \A p \in Procs : Handled(p)
        /\ Told

LEMMA VersionsRange == Versions \subseteq 1 .. MaxRevisions /\ 0 \notin Versions
  BY IntakeAssumption DEF Versions

\* What every part of the proof knows of the state.
LEMMA Basics ==
  ASSUME IInv
  PROVE  /\ dlg \in Delegation /\ camp \in [Versions -> Campaigns] /\ run \in [Procs -> Handler]
         /\ dlg.approved # 0 => dlg.approved \in Versions /\ dlg.approved = dlg.rev
         /\ dlg.link # 0 => dlg.link = dlg.approved /\ dlg.link \in Versions
         /\ "maker" \in Procs /\ Clients \subseteq Procs
<1>1. dlg \in Delegation /\ camp \in [Versions -> Campaigns] /\ run \in [Procs -> Handler]
  BY DEF IInv, TypeOK
<1>2. dlg.approved \in 0 .. MaxRevisions /\ dlg.link \in {0, dlg.approved}
      /\ dlg.approved \in {0, dlg.rev}
  BY <1>1 DEF Delegation, IInv, Mandate
<1> QED
  BY <1>1, <1>2, IntakeAssumption DEF Versions, Procs

LEMMA InitIInv == Init => IInv
<1> SUFFICES ASSUME Init PROVE IInv
  OBVIOUS
<1>1. NoDelegation \in Delegation /\ NoCampaign \in Campaigns /\ Idle \in Handler
  BY IntakeAssumption DEF NoDelegation, Delegation, NoCampaign, Campaigns, Idle, Handler,
     DelegationStates, CampaignStates, Steps, Operations
<1>2. TypeOK
  <2>1. camp \in [Versions -> Campaigns]
    BY <1>1 DEF Init
  <2>2. interp \in [at : {"idle", "reserve", "answer"}, rev : 0 .. MaxRevisions]
    BY IntakeAssumption DEF Init, NoTask
  <2>3. run \in [Procs -> Handler]
    BY <1>1 DEF Init, AllIdle
  <2>4. restarts \in 0 .. MaxRestarts
    BY IntakeAssumption DEF Init
  <2> QED
    BY <1>1, <2>1, <2>2, <2>3, <2>4 DEF Init, TypeOK
<1>3. Mandate
  BY DEF Init, Mandate, NoDelegation, NoTask, Early, Creating, CancellationStates
<1>4. ASSUME NEW v \in Versions PROVE Owned(v)
  BY <1>4, VersionsRange DEF Init, Owned, NoDelegation, NoCampaign, Bought
<1>5. ASSUME NEW p \in Procs PROVE Handled(p)
  BY <1>5 DEF Init, Handled, AllIdle, Idle, CancellationStates, Cancelling
<1>6. Told
  BY DEF Init, Told
<1> QED
  BY <1>2, <1>3, <1>4, <1>5, <1>6 DEF IInv

-----------------------------------------------------------------------------
(* What may become of a campaign, whichever step changes it. *)

\* ok: a purchase of it has been confirmed.
Evolves(c, d, ok) ==
    /\ c = NoCampaign => d = NoCampaign
    /\ c.st # "none" => d.st # "none"
    /\ d.mode = c.mode
    /\ c.st \in CancellationStates => d.st \in CancellationStates
    /\ c.st \in Past => d.st \in Past
    /\ c.st \in Done => d.st \in Done
    /\ d.auto => c.auto \/ ok
    /\ d.st \in {"buying"} \cup Bought => c.st \in {"buying"} \cup Bought \/ c.auto \/ ok

\* The states a call to the campaign service may leave the campaign in.
Reached(c, s, ok) ==
    /\ s \in CampaignStates \ {"none"}
    /\ c.st \in CancellationStates => s \in CancellationStates
    /\ c.st \in Past => s \in Past
    /\ c.st \in Done => s \in Done
    /\ s \in {"buying"} \cup Bought => c.st \in {"buying"} \cup Bought \/ c.auto \/ ok

LEMMA CancelReaches ==
  ASSUME NEW c \in Campaigns, c.st # "none", NEW s \in CancelOutcomes(c)
  PROVE  Reached(c, s, FALSE) /\ s \in CancellationStates
  BY DEF Campaigns, CampaignStates, CancelOutcomes, Reached, Past, Done, Bought, Unpaid,
     CancellationStates

LEMMA ExecuteReaches ==
  ASSUME NEW c \in Campaigns, c.st # "none", NEW s \in ExecuteOutcomes(c)
  PROVE  Reached(c, s, TRUE)
  BY DEF Campaigns, CampaignStates, ExecuteOutcomes, Reached, Past, Done, Bought, Unpaid,
     CancellationStates

LEMMA EvaluateReaches ==
  ASSUME NEW c \in Campaigns, c.st \in {"analyzing", "decision_failed"},
         NEW s \in EvaluateOutcomes(c)
  PROVE  Reached(c, s, FALSE)
<1>1. CASE c.auto
  BY <1>1 DEF Campaigns, CampaignStates, EvaluateOutcomes, Reached, Past, Done, Bought,
     Unpaid, CancellationStates
<1>2. CASE ~c.auto
  <2>1. s \in {"decision_failed", "decision_ready"}
    BY <1>2 DEF EvaluateOutcomes
  <2> QED
    BY <2>1 DEF CampaignStates, Reached, Past, Done, Bought, Unpaid, CancellationStates
<1> QED
  BY <1>1, <1>2

LEMMA ResumeReaches ==
  ASSUME NEW c \in Campaigns, c.st # "none", NEW s \in ResumeOutcomes(c)
  PROVE  Reached(c, s, FALSE)
<1>1. CASE c.st \in {"analyzing", "decision_failed"}
  <2>1. s \in EvaluateOutcomes(c)
    BY <1>1 DEF ResumeOutcomes
  <2> QED
    BY <1>1, <2>1, EvaluateReaches
<1>2. CASE c.st \in CancellationStates
  <2>1. s \in CancelOutcomes(c)
    BY <1>2 DEF ResumeOutcomes, CancellationStates
  <2> QED
    BY <2>1, CancelReaches
<1>3. CASE c.st \notin {"analyzing", "decision_failed"} \cup CancellationStates
  <2>1. CASE c.auto
    <3>1. s \in ExecuteOutcomes(c)
      BY <1>3, <2>1 DEF ResumeOutcomes
    <3> QED
      BY <2>1, <3>1, ExecuteReaches DEF Reached
  <2>2. CASE ~c.auto
    <3>1. s = c.st
      BY <1>3, <2>2 DEF ResumeOutcomes
    <3> QED
      BY <3>1 DEF Campaigns, Reached
  <2> QED
    BY <2>1, <2>2
<1> QED
  BY <1>1, <1>2, <1>3

LEMMA AnswerReaches ==
  ASSUME NEW c \in Campaigns, c.st # "none", NEW op, NEW s \in Outcomes(op, c)
  PROVE  Reached(c, s, op = "purchase")
<1>1. CASE op = "cancel" \/ (op = "purchase" /\ c.st \in CancellationStates)
  <2>1. CASE op = "cancel"
    BY <2>1, CancelReaches DEF Outcomes, Reached
  <2>2. CASE op = "purchase"
    <3>1. op = "purchase" /\ c.st \in CancellationStates
      BY <1>1, <2>2
    <3>2. s \in CancelOutcomes(c)
      BY <3>1 DEF Outcomes
    <3>3. Reached(c, s, FALSE)
      BY <3>2, CancelReaches
    <3> QED
      BY <2>2, <3>3 DEF Reached
  <2> QED
    BY <1>1, <2>1, <2>2
<1>2. CASE op = "resume"
  <2>1. s \in ResumeOutcomes(c)
    BY <1>2 DEF Outcomes
  <2> QED
    BY <2>1, ResumeReaches DEF Reached
<1>3. CASE op = "create" /\ c.st = "analyzing"
  <2>1. s \in EvaluateOutcomes(c)
    BY <1>3 DEF Outcomes
  <2> QED
    BY <1>3, <2>1, EvaluateReaches DEF Reached
<1>4. CASE op = "purchase" /\ c.st \notin CancellationStates
  <2>1. s \in ExecuteOutcomes(c)
    BY <1>4 DEF Outcomes
  <2> QED
    BY <1>4, <2>1, ExecuteReaches DEF Reached
<1>5. CASE ~(op \in {"cancel", "resume", "purchase"} \/ (op = "create" /\ c.st = "analyzing"))
  <2>1. s = c.st
    BY <1>5 DEF Outcomes
  <2> QED
    BY <2>1 DEF Campaigns, Reached
<1> QED
  BY <1>1, <1>2, <1>3, <1>4, <1>5

LEMMA ReachedEvolves ==
  ASSUME NEW c \in Campaigns, c.st # "none", NEW s, NEW ok, Reached(c, s, ok),
         NEW d, d.st = s, d.mode = c.mode, d.auto => c.auto \/ ok
  PROVE  Evolves(c, d, ok)
  BY DEF Evolves, Reached, NoCampaign

LEMMA MovedFacts ==
  ASSUME NEW c \in Campaigns, NEW s \in CampaignStates
  PROVE  /\ Moved(c, s) \in Campaigns
         /\ Moved(c, s).st = s /\ Moved(c, s).mode = c.mode
         /\ Moved(c, s).auto => c.auto
  BY DEF Moved, Campaigns

LEMMA MovedEvolves ==
  ASSUME NEW c \in Campaigns, c.st # "none", NEW s, NEW ok, Reached(c, s, ok)
  PROVE  Moved(c, s) \in Campaigns /\ Moved(c, s).st = s /\ Evolves(c, Moved(c, s), ok)
<1>1. s \in CampaignStates
  BY DEF Reached
<1> QED
  BY <1>1, MovedFacts, ReachedEvolves

\* A call that only puts down the state it found, or the evaluation it had come to.
LEMMA EvaluatedReaches ==
  ASSUME NEW c \in Campaigns, c.st # "none", NEW s \in {c.st} \cup EvaluatedOnly(c)
  PROVE  Reached(c, s, FALSE) /\ (s = "buying" => c.st = "buying")
<1>1. CASE s = c.st
  BY <1>1 DEF Reached, Campaigns
<1>2. CASE s # c.st
  <2>1. s = "decision_ready" /\ c.st \in {"analyzing", "decision_failed"}
    BY <1>2 DEF EvaluatedOnly
  <2> QED
    BY <2>1 DEF Reached, CampaignStates, Past, Done, Bought, Unpaid, CancellationStates
<1> QED
  BY <1>1, <1>2

LEMMA EndReaches ==
  ASSUME NEW c \in Campaigns, c.st # "none", c.st \in {"buying"} \/ c.auto, c.st \in Unpaid,
         NEW s \in Ends
  PROVE  Reached(c, s, FALSE) /\ s # "buying"
  BY DEF Reached, CampaignStates, Ends, Past, Done, Bought, Unpaid, CancellationStates

LEMMA FollowedReaches ==
  ASSUME NEW c \in Campaigns, NEW s \in Followed(c)
  PROVE  /\ Reached(c, s, FALSE) /\ s # "buying"
         /\ c.st \in {"paid", "cancellation_pending", "cancelled"}
<1>1. CASE c.st = "paid"
  <2>1. s = "completed"
    BY <1>1 DEF Followed
  <2> QED
    BY <1>1, <2>1 DEF Reached, CampaignStates, Past, Done, Bought, Unpaid, CancellationStates
<1>2. CASE c.st = "cancellation_pending"
  <2>1. s \in {"cancelled", "in_review"}
    BY <1>2 DEF Followed
  <2> QED
    BY <1>2, <2>1 DEF Reached, CampaignStates, Past, Done, Bought, Unpaid, CancellationStates
<1>3. CASE c.st = "cancelled"
  <2>1. s = "in_review"
    BY <1>3 DEF Followed
  <2> QED
    BY <1>3, <2>1 DEF Reached, CampaignStates, Past, Done, Bought, Unpaid, CancellationStates
<1>4. c.st \in {"paid", "cancellation_pending", "cancelled"}
  BY DEF Followed
<1> QED
  BY <1>1, <1>2, <1>3, <1>4

\* Recovery leaves no campaign buying.
LEMMA RecoveredReaches ==
  ASSUME NEW c \in Campaigns, c.st # "none", NEW s, CampaignRecovered(c, s)
  PROVE  Reached(c, s, FALSE) /\ s # "buying"
<1>1. CASE c.st \in {"analyzing", "buying"} \/ (c.auto /\ c.st \in Unpaid)
  <2>1. CASE s \in EvaluatedOnly(c)
    <3>1. c.st # "buying"
      BY <2>1 DEF EvaluatedOnly
    <3> QED
      BY <2>1, <3>1, EvaluatedReaches
  <2>2. CASE \E r \in ResumeOutcomes(c) : IF r = "buying" THEN s \in Ends ELSE s = r
    <3> PICK r \in ResumeOutcomes(c) : IF r = "buying" THEN s \in Ends ELSE s = r
      BY <2>2
    <3>1. Reached(c, r, FALSE)
      BY ResumeReaches
    <3>2. CASE r # "buying"
      BY <3>1, <3>2
    <3>3. CASE r = "buying"
      <4>1. s \in Ends
        BY <3>3
      <4>2. c.st = "buying" \/ c.auto
        BY <3>1, <3>3, <1>1 DEF Reached, Bought, Unpaid
      <4>3. c.st \in Unpaid
        BY <1>1 DEF Unpaid
      <4> QED
        BY <4>1, <4>2, <4>3, EndReaches
    <3> QED
      BY <3>2, <3>3
  <2> QED
    BY <1>1, <2>1, <2>2 DEF CampaignRecovered
<1>2. CASE ~(c.st \in {"analyzing", "buying"} \/ (c.auto /\ c.st \in Unpaid))
  <2>1. s = c.st
    BY <1>2 DEF CampaignRecovered
  <2> QED
    BY <1>2, <2>1, EvaluatedReaches
<1> QED
  BY <1>1, <1>2

LEMMA EvolvesRefl ==
  ASSUME NEW c, NEW ok
  PROVE  Evolves(c, c, ok)
  BY DEF Evolves

-----------------------------------------------------------------------------
(* What a step keeps by leaving the rest of the state alone. *)

LEMMA Folds0 ==
  ASSUME IInv
  PROVE  /\ TypeOK /\ Mandate /\ Told
         /\ \A v \in Versions : Owned(v)
         /\ \A p \in Procs : Handled(p)
  BY DEF IInv

\* A campaign that evolves stays the one of the approved version.
LEMMA EvolveOwned ==
  ASSUME IInv, NEW v \in Versions,
         dlg'.approved = dlg.approved, dlg'.link = dlg.link,
         dlg'.st = "cancelled" => dlg.st = "cancelled", agreed \subseteq agreed',
         Evolves(camp[v], camp'[v], <<v, "purchase">> \in agreed),
         dlg.link = 0 => camp'[v].st # "buying"
  PROVE  Owned(v)'
<1> USE Folds0
<1>1. camp'[v] # NoCampaign => v = dlg'.approved /\ camp'[v].st # "none"
  BY DEF Owned, Evolves
<1>2. camp'[v].auto => camp'[v].mode = "auto" \/ <<v, "purchase">> \in agreed'
  BY DEF Owned, Evolves
<1>3. camp'[v].st \in {"buying"} \cup Bought /\ camp'[v].mode # "auto"
        => <<v, "purchase">> \in agreed'
  BY DEF Owned, Evolves
<1>4. v = dlg'.link => camp'[v] # NoCampaign
  BY DEF Owned, Evolves, NoCampaign
<1>5. dlg'.st = "cancelled" => camp'[v].st \in {"none"} \cup CancellationStates
  BY DEF Owned, Evolves, NoCampaign
<1> QED
  BY <1>1, <1>2, <1>3, <1>4, <1>5 DEF Owned

\* Every campaign evolves, or stays.
LEMMA OwnedKept ==
  ASSUME IInv, dlg'.approved = dlg.approved, dlg'.link = dlg.link,
         dlg'.st = "cancelled" => dlg.st = "cancelled", agreed \subseteq agreed', camp' = camp
  PROVE  \A v \in Versions : Owned(v)'
<1> SUFFICES ASSUME NEW v \in Versions PROVE Owned(v)'
  OBVIOUS
<1>1. Evolves(camp[v], camp'[v], <<v, "purchase">> \in agreed)
  BY EvolvesRefl
<1>2. dlg.link = 0 => camp'[v].st # "buying"
  BY Folds0 DEF Owned
<1> QED
  BY <1>1, <1>2, EvolveOwned

\* A request that a step leaves alone.
LEMMA HandledKept ==
  ASSUME IInv, NEW p \in Procs, run'[p] = run[p], agreed \subseteq agreed',
         run[p].at # "idle" => dlg'.approved = dlg.approved /\ dlg'.link = dlg.link,
         \A v \in Versions :
            camp[v] = NoCampaign \/ Evolves(camp[v], camp'[v], <<v, "purchase">> \in agreed)
  PROVE  Handled(p)'
<1> DEFINE h == run[p]
<1> USE Folds0, Basics
<1>1. h.at # "idle" => dlg'.approved # 0 /\ dlg'.approved \in Versions
  BY DEF Handled
<1>2. h.at \notin {"idle", "begin"} => h.id = dlg'.approved
  BY DEF Handled
<1>3. h.at \in {"call", "wait", "record", "stop", "check"} => dlg'.link # 0
  BY DEF Handled
<1>4. h.at \in {"create", "link"} => dlg'.link = 0
  BY DEF Handled
<1>5. h.at = "link" => camp'[dlg'.approved] # NoCampaign
  <2> SUFFICES ASSUME h.at = "link" PROVE camp'[dlg.approved] # NoCampaign
    BY <1>1, Zenon
  <2>1. dlg.approved \in Versions /\ camp[dlg.approved] # NoCampaign
    BY DEF Handled
  <2>2. camp[dlg.approved].st # "none"
    BY <2>1 DEF Owned
  <2>3. camp'[dlg.approved].st # "none"
    BY <2>1, <2>2 DEF Evolves
  <2> QED
    BY <2>3 DEF NoCampaign
<1>6. h.op = "purchase" => <<h.id, "purchase">> \in agreed'
  BY DEF Handled
<1>7. h.got \in CancellationStates => h.id \in Versions /\ camp'[h.id].st \in CancellationStates
  <2> SUFFICES ASSUME h.got \in CancellationStates
               PROVE  h.id \in Versions /\ camp'[h.id].st \in CancellationStates
    OBVIOUS
  <2>1. h.id \in Versions /\ camp[h.id].st \in CancellationStates
    BY DEF Handled
  <2>2. camp[h.id] # NoCampaign
    BY <2>1 DEF NoCampaign, CancellationStates
  <2> QED
    BY <2>1, <2>2 DEF Evolves
<1>8. ASSUME p \in Clients
      PROVE  /\ h.at \in {"idle", "call", "wait", "record", "caught"}
             /\ h.op \notin {"create", "found"}
             /\ h.try => Cancelling(h)
             /\ h.at = "caught" => h.try /\ dlg'.link # 0 /\ camp'[dlg'.approved].st \in Done
  <2>1. /\ h.at \in {"idle", "call", "wait", "record", "caught"} /\ h.op \notin {"create", "found"}
        /\ h.try => Cancelling(h)
    BY <1>8 DEF Handled
  <2>2. ASSUME h.at = "caught"
        PROVE  h.try /\ dlg'.link # 0 /\ camp'[dlg'.approved].st \in Done
    <3>1. h.try /\ dlg.link # 0 /\ camp[dlg.approved].st \in Done
      BY <1>8, <2>2 DEF Handled
    <3>2. dlg.approved \in Versions /\ dlg'.approved = dlg.approved /\ dlg'.link = dlg.link
      BY <2>2, <3>1
    <3>3. camp[dlg.approved] # NoCampaign
      BY <3>1 DEF NoCampaign, Done, CancellationStates
    <3> QED
      BY <3>1, <3>2, <3>3 DEF Evolves
  <2> QED
    BY <2>1, <2>2
<1>9. run'[p] = h
  OBVIOUS
<1> QED
  BY <1>1, <1>2, <1>3, <1>4, <1>5, <1>6, <1>7, <1>8, <1>9 DEF Handled, Cancelling

LEMMA AllHandledKept ==
  ASSUME IInv, run' = run, agreed \subseteq agreed', dlg'.approved = dlg.approved,
         dlg'.link = dlg.link, camp' = camp
  PROVE  \A p \in Procs : Handled(p)'
<1>1. \A v \in Versions : Evolves(camp[v], camp'[v], <<v, "purchase">> \in agreed)
  BY EvolvesRefl
<1> QED
  BY <1>1, HandledKept

LEMMA ToldKept ==
  ASSUME IInv, told' => told, run' = run, camp' = camp, dlg'.link = dlg.link,
         dlg.cancel => dlg'.cancel
  PROVE  Told'
  BY Folds0 DEF Told, Stopping

-----------------------------------------------------------------------------
(* The steps on the mandate: campaigns and requests stay. *)

\* Nothing but the state of the delegation, its interpretation and its reading move.
MandateMoves ==
    /\ UNCHANGED <<camp, run, agreed, told, phase, restarts>>
    /\ dlg' \in Delegation
    /\ interp' \in [at : {"idle", "reserve", "answer"}, rev : 0 .. MaxRevisions]
    /\ dlg'.approved = dlg.approved /\ dlg'.link = dlg.link /\ dlg'.cancel = dlg.cancel
    /\ dlg'.st = "cancelled" => dlg.st = "cancelled"
    /\ Mandate'

LEMMA MandateStep ==
  ASSUME IInv, MandateMoves
  PROVE  IInv'
<1> USE Folds0 DEF MandateMoves
<1>1. TypeOK'
  BY DEF TypeOK
<1>2. \A v \in Versions : Owned(v)'
  BY OwnedKept
<1>3. \A p \in Procs : Handled(p)'
  BY AllHandledKept
<1>4. Told'
  BY ToldKept
<1> QED
  BY <1>1, <1>2, <1>3, <1>4 DEF IInv

LEMMA InterpretingType ==
  ASSUME TypeOK, Interpreting
  PROVE  /\ interp' \in [at : {"idle", "reserve", "answer"}, rev : 0 .. MaxRevisions]
         /\ interp'.at = "reserve" \/ interp' = interp
  BY DEF TypeOK, Interpreting

\* Until a mandate is approved its state may be any of the early ones.
LEMMA EarlyMandate ==
  ASSUME IInv, dlg.approved = 0, dlg'.approved = 0, dlg'.link = dlg.link,
         dlg'.st \in Early, dlg'.cancel = FALSE,
         interp'.at # "idle" => dlg'.st = "interpreting",
         interp'.at = "answer" => interp'.rev = dlg'.rev
  PROVE  Mandate'
<1>1. dlg.link = 0
  BY Folds0 DEF Mandate
<1> QED
  BY <1>1 DEF Mandate, Early, Creating

LEMMA EarlyFacts ==
  ASSUME IInv, dlg.st \in Early
  PROVE  dlg.approved = 0 /\ dlg.cancel = FALSE
<1>1. dlg.cancel \in BOOLEAN
  BY Basics DEF Delegation
<1>2. dlg.st \notin CancellationStates
  BY DEF Early, CancellationStates
<1> QED
  BY <1>1, <1>2, Folds0 DEF Mandate

LEMMA CreateDelegationStep ==
  ASSUME IInv, NEW p, CreateDelegation(p)
  PROVE  IInv'
<1> USE Folds0, Basics
<1>1. dlg.st \in Early /\ dlg' = [NoDelegation EXCEPT !.st = "interpreting"] /\ Interpreting
  BY DEF CreateDelegation, Early
<1>2. NoDelegation \in Delegation
  BY IntakeAssumption DEF NoDelegation, Delegation, DelegationStates
<1>3. dlg' \in Delegation
  BY <1>1, <1>2 DEF Delegation, DelegationStates
<1>4. dlg'.approved = 0 /\ dlg'.link = 0 /\ dlg'.cancel = FALSE /\ dlg'.st = "interpreting"
  BY <1>1 DEF NoDelegation
<1>5. interp.at = "idle"
  BY EarlyFacts, <1>1 DEF Mandate, CreateDelegation
<1>6. interp' = [interp EXCEPT !.at = "reserve"]
      /\ interp' \in [at : {"idle", "reserve", "answer"}, rev : 0 .. MaxRevisions]
  BY <1>1, <1>5, InterpretingType DEF Interpreting
<1>7. dlg.approved = 0 /\ dlg.link = 0 /\ dlg.cancel = FALSE
  BY <1>1, EarlyFacts DEF Mandate
<1>8. interp'.at = "reserve"
  BY <1>6
<1>9. Mandate'
  BY <1>4, <1>7, <1>8, EarlyMandate DEF Early
<1> QED
  BY <1>3, <1>4, <1>6, <1>7, <1>9, MandateStep DEF MandateMoves, CreateDelegation, GhostsUnchanged,
     ProcessUnchanged

\* A new state for a delegation that nobody has approved.
LEMMA EarlyStep ==
  ASSUME IInv, dlg.st \in Early, NEW s \in Early, dlg' = [dlg EXCEPT !.st = s],
         UNCHANGED <<camp, run, agreed, told, phase, restarts>>,
         interp' \in [at : {"idle", "reserve", "answer"}, rev : 0 .. MaxRevisions],
         interp'.at # "idle" => s = "interpreting",
         interp'.at = "answer" => interp'.rev = dlg.rev
  PROVE  IInv'
<1> USE Folds0, Basics
<1>1. dlg' \in Delegation
  BY DEF Delegation, DelegationStates, Early
<1>2. dlg'.st = s /\ dlg'.rev = dlg.rev /\ dlg'.approved = dlg.approved
      /\ dlg'.cancel = dlg.cancel /\ dlg'.link = dlg.link
  BY DEF Delegation
<1>3. interp'.at = "answer" => interp'.rev = dlg'.rev
  BY <1>2
<1>4. Mandate'
  BY <1>2, <1>3, EarlyFacts, EarlyMandate
<1>5. dlg'.st # "cancelled"
  BY <1>2 DEF Early
<1> QED
  BY <1>1, <1>2, <1>4, <1>5, MandateStep DEF MandateMoves

\* An interpretation under way, or a new one.
LEMMA InterpretingAgain ==
  ASSUME IInv, dlg.st \in Early, Interpreting, dlg' = [dlg EXCEPT !.st = "interpreting"],
         UNCHANGED <<camp, run, agreed, told, phase, restarts>>
  PROVE  IInv'
<1>1. interp' \in [at : {"idle", "reserve", "answer"}, rev : 0 .. MaxRevisions]
      /\ (interp'.at = "reserve" \/ interp' = interp)
  BY Folds0, InterpretingType
<1>2. interp'.at = "answer" => interp'.rev = dlg.rev
  BY <1>1, Folds0 DEF Mandate
<1>3. "interpreting" \in Early
  BY DEF Early
<1> QED
  BY <1>1, <1>2, <1>3, EarlyStep

LEMMA AnswerQuestionsStep ==
  ASSUME IInv, NEW p, AnswerQuestions(p)
  PROVE  IInv'
<1>1. dlg.st \in Early
  BY DEF AnswerQuestions, Answerable, Early
<1> QED
  BY <1>1, InterpretingAgain DEF AnswerQuestions, Transacts, ProcessUnchanged

LEMMA RetryInterpretationStep ==
  ASSUME IInv, NEW p, RetryInterpretation(p)
  PROVE  IInv'
<1>1. dlg.st \in Early
  BY DEF RetryInterpretation, Early
<1> QED
  BY <1>1, InterpretingAgain DEF RetryInterpretation, Transacts, ProcessUnchanged

LEMMA DeclineMandateStep ==
  ASSUME IInv, NEW p, DeclineMandate(p)
  PROVE  IInv'
<1>1. dlg.st \in Early /\ dlg.st # "interpreting" /\ "declined" \in Early
  BY DEF DeclineMandate, Approvable, Early
<1>2. interp.at = "idle"
  BY <1>1, EarlyFacts, Folds0 DEF Mandate
<1>3. interp \in [at : {"idle", "reserve", "answer"}, rev : 0 .. MaxRevisions]
  BY Folds0 DEF TypeOK
<1>4. interp' = interp /\ dlg' = [dlg EXCEPT !.st = "declined"]
      /\ UNCHANGED <<camp, run, agreed, told, phase, restarts>>
  BY DEF DeclineMandate, Transacts, ProcessUnchanged
<1> QED
  BY <1>1, <1>2, <1>3, <1>4, EarlyStep

\* The interpretation gives up and leaves the delegation alone.
LEMMA InterpretationDropped ==
  ASSUME IInv, interp' = NoTask, UNCHANGED <<dlg, camp, run, agreed, told, phase, restarts>>
  PROVE  IInv'
<1>1. interp' \in [at : {"idle", "reserve", "answer"}, rev : 0 .. MaxRevisions]
      /\ interp'.at = "idle"
  BY IntakeAssumption DEF NoTask
<1>2. Mandate'
  BY <1>1, Folds0 DEF Mandate
<1> QED
  BY <1>1, <1>2, Basics, MandateStep DEF MandateMoves

LEMMA InterpretationFails ==
  ASSUME IInv, dlg.st = "interpreting", interp' = NoTask,
         dlg' = [dlg EXCEPT !.st = "interpretation_failed"],
         UNCHANGED <<camp, run, agreed, told, phase, restarts>>
  PROVE  IInv'
<1>1. interp' \in [at : {"idle", "reserve", "answer"}, rev : 0 .. MaxRevisions]
      /\ interp'.at = "idle"
  BY IntakeAssumption DEF NoTask
<1>2. dlg.st \in Early /\ "interpretation_failed" \in Early
  BY DEF Early
<1> QED
  BY <1>1, <1>2, EarlyStep

LEMMA ReserveAttemptStep ==
  ASSUME IInv, ReserveAttempt
  PROVE  IInv'
<1>1. UNCHANGED <<camp, run, agreed, told, phase, restarts>>
  BY DEF ReserveAttempt, GhostsUnchanged, ProcessUnchanged
<1>2. CASE dlg.st = "interpreting" /\ interp' = [at |-> "answer", rev |-> dlg.rev]
           /\ UNCHANGED dlg
  <2>1. dlg.st \in Early /\ dlg' = [dlg EXCEPT !.st = "interpreting"]
    BY <1>2, Basics DEF Early, Delegation
  <2>2. dlg.rev \in 0 .. MaxRevisions
    BY Basics DEF Delegation
  <2>3. /\ interp' \in [at : {"idle", "reserve", "answer"}, rev : 0 .. MaxRevisions]
        /\ interp'.rev = dlg.rev
    BY <1>2, <2>2
  <2>4. "interpreting" \in Early
    BY DEF Early
  <2> QED
    BY <1>1, <2>1, <2>3, <2>4, EarlyStep
<1>3. CASE dlg.st = "interpreting" /\ interp' = NoTask
           /\ dlg' = [dlg EXCEPT !.st = "interpretation_failed"]
  BY <1>1, <1>3, InterpretationFails
<1>4. CASE interp' = NoTask /\ UNCHANGED dlg
  BY <1>1, <1>4, InterpretationDropped
<1> QED
  BY <1>2, <1>3, <1>4 DEF ReserveAttempt

LEMMA InterpretedStep ==
  ASSUME IInv, Interpreted
  PROVE  IInv'
<1> USE Folds0, Basics
<1>1. UNCHANGED <<camp, run, agreed, told, phase, restarts>> /\ interp' = NoTask
  BY DEF Interpreted, GhostsUnchanged, ProcessUnchanged
<1>2. CASE UNCHANGED dlg
  BY <1>1, <1>2, InterpretationDropped
<1>3. ~dlg.cancel => dlg.st = "interpreting"
  BY DEF Interpreted, Mandate
<1>4. CASE ~dlg.cancel /\ dlg' = [dlg EXCEPT !.st = "interpretation_failed"]
  BY <1>1, <1>3, <1>4, InterpretationFails
<1>5. CASE ~dlg.cancel /\ interp.rev < MaxRevisions /\ \E r \in Readings :
             dlg' = [dlg EXCEPT !.rev = interp.rev + 1, !.st = r.st, !.mode = r.mode]
  <2> PICK r \in Readings :
             dlg' = [dlg EXCEPT !.rev = interp.rev + 1, !.st = r.st, !.mode = r.mode]
    BY <1>5
  <2>1. r.st \in Early /\ r.st # "interpreting" /\ r.st # "cancelled"
    BY DEF Readings, Early
  <2>2. r.st \in DelegationStates /\ r.mode \in Modes \cup {"none"}
    BY DEF Readings, DelegationStates
  <2>3. interp.rev + 1 \in 0 .. MaxRevisions
    BY <1>5, IntakeAssumption DEF TypeOK
  <2>4. dlg' \in Delegation
    BY <2>2, <2>3 DEF Delegation
  <2>5. dlg'.approved = dlg.approved /\ dlg'.link = dlg.link /\ dlg'.cancel = dlg.cancel
        /\ dlg'.st = r.st
    BY DEF Delegation
  <2>6. interp' \in [at : {"idle", "reserve", "answer"}, rev : 0 .. MaxRevisions]
        /\ interp'.at = "idle"
    BY <1>1, IntakeAssumption DEF NoTask
  <2>7. dlg.st \in Early
    BY <1>3, <1>5 DEF Early
  <2>8. Mandate'
    BY <2>1, <2>5, <2>6, <2>7, EarlyFacts, EarlyMandate
  <2> QED
    BY <1>1, <2>1, <2>4, <2>5, <2>6, <2>8, MandateStep DEF MandateMoves
<1> QED
  BY <1>2, <1>4, <1>5 DEF Interpreted

-----------------------------------------------------------------------------
(* The steps of one request that leave the delegation and its campaign alone. *)

LEMMA MakerIsNoClient == "maker" \in Procs /\ Clients \subseteq Procs \ {"maker"}
  BY IntakeAssumption DEF Procs

LEMMA CallingFacts ==
  ASSUME NEW op \in Operations, NEW id \in 0 .. MaxRevisions, NEW try \in BOOLEAN
  PROVE  /\ Calling(op, id, try) \in Handler
         /\ Calling(op, id, try).at = "call" /\ Calling(op, id, try).op = op
         /\ Calling(op, id, try).id = id /\ Calling(op, id, try).got = "none"
         /\ Calling(op, id, try).try = try
  BY DEF Calling, Idle, Handler, Steps, CampaignStates

LEMMA IdleFacts ==
  /\ Idle \in Handler
  /\ Idle.at = "idle" /\ Idle.op = "none" /\ Idle.id = 0 /\ Idle.got = "none" /\ Idle.try = FALSE
  BY IntakeAssumption DEF Idle, Handler, Steps, Operations, CampaignStates

\* p moves to h.
Moves(p, h) ==
    /\ h \in Handler
    /\ run' = [run EXCEPT ![p] = h]

LEMMA MovesFacts ==
  ASSUME IInv, NEW p \in Procs, NEW h, Moves(p, h)
  PROVE  /\ run' \in [Procs -> Handler] /\ run'[p] = h
         /\ \A q \in Procs \ {p} : run'[q] = run[q]
  BY Basics DEF Moves

LEMMA RequestStep ==
  ASSUME IInv, NEW p \in Procs,
         UNCHANGED <<dlg, camp, interp>>, run' \in [Procs -> Handler],
         \A q \in Procs \ {p} : run'[q] = run[q],
         agreed \subseteq agreed', agreed' \subseteq Versions \X {"mandate", "purchase"},
         phase' \in {"up", "boot"}, restarts' = restarts,
         told' \in BOOLEAN, told' => told,
         Handled(p)',
         told' /\ p = "maker" /\ run[p].at = "stop" => camp[dlg.link].st \in Past,
         told' /\ p \in Clients /\ run'[p].at = "call" => run'[p].op \in {"cancel", "sync"}
  PROVE  IInv'
<1> USE Folds0, Basics
<1>1. TypeOK'
  BY DEF TypeOK
<1>2. Mandate'
  BY DEF Mandate
<1>3. \A v \in Versions : Owned(v)'
  BY OwnedKept
<1>4. ASSUME NEW q \in Procs PROVE Handled(q)'
  <2>1. CASE q = p
    BY <2>1
  <2>2. CASE q # p
    <3>1. \A v \in Versions : Evolves(camp[v], camp'[v], <<v, "purchase">> \in agreed)
      BY EvolvesRefl
    <3> QED
      BY <2>2, <3>1, HandledKept
  <2> QED
    BY <2>1, <2>2
<1>5. Told'
  <2> SUFFICES ASSUME told' PROVE dlg'.cancel /\ (\/ dlg'.link = 0
                                               \/ camp'[dlg'.link].st \in Past
                                               \/ Stopping')
    BY DEF Told
  <2>1. dlg.cancel /\ (dlg.link = 0 \/ camp[dlg.link].st \in Past \/ Stopping)
    BY DEF Told
  <2>2. CASE dlg.link = 0 \/ camp[dlg.link].st \in Past
    BY <2>1, <2>2
  <2>3. CASE Stopping /\ ~(camp[dlg.link].st \in Past)
    <3>1. p # "maker" /\ run'["maker"] = run["maker"]
      BY <2>3 DEF Stopping
    <3>2. ASSUME NEW q \in Clients, run'[q].at = "call" PROVE run'[q].op \in {"cancel", "sync"}
      BY <2>3, <3>2 DEF Stopping
    <3> QED
      BY <2>1, <2>3, <3>1, <3>2 DEF Stopping
  <2> QED
    BY <2>1, <2>2, <2>3
<1> QED
  BY <1>1, <1>2, <1>3, <1>4, <1>5 DEF IInv

\* A client calls the campaign its delegation is linked to.
LEMMA ClientCalls ==
  ASSUME IInv, NEW p \in Clients, NEW op \in Operations \ {"create", "found"}, dlg.link # 0,
         Moves(p, Calling(op, dlg.link, FALSE)),
         UNCHANGED <<dlg, camp>>, op = "purchase" => <<dlg.link, "purchase">> \in agreed'
  PROVE  run' \in [Procs -> Handler] /\ Handled(p)'
<1> DEFINE h == Calling(op, dlg.link, FALSE)
<1>1. dlg.link = dlg.approved /\ dlg.link \in 0 .. MaxRevisions
  BY Basics DEF Versions
<1>2. h \in Handler /\ h.at = "call" /\ h.op = op /\ h.id = dlg.link /\ h.got = "none"
      /\ ~h.try
  BY <1>1 DEF Calling, Idle, Handler, Steps, CampaignStates
<1>3. run' \in [Procs -> Handler] /\ run'[p] = h
  BY MakerIsNoClient, MovesFacts
<1> HIDE DEF h
<1>4. "none" \notin CancellationStates
  BY DEF CancellationStates
<1> QED
  BY <1>1, <1>2, <1>3, <1>4, MakerIsNoClient DEF Handled

LEMMA ConfirmPurchaseStep ==
  ASSUME IInv, NEW p \in Clients, ConfirmPurchase(p)
  PROVE  IInv'
<1> USE Folds0, Basics
<1>1. dlg.st = "awaiting_purchase_confirmation"
      /\ agreed' = agreed \cup {<<dlg.link, "purchase">>}
      /\ run' = [run EXCEPT ![p] = Calling("purchase", dlg.link, FALSE)]
      /\ UNCHANGED <<dlg, camp, interp, told, phase, restarts>>
  BY DEF ConfirmPurchase, Request, Move, ProcessUnchanged
<1>2. dlg.link # 0 /\ dlg.cancel = FALSE
  <2>1. dlg.cancel \in BOOLEAN
    BY DEF Delegation
  <2> QED
    BY <1>1, <2>1 DEF Mandate, Early, Creating, CancellationStates
<1>3. "purchase" \in Operations \ {"create", "found"}
  BY DEF Operations
<1>4. dlg.link \in 0 .. MaxRevisions
  BY DEF Delegation
<1>5. run' \in [Procs -> Handler] /\ Handled(p)'
  BY <1>1, <1>2, <1>3, <1>4, CallingFacts, ClientCalls DEF Moves
<1>6. agreed' \subseteq Versions \X {"mandate", "purchase"}
  BY <1>1, <1>2 DEF TypeOK
<1>7. ~told
  BY <1>2 DEF Told
<1>8. \A q \in Procs \ {p} : run'[q] = run[q]
  BY <1>1
<1> QED
  BY <1>1, <1>5, <1>6, <1>7, <1>8, MakerIsNoClient, RequestStep DEF TypeOK

\* The other requests about a linked campaign.
LEMMA LinkedRequest ==
  ASSUME IInv, NEW p \in Clients, NEW op \in {"cancel", "sync", "resume"}, dlg.link # 0,
         run' = [run EXCEPT ![p] = Calling(op, dlg.link, FALSE)],
         UNCHANGED <<dlg, camp, interp, agreed, phase, restarts>>,
         told' \in BOOLEAN, told' => told /\ op # "resume"
  PROVE  IInv'
<1> USE Folds0, Basics
<1>1. op \in Operations \ {"create", "found"} /\ dlg.link \in 0 .. MaxRevisions
  BY DEF Operations, Delegation
<1>2. Moves(p, Calling(op, dlg.link, FALSE))
  BY <1>1, CallingFacts DEF Moves
<1>3. run' \in [Procs -> Handler] /\ Handled(p)'
  BY <1>1, <1>2, ClientCalls
<1>4. \A q \in Procs \ {p} : run'[q] = run[q]
  BY MovesFacts, <1>2, MakerIsNoClient
<1>5. run'[p].op = op
  <2>1. run'[p] = Calling(op, dlg.link, FALSE)
    BY <1>2, MovesFacts, MakerIsNoClient
  <2> QED
    BY <2>1 DEF Calling, Idle
<1> QED
  BY <1>3, <1>4, <1>5, MakerIsNoClient, RequestStep DEF TypeOK

LEMMA SyncDelegationStep ==
  ASSUME IInv, NEW p \in Clients, SyncDelegation(p)
  PROVE  IInv'
<1>1. dlg.link # 0 /\ UNCHANGED <<dlg, camp, interp, agreed, phase, restarts, told>>
  BY DEF SyncDelegation, Request, ProcessUnchanged
<1>2. \E op \in {"cancel", "sync"} : run' = [run EXCEPT ![p] = Calling(op, dlg.link, FALSE)]
  BY DEF SyncDelegation, Request, Move
<1>3. told \in BOOLEAN
  BY Folds0 DEF TypeOK
<1> QED
  BY <1>1, <1>2, <1>3, LinkedRequest

LEMMA ResumeDelegationStep ==
  ASSUME IInv, NEW p \in Clients, ResumeDelegation(p)
  PROVE  IInv'
  BY LinkedRequest DEF ResumeDelegation, Move, ProcessUnchanged

LEMMA RetryFulfillmentStep ==
  ASSUME IInv, NEW p \in Clients, RetryFulfillment(p)
  PROVE  IInv'
<1>1. told \in BOOLEAN
  BY Folds0 DEF TypeOK
<1> QED
  BY <1>1, LinkedRequest DEF RetryFulfillment, Request, Move, ProcessUnchanged

LEMMA MakingFacts ==
  ASSUME IInv, run' = Making(run)
  PROVE  /\ run' \in [Procs -> Handler]
         /\ \A q \in Procs \ {"maker"} : run'[q] = run[q]
         /\ run["maker"].at # "idle" => run'["maker"] = run["maker"]
         /\ run["maker"].at = "idle" => run'["maker"] = [run["maker"] EXCEPT !.at = "begin"]
<1> USE Basics
<1>1. [run["maker"] EXCEPT !.at = "begin"] \in Handler
  BY DEF Handler, Steps
<1> QED
  BY <1>1 DEF Making

\* The campaign task, running or not, is taken up for an approved mandate.
LEMMA MakingHandled ==
  ASSUME IInv, run' = Making(run), UNCHANGED camp,
         dlg'.approved # 0, agreed \subseteq agreed',
         run["maker"].at # "idle" => dlg'.approved = dlg.approved /\ dlg'.link = dlg.link
  PROVE  Handled("maker")'
<1> USE Folds0, Basics
<1>1. CASE run["maker"].at # "idle"
  <2>1. run'["maker"] = run["maker"]
    BY <1>1, MakingFacts
  <2>2. \A v \in Versions : Evolves(camp[v], camp'[v], <<v, "purchase">> \in agreed)
    BY EvolvesRefl
  <2> QED
    BY <1>1, <2>1, <2>2, HandledKept
<1>2. CASE run["maker"].at = "idle"
  <2>1. run'["maker"] = [run["maker"] EXCEPT !.at = "begin"]
    BY <1>2, MakingFacts
  <2>2. run'["maker"].at = "begin" /\ run'["maker"].op = run["maker"].op
        /\ run'["maker"].id = run["maker"].id /\ run'["maker"].got = run["maker"].got
    BY <2>1 DEF Handler
  <2> QED
    BY <2>2, MakerIsNoClient DEF Handled
<1> QED
  BY <1>1, <1>2

LEMMA MakingStep ==
  ASSUME IInv, run' = Making(run), dlg.approved # 0,
         UNCHANGED <<dlg, camp, interp, agreed, told, phase, restarts>>
  PROVE  IInv'
<1> USE Folds0, Basics
<1>1. Handled("maker")'
  BY MakingHandled
<1>2. run["maker"].at = "stop" => run' = run
  BY DEF Making
<1>3. CASE run' = run
  BY <1>3, <1>1, AllHandledKept, ToldKept, OwnedKept DEF IInv, TypeOK, Mandate
<1>4. CASE run["maker"].at # "stop"
  BY <1>1, <1>4, MakingFacts, MakerIsNoClient, RequestStep DEF TypeOK
<1> QED
  BY <1>2, <1>3, <1>4

LEMMA ConfirmAgainStep ==
  ASSUME IInv, NEW p, ConfirmAgain(p)
  PROVE  IInv'
  BY MakingStep DEF ConfirmAgain, GhostsUnchanged, ProcessUnchanged

LEMMA SyncUnlinkedStep ==
  ASSUME IInv, NEW p, SyncUnlinked(p)
  PROVE  IInv'
  BY MakingStep DEF SyncUnlinked, GhostsUnchanged, ProcessUnchanged

\* The campaign task goes on without touching anything else.
LEMMA MakerMoves ==
  ASSUME IInv, NEW h, Moves("maker", h), Handled("maker")',
         UNCHANGED <<dlg, camp, interp, agreed, told, phase, restarts>>,
         run["maker"].at = "stop" => camp[dlg.link].st \in Past
  PROVE  IInv'
<1>1. /\ run' \in [Procs -> Handler]
      /\ \A q \in Procs \ {"maker"} : run'[q] = run[q]
  BY MakerIsNoClient, MovesFacts
<1> QED
  BY <1>1, Folds0, MakerIsNoClient, RequestStep DEF TypeOK

LEMMA BeginCampaignStep ==
  ASSUME IInv, BeginCampaign
  PROVE  IInv'
<1> USE Folds0, Basics, MakerIsNoClient
<1>1. run["maker"].at = "begin" /\ UNCHANGED <<dlg, camp, interp, agreed, told, phase, restarts>>
  BY DEF BeginCampaign, At, GhostsUnchanged, ProcessUnchanged
<1>2. dlg.approved # 0 /\ dlg.approved = dlg.rev /\ dlg.approved \in 0 .. MaxRevisions
  <2>1. dlg.approved # 0
    BY <1>1 DEF Handled
  <2> QED
    BY <2>1 DEF Delegation
<1>3. CASE run' = [run EXCEPT !["maker"] = Idle]
  <2>1. Moves("maker", Idle) /\ run'["maker"] = Idle
    BY <1>3, IdleFacts DEF Moves
  <2>2. Handled("maker")'
    BY <2>1, <1>1, IdleFacts DEF Handled, CancellationStates
  <2> QED
    BY <1>1, <2>1, <2>2, MakerMoves
<1>4. ASSUME NEW op \in {"cancel", "resume"}, dlg.link # 0,
             run' = [run EXCEPT !["maker"] = Calling(op, dlg.link, FALSE)]
      PROVE  IInv'
  <2> DEFINE h == Calling(op, dlg.link, FALSE)
  <2>1. h \in Handler /\ h.at = "call" /\ h.op = op /\ h.id = dlg.link /\ h.got = "none"
    BY <1>2, <1>4 DEF Calling, Idle, Handler, Steps, CampaignStates, Operations
  <2>2. Moves("maker", h) /\ run'["maker"] = h
    BY <1>4, <2>1 DEF Moves
  <2> HIDE DEF h
  <2>3. Handled("maker")'
    BY <2>1, <2>2, <1>1, <1>2, <1>4 DEF Handled, CancellationStates
  <2> QED
    BY <1>1, <2>2, <2>3, MakerMoves
<1>5. CASE dlg.link = 0
           /\ run' = [run EXCEPT !["maker"] = [Idle EXCEPT !.at = "create", !.id = dlg.rev, !.try = TRUE]]
  <2> DEFINE h == [Idle EXCEPT !.at = "create", !.id = dlg.rev, !.try = TRUE]
  <2>1. h \in Handler /\ h.at = "create" /\ h.op = "none" /\ h.id = dlg.rev /\ h.got = "none"
    BY <1>2 DEF Idle, Handler, Steps, CampaignStates, Operations
  <2>2. Moves("maker", h) /\ run'["maker"] = h
    BY <1>5, <2>1 DEF Moves
  <2> HIDE DEF h
  <2>3. Handled("maker")'
    BY <2>1, <2>2, <1>1, <1>2, <1>5 DEF Handled, CancellationStates
  <2> QED
    BY <1>1, <2>2, <2>3, MakerMoves
<1>6. \/ run' = [run EXCEPT !["maker"] = Idle]
      \/ /\ dlg.link # 0
         /\ \E op \in {"cancel", "resume"} :
              run' = [run EXCEPT !["maker"] = Calling(op, dlg.link, FALSE)]
      \/ /\ dlg.link = 0
         /\ run' = [run EXCEPT !["maker"] = [Idle EXCEPT !.at = "create", !.id = dlg.rev, !.try = TRUE]]
  BY DEF BeginCampaign, Maker, Move
<1> QED
  BY <1>3, <1>4, <1>5, <1>6

LEMMA CreationFailsStep ==
  ASSUME IInv, CreationFails
  PROVE  IInv'
<1> USE Folds0, Basics, MakerIsNoClient
<1> DEFINE h == [run["maker"] EXCEPT !.at = "caught"]
<1>1. run["maker"].at = "create" /\ run' = [run EXCEPT !["maker"] = h]
      /\ UNCHANGED <<dlg, camp, interp, agreed, told, phase, restarts>>
  BY DEF CreationFails, At, Maker, Move, GhostsUnchanged, ProcessUnchanged
<1>2. h \in Handler /\ h.at = "caught" /\ h.op = run["maker"].op /\ h.id = run["maker"].id
      /\ h.got = run["maker"].got
  BY DEF Handler, Steps
<1>3. Moves("maker", h) /\ run'["maker"] = h
  BY <1>1, <1>2 DEF Moves
<1> HIDE DEF h
<1>4. Handled("maker")'
  BY <1>1, <1>2, <1>3 DEF Handled
<1> QED
  BY <1>1, <1>3, <1>4, MakerMoves

LEMMA CheckCancellationStep ==
  ASSUME IInv, CheckCancellation
  PROVE  IInv'
<1> USE Folds0, Basics, MakerIsNoClient
<1>1. run["maker"].at = "check" /\ UNCHANGED <<dlg, camp, interp, agreed, told, phase, restarts>>
  BY DEF CheckCancellation, At, GhostsUnchanged, ProcessUnchanged
<1>2. dlg.approved # 0 /\ dlg.link # 0 /\ run["maker"].id = dlg.approved
  BY <1>1 DEF Handled
<1>3. CASE run' = [run EXCEPT !["maker"] = Calling("cancel", run["maker"].id, TRUE)]
  <2> DEFINE h == Calling("cancel", run["maker"].id, TRUE)
  <2>1. h \in Handler /\ h.at = "call" /\ h.op = "cancel" /\ h.id = run["maker"].id
        /\ h.got = "none"
    BY DEF Calling, Idle, Handler, Steps, CampaignStates, Operations
  <2>2. Moves("maker", h) /\ run'["maker"] = h
    BY <1>3, <2>1 DEF Moves
  <2> HIDE DEF h
  <2>3. Handled("maker")'
    BY <2>1, <2>2, <1>1, <1>2 DEF Handled, CancellationStates
  <2> QED
    BY <1>1, <2>2, <2>3, MakerMoves
<1>4. CASE run' = [run EXCEPT !["maker"] = [run["maker"] EXCEPT !.at = "record"]]
  <2> DEFINE h == [run["maker"] EXCEPT !.at = "record"]
  <2>1. h \in Handler /\ h.at = "record" /\ h.op = run["maker"].op /\ h.id = run["maker"].id
        /\ h.got = run["maker"].got
    BY DEF Handler, Steps
  <2>2. Moves("maker", h) /\ run'["maker"] = h
    BY <1>4, <2>1 DEF Moves
  <2> HIDE DEF h
  <2>3. Handled("maker")'
    BY <2>1, <2>2, <1>1, <1>2 DEF Handled
  <2> QED
    BY <1>1, <2>2, <2>3, MakerMoves
<1> QED
  BY <1>3, <1>4 DEF CheckCancellation, Maker, Move

LEMMA StopLinkedFailsStep ==
  ASSUME IInv, StopLinkedFails
  PROVE  IInv'
<1> USE Folds0, Basics, MakerIsNoClient
<1> DEFINE h == [run["maker"] EXCEPT !.at = "caught"]
<1>1. run["maker"].at = "stop" /\ camp[run["maker"].id].st = "completed"
      /\ run' = [run EXCEPT !["maker"] = h]
      /\ UNCHANGED <<dlg, camp, interp, agreed, told, phase, restarts>>
  BY DEF StopLinkedFails, At, Maker, Move, GhostsUnchanged, ProcessUnchanged
<1>2. h \in Handler /\ h.at = "caught" /\ h.op = run["maker"].op /\ h.id = run["maker"].id
      /\ h.got = run["maker"].got
  BY DEF Handler, Steps
<1>3. Moves("maker", h) /\ run'["maker"] = h
  BY <1>1, <1>2 DEF Moves
<1> HIDE DEF h
<1>4. Handled("maker")'
  BY <1>1, <1>2, <1>3 DEF Handled
<1>5. run["maker"].id = dlg.link
  BY <1>1 DEF Handled
<1>6. camp[dlg.link].st \in Past
  BY <1>1, <1>5 DEF Past, Bought
<1> QED
  BY <1>1, <1>3, <1>4, <1>6, MakerMoves

LEMMA FinishBootStep ==
  ASSUME IInv, FinishBoot
  PROVE  IInv'
<1> USE Folds0, Basics
<1>1. UNCHANGED <<dlg, camp, interp, run, agreed, told, restarts>> /\ phase' = "up"
      /\ run["maker"].at = "idle"
  BY DEF FinishBoot, GhostsUnchanged, At
<1>2. Handled("maker")'
  BY <1>1, AllHandledKept, MakerIsNoClient
<1> QED
  BY <1>1, <1>2, MakerIsNoClient, RequestStep DEF TypeOK

-----------------------------------------------------------------------------
(* What a request that comes back from the campaign service holds. *)

LEMMA ReturnedFacts ==
  ASSUME NEW h \in Handler, NEW s \in CampaignStates
  PROVE  /\ Returned(h, s) \in Handler
         /\ Returned(h, s).id = h.id /\ Returned(h, s).try = h.try
         /\ s = "buying" /\ h.op # "sync"
              => /\ Returned(h, s).at = "wait" /\ Returned(h, s).op = h.op
                 /\ Returned(h, s).got = h.got
         /\ ~(s = "buying" /\ h.op # "sync")
              => /\ Returned(h, s).at = IF h.op \in {"create", "found"} THEN "check" ELSE "record"
                 /\ Returned(h, s).op = "none" /\ Returned(h, s).got = s
<1>1. CASE s = "buying" /\ h.op # "sync"
  BY <1>1 DEF Returned, Handler, Steps
<1>2. CASE ~(s = "buying" /\ h.op # "sync")
  BY <1>2 DEF Returned, Handler, Steps, Operations
<1> QED
  BY <1>1, <1>2

\* After a return.  The campaign is in the state returned, and one that a client
\* waits for in order to cancel is cancelled.
LEMMA ReturnedHandled ==
  ASSUME IInv, NEW p \in Procs, NEW s \in CampaignStates, run[p].at \in {"call", "wait"},
         run'[p] = Returned(run[p], s), UNCHANGED <<dlg, agreed>>,
         s = camp'[dlg.link].st,
         run[p].got \in CancellationStates => s \in CancellationStates,
         p \in Clients /\ run[p].try => s \in CancellationStates
  PROVE  Handled(p)'
<1> USE Folds0, Basics
<1> DEFINE h == run[p]
           k == run'[p]
<1>1. h \in Handler /\ h.at # "idle" /\ h.at # "begin" /\ h.at \in {"call", "wait"}
  OBVIOUS
<1>2. dlg.approved # 0 /\ dlg.link # 0 /\ h.id = dlg.link /\ dlg.link = dlg.approved
      /\ dlg.link \in Versions
  BY <1>1 DEF Handled
<1>3. k.id = h.id /\ k.try = h.try /\ k.at \in {"wait", "check", "record"}
  BY ReturnedFacts
<1>4. k.op = "purchase" => <<k.id, "purchase">> \in agreed
  BY <1>3, ReturnedFacts DEF Handled
<1>5. k.got \in CancellationStates => s \in CancellationStates
  BY ReturnedFacts
<1>6. ASSUME p \in Clients
      PROVE  k.at \in {"wait", "record"} /\ k.op \notin {"create", "found"}
             /\ (k.try => Cancelling(k))
  <2>1. h.op \notin {"create", "found"}
    BY <1>6 DEF Handled
  <2>2. k.at \in {"wait", "record"} /\ k.op \notin {"create", "found"}
    BY <2>1, ReturnedFacts
  <2>3. ASSUME k.try PROVE k.at = "record" /\ k.got = s /\ s \in CancellationStates
    <3>1. s \in CancellationStates
      BY <1>3, <1>6, <2>3
    <3>2. s # "buying"
      BY <3>1 DEF CancellationStates
    <3> QED
      BY <2>1, <3>1, <3>2, ReturnedFacts
  <2> QED
    BY <2>2, <2>3 DEF Cancelling
<1> HIDE DEF h, k
<1>7. run'[p] = k
  BY DEF k
<1>8. /\ k.at # "idle" /\ k.at # "begin" /\ k.id = dlg.approved
      /\ k.at \notin {"create", "link", "caught"}
  BY <1>2, <1>3
<1>9. k.got \in CancellationStates => k.id \in Versions /\ camp'[k.id].st \in CancellationStates
  BY <1>2, <1>3, <1>5
<1> QED
  BY <1>2, <1>4, <1>6, <1>7, <1>8, <1>9 DEF Handled

LEMMA ExecutionStoppedStep ==
  ASSUME IInv, NEW p \in Procs, ExecutionStopped(p)
  PROVE  IInv'
<1> USE Folds0, Basics, MakerIsNoClient
<1> DEFINE s == camp[run[p].id].st
           k == Returned(run[p], s)
<1>1. run[p].at = "wait" /\ s # "buying" /\ run' = [run EXCEPT ![p] = k]
      /\ UNCHANGED <<dlg, camp, interp, agreed, told, phase, restarts>>
  BY DEF ExecutionStopped, At, Move, GhostsUnchanged, ProcessUnchanged
<1>2. run[p].id = dlg.link /\ dlg.link \in Versions
  BY <1>1 DEF Handled
<1>3. s \in CampaignStates
  BY <1>2 DEF Campaigns
<1>4. Moves(p, k) /\ run'[p] = k
  BY <1>1, <1>3, ReturnedFacts DEF Moves
<1>5. run[p].got \in CancellationStates => s \in CancellationStates
  BY DEF Handled
<1>6. ~(p \in Clients /\ run[p].try)
  BY <1>1 DEF Handled, Cancelling
<1>7. Handled(p)'
  BY <1>1, <1>2, <1>3, <1>4, <1>5, <1>6, ReturnedHandled
<1>8. run'[p].at # "call"
  BY <1>1, <1>3, <1>4, ReturnedFacts
<1>9. run' \in [Procs -> Handler] /\ \A q \in Procs \ {p} : run'[q] = run[q]
  BY <1>4, MovesFacts
<1> HIDE DEF k, s
<1> QED
  BY <1>1, <1>7, <1>8, <1>9, RequestStep DEF TypeOK

-----------------------------------------------------------------------------
(* The steps that change a campaign. *)

Evolving == \A v \in Versions : Evolves(camp[v], camp'[v], <<v, "purchase">> \in agreed)

LEMMA CampaignStep ==
  ASSUME IInv, UNCHANGED <<dlg, interp, agreed>>,
         phase' \in {"up", "boot"}, restarts' \in 0 .. MaxRestarts, told' \in BOOLEAN,
         camp' \in [Versions -> Campaigns], run' \in [Procs -> Handler], Evolving,
         dlg.link = 0 => \A v \in Versions : camp'[v].st # "buying",
         \A p \in Procs : run'[p] = run[p] \/ Handled(p)',
         Told'
  PROVE  IInv'
<1> USE Folds0, Basics
<1>1. TypeOK'
  BY DEF TypeOK
<1>2. Mandate'
  BY DEF Mandate
<1>3. ASSUME NEW v \in Versions PROVE Owned(v)'
  <2>1. Evolves(camp[v], camp'[v], <<v, "purchase">> \in agreed)
    BY DEF Evolving
  <2> QED
    BY <2>1, EvolveOwned
<1>4. ASSUME NEW p \in Procs PROVE Handled(p)'
  <2>1. CASE run'[p] = run[p]
    BY <2>1, HandledKept DEF Evolving
  <2> QED
    BY <2>1
<1> QED
  BY <1>1, <1>2, <1>3, <1>4 DEF IInv

\* What is past buying stays past buying.
LEMMA ToldEvolves ==
  ASSUME IInv, UNCHANGED dlg, told' => told, Evolving,
         told /\ dlg.link # 0 /\ Stopping /\ camp[dlg.link].st \notin Past
             => Stopping' \/ camp'[dlg.link].st \in Past
  PROVE  Told'
<1> USE Folds0, Basics
<1> SUFFICES ASSUME told'
             PROVE  dlg.cancel /\ (dlg.link = 0 \/ camp'[dlg.link].st \in Past \/ Stopping')
  BY DEF Told
<1>1. dlg.cancel /\ (dlg.link = 0 \/ camp[dlg.link].st \in Past \/ Stopping)
  BY DEF Told
<1>2. ASSUME dlg.link # 0, camp[dlg.link].st \in Past PROVE camp'[dlg.link].st \in Past
  BY <1>2 DEF Evolving, Evolves
<1> QED
  BY <1>1, <1>2

\* The campaign a delegation is linked to exists.
LEMMA LinkedExists ==
  ASSUME IInv, dlg.link # 0
  PROVE  /\ dlg.link \in Versions /\ dlg.link = dlg.approved
         /\ camp[dlg.link] \in Campaigns /\ camp[dlg.link].st # "none"
  BY Folds0, Basics DEF Owned

\* One campaign evolves.
LEMMA OneEvolves ==
  ASSUME IInv, NEW v \in Versions, NEW d \in Campaigns, camp' = [camp EXCEPT ![v] = d],
         Evolves(camp[v], d, <<v, "purchase">> \in agreed)
  PROVE  /\ camp' \in [Versions -> Campaigns] /\ Evolving /\ camp'[v] = d
         /\ \A u \in Versions \ {v} : camp'[u] = camp[u]
<1>1. /\ camp' \in [Versions -> Campaigns] /\ camp'[v] = d
      /\ \A u \in Versions \ {v} : camp'[u] = camp[u]
  BY Basics
<1>2. ASSUME NEW u \in Versions
      PROVE  Evolves(camp[u], camp'[u], <<u, "purchase">> \in agreed)
  BY <1>1, EvolvesRefl
<1> QED
  BY <1>1, <1>2 DEF Evolving

\* A call about the linked campaign, which evolves, changes only its caller.
LEMMA CallStepKeeps ==
  ASSUME IInv, NEW p \in Procs, NEW k, dlg.link # 0,
         NEW d \in Campaigns, camp' = [camp EXCEPT ![dlg.link] = d],
         Evolves(camp[dlg.link], d, <<dlg.link, "purchase">> \in agreed),
         Moves(p, k), Handled(p)', k.at # "call" \/ p = "maker",
         UNCHANGED <<dlg, interp, agreed, told, phase, restarts>>,
         told /\ Stopping /\ camp[dlg.link].st \notin Past =>
             (p # "maker" /\ d.st # "buying") \/ d.st \in Past
  PROVE  IInv'
<1> USE Folds0, Basics, MakerIsNoClient, LinkedExists
<1>1. /\ camp' \in [Versions -> Campaigns] /\ Evolving /\ camp'[dlg.link] = d
  BY OneEvolves
<1>2. /\ run' \in [Procs -> Handler] /\ run'[p] = k
      /\ \A q \in Procs \ {p} : run'[q] = run[q]
  BY MovesFacts
<1>3. ASSUME told, Stopping, camp[dlg.link].st \notin Past
      PROVE  Stopping' \/ camp'[dlg.link].st \in Past
  <2>1. CASE d.st \in Past
    BY <1>1, <2>1
  <2>2. CASE p # "maker" /\ d.st # "buying"
    <3>1. run'["maker"].at = "stop" /\ camp'[dlg'.link].st # "buying"
      BY <1>1, <1>2, <1>3, <2>2 DEF Stopping
    <3>2. ASSUME NEW q \in Clients, run'[q].at = "call" PROVE run'[q].op \in {"cancel", "sync"}
      BY <1>2, <1>3, <2>2, <3>2 DEF Stopping
    <3> QED
      BY <3>1, <3>2 DEF Stopping
  <2> QED
    BY <1>3, <2>1, <2>2
<1>4. Told'
  BY <1>1, <1>3, ToldEvolves
<1> QED
  BY <1>1, <1>2, <1>4, CampaignStep DEF TypeOK

LEMMA CampaignAnswersStep ==
  ASSUME IInv, NEW p \in Procs, CampaignAnswers(p)
  PROVE  IInv'
<1> USE Folds0, Basics, MakerIsNoClient
<1> DEFINE h == run[p]
           c == camp[dlg.link]
<1>1. /\ h.at = "call" /\ UNCHANGED <<dlg, interp, agreed, told, phase, restarts>>
      /\ h.id = dlg.link /\ dlg.link # 0
  BY DEF CampaignAnswers, At, GhostsUnchanged, ProcessUnchanged, Handled
<1>2. c \in Campaigns /\ c.st # "none" /\ dlg.link \in Versions
  BY <1>1, LinkedExists
<1> PICK s \in Outcomes(h.op, c) :
       /\ camp' = [camp EXCEPT ![dlg.link].st = s,
                      ![dlg.link].auto = @ \/ (h.op = "purchase" /\ s \in {"buying", "paused"})]
       /\ run' = [run EXCEPT ![p] = Returned(h, s)]
  BY <1>1 DEF CampaignAnswers, Move
<1> DEFINE d == [c EXCEPT !.st = s,
                   !.auto = @ \/ (h.op = "purchase" /\ s \in {"buying", "paused"})]
<1>3. Reached(c, s, h.op = "purchase")
  BY <1>2, AnswerReaches
<1>4. s \in CampaignStates
  BY <1>3 DEF Reached
<1>5. camp' = [camp EXCEPT ![dlg.link] = d]
  BY <1>2
<1>6. d \in Campaigns /\ d.st = s /\ d.mode = c.mode
  BY <1>2, <1>4 DEF Campaigns
<1>7. d.auto => c.auto \/ h.op = "purchase"
  BY <1>2 DEF Campaigns
<1>8. h.op = "purchase" => <<dlg.link, "purchase">> \in agreed
  BY <1>1 DEF Handled
<1>9. Evolves(c, d, h.op = "purchase")
  BY <1>2, <1>3, <1>6, <1>7, ReachedEvolves
<1>10. Evolves(c, d, <<dlg.link, "purchase">> \in agreed)
  BY <1>8, <1>9 DEF Evolves
<1>11. Moves(p, Returned(h, s)) /\ run'[p] = Returned(h, s)
  BY <1>4, ReturnedFacts DEF Moves
<1>12. camp'[dlg.link].st = s
  BY <1>2, <1>5, <1>6
<1>13. h.op = "cancel" => s \in CancellationStates
  BY <1>2, CancelReaches DEF Outcomes
<1>14. h.got \in CancellationStates => s \in CancellationStates
  BY <1>1, <1>3 DEF Handled, Reached
<1>15. p \in Clients /\ h.try => s \in CancellationStates
  BY <1>1, <1>13 DEF Handled, Cancelling
<1>16. Handled(p)'
  BY <1>1, <1>4, <1>11, <1>12, <1>14, <1>15, ReturnedHandled
<1>17. Returned(h, s).at # "call"
  BY <1>4, ReturnedFacts
<1>18. ASSUME told, Stopping, c.st \notin Past
       PROVE  (p # "maker" /\ d.st # "buying") \/ d.st \in Past
  <2>1. p \in Clients /\ p # "maker"
    BY <1>1, <1>18 DEF Stopping, Procs
  <2>2. h.op \in {"cancel", "sync"}
    BY <1>1, <1>18, <2>1 DEF Stopping
  <2>3. CASE h.op = "cancel"
    BY <1>6, <1>13, <2>3 DEF Past
  <2>4. CASE h.op = "sync"
    <3>1. s = c.st
      BY <2>4 DEF Outcomes
    <3>2. c.st # "buying"
      BY <1>18 DEF Stopping
    <3> QED
      BY <1>6, <2>1, <3>1, <3>2
  <2> QED
    BY <2>2, <2>3, <2>4
<1> HIDE DEF d, h, c
<1> QED
  BY <1>1, <1>5, <1>6, <1>10, <1>11, <1>16, <1>17, <1>18, CallStepKeeps DEF c

LEMMA RefusedFacts ==
  ASSUME NEW h \in Handler
  PROVE  /\ Refused(h) \in Handler
         /\ h.try => /\ Refused(h).at = "caught" /\ Refused(h).op = h.op /\ Refused(h).id = h.id
                     /\ Refused(h).got = h.got /\ Refused(h).try
         /\ ~h.try => Refused(h) = Idle
  BY IdleFacts DEF Refused, Handler, Steps

\* After a refusal.  A client only catches that of a cancellation, which delivered
\* work gives.
LEMMA RefusedHandled ==
  ASSUME IInv, NEW p \in Procs, run[p].at \notin {"idle", "begin"},
         run'[p] = Refused(run[p]), UNCHANGED <<dlg, agreed>>, Evolving,
         p \in Clients /\ run[p].try => dlg.link # 0 /\ camp'[dlg.link].st \in Done
  PROVE  Handled(p)'
<1> USE Folds0, Basics
<1>1. CASE ~run[p].try
  <2>1. run'[p] = Idle
    BY <1>1, RefusedFacts
  <2> QED
    BY <2>1, IdleFacts DEF Handled, CancellationStates, Cancelling
<1>2. CASE run[p].try
  <2> DEFINE k == run'[p]
  <2>1. /\ k.at = "caught" /\ k.op = run[p].op /\ k.id = run[p].id /\ k.got = run[p].got
        /\ k.try
    BY <1>2, RefusedFacts
  <2> HIDE DEF k
  <2>2. run'[p] = k
    BY DEF k
  <2>3. dlg.approved # 0 /\ k.id = dlg.approved
        /\ (k.op = "purchase" => <<k.id, "purchase">> \in agreed)
    BY <2>1 DEF Handled
  <2>4. k.got \in CancellationStates => k.id \in Versions /\ camp'[k.id].st \in CancellationStates
    BY <2>1 DEF Handled, Evolving, Evolves
  <2>5. p \in Clients => /\ k.op \notin {"create", "found"} /\ Cancelling(k)
                         /\ dlg.link # 0 /\ camp'[dlg.approved].st \in Done
    BY <1>2, <2>1 DEF Handled, Cancelling
  <2> QED
    BY <2>1, <2>2, <2>3, <2>4, <2>5 DEF Handled
<1> QED
  BY <1>1, <1>2

LEMMA CampaignRefusesStep ==
  ASSUME IInv, NEW p \in Procs, CampaignRefuses(p)
  PROVE  IInv'
<1> USE Folds0, Basics, MakerIsNoClient
<1> DEFINE h == run[p]
           c == camp[dlg.link]
<1>1. /\ h.at = "call" /\ UNCHANGED <<dlg, interp, agreed, told, phase, restarts>>
      /\ h.id = dlg.link /\ dlg.link # 0
      /\ run' = [run EXCEPT ![p] = Refused(h)]
  BY DEF CampaignRefuses, At, Move, GhostsUnchanged, ProcessUnchanged, Handled
<1>2. c \in Campaigns /\ c.st # "none" /\ dlg.link \in Versions /\ dlg.link = dlg.approved
  BY <1>1, LinkedExists
<1> PICK s \in {c.st} \cup (IF h.op \in {"create", "resume"} THEN EvaluatedOnly(c) ELSE {}) :
       camp' = [camp EXCEPT ![dlg.link] = Moved(@, s)]
  BY <1>1 DEF CampaignRefuses
<1> DEFINE d == Moved(c, s)
<1>3. Reached(c, s, FALSE)
  BY <1>2, EvaluatedReaches
<1>4. d \in Campaigns /\ d.st = s /\ Evolves(c, d, FALSE)
  BY <1>2, <1>3, MovedEvolves
<1>5. Evolves(c, d, <<dlg.link, "purchase">> \in agreed)
  BY <1>4 DEF Evolves
<1>6. camp' = [camp EXCEPT ![dlg.link] = d]
  BY <1>2
<1>7. Moves(p, Refused(h)) /\ run'[p] = Refused(h)
  BY <1>1, RefusedFacts DEF Moves
<1>8. h.op \notin {"create", "resume"} => s = c.st
  OBVIOUS
<1>9. ASSUME p \in Clients, h.try PROVE camp'[dlg.link].st \in Done
  <2>1. h.op = "cancel"
    BY <1>1, <1>9 DEF Handled, Cancelling
  <2>2. c.st = "completed"
    BY <1>1, <2>1 DEF CampaignRefuses
  <2>3. camp'[dlg.link].st = "completed"
    BY <1>2, <1>4, <1>6, <1>8, <2>1, <2>2
  <2> QED
    BY <2>3 DEF Done
<1>10. Evolving
  BY <1>2, <1>4, <1>5, <1>6, OneEvolves
<1>11. Handled(p)'
  BY <1>1, <1>7, <1>9, <1>10, RefusedHandled
<1>12. Refused(h).at # "call"
  BY RefusedFacts, IdleFacts
<1>13. ASSUME told, Stopping, c.st \notin Past
       PROVE  p # "maker" /\ d.st # "buying"
  <2>1. p \in Clients /\ p # "maker"
    BY <1>1, <1>13 DEF Stopping, Procs
  <2>2. h.op \in {"cancel", "sync"}
    BY <1>1, <1>13, <2>1 DEF Stopping
  <2>3. c.st # "buying"
    BY <1>13 DEF Stopping
  <2> QED
    BY <1>4, <1>8, <2>1, <2>2, <2>3
<1> HIDE DEF d, h, c
<1> QED
  BY <1>1, <1>4, <1>5, <1>6, <1>7, <1>11, <1>12, <1>13, CallStepKeeps DEF c

LEMMA StopLinkedStep ==
  ASSUME IInv, StopLinked
  PROVE  IInv'
<1> USE Folds0, Basics, MakerIsNoClient
<1> DEFINE h == run["maker"]
           c == camp[dlg.link]
           k == [h EXCEPT !.at = "call"]
<1>1. /\ h.at = "stop" /\ UNCHANGED <<dlg, interp, agreed, told, phase, restarts>>
      /\ h.id = dlg.link /\ dlg.link # 0
      /\ run' = [run EXCEPT !["maker"] = k]
  BY DEF StopLinked, At, Maker, Move, GhostsUnchanged, ProcessUnchanged, Handled
<1>2. c \in Campaigns /\ c.st # "none" /\ dlg.link \in Versions /\ dlg.link = dlg.approved
  BY <1>1, LinkedExists
<1> PICK s \in CancelOutcomes(c) : camp' = [camp EXCEPT ![dlg.link].st = s]
  BY <1>1 DEF StopLinked
<1> DEFINE d == [c EXCEPT !.st = s]
<1>3. Reached(c, s, FALSE) /\ s \in CancellationStates
  BY <1>2, CancelReaches
<1>4. camp' = [camp EXCEPT ![dlg.link] = d] /\ d \in Campaigns /\ d.st = s
  BY <1>2, <1>3 DEF Campaigns, Reached
<1>5. d.mode = c.mode /\ (d.auto => c.auto)
  BY <1>2 DEF Campaigns
<1>6. Evolves(c, d, FALSE)
  BY <1>2, <1>3, <1>4, <1>5, ReachedEvolves
<1>7. Evolves(c, d, <<dlg.link, "purchase">> \in agreed)
  BY <1>6 DEF Evolves
<1>8. /\ k \in Handler /\ k.at = "call" /\ k.op = h.op /\ k.id = h.id /\ k.got = h.got
  BY DEF Handler, Steps
<1>9. Moves("maker", k) /\ run'["maker"] = k
  BY <1>1, <1>8 DEF Moves
<1>10. camp'[dlg.link].st \in CancellationStates
  BY <1>2, <1>3, <1>4
<1> HIDE DEF k
<1>11. Handled("maker")'
  BY <1>1, <1>2, <1>8, <1>9, <1>10 DEF Handled
<1>12. d.st \in Past
  BY <1>3, <1>4 DEF Past
<1> HIDE DEF d, h, c
<1> QED
  BY <1>1, <1>4, <1>7, <1>9, <1>11, <1>12, CallStepKeeps DEF c

LEMMA BuyingIsLinked ==
  ASSUME IInv, NEW v \in Versions, camp[v].st = "buying"
  PROVE  dlg.link # 0 /\ v = dlg.link
<1>1. dlg.link # 0
  BY Folds0 DEF Owned
<1>2. camp[v] # NoCampaign
  BY DEF NoCampaign
<1>3. v = dlg.approved
  BY <1>2, Folds0 DEF Owned
<1> QED
  BY <1>1, <1>3, Basics

LEMMA NoneBuyingOnceTold ==
  ASSUME IInv, told, NEW v \in Versions
  PROVE  camp[v].st # "buying"
<1> USE Folds0, Basics
<1> SUFFICES ASSUME camp[v].st = "buying" PROVE FALSE
  OBVIOUS
<1>1. dlg.link # 0 /\ v = dlg.link
  BY BuyingIsLinked
<1>2. camp[dlg.link].st \in Past \/ Stopping
  BY <1>1 DEF Told
<1> QED
  BY <1>1, <1>2 DEF Past, Bought, CancellationStates, Stopping

LEMMA ExecutionEndsStep ==
  ASSUME IInv, NEW v \in Versions, NEW s, ExecutionEnds(v, s)
  PROVE  IInv'
<1> USE Folds0, Basics, MakerIsNoClient
<1> DEFINE c == camp[v]
           d == Moved(c, s)
<1>1. /\ c.st = "buying" /\ s \in Ends /\ camp' = [camp EXCEPT ![v] = d]
      /\ UNCHANGED <<dlg, interp, agreed, told, phase, restarts>>
  BY DEF ExecutionEnds, GhostsUnchanged, ProcessUnchanged
<1>2. dlg.link # 0 /\ v = dlg.link
  BY <1>1, BuyingIsLinked
<1>3. ~told
  BY <1>1, NoneBuyingOnceTold
<1>4. Reached(c, s, FALSE) /\ s # "buying"
  BY <1>1, EndReaches DEF Unpaid
<1>5. d \in Campaigns /\ d.st = s /\ Evolves(c, d, FALSE)
  BY <1>1, <1>4, MovedEvolves
<1>6. Evolves(c, d, <<v, "purchase">> \in agreed)
  BY <1>5 DEF Evolves
<1> HIDE DEF d
<1>7. camp' \in [Versions -> Campaigns] /\ Evolving /\ camp'[v] = d
  BY <1>1, <1>5, <1>6, OneEvolves
<1>8. s \in CampaignStates
  BY <1>4 DEF Reached
<1>9. ASSUME NEW p \in Procs
      PROVE  run'[p] \in Handler /\ (run'[p] = run[p] \/ Handled(p)')
  <2>1. CASE run'[p] = run[p]
    BY <2>1
  <2>2. CASE run[p].at = "wait" /\ run'[p] \in {Refused(run[p]), Returned(run[p], s)}
    <3>1. ~(p \in Clients /\ run[p].try)
      BY <2>2 DEF Handled, Cancelling
    <3>2. CASE run'[p] = Refused(run[p])
      BY <1>1, <1>7, <2>2, <3>1, <3>2, RefusedFacts, RefusedHandled
    <3>3. CASE run'[p] = Returned(run[p], s)
      <4>1. run[p].id = v
        BY <1>2, <2>2 DEF Handled
      <4>2. run[p].got \notin CancellationStates
        BY <1>1, <4>1 DEF Handled, CancellationStates
      <4>3. s = camp'[dlg.link].st
        BY <1>2, <1>5, <1>7
      <4> QED
        BY <1>1, <1>8, <2>2, <3>1, <3>3, <4>2, <4>3, ReturnedFacts, ReturnedHandled
    <3> QED
      BY <2>2, <3>2, <3>3
  <2> QED
    BY <2>1, <2>2 DEF ExecutionEnds, At
<1>10. run' \in [Procs -> Handler]
  BY <1>9 DEF ExecutionEnds
<1>11. Told'
  BY <1>1, <1>3 DEF Told
<1> QED
  BY <1>1, <1>2, <1>7, <1>9, <1>10, <1>11, CampaignStep DEF TypeOK

LEMMA CampaignFollowedStep ==
  ASSUME IInv, NEW v \in Versions, NEW s, CampaignFollowed(v, s)
  PROVE  IInv'
<1> USE Folds0, Basics, MakerIsNoClient
<1> DEFINE c == camp[v]
           d == [c EXCEPT !.st = s]
<1>1. /\ s \in Followed(c) /\ camp' = [camp EXCEPT ![v].st = s]
      /\ UNCHANGED <<dlg, interp, run, agreed, told, phase, restarts>>
  BY DEF CampaignFollowed, GhostsUnchanged, ProcessUnchanged
<1>2. Reached(c, s, FALSE) /\ s # "buying" /\ c.st # "none"
  BY <1>1, FollowedReaches
<1>3. camp' = [camp EXCEPT ![v] = d]
  BY <1>1
<1>4. d \in Campaigns /\ d.st = s /\ d.mode = c.mode /\ (d.auto => c.auto)
  BY <1>2 DEF Campaigns, Reached
<1>5. Evolves(c, d, FALSE)
  BY <1>2, <1>4, ReachedEvolves
<1>6. Evolves(c, d, <<v, "purchase">> \in agreed)
  BY <1>5 DEF Evolves
<1> HIDE DEF d
<1>7. /\ camp' \in [Versions -> Campaigns] /\ Evolving /\ camp'[v] = d
      /\ \A u \in Versions \ {v} : camp'[u] = camp[u]
  BY <1>3, <1>4, <1>6, OneEvolves
<1>8. \A u \in Versions : camp[u].st # "buying" => camp'[u].st # "buying"
  BY <1>2, <1>4, <1>7
<1>9. Told'
  <2>1. dlg.link # 0 /\ Stopping => Stopping'
    BY <1>1, <1>8 DEF Stopping
  <2> QED
    BY <1>1, <1>7, <2>1, ToldEvolves
<1>10. dlg.link = 0 => \A u \in Versions : camp'[u].st # "buying"
  BY <1>8 DEF Owned
<1> QED
  BY <1>1, <1>7, <1>9, <1>10, CampaignStep DEF TypeOK

LEMMA NoCampaignType == NoCampaign \in Campaigns /\ NoCampaign.st # "buying"
  BY DEF NoCampaign, Campaigns, CampaignStates

LEMMA MovedNone == Moved(NoCampaign, "none") = NoCampaign
<1> DEFINE d == Moved(NoCampaign, "none")
<1>1. d \in Campaigns /\ NoCampaign \in Campaigns
  BY NoCampaignType, MovedFacts DEF CampaignStates
<1>2. d.st = "none" /\ d.mode = "none" /\ ~d.auto
  BY NoCampaignType, MovedFacts DEF CampaignStates, NoCampaign
<1>3. d.auto = FALSE
  <2>1. d.auto \in BOOLEAN
    BY <1>1 DEF Campaigns
  <2> QED
    BY <1>2, <2>1
<1>4. d = [st |-> d.st, mode |-> d.mode, auto |-> d.auto]
  BY <1>1 DEF Campaigns
<1> QED
  BY <1>2, <1>3, <1>4, Zenon DEF NoCampaign

LEMMA RestartStep ==
  ASSUME IInv, Restart
  PROVE  IInv'
<1> USE Folds0, Basics, MakerIsNoClient
<1>1. /\ restarts < MaxRestarts /\ restarts' = restarts + 1 /\ phase' = "boot" /\ ~told'
      /\ told' \in BOOLEAN /\ UNCHANGED <<dlg, agreed>>
      /\ run' = IF Recovered(dlg) = "maker" THEN Making(AllIdle) ELSE AllIdle
      /\ interp' = [NoTask EXCEPT !.at = IF Recovered(dlg) = "interp" THEN "reserve" ELSE "idle"]
  BY DEF Restart
<1> PICK f \in [Versions -> CampaignStates] :
       /\ \A v \in Versions : CampaignRecovered(camp[v], f[v])
       /\ camp' = [v \in Versions |-> Moved(camp[v], f[v])]
  BY DEF Restart
<1>2. ASSUME NEW v \in Versions
      PROVE  /\ camp'[v] \in Campaigns /\ camp'[v].st # "buying"
             /\ Evolves(camp[v], camp'[v], <<v, "purchase">> \in agreed)
  <2>1. camp'[v] = Moved(camp[v], f[v]) /\ camp[v] \in Campaigns /\ CampaignRecovered(camp[v], f[v])
    OBVIOUS
  <2>2. CASE camp[v].st # "none"
    <3>1. Reached(camp[v], f[v], FALSE) /\ f[v] # "buying"
      BY <2>1, <2>2, RecoveredReaches
    <3>2. /\ camp'[v] \in Campaigns /\ camp'[v].st = f[v]
          /\ Evolves(camp[v], camp'[v], FALSE)
      BY <2>1, <2>2, <3>1, MovedEvolves
    <3> QED
      BY <3>1, <3>2 DEF Evolves
  <2>3. CASE camp[v].st = "none"
    <3>1. camp[v] = NoCampaign
      BY <2>3 DEF Owned
    <3>2. f[v] = "none"
      BY <2>1, <2>3 DEF CampaignRecovered, Unpaid
    <3>3. camp'[v] = NoCampaign
      BY <2>1, <3>1, <3>2, MovedNone
    <3>4. camp'[v] \in Campaigns /\ camp'[v].st # "buying"
      BY <3>3, NoCampaignType
    <3> QED
      BY <3>1, <3>3, <3>4, EvolvesRefl
  <2> QED
    BY <2>2, <2>3
<1>3. camp' \in [Versions -> Campaigns]
  BY <1>2
<1>4. TypeOK'
  <2>1. interp' \in [at : {"idle", "reserve", "answer"}, rev : 0 .. MaxRevisions]
    BY <1>1, IntakeAssumption DEF NoTask
  <2>2. AllIdle \in [Procs -> Handler]
    BY IdleFacts DEF AllIdle
  <2>3. [Idle EXCEPT !.at = "begin"] \in Handler
    BY IdleFacts DEF Handler, Steps
  <2>4. Making(AllIdle) \in [Procs -> Handler]
    BY <2>2, <2>3 DEF Making, AllIdle
  <2>5. restarts' \in 0 .. MaxRestarts
    BY <1>1, IntakeAssumption DEF TypeOK
  <2> QED
    BY <1>1, <1>3, <2>1, <2>2, <2>4, <2>5 DEF TypeOK
<1>5. Mandate'
  <2>1. interp'.at # "answer" /\ (interp'.at # "idle" => dlg.st = "interpreting")
    BY <1>1 DEF NoTask, Recovered
  <2> QED
    BY <1>1, <2>1 DEF Mandate
<1>6. ASSUME NEW v \in Versions PROVE Owned(v)'
  BY <1>1, <1>2, EvolveOwned
<1>7. ASSUME NEW p \in Procs PROVE Handled(p)'
  <2>1. CASE run'[p] = Idle
    BY <2>1, IdleFacts DEF Handled, CancellationStates, Cancelling
  <2>2. CASE p = "maker" /\ Recovered(dlg) = "maker" /\ run'[p] = [Idle EXCEPT !.at = "begin"]
    <3>1. /\ run'[p].at = "begin" /\ run'[p].op = "none" /\ run'[p].got = "none"
      BY <2>2 DEF Idle
    <3>2. dlg.approved # 0
      BY <2>2 DEF Recovered, Mandate, Creating
    <3> QED
      BY <1>1, <2>2, <3>1, <3>2 DEF Handled, CancellationStates
  <2> QED
    BY <1>1, <2>1, <2>2, IdleFacts DEF Making, AllIdle
<1>8. Told'
  BY <1>1 DEF Told
<1> QED
  BY <1>4, <1>5, <1>6, <1>7, <1>8 DEF IInv

LEMMA CreateCampaignStep ==
  ASSUME IInv, CreateCampaign
  PROVE  IInv'
<1> USE Folds0, Basics, MakerIsNoClient
<1> DEFINE h == run["maker"]
           a == dlg.approved
           new == camp[a] = NoCampaign
           k == [h EXCEPT !.at = "link", !.op = IF new THEN "create" ELSE "found",
                   !.got = camp'[a].st]
<1>1. /\ h.at = "create" /\ h.id = a /\ a # 0 /\ dlg.link = 0 /\ a \in Versions
      /\ UNCHANGED <<dlg, interp, agreed, told, phase, restarts>>
  BY DEF CreateCampaign, At, GhostsUnchanged, ProcessUnchanged, Handled
<1>2. /\ camp' = IF new THEN [camp EXCEPT ![a] = Created(dlg.mode)] ELSE camp
      /\ run' = [run EXCEPT !["maker"] = k]
  BY <1>1 DEF CreateCampaign, Maker, Move
<1>3. /\ Created(dlg.mode) \in Campaigns /\ Created(dlg.mode).st = "analyzing"
      /\ Created(dlg.mode).mode = dlg.mode
      /\ (Created(dlg.mode).auto => dlg.mode = "auto")
  BY DEF Created, Campaigns, CampaignStates, Unpaid, Delegation
<1>4. /\ camp' \in [Versions -> Campaigns] /\ camp'[a] # NoCampaign
      /\ \A v \in Versions : camp'[v] = camp[v]
            \/ (v = a /\ camp[v] = NoCampaign /\ camp'[v] = Created(dlg.mode))
  BY <1>1, <1>2, <1>3 DEF NoCampaign
<1>5. k \in Handler /\ k.at = "link" /\ k.op \in {"create", "found"} /\ k.id = a
      /\ k.got = camp'[a].st
  <2>1. camp'[a].st \in CampaignStates
    BY <1>1, <1>4 DEF Campaigns
  <2> QED
    BY <1>1, <2>1 DEF Handler, Steps, Operations
<1>6. Moves("maker", k) /\ run'["maker"] = k /\ run' \in [Procs -> Handler]
  BY <1>2, <1>5, MovesFacts DEF Moves
<1>7. TypeOK'
  BY <1>1, <1>4, <1>6 DEF TypeOK
<1>8. Mandate'
  BY <1>1 DEF Mandate
<1>9. ASSUME NEW v \in Versions PROVE Owned(v)'
  <2>1. CASE camp'[v] = camp[v]
    BY <1>1, <2>1, EvolvesRefl, EvolveOwned DEF Owned
  <2>2. CASE v = a /\ camp'[v] = Created(dlg.mode)
    <3>1. dlg.st # "cancelled"
      BY <1>1 DEF Mandate
    <3>2. v # dlg.link
      BY <1>1, <2>2
    <3> QED
      BY <1>1, <1>3, <2>2, <3>1, <3>2 DEF Owned, Bought
  <2> QED
    BY <1>4, <2>1, <2>2
<1> HIDE DEF k
<1>10. ASSUME NEW p \in Procs PROVE Handled(p)'
  <2>1. CASE p = "maker"
    BY <1>1, <1>4, <1>5, <1>6, <2>1 DEF Handled
  <2>2. CASE p # "maker"
    <3>1. run'[p] = run[p]
      BY <1>6, <2>2, MovesFacts
    <3>2. ASSUME NEW v \in Versions
          PROVE  camp[v] = NoCampaign \/ Evolves(camp[v], camp'[v], <<v, "purchase">> \in agreed)
      BY <1>4, EvolvesRefl
    <3> QED
      BY <1>1, <3>1, <3>2, HandledKept
  <2> QED
    BY <2>1, <2>2
<1>11. Told'
  BY <1>1 DEF Told
<1> QED
  BY <1>7, <1>8, <1>9, <1>10, <1>11 DEF IInv

-----------------------------------------------------------------------------
(* The steps that change the delegation and a request together. *)

\* Nothing is in flight, and there is no campaign, before a mandate is approved.
LEMMA NothingBeforeApproval ==
  ASSUME IInv, dlg.approved = 0
  PROVE  /\ dlg.link = 0
         /\ \A p \in Procs : run[p].at = "idle"
         /\ \A v \in Versions : camp[v] = NoCampaign
  BY Folds0, VersionsRange DEF Mandate, Handled, Owned

LEMMA ConfirmMandateStep ==
  ASSUME IInv, NEW p, NEW v \in 1 .. dlg.rev, ConfirmMandate(p, v)
  PROVE  IInv'
<1> USE Folds0, Basics, MakerIsNoClient
<1>1. /\ Approvable(dlg) /\ v = dlg.rev
      /\ dlg' = [dlg EXCEPT !.st = "creating_campaign", !.approved = dlg.rev]
      /\ agreed' = agreed \cup {<<v, "mandate">>} /\ run' = Making(run)
      /\ UNCHANGED <<camp, interp, told, phase, restarts>>
  BY DEF ConfirmMandate, Confirms, Transacts, ProcessUnchanged
<1>2. dlg.rev \in Versions /\ dlg.rev # 0
  BY <1>1 DEF Delegation, Versions
<1>3. dlg.st \in Early /\ dlg.st # "interpreting"
  BY <1>1 DEF Approvable, Early
<1>4. dlg.approved = 0 /\ dlg.cancel = FALSE
  BY <1>3, EarlyFacts
<1>5. /\ dlg.link = 0 /\ (\A q \in Procs : run[q].at = "idle")
      /\ \A u \in Versions : camp[u] = NoCampaign
  BY <1>4, NothingBeforeApproval
<1>6. dlg' \in Delegation /\ dlg'.approved = dlg.rev /\ dlg'.rev = dlg.rev /\ dlg'.link = 0
      /\ dlg'.st = "creating_campaign" /\ dlg'.cancel = FALSE
  BY <1>1, <1>4, <1>5 DEF Delegation, DelegationStates
<1>7. TypeOK'
  BY <1>1, <1>2, <1>6, MakingFacts DEF TypeOK
<1>8. Mandate'
  BY <1>1, <1>2, <1>3, <1>4, <1>6 DEF Mandate, Early, Creating
<1>9. ASSUME NEW u \in Versions PROVE Owned(u)'
  BY <1>1, <1>5, <1>6, VersionsRange DEF Owned, NoCampaign, Bought
<1>10. ASSUME NEW q \in Procs PROVE Handled(q)'
  <2>1. CASE q = "maker"
    BY <1>1, <1>2, <1>5, <1>6, <2>1, MakingHandled
  <2>2. CASE q # "maker"
    BY <1>1, <1>5, <2>2, MakingFacts, HandledKept
  <2> QED
    BY <2>1, <2>2
<1>11. Told'
  BY <1>1, <1>4 DEF Told
<1> QED
  BY <1>7, <1>8, <1>9, <1>10, <1>11 DEF IInv

\* The transaction of a cancellation by itself.
LEMMA CancelledDelegation ==
  ASSUME IInv, dlg' = Cancelled(dlg), UNCHANGED <<camp, interp, agreed>>
  PROVE  /\ dlg' \in Delegation /\ dlg'.approved = dlg.approved /\ dlg'.link = dlg.link
         /\ dlg.cancel => dlg'.cancel
         /\ dlg'.st = "cancelled" /\ dlg.link # 0 => dlg.st = "cancelled"
         /\ Mandate'
         /\ \A v \in Versions : Owned(v)'
<1> USE Folds0, Basics
<1>1. CASE dlg.st \in {"completed", "cancelled", "declined"}
  <2>1. dlg' = dlg
    BY <1>1 DEF Cancelled
  <2>2. Mandate'
    BY <2>1 DEF Mandate
  <2> QED
    BY <2>1, <2>2, OwnedKept
<1>2. CASE dlg.st \notin {"completed", "cancelled", "declined"}
  <2> DEFINE s == IF dlg.link # 0 \/ CreationMayBeInFlight(dlg) THEN "cancellation_pending"
                  ELSE "cancelled"
  <2>1. dlg' = [dlg EXCEPT !.cancel = TRUE, !.st = s]
    BY <1>2 DEF Cancelled
  <2>2. /\ dlg' \in Delegation /\ dlg'.approved = dlg.approved /\ dlg'.link = dlg.link
        /\ dlg'.cancel /\ dlg'.st = s /\ dlg'.rev = dlg.rev
    BY <2>1 DEF Delegation, DelegationStates, CancellationStates
  <2>3. s \in {"cancellation_pending", "cancelled"} /\ (dlg.link # 0 => s # "cancelled")
    OBVIOUS
  <2>4. s = "cancelled" => dlg.approved = 0 /\ dlg.link = 0
    <3> SUFFICES ASSUME s = "cancelled" PROVE dlg.approved = 0 /\ dlg.link = 0
      OBVIOUS
    <3>1. dlg.link = 0 /\ dlg.st \notin Creating \cup {"cancellation_pending"}
      BY DEF CreationMayBeInFlight, Creating
    <3>2. dlg.st \in Early
      BY <1>2, <3>1 DEF Mandate
    <3> QED
      BY <3>1, <3>2 DEF Mandate
  <2> HIDE DEF s
  <2>5. Mandate'
    BY <2>2, <2>3, <2>4 DEF Mandate, Early, Creating, CancellationStates
  <2>6. ASSUME NEW v \in Versions PROVE Owned(v)'
    <3>1. CASE s = "cancelled"
      <4>1. camp'[v] = NoCampaign /\ dlg'.link = 0
        BY <2>2, <2>4, <3>1, NothingBeforeApproval
      <4> QED
        BY <4>1, VersionsRange DEF Owned, NoCampaign, Bought
    <3>2. CASE s # "cancelled"
      BY <2>2, <3>2, OwnedKept
    <3> QED
      BY <3>1, <3>2
  <2> QED
    BY <2>2, <2>3, <2>5, <2>6
<1> QED
  BY <1>1, <1>2

LEMMA CancelDelegationStep ==
  ASSUME IInv, NEW p \in Clients, CancelDelegation(p)
  PROVE  IInv'
<1> USE Folds0, Basics, MakerIsNoClient
<1>1. /\ dlg' = Cancelled(dlg) /\ UNCHANGED <<camp, interp, agreed, phase, restarts>>
      /\ run[p].at = "idle"
  BY DEF CancelDelegation, ProcessUnchanged, Free, At
<1>2. /\ dlg' \in Delegation /\ dlg'.approved = dlg.approved /\ dlg'.link = dlg.link
      /\ (dlg.cancel => dlg'.cancel) /\ Mandate' /\ (\A v \in Versions : Owned(v)')
      /\ (dlg'.st = "cancelled" /\ dlg.link # 0 => dlg.st = "cancelled")
  BY <1>1, CancelledDelegation
<1>3. CASE (dlg.link = 0 \/ dlg'.st = "cancelled") /\ Answered(dlg') /\ UNCHANGED run
  <2>1. TypeOK'
    BY <1>1, <1>2, <1>3 DEF TypeOK, Answered, Delegation
  <2>2. \A q \in Procs : Handled(q)'
    BY <1>1, <1>2, <1>3, AllHandledKept
  <2>3. ASSUME told' PROVE dlg'.cancel
    BY <1>2, <1>3, <2>3 DEF Told, Answered
  <2>4. ASSUME dlg.link # 0 PROVE camp'[dlg.link].st \in Past
    <3>1. dlg.st = "cancelled"
      BY <1>2, <1>3, <2>4
    <3>2. camp[dlg.link].st \in {"none"} \cup CancellationStates /\ camp[dlg.link].st # "none"
      BY <2>4, <3>1, LinkedExists DEF Owned
    <3> QED
      BY <1>1, <3>2 DEF Past
  <2>5. Told'
    BY <1>2, <2>3, <2>4 DEF Told
  <2> QED
    BY <1>2, <2>1, <2>2, <2>5 DEF IInv
<1>4. CASE dlg.link # 0 /\ UNCHANGED told
           /\ run' = [run EXCEPT ![p] = Calling("cancel", dlg.link, TRUE)]
  <2> DEFINE h == Calling("cancel", dlg.link, TRUE)
  <2>1. /\ h \in Handler /\ h.at = "call" /\ h.op = "cancel" /\ h.id = dlg.link
        /\ h.got = "none"
    BY DEF Calling, Idle, Handler, Steps, CampaignStates, Operations, Delegation
  <2>2. Moves(p, h)
    BY <1>4, <2>1 DEF Moves
  <2> HIDE DEF h
  <2>3. /\ run' \in [Procs -> Handler] /\ run'[p] = h
        /\ \A q \in Procs \ {p} : run'[q] = run[q]
    BY <2>2, MovesFacts
  <2>4. TypeOK'
    BY <1>1, <1>2, <1>4, <2>3 DEF TypeOK
  <2>5. ASSUME NEW q \in Procs PROVE Handled(q)'
    <3>1. CASE q = p
      <4>1. Cancelling(h)
        BY <2>1 DEF Cancelling
      <4> QED
        BY <1>2, <1>4, <2>1, <2>3, <3>1, <4>1, LinkedExists, VersionsRange
           DEF Handled, CancellationStates
    <3>2. CASE q # p
      BY <1>1, <1>2, <2>3, <3>2, EvolvesRefl, HandledKept
    <3> QED
      BY <3>1, <3>2
  <2>6. Stopping => Stopping'
    <3> SUFFICES ASSUME Stopping PROVE Stopping'
      OBVIOUS
    <3>1. run'["maker"] = run["maker"]
      BY <2>3
    <3>2. ASSUME NEW q \in Clients, run'[q].at = "call" PROVE run'[q].op \in {"cancel", "sync"}
      BY <2>1, <2>3, <3>2 DEF Stopping
    <3> QED
      BY <1>1, <1>2, <3>1, <3>2 DEF Stopping
  <2>7. Told'
    BY <1>1, <1>2, <1>4, <2>6 DEF Told
  <2> QED
    BY <1>2, <2>4, <2>5, <2>7 DEF IInv
<1> QED
  BY <1>1, <1>2, <1>3, <1>4 DEF CancelDelegation, Move

LEMMA DelegationStateFacts ==
  ASSUME NEW s \in CampaignStates, NEW mode
  PROVE  /\ DelegationState(s, mode) \in DelegationStates \ (Early \cup Creating)
         /\ s \in CancellationStates => DelegationState(s, mode) = s
         /\ DelegationState(s, mode) = "cancelled" => s = "cancelled"
<1>1. CASE s \in {"completed"} \cup CancellationStates
  <2>1. DelegationState(s, mode) = s
    BY <1>1 DEF DelegationState, CancellationStates
  <2> QED
    BY <1>1, <2>1 DEF DelegationStates, Early, Creating, CancellationStates
<1>2. CASE s \notin {"completed"} \cup CancellationStates
  <2>1. DelegationState(s, mode) \in {"campaign_failed", "execution_paused", "advisory_ready",
          "awaiting_purchase_confirmation", "campaign_active"}
    BY <1>2 DEF DelegationState, CancellationStates
  <2> QED
    BY <1>2, <2>1 DEF DelegationStates, Early, Creating, CancellationStates
<1> QED
  BY <1>1, <1>2

LEMMA RecordedFacts ==
  ASSUME IInv, dlg.link # 0, NEW s \in CampaignStates, dlg' = Recorded(dlg, dlg.link, s)
  PROVE  /\ dlg' \in Delegation
         /\ dlg'.link = dlg.link /\ dlg'.approved = dlg.approved /\ dlg'.rev = dlg.rev
         /\ dlg'.cancel = dlg.cancel
         /\ dlg'.st \notin Early \cup Creating
         /\ dlg.cancel => dlg'.st \in CancellationStates
         /\ dlg'.st = "cancelled" => s = "cancelled"
<1> USE Basics
<1> DEFINE t == IF dlg.cancel /\ s \notin CancellationStates THEN "cancellation_pending"
                ELSE DelegationState(s, dlg.mode)
<1>1. t \in DelegationStates \ (Early \cup Creating)
  BY DelegationStateFacts DEF DelegationStates, Early, Creating, CancellationStates
<1>2. dlg.cancel => t \in CancellationStates
  BY DelegationStateFacts DEF CancellationStates
<1>3. t = "cancelled" => s = "cancelled"
  BY DelegationStateFacts
<1>4. dlg' = [dlg EXCEPT !.link = dlg.link, !.resumable = s = "paused", !.st = t]
  BY DEF Recorded
<1> HIDE DEF t
<1>5. (s = "paused") \in BOOLEAN
  OBVIOUS
<1>6. dlg' \in Delegation
  BY <1>1, <1>4, <1>5 DEF Delegation
<1>7. /\ dlg'.link = dlg.link /\ dlg'.approved = dlg.approved /\ dlg'.rev = dlg.rev
      /\ dlg'.cancel = dlg.cancel /\ dlg'.st = t
  BY <1>4 DEF Delegation
<1> QED
  BY <1>1, <1>2, <1>3, <1>6, <1>7

\* A request that has recorded what it came for is over.
LEMMA IdleHandled ==
  ASSUME NEW p, run'[p] = Idle
  PROVE  Handled(p)'
  BY IdleFacts DEF Handled, CancellationStates, Cancelling

LEMMA RecordStep ==
  ASSUME IInv, NEW p \in Procs, run[p].at \in {"record", "caught"}, dlg.approved # 0,
         run' = [run EXCEPT ![p] = Idle], UNCHANGED <<camp, interp, agreed, phase, restarts>>,
         dlg' \in Delegation, dlg'.link = dlg.link, dlg'.approved = dlg.approved,
         dlg'.rev = dlg.rev, dlg'.cancel = dlg.cancel, dlg'.st \notin Early,
         dlg'.st \in Creating => ~dlg.cancel,
         dlg.link = 0 => dlg'.st \in Creating \cup {"cancellation_pending"},
         dlg.cancel => dlg'.st \in CancellationStates,
         \A v \in Versions : dlg'.st = "cancelled" => camp[v].st \in {"none"} \cup CancellationStates,
         \/ told' = told
         \/ told' = (told \/ dlg.cancel) /\ dlg.link # 0 /\ camp[dlg.link].st \in Past
  PROVE  IInv'
<1> USE Folds0, Basics
<1>1. Moves(p, Idle)
  BY IdleFacts DEF Moves
<1>2. run' \in [Procs -> Handler] /\ run'[p] = Idle /\ \A q \in Procs \ {p} : run'[q] = run[q]
  BY <1>1, MovesFacts
<1>3. told' \in BOOLEAN
  BY DEF TypeOK, Delegation
<1>4. TypeOK'
  BY <1>2, <1>3 DEF TypeOK
<1>5. Mandate'
  <2>1. interp.at # "idle" => dlg.cancel
    BY DEF Mandate, Early
  <2>2. dlg'.st \in Creating \cup {"cancellation_pending"} => dlg'.st # "cancelled"
    BY DEF Creating
  <2> QED
    BY <2>1, <2>2 DEF Mandate
<1>6. ASSUME NEW v \in Versions PROVE Owned(v)'
  BY DEF Owned
<1>7. ASSUME NEW q \in Procs PROVE Handled(q)'
  <2>1. CASE q = p
    BY <1>2, <2>1, IdleHandled
  <2>2. CASE q # p
    BY <1>2, <2>2, EvolvesRefl, HandledKept
  <2> QED
    BY <2>1, <2>2
<1>8. Told'
  <2>1. CASE dlg.link # 0 /\ camp[dlg.link].st \in Past /\ (told' => told \/ dlg.cancel)
    BY <2>1 DEF Told
  <2>2. CASE told' = told
    <3>1. Stopping => Stopping'
      <4> SUFFICES ASSUME Stopping PROVE Stopping'
        OBVIOUS
      <4>1. p # "maker" /\ run'["maker"] = run["maker"]
        BY <1>2, MakerIsNoClient DEF Stopping
      <4>2. ASSUME NEW q \in Clients, run'[q].at = "call" PROVE run'[q].op \in {"cancel", "sync"}
        BY <1>2, <4>2, IdleFacts, MakerIsNoClient DEF Stopping
      <4> QED
        BY <4>1, <4>2 DEF Stopping
    <3> QED
      BY <2>2, <3>1 DEF Told
  <2> QED
    BY <2>1, <2>2
<1> QED
  BY <1>4, <1>5, <1>6, <1>7, <1>8 DEF IInv

LEMMA RecordCampaignStep ==
  ASSUME IInv, NEW p \in Procs, RecordCampaign(p)
  PROVE  IInv'
<1> USE Folds0, Basics
<1> DEFINE s == run[p].got
<1>1. /\ run[p].at = "record" /\ UNCHANGED <<camp, interp, agreed, phase, restarts>>
      /\ dlg.link # 0 /\ run[p].id = dlg.link /\ s \in CampaignStates
  BY DEF RecordCampaign, At, ProcessUnchanged, Handled, Handler
<1>2. /\ dlg' = Recorded(dlg, dlg.link, s) /\ run' = [run EXCEPT ![p] = Idle]
      /\ IF p \in Clients /\ run[p].try THEN Answered(dlg') ELSE UNCHANGED told
  BY <1>1 DEF RecordCampaign, Move
<1>3. /\ dlg' \in Delegation
      /\ dlg'.link = dlg.link /\ dlg'.approved = dlg.approved /\ dlg'.rev = dlg.rev
      /\ dlg'.cancel = dlg.cancel
      /\ dlg'.st \notin Early \cup Creating
      /\ (dlg.cancel => dlg'.st \in CancellationStates)
      /\ (dlg'.st = "cancelled" => s = "cancelled")
  BY <1>1, <1>2, RecordedFacts
<1>4. s \in CancellationStates => camp[dlg.link].st \in CancellationStates
  BY <1>1 DEF Handled
<1>5. ASSUME dlg'.st = "cancelled", NEW v \in Versions
      PROVE  camp[v].st \in {"none"} \cup CancellationStates
  <2>1. camp[dlg.link].st \in CancellationStates
    BY <1>3, <1>4, <1>5 DEF CancellationStates
  <2>2. CASE camp[v] = NoCampaign
    BY <2>2 DEF NoCampaign
  <2>3. CASE camp[v] # NoCampaign
    BY <1>1, <2>1, <2>3 DEF Owned
  <2> QED
    BY <2>2, <2>3
<1>6. ASSUME p \in Clients, run[p].try PROVE camp[dlg.link].st \in Past
  BY <1>1, <1>4, <1>6 DEF Handled, Cancelling, Past
<1>7. \/ told' = told
      \/ told' = (told \/ dlg.cancel) /\ dlg.link # 0 /\ camp[dlg.link].st \in Past
  BY <1>1, <1>2, <1>3, <1>6 DEF Answered
<1> HIDE DEF s
<1> QED
  BY <1>1, <1>2, <1>3, <1>5, <1>7, RecordStep

LEMMA RecordFailureStep ==
  ASSUME IInv, NEW p \in Procs, RecordFailure(p)
  PROVE  IInv'
<1> USE Folds0, Basics
<1> DEFINE s == IF p \in Clients \/ dlg.cancel THEN "cancellation_pending"
                ELSE "campaign_creation_failed"
<1>1. /\ run[p].at = "caught" /\ UNCHANGED <<camp, interp, agreed, phase, restarts>>
      /\ dlg.approved # 0 /\ dlg' = [dlg EXCEPT !.st = s]
      /\ run' = [run EXCEPT ![p] = Idle]
      /\ IF p \in Clients THEN Answered(dlg') ELSE UNCHANGED told
  BY DEF RecordFailure, At, Move, ProcessUnchanged, Handled
<1>2. /\ dlg' \in Delegation
      /\ dlg'.link = dlg.link /\ dlg'.approved = dlg.approved /\ dlg'.rev = dlg.rev
      /\ dlg'.cancel = dlg.cancel /\ dlg'.st = s
  BY <1>1 DEF Delegation, DelegationStates, CancellationStates
<1>3. /\ s \notin Early /\ s # "cancelled" /\ s \in Creating \cup {"cancellation_pending"}
      /\ (s \in Creating => ~dlg.cancel) /\ (dlg.cancel => s \in CancellationStates)
  BY DEF Early, Creating, CancellationStates
<1>4. ASSUME p \in Clients PROVE dlg.link # 0 /\ camp[dlg.link].st \in Past
  BY <1>1, <1>4 DEF Handled, Past, Done, Bought
<1>5. \/ told' = told
      \/ told' = (told \/ dlg.cancel) /\ dlg.link # 0 /\ camp[dlg.link].st \in Past
  BY <1>1, <1>2, <1>4 DEF Answered
<1> HIDE DEF s
<1> QED
  BY <1>1, <1>2, <1>3, <1>5, RecordStep

LEMMA LinkCampaignStep ==
  ASSUME IInv, LinkCampaign
  PROVE  IInv'
<1> USE Folds0, Basics, MakerIsNoClient
<1> DEFINE h == run["maker"]
           s == IF dlg.cancel THEN "cancellation_pending" ELSE dlg.st
           k == [h EXCEPT !.at = IF dlg.cancel THEN "stop" ELSE "call"]
<1>1. /\ h.at = "link" /\ dlg.link = 0 /\ dlg.approved # 0 /\ h.id = dlg.approved
      /\ dlg.approved \in Versions
      /\ camp[dlg.approved] # NoCampaign
      /\ UNCHANGED <<camp, interp, agreed, told, phase, restarts>>
  BY DEF LinkCampaign, At, GhostsUnchanged, ProcessUnchanged, Handled
<1>2. /\ dlg' = [dlg EXCEPT !.link = dlg.approved, !.resumable = h.got = "paused", !.st = s]
      /\ run' = [run EXCEPT !["maker"] = k]
  BY <1>1 DEF LinkCampaign, Maker, Move
<1>3. /\ s \in DelegationStates /\ s \notin Early /\ s # "cancelled"
      /\ (dlg.cancel => s \in CancellationStates)
  BY <1>1 DEF Mandate, Delegation, DelegationStates, CancellationStates, Early
<1> HIDE DEF s
<1>4. (h.got = "paused") \in BOOLEAN
  OBVIOUS
<1>5. /\ dlg' \in Delegation
      /\ dlg'.link = dlg.approved /\ dlg'.approved = dlg.approved /\ dlg'.rev = dlg.rev
      /\ dlg'.cancel = dlg.cancel /\ dlg'.st = s
  BY <1>2, <1>3, <1>4 DEF Delegation
<1>6. /\ k \in Handler /\ k.at = (IF dlg.cancel THEN "stop" ELSE "call")
      /\ k.op = h.op /\ k.id = h.id /\ k.got = h.got
  BY DEF Handler, Steps
<1> HIDE DEF k
<1>7. /\ run' \in [Procs -> Handler] /\ run'["maker"] = k
      /\ \A q \in Procs \ {"maker"} : run'[q] = run[q]
  BY <1>2, <1>6, MovesFacts DEF Moves
<1>8. TypeOK'
  BY <1>1, <1>5, <1>7 DEF TypeOK
<1>9. Mandate'
  <2>1. interp.at # "idle" => dlg.cancel
    BY <1>1 DEF Mandate, Early
  <2>2. dlg.rev = dlg.approved /\ <<dlg.approved, "mandate">> \in agreed
    BY <1>1 DEF Mandate
  <2> QED
    BY <1>1, <1>3, <1>5, <2>1, <2>2 DEF Mandate
<1>10. ASSUME NEW v \in Versions PROVE Owned(v)'
  BY <1>1, <1>3, <1>5 DEF Owned
<1>11. ASSUME NEW p \in Clients PROVE run[p].at = "idle" /\ run'[p] = run[p]
  BY <1>1, <1>7 DEF Handled
<1>12. ASSUME NEW p \in Procs PROVE Handled(p)'
  <2>1. CASE p = "maker"
    BY <1>1, <1>5, <1>6, <1>7, <2>1 DEF Handled
  <2>2. CASE p # "maker"
    BY <1>1, <1>11, <2>2, EvolvesRefl, HandledKept DEF Procs
  <2> QED
    BY <2>1, <2>2
<1>13. Told'
  <2> SUFFICES ASSUME told PROVE dlg.cancel /\ Stopping'
    BY <1>1, <1>5 DEF Told
  <2>1. dlg.cancel
    BY DEF Told
  <2>2. camp[dlg.approved].st # "buying"
    BY <1>1 DEF Owned
  <2> QED
    BY <1>1, <1>5, <1>6, <1>7, <1>11, <2>1, <2>2 DEF Stopping
<1> QED
  BY <1>8, <1>9, <1>10, <1>12, <1>13 DEF IInv

-----------------------------------------------------------------------------
(* The invariant and what follows from it. *)

LEMMA ClientPreserves ==
  ASSUME IInv, NEW p \in Clients, ClientStep(p)
  PROVE  IInv'
  BY SyncDelegationStep, CancelDelegationStep, CreateDelegationStep, AnswerQuestionsStep,
     RetryInterpretationStep, DeclineMandateStep, ConfirmMandateStep, ConfirmAgainStep,
     ConfirmPurchaseStep, SyncUnlinkedStep, ResumeDelegationStep, RetryFulfillmentStep
     DEF ClientStep

LEMMA CallPreserves ==
  ASSUME IInv, NEW p \in Procs, CallStep(p)
  PROVE  IInv'
  BY CampaignAnswersStep, ExecutionStoppedStep, CampaignRefusesStep, RecordCampaignStep,
     RecordFailureStep DEF CallStep

LEMMA TaskPreserves ==
  ASSUME IInv, InterpretStep \/ MakerStep
  PROVE  IInv'
  BY ReserveAttemptStep, InterpretedStep, BeginCampaignStep, CreationFailsStep,
     CreateCampaignStep, LinkCampaignStep, StopLinkedStep, StopLinkedFailsStep,
     CheckCancellationStep DEF InterpretStep, MakerStep

LEMMA StutterPreserves ==
  ASSUME IInv, UNCHANGED vars
  PROVE  IInv'
<1> USE Folds0 DEF vars
<1>1. TypeOK' /\ Mandate'
  BY DEF TypeOK, Mandate
<1>2. (\A v \in Versions : Owned(v)') /\ (\A p \in Procs : Handled(p)') /\ Told'
  BY OwnedKept, AllHandledKept, ToldKept
<1> QED
  BY <1>1, <1>2 DEF IInv

\* Every step keeps the inductive invariant.
LEMMA NextIInv == IInv /\ [Next]_vars => IInv'
<1> SUFFICES ASSUME IInv, [Next]_vars PROVE IInv'
  OBVIOUS
<1>1. CASE UNCHANGED vars
  BY <1>1, StutterPreserves
<1>2. CASE \E p \in Clients : ClientStep(p)
  BY <1>2, ClientPreserves
<1>3. CASE \E p \in Procs : CallStep(p)
  BY <1>3, CallPreserves
<1>4. CASE InterpretStep \/ MakerStep
  BY <1>4, TaskPreserves
<1>5. CASE \E v \in Versions, s \in CampaignStates : ExecutionEnds(v, s) \/ CampaignFollowed(v, s)
  BY <1>5, ExecutionEndsStep, CampaignFollowedStep
<1>6. CASE Restart \/ FinishBoot
  BY <1>6, RestartStep, FinishBootStep
<1> QED
  BY <1>1, <1>2, <1>3, <1>4, <1>5, <1>6 DEF Next

\* What the invariant knows of a delegation and its campaign holds in every run.
THEOREM IntakeInvariant == Spec => []IInv
  BY InitIInv, NextIInv, PTL DEF Spec

LEMMA RecordsConsistentHolds ==
  ASSUME IInv
  PROVE  RecordsConsistent
<1> USE Folds0
<1> DEFINE S == {v \in Versions : camp[v] # NoCampaign}
<1>1. S \subseteq {dlg.approved}
  BY DEF Owned
<1>2. IsFiniteSet({dlg.approved}) /\ Cardinality({dlg.approved}) = 1
  BY FS_Singleton
<1>3. Cardinality(S) <= 1
  <2> HIDE DEF S
  <2>1. Cardinality(S) <= Cardinality({dlg.approved})
    BY <1>1, <1>2, FS_Subset
  <2> QED
    BY <1>2, <2>1
<1>4. OneCampaign
  BY <1>3 DEF OneCampaign
<1> QED
  BY <1>4 DEF RecordsConsistent, CancellationShown, Mandate

LEMMA BuysAsAgreedHolds ==
  ASSUME IInv
  PROVE  BuysAsAgreed
<1> USE Folds0, Basics
<1>1. NothingWithoutConsent
  <2>1. ASSUME NEW v \in Versions, camp[v] # NoCampaign PROVE <<v, "mandate">> \in agreed
    <3>1. v = dlg.approved /\ dlg.approved # 0
      BY <2>1, VersionsRange DEF Owned
    <3> QED
      BY <3>1 DEF Mandate
  <2> QED
    BY <2>1 DEF NothingWithoutConsent, Owned
<1>2. CancelledBuysNothing
  BY DEF CancelledBuysNothing, Owned
<1> QED
  BY <1>1, <1>2 DEF BuysAsAgreed

LEMMA AnswersBuyNothing ==
  ASSUME NEW c \in Campaigns, NEW op, NEW s \in Outcomes(op, c), s \in Bought
  PROVE  c.st \notin Unpaid
<1> SUFFICES ASSUME c.st \in Unpaid PROVE FALSE
  OBVIOUS
<1>1. s \notin CancelOutcomes(c) /\ s \notin ExecuteOutcomes(c) /\ s \notin EvaluateOutcomes(c)
  BY DEF CancelOutcomes, ExecuteOutcomes, EvaluateOutcomes, Bought, Unpaid, CancellationStates
<1>2. s # c.st
  BY DEF Bought, Unpaid
<1>3. s \notin ResumeOutcomes(c)
  BY <1>1, <1>2 DEF ResumeOutcomes
<1>4. CASE op = "cancel"
  BY <1>1, <1>4 DEF Outcomes
<1>5. CASE op = "resume"
  BY <1>3, <1>5 DEF Outcomes
<1>6. CASE op = "create" /\ c.st = "analyzing"
  BY <1>1, <1>6 DEF Outcomes
<1>7. CASE op = "purchase"
  <2>1. s \in CancelOutcomes(c) \cup ExecuteOutcomes(c)
    BY <1>7 DEF Outcomes
  <2> QED
    BY <1>1, <2>1
<1>8. CASE ~(op \in {"cancel", "resume", "purchase"} \/ (op = "create" /\ c.st = "analyzing"))
  <2>1. s = c.st
    BY <1>8 DEF Outcomes
  <2> QED
    BY <1>2, <2>1
<1> QED
  BY <1>4, <1>5, <1>6, <1>7, <1>8

\* No call submits a payment by itself, whatever it asks for.
LEMMA CallsBuyNothing ==
  ASSUME IInv, NEW p \in Procs, CallStep(p), NEW v \in Versions
  PROVE  ~Spends(v)
<1> USE Folds0, Basics
<1>1. CASE UNCHANGED camp
  BY <1>1 DEF Spends, Unpaid, Bought
<1>2. ASSUME CampaignAnswers(p) PROVE ~Spends(v)
  <2> DEFINE h == run[p]
  <2>1. h.id = dlg.link /\ dlg.link # 0
    BY <1>2 DEF CampaignAnswers, At, Handled
  <2>2. dlg.link \in Versions /\ camp[dlg.link] \in Campaigns
    BY <2>1, LinkedExists
  <2> PICK s \in Outcomes(h.op, camp[h.id]) :
         camp' = [camp EXCEPT ![h.id].st = s,
                    ![h.id].auto = @ \/ (h.op = "purchase" /\ s \in {"buying", "paused"})]
    BY <1>2 DEF CampaignAnswers
  <2>3. camp'[v].st = IF v = h.id THEN s ELSE camp[v].st
    BY <2>1, <2>2 DEF Campaigns
  <2>4. CASE v = h.id
    BY <2>3, <2>4, AnswersBuyNothing DEF Spends
  <2>5. CASE v # h.id
    BY <2>3, <2>5 DEF Spends, Unpaid, Bought
  <2> QED
    BY <2>4, <2>5
<1>3. ASSUME CampaignRefuses(p) PROVE ~Spends(v)
  <2> DEFINE h == run[p]
  <2>1. h.id = dlg.link /\ dlg.link # 0
    BY <1>3 DEF CampaignRefuses, At, Handled
  <2>2. dlg.link \in Versions /\ camp[dlg.link] \in Campaigns
    BY <2>1, LinkedExists
  <2> PICK s \in {camp[h.id].st} \cup EvaluatedOnly(camp[h.id]) :
         camp' = [camp EXCEPT ![h.id] = Moved(@, s)]
    BY <1>3 DEF CampaignRefuses
  <2>3. s \in {camp[h.id].st, "decision_ready"}
    BY DEF EvaluatedOnly
  <2>4. camp'[v].st = IF v = h.id THEN s ELSE camp[v].st
    BY <2>1, <2>2 DEF Moved, Campaigns
  <2> QED
    BY <2>3, <2>4 DEF Spends, Unpaid, Bought
<1>4. UNCHANGED camp \/ CampaignAnswers(p) \/ CampaignRefuses(p)
  BY DEF CallStep, ExecutionStopped, RecordCampaign, RecordFailure
<1> QED
  BY <1>1, <1>2, <1>3, <1>4

\* Nor does the task that creates, links or stops a campaign.
LEMMA MakerBuysNothing ==
  ASSUME IInv, MakerStep, NEW v \in Versions
  PROVE  ~Spends(v)
<1> USE Folds0, Basics, MakerIsNoClient
<1>1. CASE UNCHANGED camp
  BY <1>1 DEF Spends, Unpaid, Bought
<1>2. ASSUME CreateCampaign PROVE ~Spends(v)
  <2>1. \/ camp'[v] = camp[v]
        \/ camp'[v] = Created(dlg.mode)
    BY <1>2 DEF CreateCampaign
  <2> QED
    BY <2>1 DEF Created, Spends, Unpaid, Bought
<1>3. ASSUME StopLinked PROVE ~Spends(v)
  <2> DEFINE h == run["maker"]
  <2>1. h.id = dlg.link /\ dlg.link # 0
    BY <1>3 DEF StopLinked, At, Handled
  <2>2. dlg.link \in Versions /\ camp[dlg.link] \in Campaigns /\ camp[dlg.link].st # "none"
    BY <2>1, LinkedExists
  <2> PICK s \in CancelOutcomes(camp[h.id]) : camp' = [camp EXCEPT ![h.id].st = s]
    BY <1>3 DEF StopLinked
  <2>3. s \in CancellationStates
    BY <2>1, <2>2, CancelReaches
  <2>4. camp'[v].st = IF v = h.id THEN s ELSE camp[v].st
    BY <2>1, <2>2 DEF Campaigns
  <2> QED
    BY <2>3, <2>4 DEF Spends, Unpaid, Bought, CancellationStates
<1>4. UNCHANGED camp \/ CreateCampaign \/ StopLinked
  BY DEF MakerStep, BeginCampaign, CreationFails, LinkCampaign, StopLinkedFails, CheckCancellation
<1> QED
  BY <1>1, <1>2, <1>3, <1>4

\* Only an execution under way submits a payment: a restart aside, an unpaid
\* campaign becomes a bought one from the state it is bought in.
LEMMA SpendsFromBuying ==
  ASSUME IInv, Next, NEW v \in Versions, Spends(v), told'
  PROVE  camp[v].st = "buying"
<1> USE Folds0, Basics
<1>1. CASE UNCHANGED camp
  BY <1>1 DEF Spends, Unpaid, Bought
<1>2. CASE \E p \in Procs : CallStep(p)
  BY <1>2, CallsBuyNothing
<1>3. CASE MakerStep
  BY <1>3, MakerBuysNothing
<1>4. ASSUME NEW u \in Versions, NEW s, ExecutionEnds(u, s) PROVE camp[v].st = "buying"
  <2>1. camp[u].st = "buying" /\ (v # u => camp'[v] = camp[v])
    BY <1>4 DEF ExecutionEnds
  <2> QED
    BY <2>1 DEF Spends, Unpaid, Bought
<1>5. ASSUME NEW u \in Versions, NEW s, CampaignFollowed(u, s) PROVE FALSE
  <2>1. camp[u].st \in {"paid", "cancellation_pending", "cancelled"}
        /\ (v # u => camp'[v] = camp[v])
    BY <1>5, FollowedReaches DEF CampaignFollowed
  <2> QED
    BY <2>1 DEF Spends, Unpaid, Bought
<1>6. ~Restart
  BY DEF Restart
<1>7. ASSUME NEW p \in Clients, ClientStep(p) PROVE UNCHANGED camp
  BY <1>7 DEF ClientStep, SyncDelegation, CancelDelegation, CreateDelegation, AnswerQuestions,
     RetryInterpretation, DeclineMandate, ConfirmMandate, ConfirmAgain, ConfirmPurchase,
     SyncUnlinked, ResumeDelegation, RetryFulfillment, Request, Transacts
<1>8. InterpretStep \/ FinishBoot => UNCHANGED camp
  BY DEF InterpretStep, ReserveAttempt, Interpreted, FinishBoot
<1> QED
  BY <1>1, <1>2, <1>3, <1>4, <1>5, <1>6, <1>7, <1>8 DEF Next

LEMMA NoPurchaseStep ==
  ASSUME IInv, [Next]_vars, told, told', NEW v \in Versions
  PROVE  ~Spends(v)
<1>1. CASE UNCHANGED vars
  BY <1>1 DEF vars, Spends, Unpaid, Bought
<1>2. CASE Next
  BY <1>2, SpendsFromBuying, NoneBuyingOnceTold
<1> QED
  BY <1>1, <1>2

-----------------------------------------------------------------------------
(* The properties the runs check. *)

\* A delegation has at most one campaign, and once it is cancelled it never shows a
\* state in which it goes on, whichever interpretation, creation or older
\* synchronisation commits last (buyer-intake-service.mjs 764, 810, 888, 930).
THEOREM RecordsAgree == Spec => []RecordsConsistent
  BY IntakeInvariant, RecordsConsistentHolds, PTL

\* A campaign exists and buys only as far as a customer has agreed to, and a
\* delegation shown as cancelled has none that can still buy (483, 507-520, 569).
THEOREM BuysOnlyAsAgreed == Spec => []BuysAsAgreed
  BY IntakeInvariant, BuysAsAgreedHolds, PTL

\* After the answer to a cancellation no unpaid campaign submits its payment, not
\* even one that is still to be created, until the process restarts (840-879).
THEOREM AnswerEndsBuying == Spec => NoPurchaseAfterAnswer
<1>1. IInv /\ [Next]_vars => [told /\ told' => \A v \in Versions : ~Spends(v)]_vars
  BY NoPurchaseStep
<1> QED
  BY <1>1, IntakeInvariant, PTL DEF Spec, NoPurchaseAfterAnswer
=============================================================================
