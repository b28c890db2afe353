-------------------------- MODULE BuyerSpend_proofs ---------------------------
(*****************************************************************************)
(* Proofs about BuyerSpend, for any campaigns, clients, limits and bounds.   *)
(* Whatever evaluations overlap, what a campaign paid is the order on its    *)
(* record, a payment the record takes for possibly sent stays allocated, a   *)
(* cancelled campaign holds nothing and no longer submits, and the spend     *)
(* ledger is implemented.  A campaign pays once, and one closed as unpaid    *)
(* never submitted, unless a decision was written over its submission.       *)
(*****************************************************************************)
EXTENDS BuyerSpendLedger, FiniteSetTheorems, WellFoundedInduction, TLAPS

\* Where an execution goes on from what it knew of the campaign.
Ordering == {"order", "create", "created"}
Signing == {"prepare", "sign"}
Gating == {"gate", "blocked"}
Working == Ordering \cup Signing \cup Gating \cup {"reserve", "submit"}

\* The Seller produces for authorized money only.
Earned(v) == v.prod # "idle" => Authorized(v)

\* The wallet answered, or nobody waits for its answer any more.
Sunk(r) == r.att \in {"submitted", "uncertain"}

\* The record of a campaign, what its wallet did, and what the Seller has.
Recorded(r, s, v) ==
    /\ \A q \in Quotes : Earned(v[q])
    /\ r.att # "none" => r.ord # NoView
    /\ r.ord # NoView => r.oq \in Quotes /\ v[r.oq] # NoView
    /\ \A q \in Quotes : s[q] > 0 => r.ord # NoView /\ q = r.oq
    /\ MaySent(r) => s[r.oq] > 0
    /\ ~r.late => \A q \in Quotes : s[q] = IF MaySent(r) /\ q = r.oq THEN 1 ELSE 0
    /\ MaySent(r) /\ ~r.paid => Active(r)
    /\ r.att = "submitted" => r.rcpt
    /\ r.paid => /\ Sunk(r) /\ r.rcpt
                 /\ r.res = "committed" \/ Active(r)

\* What the state of a campaign tells.
Stated(r) ==
    /\ r.st = "absent" => r.att = "none" /\ r.ord = NoView /\ ~Asked(r) /\ ~r.late
    /\ ~r.late /\ r.att = "submitting" => r.st \in CancellationStates \cup {"submitting_payment",
           "awaiting_payment", "payment_uncertain", "payment_origin_review_required"}
    /\ Asked(r) => Cancelling(r) \/ Sunk(r)
    /\ r.canc = "derived" => r.ord # NoView
    /\ r.st \in {"packaging", "packaging_failed", "completed"} => r.paid
    /\ r.st \in {"cancelled", "payment_failed"} => ~MaySent(r)
    /\ r.st = "cancelled" => r.res = "none"
    /\ Asked(r) \/ r.paid => ~r.psbt

\* What a reconciliation leaves alone: the attempt and the order it is for.
SameAttempt(r, z) == z.att = r.att /\ z.rcpt = r.rcpt /\ z.oq = r.oq /\ z.late = r.late

\* What whoever is not the execution keeps of a record: the attempt and the order
\* stay, a cancellation and a booking too, and nothing is decided or submitted anew.
Follows(r, z) ==
    /\ z.att = r.att /\ z.rcpt = r.rcpt /\ z.late = r.late
    /\ Asked(r) => Asked(z)
    /\ r.paid => z.paid
    /\ r.ord # NoView => z.ord # NoView
    /\ r.ord = NoView => z = r \/ Asked(z)
    /\ z.st \in {"absent", "analyzing", "decision_failed", "submitting_payment"} => z.st = r.st

\* The calls in flight, k, fit the record.
Executing(r, s, e) ==
    /\ e.pc \in Working => r.st # "absent"
    /\ ~r.late /\ e.pc = "reserve" => r.att # "submitting"
    /\ e.pc \in Ordering => /\ r.att = "none" /\ (r.ord = NoView \/ Asked(r))
                            /\ \A q \in Quotes : s[q] = 0
    /\ e.pc \in Signing => r.att = "none" /\ r.ord # NoView
    /\ e.pc \in Gating => r.att \in {"prepared", "submitting"} /\ (~r.late => r.att = "prepared")
    /\ e.pc = "submit" => r.att \in {"submitting", "uncertain"}
Informed(r, v, k) ==
    /\ Earned(k.view)
    /\ k.pc \in {"reserve", "order", "create", "created", "reorder", "reordered", "sync", "synced",
           "stop", "stopped", "retry"} => k.q \in Quotes
    /\ k.pc \in {"created", "reordered", "stopped", "synced"} => k.view # NoView
    /\ k.pc \in {"created", "reordered", "stopped", "synced", "sync", "stop", "retry"} =>
           v[k.q] # NoView
    /\ k.pc \in {"stop", "stopped", "sync", "synced", "retry"} => r.ord # NoView
    /\ k.pc \in {"reorder", "reordered"} => Asked(r)
\* Who is about to mark a submission as interrupted found one, and either its
\* execution is still there or the start that found it is the only call.
Marking(r, k) == \A p \in Procs : k[p].pc = "mark" => Sunk(r) \/ k["exec"].pc = "submit"
Interrupted(r, k, b) ==
    \/ Marking(r, k)
    \/ b /\ MaySent(r) /\ \A p \in Procs \ {"main"} : k[p] = Idle
Alone(r, k, p) ==
    /\ k[p].pc \in Working => p = "exec"
    /\ k[p].pc # "idle" /\ k[p].then = "requoted" => p = "exec"
\* A submission in progress has its execution, or the start that finds it.
Submitting(r, k, b) == r.st = "submitting_payment" =>
    r.att = "submitting" /\ (k["exec"].pc = "submit" \/ (b /\ k["main"].pc = "mark"))
Called(r, s, v, k, t, b) ==
    /\ Executing(r, s, k["exec"])
    /\ \A p \in Procs : Informed(r, v, k[p]) /\ Alone(r, k, p)
    /\ Interrupted(r, k, b)
    /\ Submitting(r, k, b)
    /\ r.st = "absent" => k = AllIdle
    /\ t = "working" => r.paid

Sound(r, s, v, k, t, b) == Recorded(r, s, v) /\ Stated(r) /\ Called(r, s, v, k, t, b)
IInv ==
    /\ TypeOK
    /\ \A c \in Campaigns : Sound(camp[c], sent[c], sel[c], call[c], pack[c], booting)

-----------------------------------------------------------------------------
(* What the operators on records do. *)

LEMMA RecordFields ==
    ASSUME NEW r \in CampaignRecord
    PROVE  /\ r.st \in CampaignStates /\ r.quote \in 0 .. MaxQuotes
           /\ r.ord \in Views \cup {NoView} /\ r.oq \in 0 .. MaxQuotes
           /\ r.att \in Attempts /\ r.psbt \in BOOLEAN /\ r.rcpt \in BOOLEAN
           /\ r.fee \in 0 .. Allowance /\ r.res \in Reservations
           /\ r.held \in 0 .. Price + Allowance /\ r.paid \in BOOLEAN
           /\ r.canc \in {"none", "derived", "local", "remote"}
           /\ r.conflict \in BOOLEAN /\ r.pkg \in BOOLEAN /\ r.late \in BOOLEAN
  BY DEF CampaignRecord

LEMMA Amounts ==
    /\ Price \in Nat /\ Allowance \in Nat /\ 0 \in 0 .. Allowance
    /\ 0 \in 0 .. Price + Allowance
    /\ \A fee \in 0 .. Allowance : Price + fee \in 0 .. Price + Allowance
  BY BuyerAssumption

LEMMA NoViewIsNone == NoView \notin Views /\ Earned(NoView) /\ Opened \in Views /\ Earned(Opened)
  BY DEF NoView, Views, Pays, Stops, Earned, Opened

LEMMA ReleaseTyped ==
    ASSUME NEW r \in CampaignRecord PROVE Release(r) \in CampaignRecord
  BY Amounts, Zenon DEF Release, CampaignRecord, Reservations

LEMMA UnsettleTyped ==
    ASSUME NEW r \in CampaignRecord PROVE Unsettle(r) \in CampaignRecord
<1> DEFINE held == IF r.res = "none" THEN Price + r.fee ELSE r.held
<1>1. held \in 0 .. Price + Allowance
  BY RecordFields, Amounts
<1>2. Unsettle(r) = [r EXCEPT !.res = "uncertain", !.held = held]
  BY DEF Unsettle
<1> HIDE DEF held
<1> QED
  BY <1>1, <1>2, Zenon DEF CampaignRecord, Reservations

LEMMA SuspendTyped ==
    ASSUME NEW r \in CampaignRecord PROVE Suspend(r) \in CampaignRecord
<1> DEFINE res == IF r.res = "none" THEN r.res ELSE "uncertain"
<1>1. res \in Reservations
  BY RecordFields DEF Reservations
<1>2. Suspend(r) = [r EXCEPT !.res = res]
  BY DEF Suspend
<1> HIDE DEF res
<1> QED
  BY <1>1, <1>2, Zenon DEF CampaignRecord

\* A cancellation's answer changes the state, the reservation and the reason only.
LEMMA ResolvedKeeps ==
    ASSUME NEW r \in CampaignRecord, NEW v \in Views, NEW z, z = Resolved(r, v)
    PROVE  /\ z \in CampaignRecord
           /\ z.att = r.att /\ z.rcpt = r.rcpt /\ z.paid = r.paid /\ z.ord = r.ord
           /\ z.oq = r.oq /\ z.psbt = r.psbt /\ z.late = r.late /\ Cancelling(z)
           /\ z.canc = IF r.canc = "none" THEN "derived" ELSE r.canc
           /\ z.st = "cancelled" => z.res = "none" /\ ~MaySent(r) /\ ~r.paid
           /\ z.st # "cancelled" => z.res \in {r.res, "uncertain"}
<1> DEFINE conflict == v.canc = "cancelled_unpaid" /\ (MaySent(r) \/ r.paid)
           st == IF v.canc = "cancelled_unpaid" /\ ~conflict THEN "cancelled"
                 ELSE IF v.canc \in {"refund_review_required", "cost_review_required"}
                 THEN v.canc ELSE "cancellation_pending"
           canc == IF r.canc = "none" THEN "derived" ELSE r.canc
           disputed == r.conflict \/ conflict
           w == [r EXCEPT !.st = st, !.canc = canc, !.conflict = disputed]
<1>1. /\ st \in CancellationStates /\ st \in CampaignStates /\ disputed \in BOOLEAN
      /\ canc \in {"none", "derived", "local", "remote"}
  BY RecordFields DEF CancellationStates, CampaignStates
<1>2. st = "cancelled" => ~MaySent(r) /\ ~r.paid
  OBVIOUS
<1>3. z = IF st = "cancelled" THEN Release(w) ELSE IF conflict /\ ~r.paid THEN Unsettle(w) ELSE w
  BY DEF Resolved
<1> HIDE DEF st, canc, disputed, conflict
<1>4. w \in CampaignRecord
  BY <1>1, Zenon DEF CampaignRecord
<1>5. /\ w.st = st /\ w.canc = canc /\ w.att = r.att /\ w.rcpt = r.rcpt /\ w.paid = r.paid
      /\ w.ord = r.ord /\ w.oq = r.oq /\ w.late = r.late /\ w.psbt = r.psbt /\ w.res = r.res
  BY DEF CampaignRecord
<1> HIDE DEF w
<1>6. /\ Release(w) \in CampaignRecord
      /\ Unsettle(w) \in CampaignRecord
  BY <1>4, ReleaseTyped, UnsettleTyped
<1>7. z \in CampaignRecord
  BY <1>3, <1>4, <1>6
<1>8. z.canc = canc
  BY <1>3, <1>4, <1>5 DEF Release, Unsettle, CampaignRecord
<1> QED
  BY <1>1, <1>2, <1>3, <1>4, <1>5, <1>7, <1>8 DEF Release, Unsettle, Cancelling, CampaignRecord, canc

LEMMA ProducedKeeps ==
    ASSUME NEW r \in CampaignRecord, NEW v \in Views, NEW z, z = Produced(r, v)
    PROVE  /\ z \in CampaignRecord /\ SameAttempt(r, z)
           /\ z.paid = r.paid /\ z.ord = r.ord /\ z.psbt = r.psbt
           /\ Asked(r) => /\ Asked(z) /\ Cancelling(z)
                          /\ z.st = "cancelled" => z.res = "none" /\ ~MaySent(r) /\ ~r.paid
                          /\ z.res \in {r.res, "none", "uncertain"}
                          /\ z.st # "cancelled" => z.res # "none" \/ r.res = "none"
                          /\ z.st # "cancelled" => z.res \in {r.res, "uncertain"}
           /\ ~Asked(r) => /\ ~Asked(z) /\ z.res = r.res /\ z.canc = r.canc
                           /\ \/ z.st = r.st
                              \/ Delivered(v) /\ z.st \in {"completed", "packaging"}
                              \/ v.prod = "failed" /\ z.st = "fulfillment_failed"
<1>1. CASE Asked(r)
  <2>1. z = Resolved(r, v)
    BY <1>1 DEF Produced
  <2> QED
    BY <1>1, <2>1, ResolvedKeeps DEF Asked, SameAttempt
<1>2. ASSUME NEW st \in {"completed", "packaging", "fulfillment_failed"}, z = [r EXCEPT !.st = st], ~Asked(r)
      PROVE  /\ z \in CampaignRecord /\ SameAttempt(r, z) /\ z.st = st /\ ~Asked(z)
             /\ z.paid = r.paid /\ z.ord = r.ord /\ z.psbt = r.psbt
             /\ z.res = r.res /\ z.canc = r.canc
  <2>1. st \in CampaignStates
    BY DEF CampaignStates
  <2>2. z \in CampaignRecord
    BY <1>2, <2>1, Zenon DEF CampaignRecord
  <2> QED
    BY <1>2, <2>2 DEF CampaignRecord, SameAttempt, Asked
<1>3. CASE ~Asked(r)
  <2>1. CASE Delivered(v)
    <3>1. z = [r EXCEPT !.st = IF r.pkg THEN "completed" ELSE "packaging"]
      BY <1>3, <2>1 DEF Produced
    <3> QED
      BY <1>2, <1>3, <2>1, <3>1
  <2>2. CASE ~Delivered(v) /\ v.prod = "failed"
    <3>1. z = [r EXCEPT !.st = "fulfillment_failed"]
      BY <1>3, <2>2 DEF Produced
    <3> QED
      BY <1>2, <1>3, <2>2, <3>1
  <2>3. CASE ~Delivered(v) /\ v.prod # "failed"
    <3>1. z = r
      BY <1>3, <2>3 DEF Produced
    <3> QED
      BY <1>3, <3>1 DEF SameAttempt
  <2> QED
    BY <2>1, <2>2, <2>3
<1> QED
  BY <1>1, <1>3

LEMMA CommittedKeeps ==
    ASSUME NEW r \in CampaignRecord, NEW v \in Views, NEW z, z = Committed(r, v)
    PROVE  /\ z \in CampaignRecord /\ SameAttempt(r, z) /\ z.canc = r.canc
           /\ z.ord = v /\ z.paid /\ z.res = "committed" /\ ~z.psbt
           /\ z.st \in {"packaging", "fulfillment"}
<1> DEFINE st == IF Delivered(v) THEN "packaging" ELSE "fulfillment"
           held == Price + r.fee
           w == [r EXCEPT !.ord = v, !.paid = TRUE, !.res = "committed",
                          !.held = held, !.psbt = FALSE, !.st = st]
<1>1. /\ st \in {"packaging", "fulfillment"} /\ st \in CampaignStates
      /\ held \in 0 .. Price + Allowance /\ v \in Views \cup {NoView}
      /\ "committed" \in Reservations
  BY RecordFields, Amounts DEF CampaignStates, Reservations
<1>2. z = w
  BY DEF Committed
<1> HIDE DEF st, held
<1>3. w \in CampaignRecord
  BY <1>1, Zenon DEF CampaignRecord
<1> QED
  BY <1>1, <1>2, <1>3 DEF CampaignRecord, SameAttempt

LEMMA OriginKeeps ==
    ASSUME NEW r \in CampaignRecord, NEW v \in Views, NEW z, z = OriginUnverified(r, v)
    PROVE  /\ z \in CampaignRecord /\ SameAttempt(r, z)
           /\ z.ord = v /\ z.paid = r.paid /\ z.psbt = r.psbt
           /\ Asked(r) => /\ Asked(z) /\ Cancelling(z)
                          /\ z.st = "cancelled" => z.res = "none" /\ ~MaySent(r) /\ ~r.paid
           /\ ~Asked(r) => z.st = "payment_origin_review_required" /\ z.canc = r.canc
           /\ z.st # "cancelled" => z.res = "uncertain" \/ (r.res = "none" /\ z.res = "none")
<1> DEFINE w == [r EXCEPT !.ord = v]
           y == Suspend(w)
           x == [y EXCEPT !.st = "payment_origin_review_required"]
<1>1. v \in Views \cup {NoView} /\ "payment_origin_review_required" \in CampaignStates
  BY DEF CampaignStates
<1>2. w \in CampaignRecord
  BY <1>1, Zenon DEF CampaignRecord
<1>3. /\ SameAttempt(r, w) /\ w.ord = v /\ w.paid = r.paid /\ w.psbt = r.psbt /\ w.res = r.res
      /\ w.canc = r.canc
  BY DEF CampaignRecord, SameAttempt
<1>4. z = IF Asked(y) THEN Resolved(y, v) ELSE x
  BY DEF OriginUnverified, Asked, Suspend, CampaignRecord
<1> HIDE DEF w
<1>5. y \in CampaignRecord
  BY <1>2, SuspendTyped
<1>6. /\ SameAttempt(r, y) /\ y.ord = v /\ y.paid = r.paid /\ y.psbt = r.psbt /\ y.canc = r.canc
      /\ y.res = "uncertain" \/ (r.res = "none" /\ y.res = "none")
  BY <1>2, <1>3 DEF CampaignRecord, SameAttempt, Suspend
<1> HIDE DEF y
<1>7. x \in CampaignRecord
  BY <1>1, <1>5, Zenon DEF CampaignRecord
<1>8. /\ SameAttempt(y, x) /\ x.ord = y.ord /\ x.paid = y.paid /\ x.psbt = y.psbt /\ x.res = y.res
      /\ x.canc = y.canc /\ x.st = "payment_origin_review_required"
  BY <1>5 DEF CampaignRecord, SameAttempt
<1> HIDE DEF x
<1>9. CASE Asked(r)
  <2>1. z = Resolved(y, v) /\ Asked(y)
    BY <1>4, <1>6, <1>9 DEF Asked
  <2> QED
    BY <1>5, <1>6, <1>9, <2>1, ResolvedKeeps DEF Asked, SameAttempt, MaySent
<1>10. CASE ~Asked(r)
  <2>1. z = x
    BY <1>4, <1>6, <1>10 DEF Asked
  <2> QED
    BY <1>6, <1>7, <1>8, <1>10, <2>1 DEF SameAttempt, Asked
<1> QED
  BY <1>9, <1>10

LEMMA EndedUnpaidKeeps ==
    ASSUME NEW r \in CampaignRecord, NEW v \in Views, NEW z, z = EndedUnpaid(r, v)
    PROVE  /\ z \in CampaignRecord /\ SameAttempt(r, z) /\ z.canc = r.canc
           /\ z.ord = v /\ z.paid = r.paid /\ ~z.psbt
           /\ MaySent(r) => z.st = "payment_uncertain" /\ z.res = "uncertain"
           /\ ~MaySent(r) => z.st = "payment_failed"
<1> DEFINE w == [r EXCEPT !.ord = v, !.psbt = FALSE]
           y == Unsettle(w)
           x == [y EXCEPT !.st = "payment_uncertain", !.conflict = TRUE]
           u == Release(w)
           t == [u EXCEPT !.st = "payment_failed"]
<1>1. /\ v \in Views \cup {NoView} /\ "payment_uncertain" \in CampaignStates
      /\ "payment_failed" \in CampaignStates
  BY DEF CampaignStates
<1>2. w \in CampaignRecord
  BY <1>1, Zenon DEF CampaignRecord
<1>3. SameAttempt(r, w) /\ w.ord = v /\ w.paid = r.paid /\ ~w.psbt /\ w.canc = r.canc
  BY DEF CampaignRecord, SameAttempt
<1>4. z = IF MaySent(r) THEN x ELSE t
  BY DEF EndedUnpaid
<1> HIDE DEF w
<1>5. y \in CampaignRecord /\ u \in CampaignRecord
  BY <1>2, UnsettleTyped, ReleaseTyped
<1>6. /\ SameAttempt(r, y) /\ y.ord = v /\ y.paid = r.paid /\ ~y.psbt /\ y.canc = r.canc
      /\ y.res = "uncertain"
  BY <1>2, <1>3 DEF CampaignRecord, SameAttempt, Unsettle
<1>7. SameAttempt(r, u) /\ u.ord = v /\ u.paid = r.paid /\ ~u.psbt /\ u.canc = r.canc
  BY <1>2, <1>3 DEF CampaignRecord, SameAttempt, Release
<1> HIDE DEF y, u
<1>8. x \in CampaignRecord /\ t \in CampaignRecord
  BY <1>1, <1>5, Zenon DEF CampaignRecord
<1>9. CASE MaySent(r)
  BY <1>4, <1>5, <1>6, <1>8, <1>9 DEF CampaignRecord, SameAttempt
<1>10. CASE ~MaySent(r)
  BY <1>4, <1>5, <1>7, <1>8, <1>10 DEF CampaignRecord, SameAttempt
<1> QED
  BY <1>9, <1>10

LEMMA StillOpenKeeps ==
    ASSUME NEW r \in CampaignRecord, NEW v \in Views, NEW z, z = StillOpen(r, v)
    PROVE  /\ z \in CampaignRecord /\ SameAttempt(r, z) /\ z.canc = r.canc
           /\ z.ord = v /\ z.paid = r.paid /\ z.psbt = r.psbt /\ z.res = r.res
           /\ z.st \in {"payment_uncertain", "awaiting_payment"}
<1> DEFINE st == IF r.st = "payment_uncertain" THEN r.st ELSE "awaiting_payment"
           w == [r EXCEPT !.ord = v, !.st = st]
<1>1. /\ v \in Views \cup {NoView} /\ st \in CampaignStates
      /\ st \in {"payment_uncertain", "awaiting_payment"}
  BY DEF CampaignStates
<1>2. z = w
  BY DEF StillOpen
<1> HIDE DEF st
<1>3. w \in CampaignRecord
  BY <1>1, Zenon DEF CampaignRecord
<1> QED
  BY <1>1, <1>2, <1>3 DEF CampaignRecord, SameAttempt

\* The transaction of syncCampaign.
LEMMA SyncedKeeps ==
    ASSUME NEW r \in CampaignRecord, NEW s, NEW sv, NEW v \in Views, Earned(v),
           Recorded(r, s, sv), Stated(r), r.ord # NoView, sv[r.oq] # NoView,
           NEW z, z = Synced(r, v)
    PROVE  /\ z \in CampaignRecord /\ Recorded(z, s, sv) /\ Stated(z) /\ Follows(r, z)
           /\ z.ord = v
<1>1. r.att \in Attempts
  BY RecordFields
<1>2. CASE Authorized(v) /\ ~HasReceipt(r) /\ ~r.paid
  <2>1. z = OriginUnverified(r, v)
    BY <1>2 DEF Synced
  <2>2. /\ z \in CampaignRecord /\ SameAttempt(r, z)
        /\ z.ord = v /\ z.paid = r.paid /\ z.psbt = r.psbt
        /\ Asked(r) => /\ Asked(z) /\ Cancelling(z)
                       /\ z.st = "cancelled" => z.res = "none" /\ ~MaySent(r) /\ ~r.paid
        /\ ~Asked(r) => z.st = "payment_origin_review_required" /\ z.canc = r.canc
        /\ z.st # "cancelled" => z.res = "uncertain" \/ (r.res = "none" /\ z.res = "none")
    BY <2>1, OriginKeeps
  <2>3. Recorded(z, s, sv)
    BY <1>2, <2>2, NoViewIsNone DEF Recorded, SameAttempt, MaySent, Active
  <2>4. Stated(z)
    BY <1>2, <2>2, NoViewIsNone DEF Stated, SameAttempt, MaySent, Asked, Cancelling, CancellationStates
  <2>5. Follows(r, z)
    BY <2>2, NoViewIsNone DEF Follows, SameAttempt, Asked, Cancelling, CancellationStates
  <2> QED
    BY <2>2, <2>3, <2>4, <2>5
<1>3. CASE Authorized(v) /\ (HasReceipt(r) \/ r.paid)
  <2> DEFINE y == Committed(r, v)
  <2>1. z = Produced(y, v)
    BY <1>3 DEF Synced
  <2>2. /\ y \in CampaignRecord /\ SameAttempt(r, y) /\ y.canc = r.canc
        /\ y.ord = v /\ y.paid /\ y.res = "committed" /\ ~y.psbt
        /\ y.st \in {"packaging", "fulfillment"}
    BY CommittedKeeps
  <2> HIDE DEF y
  <2>3. /\ z \in CampaignRecord /\ SameAttempt(y, z)
        /\ z.paid /\ z.ord = v /\ ~z.psbt
        /\ Asked(y) => Asked(z) /\ Cancelling(z) /\ z.st # "cancelled"
                       /\ z.res \in {"committed", "uncertain"}
        /\ ~Asked(y) => ~Asked(z) /\ z.res = "committed" /\ z.canc = y.canc
                        /\ z.st \in {"packaging", "fulfillment", "completed", "fulfillment_failed"}
    BY <2>1, <2>2, ProducedKeeps
  <2>4. r.att \in {"submitted", "uncertain"} /\ r.rcpt
    BY <1>3 DEF Recorded, HasReceipt, Sunk
  <2>5. Recorded(z, s, sv)
    BY <2>2, <2>3, <2>4, NoViewIsNone DEF Recorded, SameAttempt, MaySent, Sunk, Active
  <2>6. Stated(z)
    BY <2>2, <2>3, <2>4, NoViewIsNone DEF Stated, SameAttempt, MaySent, Asked, Cancelling, CancellationStates
  <2>7. Follows(r, z)
    BY <2>2, <2>3, NoViewIsNone DEF Follows, SameAttempt, Asked, Cancelling, CancellationStates
  <2> QED
    BY <2>3, <2>5, <2>6, <2>7
<1>4. ASSUME NEW y \in CampaignRecord, SameAttempt(r, y), y.canc = r.canc, y.ord = v, y.paid = r.paid,
             y.psbt => r.psbt, ~Authorized(v),
             y.st \in {"payment_uncertain", "awaiting_payment", "payment_failed"},
             y.st = "payment_failed" => ~MaySent(r),
             MaySent(r) => y.res \in {r.res, "uncertain"}, z = Produced(y, v),
             r.paid => y.res \in {r.res, "uncertain"}
      PROVE  /\ z \in CampaignRecord /\ Recorded(z, s, sv) /\ Stated(z) /\ Follows(r, z)
             /\ z.ord = v
  <2>1. v.prod = "idle" /\ ~Delivered(v)
    BY <1>4 DEF Earned, Delivered
  <2>2. /\ z \in CampaignRecord /\ SameAttempt(y, z)
        /\ z.paid = y.paid /\ z.ord = y.ord /\ z.psbt = y.psbt
        /\ Asked(y) => /\ Asked(z) /\ Cancelling(z)
                       /\ z.st = "cancelled" => z.res = "none" /\ ~MaySent(y) /\ ~y.paid
                       /\ z.st # "cancelled" => z.res \in {y.res, "uncertain"}
        /\ ~Asked(y) => ~Asked(z) /\ z.res = y.res /\ z.canc = y.canc /\ z.st = y.st
    BY <1>4, <2>1, ProducedKeeps
  <2>3. Recorded(z, s, sv)
    BY <1>4, <2>2, NoViewIsNone DEF Recorded, SameAttempt, MaySent, Sunk, Active, Asked
  <2>4. Stated(z)
    BY <1>1, <1>4, <2>2, NoViewIsNone DEF Stated, SameAttempt, MaySent, Asked, Cancelling, CancellationStates
  <2>5. Follows(r, z)
    BY <1>4, <2>2, NoViewIsNone DEF Follows, SameAttempt, Asked, Cancelling, CancellationStates
  <2> QED
    BY <1>4, <2>2, <2>3, <2>4, <2>5
<1>5. CASE ~Authorized(v) /\ v.pay = "expired"
  <2>1. z = Produced(EndedUnpaid(r, v), v)
    BY <1>5 DEF Synced
  <2>2. r.paid => MaySent(r)
    BY DEF Recorded, MaySent, Sunk
  <2> QED
    BY <1>4, <1>5, <2>1, <2>2, EndedUnpaidKeeps
<1>6. CASE ~Authorized(v) /\ v.pay # "expired"
  <2>1. z = Produced(StillOpen(r, v), v)
    BY <1>6 DEF Synced
  <2> QED
    BY <1>4, <1>6, <2>1, StillOpenKeeps
<1> QED
  BY <1>2, <1>3, <1>5, <1>6

\* The first transaction of cancelCampaign.
LEMMA CancelledKeeps ==
    ASSUME NEW r \in CampaignRecord, NEW s, NEW sv, Recorded(r, s, sv), Stated(r),
           r.st # "absent", NEW z, z = Cancelled(r)
    PROVE  /\ z \in CampaignRecord /\ Recorded(z, s, sv) /\ Stated(z) /\ Follows(r, z)
           /\ Asked(z) \/ Final(z) \/ z.ord # NoView
<1> DEFINE remote == r.canc = "remote" \/ r.st = "ordering" \/ r.ord # NoView
           st == IF remote THEN "cancellation_pending" ELSE "cancelled"
           canc == IF r.canc # "none" THEN r.canc ELSE IF remote THEN "remote" ELSE "local"
           w == [r EXCEPT !.st = st, !.canc = canc, !.psbt = FALSE]
<1>1. CASE Final(r)
  <2>1. z = r
    BY <1>1 DEF Cancelled
  <2> QED
    BY <1>1, <2>1 DEF Follows, SameAttempt
<1>2. CASE ~Final(r)
  <2>1. /\ st \in {"cancellation_pending", "cancelled"} /\ st \in CampaignStates
        /\ canc \in {"none", "derived", "local", "remote"} /\ canc # "none"
        /\ canc = "derived" => r.canc = "derived"
        /\ st = "cancelled" => ~remote
        /\ r.canc \in {"local", "remote"} => canc = r.canc
    BY RecordFields DEF CampaignStates, CancellationStates
  <2>2. z = IF remote THEN w ELSE Release(w)
    BY <1>2 DEF Cancelled
  <2>3. ~remote => r.att = "none" /\ r.ord = NoView
    BY DEF Recorded
  <2>a. st = "cancelled" => r.att = "none"
    BY <2>1, <2>3
  <2> HIDE DEF st, canc, remote
  <2>4. w \in CampaignRecord
    BY <2>1, Zenon DEF CampaignRecord
  <2>5. /\ SameAttempt(r, w) /\ w.st = st /\ w.canc = canc /\ ~w.psbt
        /\ w.ord = r.ord /\ w.paid = r.paid /\ w.res = r.res
    BY DEF CampaignRecord, SameAttempt
  <2> HIDE DEF w
  <2>6. /\ z \in CampaignRecord
        /\ SameAttempt(r, z) /\ z.st = st /\ z.canc = canc /\ ~z.psbt /\ z.ord = r.ord /\ z.paid = r.paid
        /\ z.res = IF remote THEN r.res ELSE "none"
    <3>1. CASE remote
      BY <2>2, <2>4, <2>5, <3>1
    <3>2. CASE ~remote
      <4>1. z = Release(w) /\ z \in CampaignRecord
        BY <2>2, <2>4, <3>2, ReleaseTyped
      <4>2. z = [w EXCEPT !.res = "none", !.held = 0]
        BY <4>1 DEF Release
      <4>3. /\ z.att = w.att /\ z.rcpt = w.rcpt /\ z.oq = w.oq /\ z.st = w.st /\ z.canc = w.canc
            /\ z.late = w.late
            /\ z.psbt = w.psbt /\ z.ord = w.ord /\ z.paid = w.paid /\ z.res = "none"
        BY <2>4, <4>2 DEF CampaignRecord
      <4> QED
        BY <2>5, <3>2, <4>1, <4>3 DEF SameAttempt
    <3> QED
      BY <3>1, <3>2
  <2>7. Recorded(z, s, sv)
    BY <2>3, <2>6 DEF Recorded, SameAttempt, MaySent, Sunk, Active
  <2>8. Stated(z)
    <3>1. st = "cancelled" => z.res = "none"
      BY <2>1, <2>6
    <3> QED
      BY <2>1, <2>a, <2>6, <3>1 DEF Stated, SameAttempt, MaySent, Asked, Cancelling, CancellationStates
  <2>9. Asked(z) \/ z.ord # NoView
    BY <2>1, <2>6 DEF Asked, Stated
  <2>10. Follows(r, z)
    BY <2>1, <2>6, <2>9 DEF Follows, Asked, SameAttempt
  <2> QED
    BY <2>6, <2>7, <2>8, <2>9, <2>10
<1> QED
  BY <1>1, <1>2

-----------------------------------------------------------------------------
(* What the entries of a call lead to. *)

LEMMA EntryTyped ==
    ASSUME NEW pc \in Steps, NEW q \in 0 .. MaxQuotes
    PROVE  /\ For(pc, q) \in CallRecord /\ For(pc, q).pc = pc /\ For(pc, q).q = q
           /\ For(pc, q).then = "none" /\ For(pc, q).view = NoView
  BY DEF For, CallRecord

LEMMA IdleTyped ==
    /\ Idle \in CallRecord /\ Idle.pc = "idle" /\ Idle.then = "none" /\ Earned(Idle.view)
    /\ AllIdle \in [Procs -> CallRecord]
    /\ \A p \in Procs : AllIdle[p] = Idle
  BY BuyerAssumption, NoViewIsNone DEF Idle, For, CallRecord, Steps, AllIdle

LEMMA QuoteTyped ==
    ASSUME NEW n \in 0 .. MaxQuotes PROVE n # 0 <=> n \in Quotes
  BY BuyerAssumption DEF Quotes

LEMMA SyncEntrySound ==
    ASSUME NEW r \in CampaignRecord, NEW s, NEW sv, Recorded(r, s, sv), NEW e, e = SyncEntry(r)
    PROVE  /\ e \in CallRecord /\ Informed(r, sv, e)
           /\ e.pc \in {"idle", "cancel", "sync"} /\ e.then = "none"
<1>1. r.oq \in 0 .. MaxQuotes /\ 0 \in 0 .. MaxQuotes /\ {"cancel", "sync", "idle"} \subseteq Steps
  BY BuyerAssumption, RecordFields DEF Steps
<1>2. CASE e = For("cancel", 0)
  BY <1>1, <1>2, EntryTyped, NoViewIsNone DEF Informed
<1>3. CASE e = Idle
  BY <1>3, IdleTyped DEF Informed
<1>4. CASE r.ord # NoView /\ e = For("sync", r.oq)
  BY <1>1, <1>4, EntryTyped, NoViewIsNone DEF Informed, Recorded
<1> QED
  BY <1>2, <1>3, <1>4 DEF SyncEntry

LEMMA CancelEntrySound ==
    ASSUME NEW r \in CampaignRecord, NEW s, NEW sv, Recorded(r, s, sv), Stated(r),
           Asked(r) \/ Final(r) \/ r.ord # NoView, NEW e, e = CancelEntry(r)
    PROVE  /\ e \in CallRecord /\ Informed(r, sv, e)
           /\ e.pc \in {"idle", "stop", "reorder"} /\ e.then = "none"
<1>1. r.oq \in 0 .. MaxQuotes /\ r.quote \in 0 .. MaxQuotes /\ {"stop", "reorder"} \subseteq Steps
  BY RecordFields DEF Steps
<1>2. CASE e = Idle
  BY <1>2, IdleTyped DEF Informed
<1>3. CASE r.ord # NoView /\ e = For("stop", r.oq)
  BY <1>1, <1>3, EntryTyped, NoViewIsNone DEF Informed, Recorded
<1>4. CASE /\ r.st \notin {"cancelled", "refund_review_required", "cost_review_required"}
           /\ r.ord = NoView /\ r.quote # 0 /\ e = For("reorder", r.quote)
  <2>1. Asked(r)
    BY <1>4 DEF Final, Stated, Recorded, Sunk
  <2> QED
    BY <1>1, <1>4, <2>1, QuoteTyped, EntryTyped, NoViewIsNone DEF Informed
<1> QED
  BY <1>2, <1>3, <1>4 DEF CancelEntry

LEMMA ExecEntrySound ==
    ASSUME NEW r \in CampaignRecord, NEW s, NEW sv, Recorded(r, s, sv), Stated(r),
           r.st # "submitting_payment", NEW e, e = ExecEntry(r)
    PROVE  /\ e \in CallRecord /\ Informed(r, sv, e) /\ Executing(r, s, e) /\ e.then = "none"
           /\ e.pc \in {"idle", "cancel", "sync", "reserve"}
           /\ e.pc = "reserve" => ~Cancelling(r)
<1>1. /\ r.quote \in 0 .. MaxQuotes /\ 0 \in 0 .. MaxQuotes
      /\ {"cancel", "idle", "reserve"} \subseteq Steps
  BY BuyerAssumption, RecordFields DEF Steps
<1>2. CASE e = For("cancel", 0)
  BY <1>1, <1>2, EntryTyped, NoViewIsNone DEF Informed, Executing, Working, Ordering, Signing, Gating
<1>3. CASE e = Idle
  BY <1>3, IdleTyped DEF Informed, Executing, Working, Ordering, Signing, Gating
<1>4. CASE e = SyncEntry(r)
  BY <1>4, SyncEntrySound DEF Executing, Working, Ordering, Signing, Gating
<1>5. CASE /\ ~Cancelling(r) /\ r.quote # 0
           /\ ~(\/ r.st \in {"completed", "fulfillment", "payment_submitted", "payment_uncertain"}
                \/ r.st = "awaiting_payment" /\ r.att # "none")
           /\ r.st # "payment_origin_review_required"
           /\ r.st \in {"decision_ready", "ordering", "order_failed", "spend_blocked"} \/ r.ord # NoView
           /\ e = For("reserve", r.quote)
  <2>1. ~r.late => r.att # "submitting"
    BY <1>5 DEF Stated, Cancelling
  <2>2. r.st # "absent"
    BY <1>5 DEF Stated
  <2>3. e \in CallRecord /\ e.pc = "reserve" /\ e.q = r.quote /\ e.then = "none" /\ e.view = NoView
    BY <1>1, <1>5, EntryTyped
  <2>4. Informed(r, sv, e)
    BY <1>1, <1>5, <2>3, QuoteTyped, NoViewIsNone DEF Informed
  <2>5. Executing(r, s, e)
    BY <2>1, <2>2, <2>3 DEF Executing, Ordering, Signing, Gating
  <2> QED
    BY <1>5, <2>3, <2>4, <2>5
<1> QED
  BY <1>2, <1>3, <1>4, <1>5 DEF ExecEntry

-----------------------------------------------------------------------------
(* The calls fit the record still when one of them moves on or the record changes. *)

LEMMA ProcsHere == "exec" \in Procs /\ "main" \in Procs
  BY DEF Procs

\* Somebody else than the execution changes the record.
LEMMA RecordFollowed ==
    ASSUME NEW r \in CampaignRecord, NEW z \in CampaignRecord, NEW s, NEW v,
           NEW k \in [Procs -> CallRecord], NEW t, NEW b,
           Called(r, s, v, k, t, b), Follows(r, z)
    PROVE  Called(z, s, v, k, t, b)
<1>1. (MaySent(z) <=> MaySent(r)) /\ (Sunk(z) <=> Sunk(r))
  BY DEF Follows, MaySent, Sunk
<1>2. Executing(z, s, k["exec"])
  BY DEF Called, Executing, Follows, SameAttempt
<1>3. ASSUME NEW p \in Procs PROVE Informed(z, v, k[p]) /\ Alone(z, k, p)
  <2>1. Informed(r, v, k[p]) /\ Alone(r, k, p)
    BY DEF Called
  <2>2. Informed(z, v, k[p])
    BY <2>1 DEF Informed, Follows
  <2>3. Alone(z, k, p)
    BY <2>1 DEF Alone, Follows, SameAttempt
  <2> QED
    BY <2>2, <2>3
<1>4. Submitting(z, k, b)
  BY DEF Called, Submitting, Follows, SameAttempt
<1>5. Interrupted(z, k, b)
  BY <1>1 DEF Called, Interrupted, Marking
<1> QED
  BY <1>2, <1>3, <1>4, <1>5 DEF Called, Follows

\* The Seller has more than it had.
LEMMA SellerFollowed ==
    ASSUME NEW r \in CampaignRecord, NEW s, NEW v, NEW w, NEW k \in [Procs -> CallRecord], NEW t, NEW b,
           Called(r, s, v, k, t, b), \A q \in Quotes : v[q] # NoView => w[q] # NoView
    PROVE  Called(r, s, w, k, t, b)
<1>1. ASSUME NEW p \in Procs PROVE Informed(r, w, k[p])
  BY DEF Called, Informed
<1> QED
  BY <1>1 DEF Called

\* Somebody else than the start that found a submission is about to move.
LEMMA MarkingHere ==
    ASSUME NEW r, NEW s, NEW v, NEW k \in [Procs -> CallRecord], NEW t, NEW b,
           Called(r, s, v, k, t, b), NEW p \in Procs, k[p].pc # "mark",
           ~b \/ k[p].pc # "idle"
    PROVE  Marking(r, k)
<1>1. CASE b /\ \A o \in Procs \ {"main"} : k[o] = Idle
  <2>1. \A o \in Procs \ {"main"} : k[o].pc = "idle"
    BY <1>1, IdleTyped
  <2>2. p = "main"
    BY <1>1, <2>1
  <2> QED
    BY <2>1, <2>2 DEF Marking
<1> QED
  BY <1>1 DEF Called, Interrupted

\* Call p moves on to e and does not begin an evaluation.
LEMMA CallMoves ==
    ASSUME NEW r \in CampaignRecord, NEW s, NEW v, NEW k \in [Procs -> CallRecord], NEW t, NEW b,
           NEW p \in Procs, NEW e \in CallRecord,
           Called(r, s, v, k, t, b), r.st # "absent",
           Informed(r, v, e), e.pc # "evaluate",
           e.pc # "idle" /\ e.then = "requoted" => p = "exec",
           p = "exec" => Executing(r, s, e),
           e.pc \in Working => p = "exec",
           Marking(r, k), p = "exec" => k[p].pc # "submit",
           r.st = "submitting_payment" /\ p = "main" => k[p].pc # "mark",
           e.pc = "mark" => p # "exec" /\ (Sunk(r) \/ k["exec"].pc = "submit")
    PROVE  /\ Called(r, s, v, [k EXCEPT ![p] = e], t, b)
           /\ Marking(r, [k EXCEPT ![p] = e])
<1> DEFINE m == [k EXCEPT ![p] = e]
<1>1. m[p] = e /\ \A o \in Procs \ {p} : m[o] = k[o]
  OBVIOUS
<1> HIDE DEF m
<1>2. Executing(r, s, m["exec"])
  BY <1>1, ProcsHere DEF Called
<1>3. ASSUME NEW o \in Procs PROVE Informed(r, v, m[o])
  BY <1>1 DEF Called
<1>4. Alone(r, m, p)
  BY <1>1 DEF Alone
<1>5. ASSUME NEW o \in Procs, o # p PROVE Alone(r, m, o)
  BY <1>1, <1>5 DEF Called, Alone
<1>6. Submitting(r, m, b)
  BY <1>1, ProcsHere DEF Called, Submitting
<1>a. Marking(r, m)
  BY <1>1, ProcsHere DEF Marking
<1>7. Called(r, s, v, m, t, b) /\ Marking(r, m)
  BY <1>2, <1>3, <1>4, <1>5, <1>6, <1>a DEF Called, Interrupted
<1> QED
  BY <1>7 DEF m

\* The execution at work changes the record and moves on to e.
LEMMA ExecMoves ==
    ASSUME NEW r \in CampaignRecord, NEW z \in CampaignRecord, NEW n, NEW s, NEW v,
           NEW k \in [Procs -> CallRecord], NEW t, NEW b, NEW e \in CallRecord,
           Called(r, n, v, k, t, b), k["exec"].pc \in Working,
           Sunk(r) \/ k["exec"].pc = "submit" => Sunk(z), e.pc # "mark",
           Asked(r) => Asked(z), r.ord # NoView => z.ord # NoView,
           r.paid => z.paid, z.st # "absent",
           z.st = "submitting_payment" => z.att = "submitting" /\ e.pc = "submit",
           Executing(z, s, e), Informed(z, v, e)
    PROVE  Called(z, s, v, [k EXCEPT !["exec"] = e], t, b)
<1> DEFINE m == [k EXCEPT !["exec"] = e]
<1>1. m["exec"] = e /\ \A o \in Procs \ {"exec"} : m[o] = k[o]
  BY ProcsHere
<1> HIDE DEF m
<1>3. ASSUME NEW o \in Procs PROVE Informed(z, v, m[o])
  <2>1. CASE o = "exec"
    BY <1>1, <2>1
  <2>2. CASE o # "exec"
    BY <1>1, <2>2 DEF Called, Informed
  <2> QED
    BY <2>1, <2>2
<1>4. ASSUME NEW o \in Procs PROVE Alone(z, m, o)
  BY <1>1 DEF Called, Alone
<1>5. Submitting(z, m, b)
  BY <1>1 DEF Submitting
<1>a. Interrupted(z, m, b)
  <2>1. Marking(r, k)
    <3>1. k["exec"].pc \notin {"idle", "mark"}
      BY DEF Working, Ordering, Signing, Gating
    <3> QED
      BY <3>1, ProcsHere, MarkingHere
  <2> QED
    BY <1>1, <2>1 DEF Marking, Interrupted
<1>6. Called(z, s, v, m, t, b)
  BY <1>1, <1>3, <1>4, <1>5, <1>a DEF Called
<1> QED
  BY <1>6 DEF m

\* An execution is started or joined.
LEMMA Executed ==
    ASSUME NEW r \in CampaignRecord, NEW s, NEW v, NEW k \in [Procs -> CallRecord], NEW t, NEW b,
           Recorded(r, s, v), Stated(r), Called(r, s, v, k, t, b),
           r.st \notin {"absent", "submitting_payment"}, Marking(r, k)
    PROVE  Execution(k, r) \in [Procs -> CallRecord] /\ Called(r, s, v, Execution(k, r), t, b)
<1> DEFINE e == ExecEntry(r)
<1>1. /\ e \in CallRecord /\ Informed(r, v, e) /\ Executing(r, s, e) /\ e.then = "none"
      /\ e.pc \in {"idle", "cancel", "sync", "reserve"}
      /\ e.pc = "reserve" => ~Cancelling(r)
  BY ExecEntrySound
<1> HIDE DEF e
<1>2. CASE k["exec"] = Idle
  <2>3. Called(r, s, v, [k EXCEPT !["exec"] = e], t, b)
    BY <1>1, <1>2, ProcsHere, IdleTyped, CallMoves
  <2> QED
    BY <1>1, <1>2, <2>3, ProcsHere DEF Execution, e
<1>3. CASE k["exec"] # Idle
  BY <1>3 DEF Execution
<1> QED
  BY <1>2, <1>3

\* An evaluation begins.
LEMMA EvaluationBegins ==
    ASSUME NEW r \in CampaignRecord, NEW s, NEW v, NEW k \in [Procs -> CallRecord], NEW t, NEW b,
           NEW p \in Procs \ {"exec"}, NEW e \in CallRecord,
           Called(r, s, v, k, t, b), r.st \in {"analyzing", "decision_failed"}, Stated(r),
           e.pc = "evaluate", e.then # "requoted", e.view = NoView, Marking(r, k)
    PROVE  Called(r, s, v, [k EXCEPT ![p] = e], t, b)
<1> DEFINE m == [k EXCEPT ![p] = e]
<1>1. m[p] = e /\ \A o \in Procs \ {p} : m[o] = k[o]
  OBVIOUS
<1>2. m["exec"] = k["exec"] /\ "exec" \in Procs
  BY <1>1, ProcsHere
<1> HIDE DEF m
<1>3. Executing(r, s, m["exec"])
  BY <1>2 DEF Called, Executing
<1>4. ASSUME NEW o \in Procs PROVE Informed(r, v, m[o]) /\ Alone(r, m, o)
  <2>1. CASE o = p
    <3>1. Informed(r, v, e)
      BY NoViewIsNone DEF Informed
    <3>2. e.pc \notin Working
      BY DEF Working, Ordering, Signing, Gating
    <3> QED
      BY <1>1, <1>3, <2>1, <3>1, <3>2 DEF Alone
  <2>2. CASE o # p
    BY <1>1, <2>2 DEF Called, Alone
  <2> QED
    BY <2>1, <2>2
<1>5. Submitting(r, m, b)
  BY DEF Submitting
<1>a. Interrupted(r, m, b)
  BY <1>1, <1>2 DEF Interrupted, Marking
<1>6. Called(r, s, v, m, t, b)
  BY <1>3, <1>4, <1>5, <1>a DEF Called
<1> QED
  BY <1>6 DEF m

-----------------------------------------------------------------------------
(* What the invariant says of one campaign, and when a step of it keeps that. *)

PackStates == {"none", "claim", "working"}
Selling == [Quotes -> Views \cup {NoView}]

LEMMA Here ==
    ASSUME IInv, NEW c \in Campaigns
    PROVE  /\ camp[c] \in CampaignRecord /\ sent[c] \in [Quotes -> 0 .. MaxSends]
           /\ sel[c] \in Selling /\ call[c] \in [Procs -> CallRecord] /\ pack[c] \in PackStates
           /\ Recorded(camp[c], sent[c], sel[c]) /\ Stated(camp[c])
           /\ Called(camp[c], sent[c], sel[c], call[c], pack[c], booting)
           /\ camp = [camp EXCEPT ![c] = camp[c]] /\ sent = [sent EXCEPT ![c] = sent[c]]
           /\ sel = [sel EXCEPT ![c] = sel[c]] /\ call = [call EXCEPT ![c] = call[c]]
           /\ pack = [pack EXCEPT ![c] = pack[c]]
  BY DEF IInv, TypeOK, Sound, PackStates, Selling

LEMMA CampaignSteps ==
    ASSUME IInv, NEW c \in Campaigns, NEW r \in CampaignRecord, NEW s \in [Quotes -> 0 .. MaxSends],
           NEW v \in Selling, NEW k \in [Procs -> CallRecord], NEW t \in PackStates,
           camp' = [camp EXCEPT ![c] = r], sent' = [sent EXCEPT ![c] = s],
           sel' = [sel EXCEPT ![c] = v], call' = [call EXCEPT ![c] = k],
           pack' = [pack EXCEPT ![c] = t], ProcessUnchanged,
           Recorded(r, s, v), Stated(r), Called(r, s, v, k, t, booting)
    PROVE  IInv'
<1>1. TypeOK'
  BY DEF IInv, TypeOK, ProcessUnchanged, PackStates, Selling
<1>2. ASSUME NEW d \in Campaigns
      PROVE  Sound(camp'[d], sent'[d], sel'[d], call'[d], pack'[d], booting')
  <2>1. CASE d = c
    <3>1. camp'[d] = r /\ sent'[d] = s /\ sel'[d] = v /\ call'[d] = k /\ pack'[d] = t
      BY <2>1 DEF IInv, TypeOK
    <3> QED
      BY <3>1 DEF Sound, ProcessUnchanged
  <2>2. CASE d # c
    <3>1. /\ camp'[d] = camp[d] /\ sent'[d] = sent[d] /\ sel'[d] = sel[d]
          /\ call'[d] = call[d] /\ pack'[d] = pack[d]
      BY <2>2 DEF IInv, TypeOK
    <3> QED
      BY <3>1 DEF IInv, ProcessUnchanged
  <2> QED
    BY <2>1, <2>2
<1> QED
  BY <1>1, <1>2 DEF IInv

\* A completion that is not at work does not matter to the calls.
LEMMA PackFollowed ==
    ASSUME NEW r, NEW s, NEW v, NEW k, NEW t, NEW b, NEW u, Called(r, s, v, k, t, b),
           u = "working" => r.paid
    PROVE  Called(r, s, v, k, u, b)
  BY DEF Called

LEMMA PackedSound ==
    ASSUME IInv, NEW c \in Campaigns
    PROVE  /\ Packed(c, camp[c]) \in PackStates
           /\ Packed(c, camp[c]) = "working" => camp[c].paid
  BY Here DEF Packed, Completion, PackStates, Called

\* The calls of c change, the rest stays.
LEMMA OnlyCalls ==
    ASSUME IInv, NEW c \in Campaigns, NEW k \in [Procs -> CallRecord], call' = [call EXCEPT ![c] = k],
           UNCHANGED camp, UNCHANGED pack, SellerUnchanged, ProcessUnchanged,
           Called(camp[c], sent[c], sel[c], k, pack[c], booting)
    PROVE  IInv'
<1>1. /\ camp[c] \in CampaignRecord /\ sent[c] \in [Quotes -> 0 .. MaxSends]
      /\ sel[c] \in Selling /\ pack[c] \in PackStates
      /\ Recorded(camp[c], sent[c], sel[c]) /\ Stated(camp[c])
  BY Here
<1>2. /\ camp' = [camp EXCEPT ![c] = camp[c]] /\ sent' = [sent EXCEPT ![c] = sent[c]]
      /\ sel' = [sel EXCEPT ![c] = sel[c]] /\ pack' = [pack EXCEPT ![c] = pack[c]]
  BY Here DEF SellerUnchanged
<1> QED
  BY <1>1, <1>2, CampaignSteps

LEMMA CallsAndPack ==
    ASSUME IInv, NEW c \in Campaigns, NEW k \in [Procs -> CallRecord], call' = [call EXCEPT ![c] = k],
           NEW t \in PackStates, pack' = [pack EXCEPT ![c] = t],
           UNCHANGED camp, SellerUnchanged, ProcessUnchanged,
           Called(camp[c], sent[c], sel[c], k, t, booting)
    PROVE  IInv'
<1>1. /\ camp[c] \in CampaignRecord /\ sent[c] \in [Quotes -> 0 .. MaxSends]
      /\ sel[c] \in Selling /\ Recorded(camp[c], sent[c], sel[c]) /\ Stated(camp[c])
  BY Here
<1>2. /\ camp' = [camp EXCEPT ![c] = camp[c]] /\ sent' = [sent EXCEPT ![c] = sent[c]]
      /\ sel' = [sel EXCEPT ![c] = sel[c]]
  BY Here DEF SellerUnchanged
<1> QED
  BY <1>1, <1>2, CampaignSteps

\* One call of c goes on to e, which begins no evaluation and no work of the execution.
LEMMA OneCallMoves ==
    ASSUME IInv, NEW c \in Campaigns, NEW p \in Procs, NEW e \in CallRecord, Move(c, p, e),
           UNCHANGED camp, UNCHANGED pack, SellerUnchanged, ProcessUnchanged,
           camp[c].st # "absent", Informed(camp[c], sel[c], e),
           e.pc # "evaluate", e.pc \notin Working,
           e.pc # "idle" /\ e.then = "requoted" => p = "exec",
           p = "exec" => call[c][p].pc # "submit",
           call[c][p].pc # "mark", ~booting \/ call[c][p].pc # "idle", e.pc # "mark"
    PROVE  IInv'
<1> DEFINE k == [call[c] EXCEPT ![p] = e]
<1>1. call[c] \in [Procs -> CallRecord] /\ camp[c] \in CampaignRecord
  BY Here
<1>2. k \in [Procs -> CallRecord]
  BY <1>1
<1>3. call' = [call EXCEPT ![c] = k]
  BY Here DEF Move
<1>4. Executing(camp[c], sent[c], e)
  BY DEF Executing, Working, Ordering, Signing, Gating
<1>a. Marking(camp[c], call[c])
  BY <1>1, Here, MarkingHere
<1>5. Called(camp[c], sent[c], sel[c], k, pack[c], booting)
  BY <1>1, <1>4, <1>a, Here, CallMoves
<1> QED
  BY <1>2, <1>3, <1>5, OnlyCalls

\* The record of c changes as by somebody who is not the execution, and a call goes on.
LEMMA RecordAndCall ==
    ASSUME IInv, NEW c \in Campaigns, NEW p \in Procs, NEW e \in CallRecord, NEW r \in CampaignRecord,
           NEW t \in PackStates, Write(c, r), Move(c, p, e), pack' = [pack EXCEPT ![c] = t],
           t = "working" => pack[c] = "working",
           SellerUnchanged, ProcessUnchanged, camp[c].st # "absent",
           Recorded(r, sent[c], sel[c]), Stated(r), Follows(camp[c], r), Informed(r, sel[c], e),
           e.pc # "evaluate", e.pc \notin Working,
           e.pc # "idle" /\ e.then = "requoted" => p = "exec",
           p = "exec" => call[c][p].pc # "submit", call[c][p].pc \notin {"idle", "mark"},
           e.pc # "mark"
    PROVE  IInv'
<1> DEFINE k == [call[c] EXCEPT ![p] = e]
<1>1. call[c] \in [Procs -> CallRecord] /\ camp[c] \in CampaignRecord
  BY Here
<1>2. k \in [Procs -> CallRecord]
  BY <1>1
<1>3. call' = [call EXCEPT ![c] = k] /\ camp' = [camp EXCEPT ![c] = r]
  BY Here DEF Move, Write
<1>4. Executing(r, sent[c], e)
  BY DEF Executing, Working, Ordering, Signing, Gating
<1>5. r.st # "absent"
  BY DEF Follows
<1>6. Called(r, sent[c], sel[c], call[c], pack[c], booting)
  BY <1>1, Here, RecordFollowed
<1>a. Marking(r, call[c])
  BY <1>1, <1>6, MarkingHere
<1>7. Called(r, sent[c], sel[c], k, pack[c], booting)
  BY <1>1, <1>4, <1>5, <1>6, <1>a, CallMoves
<1>8. Called(r, sent[c], sel[c], k, t, booting)
  BY <1>7 DEF Called
<1> QED
  BY <1>2, <1>3, <1>8, Here, CampaignSteps DEF SellerUnchanged

\* A call in flight belongs to a campaign that exists.
LEMMA CallExists ==
    ASSUME IInv, NEW c \in Campaigns, NEW p \in Procs, call[c][p].pc # "idle"
    PROVE  /\ camp[c].st # "absent" /\ Informed(camp[c], sel[c], call[c][p])
           /\ Alone(camp[c], call[c], p) /\ call[c][p] \in CallRecord
  BY Here, IdleTyped DEF Called

-----------------------------------------------------------------------------
(* Requests of clients and the poll timer. *)

LEMMA ServedCall ==
    ASSUME NEW c, NEW p, NEW request, Served(c, p, request)
    PROVE  /\ p \in Clients /\ p \in Procs /\ p # "exec" /\ p # "main" /\ ~booting
           /\ call[c][p] = Idle /\ camp[c].st # "absent"
  BY BuyerAssumption DEF Served, Procs, Exists

\* Calls that the execution's work and an evaluation are not among.
LEMMA Harmless ==
    /\ \A pc \in {"idle", "cancel", "sync", "stop", "reorder", "retry", "mark", "synced",
                  "stopped", "reordered"} : pc # "evaluate" /\ pc \notin Working
    /\ "evaluate" \notin Working
  BY DEF Working, Ordering, Signing, Gating

LEMMA CancelCall ==
    /\ For("cancel", 0) \in CallRecord /\ For("cancel", 0).pc = "cancel"
    /\ For("cancel", 0).then = "none"
    /\ \A r, v : Informed(r, v, For("cancel", 0))
<1>1. "cancel" \in Steps /\ 0 \in 0 .. MaxQuotes
  BY BuyerAssumption DEF Steps
<1> QED
  BY <1>1, EntryTyped, NoViewIsNone DEF Informed

LEMMA IdleCall == \A r, v : Informed(r, v, Idle)
  BY IdleTyped DEF Informed

LEMMA SyncCampaignKeeps ==
    ASSUME IInv, NEW c \in Campaigns, NEW p \in Procs, SyncCampaign(c, p) PROVE IInv'
<1> DEFINE e == SyncEntry(camp[c])
<1>1. p # "exec" /\ call[c][p].pc = "idle" /\ ~booting /\ camp[c].st # "absent"
  BY ServedCall, IdleTyped DEF SyncCampaign
<1>2. /\ e \in CallRecord /\ Informed(camp[c], sel[c], e)
      /\ e.pc \in {"idle", "cancel", "sync"} /\ e.then = "none"
  BY Here, SyncEntrySound
<1>3. Move(c, p, e) /\ UNCHANGED <<camp, pack>> /\ SellerUnchanged /\ ProcessUnchanged
  BY DEF SyncCampaign
<1> HIDE DEF e
<1> QED
  BY <1>1, <1>2, <1>3, Harmless, OneCallMoves

LEMMA PollKeeps ==
    ASSUME IInv, NEW c \in Campaigns, Poll(c) PROVE IInv'
<1> DEFINE e == SyncEntry(camp[c])
<1>1. call[c]["main"].pc = "idle" /\ ~booting /\ camp[c].st # "absent"
  <2>1. camp[c].ord # NoView /\ call[c]["main"] = Idle /\ ~booting
    BY DEF Poll, PollSelects
  <2> QED
    BY <2>1, Here, IdleTyped DEF Stated
<1>2. /\ e \in CallRecord /\ Informed(camp[c], sel[c], e)
      /\ e.pc \in {"idle", "cancel", "sync"} /\ e.then = "none"
  BY Here, SyncEntrySound
<1>3. Move(c, "main", e) /\ UNCHANGED <<camp, pack>> /\ SellerUnchanged /\ ProcessUnchanged
  BY DEF Poll
<1> HIDE DEF e
<1> QED
  BY <1>1, <1>2, <1>3, Harmless, OneCallMoves, ProcsHere

LEMMA CancelCampaignKeeps ==
    ASSUME IInv, NEW c \in Campaigns, NEW p \in Procs, CancelCampaign(c, p) PROVE IInv'
<1>1. p # "exec" /\ call[c][p].pc = "idle" /\ ~booting /\ camp[c].st # "absent"
  BY ServedCall, IdleTyped DEF CancelCampaign
<1>2. Move(c, p, For("cancel", 0)) /\ UNCHANGED <<camp, pack>> /\ SellerUnchanged /\ ProcessUnchanged
  BY DEF CancelCampaign
<1> QED
  BY <1>1, <1>2, CancelCall, Harmless, OneCallMoves

LEMMA RetryFulfillmentKeeps ==
    ASSUME IInv, NEW c \in Campaigns, NEW p \in Procs, RetryFulfillment(c, p) PROVE IInv'
<1> DEFINE d == SyncEntry(camp[c])
           e == [d EXCEPT !.then = "retry"]
<1>1. p # "exec" /\ call[c][p].pc = "idle" /\ ~booting /\ camp[c].st # "absent"
  BY ServedCall, IdleTyped DEF RetryFulfillment
<1>2. d \in CallRecord /\ Informed(camp[c], sel[c], d) /\ d.pc \in {"idle", "cancel", "sync"}
  BY Here, SyncEntrySound
<1>3. Move(c, p, e) /\ UNCHANGED <<camp, pack>> /\ SellerUnchanged /\ ProcessUnchanged
  BY DEF RetryFulfillment
<1> HIDE DEF d
<1>4. e \in CallRecord /\ e.pc = d.pc /\ e.then = "retry" /\ e.q = d.q /\ e.view = d.view
  BY <1>2 DEF CallRecord
<1> HIDE DEF e
<1>5. Informed(camp[c], sel[c], e)
  BY <1>2, <1>4 DEF Informed
<1> QED
  BY <1>1, <1>2, <1>3, <1>4, <1>5, Harmless, OneCallMoves

LEMMA ExecuteCampaignKeeps ==
    ASSUME IInv, NEW c \in Campaigns, ExecuteCampaign(c) PROVE IInv'
<1> DEFINE k == Execution(call[c], camp[c])
           t == Packed(c, camp[c])
<1>1. camp[c].st # "absent" /\ ~booting
  BY DEF ExecuteCampaign, Exists
<1>2. k \in [Procs -> CallRecord] /\ Called(camp[c], sent[c], sel[c], k, pack[c], booting)
  <2>1. CASE camp[c].st = "submitting_payment"
    <3>1. call[c]["exec"].pc = "submit"
      BY <1>1, <2>1, Here DEF Called, Submitting
    <3>2. k = call[c]
      BY <3>1, IdleTyped DEF Execution
    <3> QED
      BY <3>2, Here
  <2>2. CASE camp[c].st # "submitting_payment"
    <3>1. Marking(camp[c], call[c])
      BY <1>1, Here DEF Called, Interrupted
    <3> QED
      BY <1>1, <2>2, <3>1, Here, Executed
  <2> QED
    BY <2>1, <2>2
<1>3. t \in PackStates /\ Called(camp[c], sent[c], sel[c], k, t, booting)
  BY <1>2, PackedSound DEF Called
<1>4. call' = [call EXCEPT ![c] = k] /\ pack' = [pack EXCEPT ![c] = t]
  BY DEF ExecuteCampaign
<1>5. UNCHANGED camp /\ SellerUnchanged /\ ProcessUnchanged
  BY DEF ExecuteCampaign
<1> HIDE DEF k, t
<1> QED
  BY <1>2, <1>3, <1>4, <1>5, CallsAndPack

\* What a resumption leads to, for a campaign that is not found submitting.
LEMMA ResumptionSound ==
    ASSUME NEW r \in CampaignRecord, NEW s, NEW v, NEW k \in [Procs -> CallRecord], NEW t, NEW b,
           Recorded(r, s, v), Stated(r), Called(r, s, v, k, t, b), NEW p \in Procs \ {"exec"},
           r.st \notin {"absent", "submitting_payment"}, Marking(r, k),
           NEW z, z = Resumption(k, p, r)
    PROVE  z \in [Procs -> CallRecord] /\ Called(r, s, v, z, t, b)
<1> DEFINE m == [k EXCEPT ![p] = Idle]
           e == [For("evaluate", 0) EXCEPT !.then = "resume"]
<1>1. m \in [Procs -> CallRecord] /\ Called(r, s, v, m, t, b) /\ Marking(r, m)
  BY IdleTyped, IdleCall, Harmless, CallMoves
<1>2. /\ e \in CallRecord /\ e.pc = "evaluate" /\ e.then = "resume" /\ e.view = NoView
  <2>1. "evaluate" \in Steps /\ 0 \in 0 .. MaxQuotes
    BY BuyerAssumption DEF Steps
  <2>2. /\ For("evaluate", 0) \in CallRecord /\ For("evaluate", 0).pc = "evaluate"
        /\ For("evaluate", 0).view = NoView
    BY <2>1, EntryTyped
  <2> QED
    BY <2>2 DEF CallRecord
<1> HIDE DEF e, m
<1>3. CASE z = m
  BY <1>1, <1>3
<1>4. CASE r.st \in {"analyzing", "decision_failed"} /\ z = [k EXCEPT ![p] = e]
  <2>1. Called(r, s, v, [k EXCEPT ![p] = e], t, b)
    BY <1>2, <1>4, EvaluationBegins
  <2> QED
    BY <1>2, <1>4, <2>1
<1>5. CASE z = [k EXCEPT ![p] = For("cancel", 0)]
  <2> DEFINE d == For("cancel", 0)
  <2>1. d \in CallRecord /\ d.pc = "cancel" /\ d.then = "none" /\ Informed(r, v, d)
    BY CancelCall
  <2>2. z = [k EXCEPT ![p] = d]
    BY <1>5
  <2> HIDE DEF d
  <2>3. Called(r, s, v, [k EXCEPT ![p] = d], t, b)
    BY <2>1, Harmless, CallMoves
  <2> QED
    BY <2>1, <2>2, <2>3
<1>6. CASE z = Execution(m, r)
  BY <1>1, <1>6, Executed
<1> QED
  BY <1>3, <1>4, <1>5, <1>6 DEF Resumption, e, m

\* What a resumption leads to, for a campaign that is found submitting.
LEMMA MarkCall ==
    /\ For("mark", 0) \in CallRecord /\ For("mark", 0).pc = "mark" /\ For("mark", 0).then = "none"
    /\ \A r, v : Informed(r, v, For("mark", 0))
<1>1. "mark" \in Steps /\ 0 \in 0 .. MaxQuotes
  BY BuyerAssumption DEF Steps
<1> QED
  BY <1>1, EntryTyped, NoViewIsNone DEF Informed

LEMMA ResumeCampaignKeeps ==
    ASSUME IInv, NEW c \in Campaigns, NEW p \in Procs, ResumeCampaign(c, p) PROVE IInv'
<1> DEFINE k == Resumption(call[c], p, camp[c])
           t == Packed(c, camp[c])
<1>1. p # "exec" /\ p # "main" /\ call[c][p] = Idle /\ ~booting /\ camp[c].st # "absent"
  BY ServedCall DEF ResumeCampaign
<1>a. Marking(camp[c], call[c])
  BY <1>1, Here DEF Called, Interrupted
<1>3. k \in [Procs -> CallRecord] /\ Called(camp[c], sent[c], sel[c], k, pack[c], booting)
  <2>1. CASE camp[c].st = "submitting_payment"
    <3>1. k = [call[c] EXCEPT ![p] = For("mark", 0)]
      BY <2>1 DEF Resumption
    <3>2. call[c]["exec"].pc = "submit"
      BY <1>1, <2>1, Here DEF Called, Submitting
    <3>3. call[c][p].pc = "idle" /\ call[c] \in [Procs -> CallRecord] /\ camp[c] \in CampaignRecord
      BY <1>1, Here, IdleTyped
    <3>4. /\ Informed(camp[c], sel[c], For("mark", 0)) /\ For("mark", 0).pc # "evaluate"
          /\ For("mark", 0).pc \notin Working
      BY MarkCall, Harmless
    <3>5. Called(camp[c], sent[c], sel[c], [call[c] EXCEPT ![p] = For("mark", 0)], pack[c], booting)
      BY <1>1, <1>a, <3>2, <3>3, <3>4, Here, MarkCall, CallMoves
    <3> QED
      BY <3>1, <3>3, <3>5, MarkCall
  <2>2. CASE camp[c].st # "submitting_payment"
    BY <1>1, <1>a, <2>2, Here, ResumptionSound
  <2> QED
    BY <2>1, <2>2
<1>4. t \in PackStates /\ Called(camp[c], sent[c], sel[c], k, t, booting)
  BY <1>3, PackedSound DEF Called
<1>5. call' = [call EXCEPT ![c] = k] /\ pack' = [pack EXCEPT ![c] = t]
  BY DEF ResumeCampaign
<1>6. UNCHANGED camp /\ SellerUnchanged /\ ProcessUnchanged
  BY DEF ResumeCampaign
<1> HIDE DEF k, t
<1> QED
  BY <1>3, <1>4, <1>5, <1>6, CallsAndPack

LEMMA CreateCampaignKeeps ==
    ASSUME IInv, NEW c \in Campaigns, NEW p \in Procs, CreateCampaign(c, p) PROVE IInv'
<1> DEFINE r == [NoCampaign EXCEPT !.st = "analyzing"]
           e == [For("evaluate", 0) EXCEPT !.then = "create"]
           k == [call[c] EXCEPT ![p] = e]
<1>1. p \in Procs \ {"exec"} /\ camp[c].st = "absent"
  BY BuyerAssumption DEF CreateCampaign, Exists
<1>2. /\ call[c] = AllIdle /\ pack[c] # "working"
      /\ camp[c].att = "none" /\ camp[c].ord = NoView
  BY <1>1, Here DEF Called, Stated, Recorded, Sunk
<1>3. /\ r \in CampaignRecord /\ r.st = "analyzing" /\ r.att = "none" /\ r.ord = NoView
      /\ ~r.paid /\ r.canc = "none" /\ ~r.psbt
  <2>1. 0 \in 0 .. MaxQuotes
    BY BuyerAssumption
  <2>2. /\ r.quote = 0 /\ r.ord = NoView /\ r.oq = 0 /\ r.att = "none" /\ ~r.psbt /\ ~r.rcpt
        /\ r.fee = 0 /\ r.res = "none" /\ r.held = 0 /\ ~r.paid /\ r.canc = "none"
        /\ r.st = "analyzing"
    BY DEF NoCampaign
  <2>3. NoCampaign \in CampaignRecord /\ "analyzing" \in CampaignStates
    BY <2>1, Amounts DEF NoCampaign, CampaignRecord, CampaignStates, Attempts, Reservations
  <2>4. r \in CampaignRecord
    BY <2>3, Zenon DEF CampaignRecord
  <2> QED
    BY <2>2, <2>4
<1>4. e \in CallRecord /\ e.pc = "evaluate" /\ e.then = "create" /\ e.view = NoView
  <2>1. "evaluate" \in Steps /\ 0 \in 0 .. MaxQuotes
    BY BuyerAssumption DEF Steps
  <2>2. /\ For("evaluate", 0) \in CallRecord /\ For("evaluate", 0).pc = "evaluate"
        /\ For("evaluate", 0).view = NoView
    BY <2>1, EntryTyped
  <2> QED
    BY <2>2 DEF CallRecord
<1>5. Write(c, r) /\ Move(c, p, e) /\ UNCHANGED pack /\ SellerUnchanged /\ ProcessUnchanged
  BY DEF CreateCampaign
<1> HIDE DEF r, e
<1>6. Recorded(r, sent[c], sel[c]) /\ Stated(r)
  BY <1>2, <1>3, Here DEF Recorded, Stated, MaySent, Sunk, Asked, Cancelling, CancellationStates
<1>a. Marking(r, call[c])
  BY <1>2, IdleTyped DEF Marking
<1>7. Called(r, sent[c], sel[c], call[c], pack[c], booting)
  <2>1. Executing(r, sent[c], call[c]["exec"])
    BY <1>2, IdleTyped, ProcsHere, Harmless DEF Executing, Ordering, Signing, Gating
  <2>2. ASSUME NEW o \in Procs PROVE Informed(r, sel[c], call[c][o]) /\ Alone(r, call[c], o)
    BY <1>2, IdleTyped, IdleCall, Harmless DEF Alone
  <2> QED
    BY <1>2, <1>3, <1>a, <2>1, <2>2 DEF Called, Submitting, Interrupted
<1>8. Called(r, sent[c], sel[c], k, pack[c], booting)
  BY <1>1, <1>2, <1>3, <1>4, <1>6, <1>7, <1>a, Here, IdleTyped, EvaluationBegins
<1>9. k \in [Procs -> CallRecord]
  BY <1>4, Here
<1>10. call' = [call EXCEPT ![c] = k]
  BY <1>5, Here DEF Move
<1> HIDE DEF k
<1> QED
  BY <1>3, <1>5, <1>6, <1>8, <1>9, <1>10, Here, CampaignSteps DEF SellerUnchanged, Write

-----------------------------------------------------------------------------
(* cancelCampaign, syncCampaign and the completion task. *)

LEMMA RequestCancellationKeeps ==
    ASSUME IInv, NEW c \in Campaigns, NEW p \in Procs, RequestCancellation(c, p) PROVE IInv'
<1> DEFINE r == Cancelled(camp[c])
           e == CancelEntry(r)
<1>1. call[c][p].pc = "cancel" /\ camp[c].st # "absent"
  BY CallExists DEF RequestCancellation, At
<1>2. /\ camp[c] \in CampaignRecord /\ Recorded(camp[c], sent[c], sel[c]) /\ Stated(camp[c])
      /\ pack[c] \in PackStates
  BY Here
<1>3. /\ r \in CampaignRecord /\ Recorded(r, sent[c], sel[c]) /\ Stated(r) /\ Follows(camp[c], r)
      /\ Asked(r) \/ Final(r) \/ r.ord # NoView
  BY <1>1, <1>2, CancelledKeeps
<1>4. Write(c, r) /\ Move(c, p, e) /\ UNCHANGED pack /\ SellerUnchanged /\ ProcessUnchanged
  BY DEF RequestCancellation
<1> HIDE DEF r
<1>5. /\ e \in CallRecord /\ Informed(r, sel[c], e)
      /\ e.pc \in {"idle", "stop", "reorder"} /\ e.then = "none"
  BY <1>3, CancelEntrySound
<1> HIDE DEF e
<1>6. pack' = [pack EXCEPT ![c] = pack[c]]
  BY <1>4, Here
<1>7. e.pc # "evaluate" /\ e.pc \notin Working
  BY <1>5, Harmless
<1> QED
  BY <1>1, <1>2, <1>3, <1>4, <1>5, <1>6, <1>7, RecordAndCall

LEMMA RecordReorderedKeeps ==
    ASSUME IInv, NEW c \in Campaigns, NEW p \in Procs, RecordReordered(c, p) PROVE IInv'
<1> DEFINE r == camp[c]
           k == call[c][p]
           z == [r EXCEPT !.ord = k.view, !.oq = k.q]
<1>1. /\ k.pc = "reordered" /\ r.st # "absent" /\ k \in CallRecord
      /\ k.q \in Quotes /\ k.view # NoView /\ sel[c][k.q] # NoView /\ Asked(r)
  BY CallExists DEF RecordReordered, At, Informed
<1>2. /\ r \in CampaignRecord /\ Recorded(r, sent[c], sel[c]) /\ Stated(r)
      /\ pack[c] \in PackStates /\ pack = [pack EXCEPT ![c] = pack[c]]
  BY Here
<1>3. UNCHANGED pack /\ SellerUnchanged /\ ProcessUnchanged
  BY DEF RecordReordered
<1>4. CASE (r.ord = NoView \/ r.oq = k.q) /\ Write(c, z) /\ Move(c, p, For("cancel", 0))
  <2>1. k.view \in Views /\ k.q \in 0 .. MaxQuotes
    BY <1>1, RecordFields DEF CallRecord
  <2>2. z \in CampaignRecord
    BY <1>2, <2>1, Zenon DEF CampaignRecord
  <2>3. /\ z.ord = k.view /\ z.oq = k.q /\ z.att = r.att /\ z.rcpt = r.rcpt /\ z.paid = r.paid
        /\ z.late = r.late
        /\ z.res = r.res /\ z.st = r.st /\ z.canc = r.canc /\ z.psbt = r.psbt
    BY <1>2 DEF CampaignRecord
  <2> HIDE DEF z, k, r
  <2>4. Recorded(z, sent[c], sel[c])
    BY <1>1, <1>2, <1>4, <2>3 DEF Recorded, MaySent, Sunk, Active
  <2>5. Stated(z)
    BY <1>1, <1>2, <2>3 DEF Stated, MaySent, Sunk, Asked, Cancelling
  <2>6. Follows(r, z)
    BY <1>1, <2>3 DEF Follows, Asked
  <2>7. For("cancel", 0).pc # "evaluate" /\ For("cancel", 0).pc \notin Working
    BY CancelCall, Harmless
  <2> QED
    BY <1>1, <1>2, <1>3, <1>4, <2>2, <2>4, <2>5, <2>6, <2>7, CancelCall, RecordAndCall DEF r, k
<1>5. CASE UNCHANGED camp /\ Move(c, p, Idle)
  BY <1>1, <1>3, <1>5, IdleTyped, IdleCall, Harmless, OneCallMoves
<1> QED
  BY <1>4, <1>5 DEF RecordReordered

LEMMA RecordStoppedKeeps ==
    ASSUME IInv, NEW c \in Campaigns, NEW p \in Procs, RecordStopped(c, p) PROVE IInv'
<1> DEFINE r == camp[c]
           k == call[c][p]
           y == [r EXCEPT !.ord = k.view]
           z == Resolved(y, k.view)
<1>1. /\ k.pc = "stopped" /\ r.st # "absent" /\ k \in CallRecord
      /\ k.view # NoView /\ Earned(k.view) /\ r.ord # NoView
  BY CallExists DEF RecordStopped, At, Informed
<1>2. /\ r \in CampaignRecord /\ Recorded(r, sent[c], sel[c]) /\ Stated(r)
      /\ pack[c] \in PackStates /\ pack = [pack EXCEPT ![c] = pack[c]]
  BY Here
<1>3. UNCHANGED pack /\ SellerUnchanged /\ ProcessUnchanged
  BY DEF RecordStopped
<1>4. CASE Write(c, z) /\ \E e \in {SyncEntry(z), Idle} : Move(c, p, e)
  <2>1. k.view \in Views
    BY <1>1 DEF CallRecord
  <2>2. y \in CampaignRecord
    BY <1>2, <2>1, Zenon DEF CampaignRecord
  <2>3. /\ y.ord = k.view /\ y.oq = r.oq /\ y.att = r.att /\ y.rcpt = r.rcpt /\ y.paid = r.paid
        /\ y.late = r.late
        /\ y.res = r.res /\ y.st = r.st /\ y.canc = r.canc /\ y.psbt = r.psbt
    BY <1>2 DEF CampaignRecord
  <2> HIDE DEF y, k, r
  <2>4. /\ z \in CampaignRecord
        /\ z.att = r.att /\ z.rcpt = r.rcpt /\ z.paid = r.paid /\ z.ord = k.view
        /\ z.oq = r.oq /\ z.late = r.late /\ z.psbt = r.psbt /\ Cancelling(z)
        /\ z.canc = IF r.canc = "none" THEN "derived" ELSE r.canc
        /\ z.st = "cancelled" => z.res = "none" /\ ~MaySent(r) /\ ~r.paid
        /\ z.st # "cancelled" => z.res \in {r.res, "uncertain"}
    BY <2>1, <2>2, <2>3, ResolvedKeeps DEF MaySent
  <2> HIDE DEF z
  <2>5. Recorded(z, sent[c], sel[c])
    BY <1>1, <1>2, <2>4 DEF Recorded, MaySent, Sunk, Active
  <2>6. Stated(z)
    BY <1>1, <1>2, <2>4 DEF Stated, MaySent, Asked, Cancelling, CancellationStates
  <2>7. Follows(r, z)
    BY <1>1, <2>4 DEF Follows, Asked, Cancelling, CancellationStates
  <2>8. PICK e \in {SyncEntry(z), Idle} : Move(c, p, e)
    BY <1>4
  <2>9. /\ e \in CallRecord /\ Informed(z, sel[c], e)
        /\ e.pc \in {"idle", "cancel", "sync"} /\ e.then = "none"
    BY <2>4, <2>5, SyncEntrySound, IdleTyped, IdleCall
  <2>10. e.pc # "evaluate" /\ e.pc \notin Working
    BY <2>9, Harmless
  <2> QED
    BY <1>1, <1>2, <1>3, <1>4, <2>4, <2>5, <2>6, <2>7, <2>8, <2>9, <2>10, RecordAndCall DEF r, k
<1>5. CASE UNCHANGED camp /\ Move(c, p, Idle)
  BY <1>1, <1>3, <1>5, IdleTyped, IdleCall, Harmless, OneCallMoves
<1> QED
  BY <1>4, <1>5 DEF RecordStopped

LEMMA RecordSyncedKeeps ==
    ASSUME IInv, NEW c \in Campaigns, NEW p \in Procs, RecordSynced(c, p) PROVE IInv'
<1> DEFINE r == camp[c]
           k == call[c][p]
           z == Synced(r, k.view)
           t == IF z.st = "packaging" THEN Completion(pack[c], z) ELSE pack[c]
<1>1. /\ k.pc = "synced" /\ r.st # "absent" /\ k \in CallRecord
      /\ k.view # NoView /\ Earned(k.view) /\ r.ord # NoView
  BY CallExists DEF RecordSynced, At, Informed
<1>2. /\ r \in CampaignRecord /\ Recorded(r, sent[c], sel[c]) /\ Stated(r)
      /\ pack[c] \in PackStates /\ pack = [pack EXCEPT ![c] = pack[c]]
  BY Here
<1>3. SellerUnchanged /\ ProcessUnchanged
  BY DEF RecordSynced
<1>4. CASE /\ Write(c, z) /\ pack' = [pack EXCEPT ![c] = t]
           /\ \E e \in {Idle, For("retry", z.oq)} : Move(c, p, e)
  <2>1. k.view \in Views
    BY <1>1 DEF CallRecord
  <2>2. sel[c][r.oq] # NoView
    BY <1>1, <1>2 DEF Recorded
  <2>3. t \in PackStates /\ (t = "working" => pack[c] = "working")
    BY <1>2 DEF Completion, PackStates
  <2> HIDE DEF k, r, t
  <2>4. /\ z \in CampaignRecord /\ Recorded(z, sent[c], sel[c]) /\ Stated(z) /\ Follows(r, z)
        /\ z.ord = k.view
    BY <1>1, <1>2, <2>1, <2>2, SyncedKeeps
  <2> HIDE DEF z
  <2>5. PICK e \in {Idle, For("retry", z.oq)} : Move(c, p, e)
    BY <1>4
  <2>6. /\ e \in CallRecord /\ Informed(z, sel[c], e)
        /\ e.pc \in {"idle", "retry"} /\ e.then = "none"
    <3>1. CASE e = Idle
      BY <3>1, IdleTyped, IdleCall
    <3>2. CASE e = For("retry", z.oq)
      <4>1. "retry" \in Steps /\ z.oq \in 0 .. MaxQuotes
        BY <2>4, RecordFields DEF Steps
      <4>2. z.oq \in Quotes /\ sel[c][z.oq] # NoView /\ z.ord # NoView
        BY <1>1, <2>4 DEF Recorded
      <4> QED
        BY <3>2, <4>1, <4>2, EntryTyped, NoViewIsNone DEF Informed
    <3> QED
      BY <2>5, <3>1, <3>2
  <2>7. e.pc # "evaluate" /\ e.pc \notin Working
    BY <2>6, Harmless
  <2> QED
    BY <1>1, <1>2, <1>3, <1>4, <2>3, <2>4, <2>5, <2>6, <2>7, RecordAndCall DEF r, k
<1>5. CASE UNCHANGED <<camp, pack>> /\ Move(c, p, Idle)
  BY <1>1, <1>3, <1>5, IdleTyped, IdleCall, Harmless, OneCallMoves
<1> QED
  BY <1>4, <1>5 DEF RecordSynced

\* The record of c and its completion change, no call does.
LEMMA RecordAndPack ==
    ASSUME IInv, NEW c \in Campaigns, NEW r \in CampaignRecord, NEW t \in PackStates,
           Write(c, r), pack' = [pack EXCEPT ![c] = t], t = "working" => r.paid,
           UNCHANGED call, SellerUnchanged, ProcessUnchanged,
           Recorded(r, sent[c], sel[c]), Stated(r), Follows(camp[c], r)
    PROVE  IInv'
<1>1. /\ camp[c] \in CampaignRecord /\ call[c] \in [Procs -> CallRecord]
      /\ Called(camp[c], sent[c], sel[c], call[c], pack[c], booting)
      /\ sent[c] \in [Quotes -> 0 .. MaxSends] /\ sel[c] \in Selling
  BY Here
<1>2. Called(r, sent[c], sel[c], call[c], pack[c], booting)
  BY <1>1, RecordFollowed
<1>3. Called(r, sent[c], sel[c], call[c], t, booting)
  BY <1>2, PackFollowed
<1>4. /\ camp' = [camp EXCEPT ![c] = r] /\ call' = [call EXCEPT ![c] = call[c]]
      /\ sent' = [sent EXCEPT ![c] = sent[c]] /\ sel' = [sel EXCEPT ![c] = sel[c]]
  BY Here DEF Write, SellerUnchanged
<1> QED
  BY <1>1, <1>3, <1>4, CampaignSteps

LEMMA ClaimCompletionKeeps ==
    ASSUME IInv, NEW c \in Campaigns, ClaimCompletion(c) PROVE IInv'
<1> DEFINE r == camp[c]
           z == [r EXCEPT !.st = "packaging"]
<1>1. r \in CampaignRecord /\ Recorded(r, sent[c], sel[c]) /\ Stated(r)
  BY Here
<1>2. UNCHANGED call /\ SellerUnchanged /\ ProcessUnchanged
  BY DEF ClaimCompletion
<1>3. CASE Packaging(r) /\ Write(c, z) /\ pack' = [pack EXCEPT ![c] = "working"]
  <2>1. "packaging" \in CampaignStates
    BY DEF CampaignStates
  <2>2. z \in CampaignRecord
    BY <1>1, <2>1, Zenon DEF CampaignRecord
  <2>3. /\ z.ord = r.ord /\ z.oq = r.oq /\ z.att = r.att /\ z.rcpt = r.rcpt /\ z.paid = r.paid
        /\ z.late = r.late
        /\ z.res = r.res /\ z.st = "packaging" /\ z.canc = r.canc /\ z.psbt = r.psbt
    BY <1>1 DEF CampaignRecord
  <2> HIDE DEF r, z
  <2>4. r.paid /\ r.ord # NoView /\ MaySent(r)
    BY <1>1, <1>3 DEF Packaging, Stated, Recorded, MaySent, Sunk
  <2>5. Recorded(z, sent[c], sel[c])
    BY <1>1, <2>3 DEF Recorded, MaySent, Sunk, Active
  <2>6. Stated(z)
    BY <1>1, <2>3, <2>4 DEF Stated, MaySent, Sunk, Asked, Cancelling, Recorded
  <2>7. Follows(r, z)
    BY <2>3, <2>4 DEF Follows, Asked
  <2> QED
    BY <1>2, <1>3, <2>2, <2>3, <2>4, <2>5, <2>6, <2>7, RecordAndPack DEF r, PackStates
<1>4. CASE UNCHANGED camp /\ pack' = [pack EXCEPT ![c] = "none"]
  <2>1. call' = [call EXCEPT ![c] = call[c]] /\ call[c] \in [Procs -> CallRecord]
    BY <1>2, Here
  <2>2. Called(r, sent[c], sel[c], call[c], "none", booting)
    BY Here, PackFollowed
  <2> QED
    BY <1>2, <1>4, <2>1, <2>2, CallsAndPack DEF PackStates
<1> QED
  BY <1>3, <1>4 DEF ClaimCompletion

LEMMA CompletionEndsKeeps ==
    ASSUME IInv, NEW c \in Campaigns, CompletionEnds(c) PROVE IInv'
<1> DEFINE r == camp[c]
<1>1. /\ r \in CampaignRecord /\ Recorded(r, sent[c], sel[c]) /\ Stated(r) /\ r.paid
  BY Here DEF CompletionEnds, Called
<1>2. PICK made \in BOOLEAN : Write(c, [r EXCEPT
             !.pkg = @ \/ made,
             !.st = IF Asked(r) THEN @ ELSE IF made THEN "completed" ELSE "packaging_failed"])
  BY DEF CompletionEnds
<1> DEFINE pkg == r.pkg \/ made
           st == IF Asked(r) THEN r.st ELSE IF made THEN "completed" ELSE "packaging_failed"
           z == [r EXCEPT !.pkg = pkg, !.st = st]
<1>3. Write(c, z)
  BY <1>2
<1>4. st \in CampaignStates /\ pkg \in BOOLEAN
  BY <1>1, RecordFields DEF CampaignStates
<1>5. st = r.st \/ (~Asked(r) /\ st \in {"completed", "packaging_failed"})
  OBVIOUS
<1> HIDE DEF st, pkg
<1>6. z \in CampaignRecord
  BY <1>1, <1>4, Zenon DEF CampaignRecord
<1>7. /\ z.ord = r.ord /\ z.oq = r.oq /\ z.att = r.att /\ z.rcpt = r.rcpt /\ z.paid = r.paid
      /\ z.late = r.late
      /\ z.res = r.res /\ z.st = st /\ z.canc = r.canc /\ z.psbt = r.psbt
  BY <1>1 DEF CampaignRecord
<1>8. UNCHANGED call /\ SellerUnchanged /\ ProcessUnchanged /\ pack' = [pack EXCEPT ![c] = "none"]
  BY DEF CompletionEnds
<1> HIDE DEF r, z
<1>9. r.ord # NoView /\ MaySent(r)
  BY <1>1 DEF Recorded, MaySent, Sunk
<1>10. Recorded(z, sent[c], sel[c])
  BY <1>1, <1>7 DEF Recorded, MaySent, Sunk, Active
<1>11. Stated(z)
  BY <1>1, <1>5, <1>7, <1>9 DEF Stated, MaySent, Sunk, Asked, Cancelling, Recorded
<1>12. Follows(r, z)
  BY <1>5, <1>7, <1>9 DEF Follows, Asked
<1> QED
  BY <1>3, <1>6, <1>8, <1>10, <1>11, <1>12, RecordAndPack DEF r, PackStates

-----------------------------------------------------------------------------
(* An evaluation ends, a submission is marked as interrupted. *)

\* A record may be decided anew whatever its execution is at, as long as the
\* history tells when that was a submission.
LEMMA Decided ==
    ASSUME NEW r \in CampaignRecord, NEW z \in CampaignRecord, NEW s, NEW v,
           NEW k \in [Procs -> CallRecord], NEW t, NEW b, Called(r, s, v, k, t, b),
           Marking(r, k), r.late => z.late,
           z.att = r.att, z.ord = r.ord, z.canc = r.canc, z.paid = r.paid,
           r.st # "absent", z.st \notin {"absent", "submitting_payment"}
    PROVE  Called(z, s, v, k, t, b)
<1>1. Executing(z, s, k["exec"])
  BY DEF Called, Executing, Working, Asked
<1>2. ASSUME NEW o \in Procs PROVE Informed(z, v, k[o]) /\ Alone(z, k, o)
  BY DEF Called, Informed, Alone, MaySent, Asked
<1>3. Marking(z, k)
  BY DEF Marking, Sunk
<1> QED
  BY <1>1, <1>2, <1>3 DEF Called, Submitting, Interrupted

LEMMA EvaluatedKeeps ==
    ASSUME IInv, NEW c \in Campaigns, NEW p \in Procs, Evaluated(c, p) PROVE IInv'
<1> DEFINE r == camp[c]
           k == call[c]
           m == [k EXCEPT ![p] = Idle]
           y == Redecided(r)
<1>1. /\ k[p].pc = "evaluate" /\ r.st # "absent" /\ k[p] \in CallRecord /\ Alone(r, k, p)
  BY CallExists DEF Evaluated, At
<1>2. /\ r \in CampaignRecord /\ Recorded(r, sent[c], sel[c]) /\ Stated(r)
      /\ k \in [Procs -> CallRecord] /\ Called(r, sent[c], sel[c], k, pack[c], booting)
  BY Here
<1>4. PICK ready \in BOOLEAN :
        LET z == IF Cancelling(r) THEN r
                 ELSE IF ready THEN [y EXCEPT !.st = "decision_ready", !.quote = @ + 1]
                 ELSE [y EXCEPT !.st = "decision_failed"]
        IN /\ z.quote <= MaxQuotes /\ Write(c, z)
           /\ call' = [call EXCEPT ![c] = AfterEvaluation(c, p, z)]
  BY DEF Evaluated
<1> DEFINE z == IF Cancelling(r) THEN r
                ELSE IF ready THEN [y EXCEPT !.st = "decision_ready", !.quote = @ + 1]
                ELSE [y EXCEPT !.st = "decision_failed"]
<1>5. z.quote <= MaxQuotes /\ Write(c, z) /\ call' = [call EXCEPT ![c] = AfterEvaluation(c, p, z)]
  BY <1>4
<1>6. UNCHANGED pack /\ SellerUnchanged /\ ProcessUnchanged
  BY DEF Evaluated
<1>a. /\ y \in CampaignRecord /\ y.quote = r.quote
      /\ y.ord = r.ord /\ y.oq = r.oq /\ y.att = r.att /\ y.rcpt = r.rcpt /\ y.paid = r.paid
      /\ y.res = r.res /\ y.canc = r.canc /\ y.psbt = r.psbt
      /\ y.late = (r.late \/ r.att = "submitting")
  <2> DEFINE late == r.late \/ r.att = "submitting"
  <2>1. y = [r EXCEPT !.late = late] /\ late \in BOOLEAN
    BY DEF Redecided
  <2> HIDE DEF late, y, r
  <2>2. y \in CampaignRecord
    BY <1>2, <2>1, Zenon DEF CampaignRecord
  <2> QED
    BY <1>2, <2>1, <2>2 DEF CampaignRecord, late
<1> HIDE DEF y
<1>7. /\ z \in CampaignRecord
      /\ z.ord = r.ord /\ z.oq = r.oq /\ z.att = r.att /\ z.rcpt = r.rcpt /\ z.paid = r.paid
      /\ z.res = r.res /\ z.canc = r.canc /\ z.psbt = r.psbt
      /\ r.late => z.late
      /\ ~z.late => Cancelling(r) \/ r.att # "submitting"
      /\ Cancelling(r) => z.st = r.st
      /\ ~Cancelling(r) => z.st \in {"decision_ready", "decision_failed"}
  <2>1. CASE Cancelling(r)
    <3>1. z = r
      BY <2>1
    <3> HIDE DEF z, r
    <3> QED
      BY <1>2, <2>1, <3>1
  <2>2. CASE ~Cancelling(r) /\ ready
    <3> DEFINE q == r.quote + 1
    <3>1. z = [y EXCEPT !.st = "decision_ready", !.quote = q] /\ "decision_ready" \in CampaignStates
      BY <1>a, <2>2 DEF CampaignStates
    <3>2. r.quote \in Nat
      BY <1>2, RecordFields
    <3>3. z.quote = q
      BY <1>a, <3>1 DEF CampaignRecord
    <3>4. q \in 0 .. MaxQuotes
      BY <1>5, <3>2, <3>3, BuyerAssumption
    <3> HIDE DEF q, z, r
    <3>5. z \in CampaignRecord
      BY <1>a, <3>1, <3>4, Zenon DEF CampaignRecord
    <3> QED
      BY <1>2, <1>a, <2>2, <3>1, <3>5 DEF CampaignRecord
  <2>3. CASE ~Cancelling(r) /\ ~ready
    <3>1. z = [y EXCEPT !.st = "decision_failed"] /\ "decision_failed" \in CampaignStates
      BY <2>3 DEF CampaignStates
    <3> HIDE DEF z, r
    <3>2. z \in CampaignRecord
      BY <1>a, <3>1, Zenon DEF CampaignRecord
    <3> QED
      BY <1>2, <1>a, <2>3, <3>1, <3>2 DEF CampaignRecord
  <2> QED
    BY <2>1, <2>2, <2>3
<1> HIDE DEF z, m
<1>8. m \in [Procs -> CallRecord] /\ m[p] = Idle /\ \A o \in Procs \ {p} : m[o] = k[o]
  BY <1>2, IdleTyped DEF m
<1>9. Called(r, sent[c], sel[c], m, pack[c], booting) /\ Marking(r, m)
  <2>1. k[p].pc # "submit" /\ k[p].pc # "mark" /\ Idle.pc = "idle" /\ Idle.pc \notin Working
    BY <1>1, IdleTyped, Harmless
  <2>2. Marking(r, k)
    BY <1>1, <1>2, MarkingHere
  <2> HIDE DEF r, k
  <2>3. p = "exec" => Executing(r, sent[c], Idle)
    BY IdleTyped, Harmless DEF Executing, Working, Ordering, Signing, Gating
  <2> QED
    BY <1>1, <1>2, <2>1, <2>2, <2>3, IdleTyped, IdleCall, CallMoves DEF m
<1>12. /\ Recorded(z, sent[c], sel[c])
  BY <1>2, <1>7 DEF Recorded, MaySent, Sunk, Active
<1>14. Stated(z)
  BY <1>2, <1>7 DEF Stated, MaySent, Sunk, Asked, Cancelling, CancellationStates, Recorded
<1>15. z.st \notin {"absent", "submitting_payment", "analyzing"}
  BY <1>1, <1>7 DEF Cancelling, CancellationStates
<1>16. Called(z, sent[c], sel[c], m, pack[c], booting) /\ Marking(z, m)
  <2>1. Marking(z, m)
    BY <1>7, <1>9 DEF Marking, Sunk
  <2> QED
    BY <2>1, <1>1, <1>2, <1>7, <1>8, <1>9, <1>15, Decided
<1> DEFINE f == AfterEvaluation(c, p, z)
           ex == ExecEntry(z)
           e == [ex EXCEPT !.then = "requoted"]
<1>17. \/ k[p].then = "requoted" /\ f = [m EXCEPT !["exec"] = e]
       \/ f = Execution(m, z)
       \/ f = [m EXCEPT ![p] = For("cancel", 0)]
       \/ f = m
  BY DEF AfterEvaluation, m
<1>18. f \in [Procs -> CallRecord] /\ Called(z, sent[c], sel[c], f, pack[c], booting)
  <2>1. CASE k[p].then = "requoted" /\ f = [m EXCEPT !["exec"] = e]
    <3>1. /\ ex \in CallRecord /\ Informed(z, sel[c], ex) /\ Executing(z, sent[c], ex)
          /\ ex.pc \in {"idle", "cancel", "sync", "reserve"}
      BY <1>7, <1>12, <1>14, <1>15, ExecEntrySound
    <3> HIDE DEF ex, f
    <3>2. e \in CallRecord /\ e.pc = ex.pc /\ e.q = ex.q /\ e.view = ex.view
      BY <3>1 DEF CallRecord
    <3> HIDE DEF e
    <3>3. Informed(z, sel[c], e) /\ Executing(z, sent[c], e)
      BY <3>1, <3>2 DEF Informed, Executing
    <3>4. e.pc \notin {"evaluate", "mark"}
      BY <3>1, <3>2
    <3>a. p = "exec" /\ m["exec"].pc = "idle"
      BY <1>1, <1>8, <2>1, IdleTyped DEF Alone
    <3>5. Called(z, sent[c], sel[c], [m EXCEPT !["exec"] = e], pack[c], booting)
      BY <1>7, <1>8, <1>15, <1>16, <3>2, <3>3, <3>4, <3>a, ProcsHere, CallMoves
    <3> QED
      BY <1>8, <2>1, <3>2, <3>5
  <2>2. CASE f = Execution(m, z)
    BY <1>7, <1>8, <1>12, <1>14, <1>15, <1>16, <2>2, Executed
  <2>3. CASE f = [m EXCEPT ![p] = For("cancel", 0)]
    <3> DEFINE d == For("cancel", 0)
    <3>1. d \in CallRecord /\ d.pc = "cancel" /\ d.then = "none" /\ Informed(z, sel[c], d)
      BY CancelCall
    <3>2. f = [m EXCEPT ![p] = d]
      BY <2>3
    <3> HIDE DEF d, f
    <3>3. Executing(z, sent[c], d)
      BY <3>1 DEF Executing, Working, Ordering, Signing, Gating
    <3>4. d.pc # "evaluate" /\ d.pc \notin Working
      BY <3>1, Harmless
    <3>5. Called(z, sent[c], sel[c], [m EXCEPT ![p] = d], pack[c], booting)
      BY <1>7, <1>8, <1>15, <1>16, <3>1, <3>3, <3>4, IdleTyped, CallMoves
    <3> QED
      BY <1>8, <3>1, <3>2, <3>5
  <2>4. CASE f = m
    BY <1>8, <1>16, <2>4
  <2> QED
    BY <1>17, <2>1, <2>2, <2>3, <2>4
<1>19. call' = [call EXCEPT ![c] = f]
  BY <1>5
<1> HIDE DEF f, r, k
<1>20. /\ camp' = [camp EXCEPT ![c] = z] /\ pack' = [pack EXCEPT ![c] = pack[c]]
       /\ sent' = [sent EXCEPT ![c] = sent[c]] /\ sel' = [sel EXCEPT ![c] = sel[c]]
       /\ sent[c] \in [Quotes -> 0 .. MaxSends] /\ sel[c] \in Selling /\ pack[c] \in PackStates
  BY <1>5, <1>6, Here DEF Write, SellerUnchanged
<1> QED
  BY <1>6, <1>7, <1>12, <1>14, <1>18, <1>19, <1>20, CampaignSteps

\* Who marks a submission as interrupted found one, and no execution is elsewhere.
LEMMA MarkFindsSent ==
    ASSUME IInv, NEW c \in Campaigns, NEW p \in Procs, call[c][p].pc = "mark"
    PROVE  /\ MaySent(camp[c])
           /\ call[c]["exec"].pc \notin Ordering \cup Signing \cup Gating
<1> DEFINE r == camp[c]
           k == call[c]
<1>1. Executing(r, sent[c], k["exec"]) /\ Interrupted(r, k, booting)
  BY Here DEF Called
<1> HIDE DEF r, k
<1>2. CASE Marking(r, k)
  <2>1. Sunk(r) \/ k["exec"].pc = "submit"
    BY <1>2 DEF Marking, k
  <2>2. "submit" \notin Ordering \cup Signing \cup Gating
    BY DEF Ordering, Signing, Gating
  <2> QED
    BY <1>1, <2>1, <2>2 DEF Executing, Sunk, MaySent, r, k
<1>3. CASE MaySent(r) /\ \A o \in Procs \ {"main"} : k[o] = Idle
  <2>1. k["exec"].pc = "idle"
    BY <1>3, ProcsHere, IdleTyped
  <2> QED
    BY <1>3, <2>1 DEF Ordering, Signing, Gating, r, k
<1> QED
  BY <1>1, <1>2, <1>3 DEF Interrupted

LEMMA MarkInterruptedKeeps ==
    ASSUME IInv, NEW c \in Campaigns, NEW p \in Procs, MarkInterrupted(c, p) PROVE IInv'
<1> DEFINE r == camp[c]
           k == call[c]
           z == [r EXCEPT !.st = "payment_uncertain", !.att = "uncertain"]
           m == [k EXCEPT ![p] = Idle]
           f == Execution(m, z)
<1>1. k[p].pc = "mark" /\ r.st # "absent"
  BY CallExists DEF MarkInterrupted, At
<1>a. MaySent(r) /\ k["exec"].pc \notin Ordering \cup Signing \cup Gating
  BY <1>1, MarkFindsSent
<1>2. /\ r \in CampaignRecord /\ Recorded(r, sent[c], sel[c]) /\ Stated(r)
      /\ k \in [Procs -> CallRecord] /\ Called(r, sent[c], sel[c], k, pack[c], booting)
  BY Here
<1>3. "payment_uncertain" \in CampaignStates /\ "uncertain" \in Attempts
  BY DEF CampaignStates, Attempts
<1>4. z \in CampaignRecord
  BY <1>2, <1>3, Zenon DEF CampaignRecord
<1>5. /\ z.ord = r.ord /\ z.oq = r.oq /\ z.att = "uncertain" /\ z.rcpt = r.rcpt /\ z.paid = r.paid
      /\ z.late = r.late
      /\ z.res = r.res /\ z.st = "payment_uncertain" /\ z.canc = r.canc /\ z.psbt = r.psbt
  BY <1>2 DEF CampaignRecord
<1>6. /\ camp' = [camp EXCEPT ![c] = z] /\ call' = [call EXCEPT ![c] = f]
      /\ UNCHANGED pack /\ SellerUnchanged /\ ProcessUnchanged
  BY DEF MarkInterrupted, Write
<1> HIDE DEF z, r, k
<1>7. Recorded(z, sent[c], sel[c]) /\ Stated(z)
  BY <1>a, <1>2, <1>5 DEF Recorded, Stated, MaySent, Sunk, Active, Asked, Cancelling, CancellationStates
<1>b. Marking(z, k)
  BY <1>5 DEF Marking, Sunk
<1>8. Called(z, sent[c], sel[c], k, pack[c], booting)
  <2>1. Executing(z, sent[c], k["exec"])
    BY <1>a, <1>2, <1>5 DEF Called, Executing, MaySent, Working
  <2>2. ASSUME NEW o \in Procs PROVE Informed(z, sel[c], k[o]) /\ Alone(z, k, o)
    BY <1>1, <1>a, <1>2, <1>5 DEF Called, Informed, Alone, MaySent, Asked
  <2> QED
    BY <1>1, <1>b, <1>2, <1>5, <2>1, <2>2 DEF Called, Submitting, Interrupted
<1>9. Executing(z, sent[c], Idle) /\ Idle.pc = "idle" /\ Idle.pc \notin Working
  BY IdleTyped, Harmless DEF Executing, Working, Ordering, Signing, Gating
<1>10. /\ m \in [Procs -> CallRecord]
       /\ Called(z, sent[c], sel[c], m, pack[c], booting) /\ Marking(z, m)
  BY <1>1, <1>2, <1>4, <1>5, <1>8, <1>9, <1>b, IdleTyped, IdleCall, CallMoves
<1> HIDE DEF m
<1>11. f \in [Procs -> CallRecord] /\ Called(z, sent[c], sel[c], f, pack[c], booting)
  BY <1>4, <1>5, <1>7, <1>10, Executed
<1> HIDE DEF f
<1>12. /\ pack' = [pack EXCEPT ![c] = pack[c]] /\ sent' = [sent EXCEPT ![c] = sent[c]]
       /\ sel' = [sel EXCEPT ![c] = sel[c]] /\ ProcessUnchanged
       /\ sent[c] \in [Quotes -> 0 .. MaxSends] /\ sel[c] \in Selling /\ pack[c] \in PackStates
  BY <1>6, Here DEF SellerUnchanged
<1> QED
  BY <1>4, <1>6, <1>7, <1>11, <1>12, CampaignSteps

-----------------------------------------------------------------------------
(* The execution: reserve, order, sign, pass the gate, submit. *)

\* A step of the execution at work, with the record r it writes and where it goes on.
LEMMA ExecutionMoves ==
    ASSUME IInv, NEW c \in Campaigns, NEW r \in CampaignRecord, NEW e \in CallRecord,
           call[c]["exec"].pc \in Working, Write(c, r), Move(c, "exec", e),
           UNCHANGED pack, SellerUnchanged, ProcessUnchanged,
           Recorded(r, sent[c], sel[c]), Stated(r),
           Sunk(camp[c]) \/ call[c]["exec"].pc = "submit" => Sunk(r), Asked(camp[c]) => Asked(r),
           camp[c].ord # NoView => r.ord # NoView, camp[c].paid => r.paid,
           r.st \notin {"absent", "submitting_payment"},
           e.pc # "mark",
           Executing(r, sent[c], e), Informed(r, sel[c], e)
    PROVE  IInv'
<1> DEFINE k == [call[c] EXCEPT !["exec"] = e]
<1>1. /\ camp[c] \in CampaignRecord /\ call[c] \in [Procs -> CallRecord]
      /\ Called(camp[c], sent[c], sel[c], call[c], pack[c], booting)
      /\ sent[c] \in [Quotes -> 0 .. MaxSends] /\ sel[c] \in Selling /\ pack[c] \in PackStates
  BY Here
<1>2. k \in [Procs -> CallRecord] /\ Called(r, sent[c], sel[c], k, pack[c], booting)
  BY <1>1, ExecMoves
<1>3. /\ camp' = [camp EXCEPT ![c] = r] /\ call' = [call EXCEPT ![c] = k]
      /\ sent' = [sent EXCEPT ![c] = sent[c]] /\ sel' = [sel EXCEPT ![c] = sel[c]]
      /\ pack' = [pack EXCEPT ![c] = pack[c]]
  BY Here DEF Write, Move, SellerUnchanged
<1> HIDE DEF k
<1> QED
  BY <1>1, <1>2, <1>3, CampaignSteps

\* What is known of a campaign whose execution is at work.
LEMMA AtWork ==
    ASSUME IInv, NEW c \in Campaigns, NEW k, k = call[c]["exec"], k.pc \in Working,
           NEW r, r = camp[c]
    PROVE  /\ r \in CampaignRecord /\ Recorded(r, sent[c], sel[c]) /\ Stated(r)
           /\ r.st # "absent"
           /\ k.pc # "submit" => r.st # "submitting_payment"
           /\ k \in CallRecord /\ Executing(r, sent[c], k) /\ Informed(r, sel[c], k)
<1>1. /\ r \in CampaignRecord /\ Recorded(r, sent[c], sel[c]) /\ Stated(r)
      /\ Called(r, sent[c], sel[c], call[c], pack[c], booting) /\ call[c] \in [Procs -> CallRecord]
  BY Here
<1>2. Executing(r, sent[c], k) /\ Informed(r, sel[c], k) /\ k \in CallRecord
  BY <1>1, ProcsHere DEF Called
<1>3. r.st # "absent"
  BY <1>2 DEF Executing
<1>4. k.pc # "submit" => r.st # "submitting_payment"
  <2>1. k.pc \notin {"idle", "mark"}
    BY DEF Working, Ordering, Signing, Gating
  <2>2. Marking(r, call[c])
    BY <1>1, <2>1, ProcsHere, MarkingHere
  <2> QED
    BY <1>1, <2>2, ProcsHere DEF Called, Submitting, Marking, Sunk
<1> QED
  BY <1>1, <1>2, <1>3, <1>4

\* The execution goes on without writing.
LEMMA ExecutionGoesOn ==
    ASSUME IInv, NEW c \in Campaigns, NEW e \in CallRecord,
           call[c]["exec"].pc \in Working \ {"submit"}, Move(c, "exec", e), UNCHANGED camp,
           UNCHANGED pack, SellerUnchanged, ProcessUnchanged,
           Executing(camp[c], sent[c], e), Informed(camp[c], sel[c], e), e.pc \notin {"evaluate", "mark"}
    PROVE  IInv'
<1> DEFINE r == camp[c]
<1>1. /\ r \in CampaignRecord /\ Recorded(r, sent[c], sel[c]) /\ Stated(r)
      /\ r.st \notin {"absent", "submitting_payment"}
  BY AtWork
<1>2. Write(c, r)
  BY Here DEF Write
<1> QED
  BY <1>1, <1>2, ExecutionMoves

LEMMA Quiet ==
    /\ \A r, s : Executing(r, s, Idle) /\ Executing(r, s, For("cancel", 0))
    /\ \A r, v : Informed(r, v, Idle) /\ Informed(r, v, For("cancel", 0))
    /\ Idle \in CallRecord /\ For("cancel", 0) \in CallRecord
    /\ Idle.pc \notin {"evaluate", "mark"} /\ For("cancel", 0).pc \notin {"evaluate", "mark"}
  BY CancelCall, IdleTyped, IdleCall, Harmless DEF Executing, Working, Ordering, Signing, Gating

\* The execution goes on to pc, knowing what it knew.
LEMMA GoesOnTo ==
    ASSUME NEW k \in CallRecord, NEW pc \in Steps, NEW e, e = [k EXCEPT !.pc = pc]
    PROVE  e \in CallRecord /\ e.pc = pc /\ e.q = k.q /\ e.view = k.view /\ e.then = k.then
<1>1. e \in CallRecord
  BY Zenon DEF CallRecord
<1> QED
  BY <1>1 DEF CallRecord

LEMMA OrderedEntrySound ==
    ASSUME NEW r \in CampaignRecord, NEW s, NEW sv, Recorded(r, s, sv), Stated(r),
           r.ord # NoView, ~r.late => r.att # "submitting", NEW q \in Quotes, NEW e, e = OrderedEntry(r, q)
    PROVE  /\ e \in CallRecord /\ Informed(r, sv, e) /\ Executing(r, s, e)
           /\ e.pc \notin {"evaluate", "mark"}
<1>1. q \in 0 .. MaxQuotes /\ {"prepare", "gate"} \subseteq Steps
  BY BuyerAssumption DEF Steps, Quotes
<1>2. r.st # "absent" /\ r.att \in Attempts
  BY RecordFields DEF Stated
<1>3. CASE e \in {Idle, For("cancel", 0)}
  BY <1>3, Quiet
<1>4. CASE e = SyncEntry(r)
  BY <1>4, SyncEntrySound DEF Executing, Working, Ordering, Signing, Gating
<1>5. CASE r.att = "none" /\ e = For("prepare", q)
  BY <1>1, <1>2, <1>5, EntryTyped, NoViewIsNone DEF Informed, Executing, Working, Ordering, Signing, Gating
<1>6. CASE r.att \in {"prepared", "submitting"} /\ e = For("gate", q)
  BY <1>1, <1>2, <1>6, EntryTyped, NoViewIsNone DEF Informed, Executing, Working, Ordering, Signing, Gating
<1> QED
  BY <1>2, <1>3, <1>4, <1>5, <1>6 DEF OrderedEntry, Attempts

\* Before an order is recorded nothing is paid.
LEMMA NothingSent ==
    ASSUME IInv, NEW c \in Campaigns, camp[c].ord = NoView
    PROVE  \A q \in Quotes : sent[c][q] = 0
  BY Here DEF Recorded

LEMMA NotExecutableKeeps ==
    ASSUME IInv, NEW c \in Campaigns, NotExecutable(c) PROVE IInv'
<1>1. call[c]["exec"].pc \in Working \ {"submit"}
  BY DEF NotExecutable, At, Working
<1> QED
  BY <1>1, Quiet, ExecutionGoesOn DEF NotExecutable

LEMMA ReserveSpendKeeps ==
    ASSUME IInv, NEW c \in Campaigns, ReserveSpend(c) PROVE IInv'
<1> DEFINE r == camp[c]
           k == call[c]["exec"]
           held == Price + Allowance
           y == [r EXCEPT !.res = "reserved", !.held = held]
           o == [k EXCEPT !.pc = "order"]
           e == IF r.ord = NoView THEN o ELSE OrderedEntry(r, k.q)
<1>1. k.pc = "reserve" /\ k.pc \in Working \ {"submit"}
  BY DEF ReserveSpend, At, Working
<1>2. /\ r \in CampaignRecord /\ Recorded(r, sent[c], sel[c]) /\ Stated(r)
      /\ r.st \notin {"absent", "submitting_payment"}
      /\ k \in CallRecord /\ Executing(r, sent[c], k) /\ Informed(r, sel[c], k)
  BY <1>1, AtWork
<1>3. UNCHANGED pack /\ SellerUnchanged /\ ProcessUnchanged
  BY DEF ReserveSpend
<1>4. CASE Cancelling(r) /\ Move(c, "exec", For("cancel", 0)) /\ UNCHANGED camp
  BY <1>1, <1>3, <1>4, Quiet, ExecutionGoesOn
<1>5. ASSUME ~Cancelling(r), call' = [call EXCEPT ![c]["exec"] =
                 IF r.ord = NoView THEN [@ EXCEPT !.pc = "order"] ELSE OrderedEntry(r, @.q)]
      PROVE  /\ Move(c, "exec", e) /\ e \in CallRecord /\ e.pc \notin {"evaluate", "mark"}
             /\ Executing(r, sent[c], e) /\ Informed(r, sel[c], e)
  <2>1. "exec" \in DOMAIN call[c] /\ c \in DOMAIN call
    BY ProcsHere DEF IInv, TypeOK
  <2>2. Move(c, "exec", e)
    BY <1>5, <2>1 DEF Move
  <2>3. CASE r.ord = NoView
    <3>1. "order" \in Steps
      BY DEF Steps
    <3>2. o \in CallRecord /\ o.pc = "order" /\ o.q = k.q /\ o.view = k.view /\ e = o
      BY <1>2, <2>3, <3>1, GoesOnTo
    <3>3. r.att = "none" /\ \A q \in Quotes : sent[c][q] = 0
      BY <1>2, <2>3, NothingSent DEF Recorded
    <3> HIDE DEF o, k, r, e
    <3> QED
      BY <1>1, <1>2, <2>2, <2>3, <3>2, <3>3
      DEF Informed, Executing, Working, Ordering, Signing, Gating
  <2>4. CASE r.ord # NoView
    <3>1. (~r.late => r.att # "submitting") /\ k.q \in Quotes
      BY <1>1, <1>2 DEF Executing, Informed
    <3>2. e = OrderedEntry(r, k.q)
      BY <2>4
    <3> HIDE DEF o, k, r, e
    <3> QED
      BY <1>2, <2>2, <2>4, <3>1, <3>2, OrderedEntrySound
  <2> QED
    BY <2>3, <2>4
<1>6. CASE ~Cancelling(r) /\ UNCHANGED camp /\ Move(c, "exec", e) /\ e \in CallRecord
           /\ e.pc \notin {"evaluate", "mark"} /\ Executing(r, sent[c], e) /\ Informed(r, sel[c], e)
  BY <1>1, <1>3, <1>6, ExecutionGoesOn
<1>7. CASE /\ ~Cancelling(r) /\ ~Active(r) /\ ~r.paid /\ Write(c, y) /\ Move(c, "exec", e)
           /\ e \in CallRecord /\ e.pc \notin {"evaluate", "mark"}
           /\ Executing(r, sent[c], e) /\ Informed(r, sel[c], e)
  <2>1. held \in 0 .. Price + Allowance /\ "reserved" \in Reservations
    BY BuyerAssumption DEF Reservations
  <2> HIDE DEF held, e, k
  <2>2. y \in CampaignRecord
    BY <1>2, <2>1, Zenon DEF CampaignRecord
  <2>3. /\ y.ord = r.ord /\ y.oq = r.oq /\ y.att = r.att /\ y.rcpt = r.rcpt /\ y.paid = r.paid
        /\ y.late = r.late
        /\ y.res = "reserved" /\ y.st = r.st /\ y.canc = r.canc /\ y.psbt = r.psbt
    BY <1>2 DEF CampaignRecord
  <2> HIDE DEF y, r
  <2>4. Recorded(y, sent[c], sel[c]) /\ Stated(y)
    BY <1>2, <1>7, <2>3 DEF Recorded, Stated, MaySent, Sunk, Active, Asked, Cancelling, CancellationStates
  <2>5. Executing(y, sent[c], e) /\ Informed(y, sel[c], e)
    BY <1>7, <2>3 DEF Executing, Informed, MaySent, Asked
  <2>6. (Sunk(r) => Sunk(y)) /\ (Asked(r) => Asked(y))
    BY <2>3 DEF Sunk, Asked
  <2> QED
    BY <1>1, <1>2, <1>3, <1>7, <2>2, <2>3, <2>4, <2>5, <2>6, ExecutionMoves DEF r, k
<1> HIDE DEF e, y
<1> QED
  BY <1>4, <1>5, <1>6, <1>7 DEF ReserveSpend, y

LEMMA ReservationRefusedKeeps ==
    ASSUME IInv, NEW c \in Campaigns, ReservationRefused(c) PROVE IInv'
<1> DEFINE r == camp[c]
           k == call[c]["exec"]
           y == [r EXCEPT !.st = "spend_blocked"]
<1>1. k.pc = "reserve" /\ k.pc \in Working \ {"submit"} /\ ~Cancelling(r)
  BY DEF ReservationRefused, At, Working
<1>2. /\ r \in CampaignRecord /\ Recorded(r, sent[c], sel[c]) /\ Stated(r)
      /\ ~r.late => r.att # "submitting"
  BY <1>1, AtWork DEF Executing
<1>3. "spend_blocked" \in CampaignStates
  BY DEF CampaignStates
<1>4. y \in CampaignRecord
  BY <1>2, <1>3, Zenon DEF CampaignRecord
<1>5. /\ y.ord = r.ord /\ y.oq = r.oq /\ y.att = r.att /\ y.rcpt = r.rcpt /\ y.paid = r.paid
      /\ y.late = r.late
      /\ y.res = r.res /\ y.st = "spend_blocked" /\ y.canc = r.canc /\ y.psbt = r.psbt
  BY <1>2 DEF CampaignRecord
<1>6. Write(c, y) /\ Move(c, "exec", Idle) /\ UNCHANGED pack /\ SellerUnchanged /\ ProcessUnchanged
  BY DEF ReservationRefused
<1> HIDE DEF y, r
<1>7. Recorded(y, sent[c], sel[c]) /\ Stated(y)
  BY <1>1, <1>2, <1>5 DEF Recorded, Stated, MaySent, Sunk, Active, Asked, Cancelling, CancellationStates
<1>8. (Sunk(r) => Sunk(y)) /\ (Asked(r) => Asked(y))
  BY <1>5 DEF Sunk, Asked
<1> QED
  BY <1>1, <1>4, <1>5, <1>6, <1>7, <1>8, Quiet, ExecutionMoves DEF r, k

\* An order that has not been recorded yet: nothing is signed or asked for.
LEMMA NotOrdered ==
    ASSUME NEW r \in CampaignRecord, NEW s, NEW sv, Recorded(r, s, sv), Stated(r),
           r.att = "none", ~Cancelling(r)
    PROVE  ~Asked(r) /\ ~MaySent(r) /\ ~Sunk(r) /\ ~r.paid
  BY DEF Recorded, Stated, MaySent, Sunk

LEMMA BeginOrderKeeps ==
    ASSUME IInv, NEW c \in Campaigns, BeginOrder(c) PROVE IInv'
<1> DEFINE r == camp[c]
           k == call[c]["exec"]
           y == [r EXCEPT !.st = "ordering"]
           e == [k EXCEPT !.pc = "create"]
<1>1. k.pc = "order" /\ k.pc \in Working \ {"submit"}
  BY DEF BeginOrder, At, Working, Ordering
<1>2. /\ r \in CampaignRecord /\ Recorded(r, sent[c], sel[c]) /\ Stated(r)
      /\ k \in CallRecord /\ Informed(r, sel[c], k)
      /\ r.att = "none" /\ (r.ord = NoView \/ Asked(r))
      /\ \A q \in Quotes : sent[c][q] = 0
  BY <1>1, AtWork DEF Executing, Ordering
<1>3. UNCHANGED pack /\ SellerUnchanged /\ ProcessUnchanged
  BY DEF BeginOrder
<1>4. CASE Cancelling(r) /\ Move(c, "exec", For("cancel", 0)) /\ UNCHANGED camp
  BY <1>1, <1>3, <1>4, Quiet, ExecutionGoesOn
<1>5. CASE ~Cancelling(r) /\ Write(c, y) /\ call' = [call EXCEPT ![c]["exec"].pc = "create"]
  <2>1. "ordering" \in CampaignStates /\ "create" \in Steps
    BY DEF CampaignStates, Steps
  <2>2. y \in CampaignRecord
    BY <1>2, <2>1, Zenon DEF CampaignRecord
  <2>3. /\ y.ord = r.ord /\ y.oq = r.oq /\ y.att = r.att /\ y.rcpt = r.rcpt /\ y.paid = r.paid
        /\ y.late = r.late
        /\ y.res = r.res /\ y.st = "ordering" /\ y.canc = r.canc /\ y.psbt = r.psbt
    BY <1>2 DEF CampaignRecord
  <2>4. e \in CallRecord /\ e.pc = "create" /\ e.q = k.q /\ e.view = k.view
    BY <1>2, <2>1, GoesOnTo
  <2>5. Move(c, "exec", e)
    BY <1>5 DEF Move
  <2>6. ~Asked(r) /\ ~MaySent(r) /\ ~Sunk(r) /\ ~r.paid
    BY <1>2, <1>5, NotOrdered
  <2> HIDE DEF y, e, r, k
  <2>7. Recorded(y, sent[c], sel[c]) /\ Stated(y)
    BY <1>2, <2>3, <2>6 DEF Recorded, Stated, MaySent, Sunk, Active, Asked, Cancelling, CancellationStates
  <2>8. Executing(y, sent[c], e) /\ Informed(y, sel[c], e)
    BY <1>1, <1>2, <2>3, <2>4, <2>6 DEF Executing, Informed, Ordering, Signing, Gating
  <2> QED
    BY <1>1, <1>3, <1>5, <2>2, <2>3, <2>4, <2>5, <2>6, <2>7, <2>8, ExecutionMoves DEF r, k
<1> QED
  BY <1>4, <1>5 DEF BeginOrder

LEMMA RecordOrderKeeps ==
    ASSUME IInv, NEW c \in Campaigns, RecordOrder(c) PROVE IInv'
<1> DEFINE r == camp[c]
           k == call[c]["exec"]
           d == [r EXCEPT !.ord = k.view, !.oq = k.q]
           z == IF Cancelling(d) THEN d
                ELSE IF Authorized(k.view)
                THEN [d EXCEPT !.st = "payment_origin_review_required", !.res = "uncertain"]
                ELSE [d EXCEPT !.st = "awaiting_payment"]
           e == OrderedEntry(z, k.q)
<1>1. k.pc = "created" /\ k.pc \in Working \ {"submit"}
  BY DEF RecordOrder, At, Working, Ordering
<1>2. /\ r \in CampaignRecord /\ Recorded(r, sent[c], sel[c]) /\ Stated(r)
      /\ r.st \notin {"absent", "submitting_payment"}
      /\ \A q \in Quotes : sent[c][q] = 0
      /\ k \in CallRecord /\ r.att = "none"
      /\ k.q \in Quotes /\ k.view # NoView /\ sel[c][k.q] # NoView
  BY <1>1, AtWork DEF Executing, Ordering, Informed
<1>3. /\ Write(c, z) /\ Move(c, "exec", e)
      /\ UNCHANGED pack /\ SellerUnchanged /\ ProcessUnchanged
  BY DEF RecordOrder
<1>4. k.view \in Views \cup {NoView} /\ k.q \in 0 .. MaxQuotes
  BY <1>2 DEF CallRecord
<1>5. d \in CampaignRecord
  BY <1>2, <1>4, Zenon DEF CampaignRecord
<1>6. /\ d.ord = k.view /\ d.oq = k.q /\ d.att = r.att /\ d.rcpt = r.rcpt /\ d.paid = r.paid
      /\ d.late = r.late
      /\ d.res = r.res /\ d.st = r.st /\ d.canc = r.canc /\ d.psbt = r.psbt
  BY <1>2 DEF CampaignRecord
<1> HIDE DEF d, k, r
<1>7. Recorded(d, sent[c], sel[c]) /\ Stated(d)
  BY <1>2, <1>6 DEF Recorded, Stated, MaySent, Sunk, Active, Asked, Cancelling
<1>8. /\ "payment_origin_review_required" \in CampaignStates /\ "awaiting_payment" \in CampaignStates
      /\ "uncertain" \in Reservations
  BY DEF CampaignStates, Reservations
<1>9. /\ z \in CampaignRecord /\ Recorded(z, sent[c], sel[c]) /\ Stated(z)
      /\ z.ord = k.view /\ z.att = "none" /\ z.canc = r.canc /\ z.paid = r.paid
      /\ z.st \notin {"absent", "submitting_payment"}
  <2>1. CASE Cancelling(d)
    <3>1. z = d
      BY <2>1
    <3> HIDE DEF z
    <3> QED
      BY <1>2, <1>5, <1>6, <1>7, <3>1
  <2>2. CASE ~Cancelling(d)
    <3>1. ~Asked(d) /\ ~MaySent(d) /\ ~Sunk(d) /\ ~d.paid
      BY <1>2, <1>5, <1>6, <1>7, <2>2, NotOrdered
    <3>2. PICK st \in {"payment_origin_review_required", "awaiting_payment"},
               res \in {"uncertain", d.res} : z = [d EXCEPT !.st = st, !.res = res]
      <4>1. CASE Authorized(k.view)
        BY <2>2, <4>1
      <4>2. CASE ~Authorized(k.view)
        <5>1. z = [d EXCEPT !.st = "awaiting_payment"]
          BY <2>2, <4>2
        <5>2. [d EXCEPT !.st = "awaiting_payment"] = [d EXCEPT !.st = "awaiting_payment", !.res = d.res]
          BY <1>5 DEF CampaignRecord
        <5> QED
          BY <5>1, <5>2
      <4> QED
        BY <4>1, <4>2
    <3>3. st \in CampaignStates /\ res \in Reservations
      BY <1>5, <1>8, RecordFields
    <3> HIDE DEF z
    <3>4. z \in CampaignRecord
      BY <1>5, <3>2, <3>3, Zenon DEF CampaignRecord
    <3>5. /\ z.ord = d.ord /\ z.oq = d.oq /\ z.att = d.att /\ z.rcpt = d.rcpt /\ z.paid = d.paid
          /\ z.late = d.late
          /\ z.st = st /\ z.canc = d.canc /\ z.psbt = d.psbt
      BY <1>5, <3>2 DEF CampaignRecord
    <3>6. Recorded(z, sent[c], sel[c]) /\ Stated(z)
      BY <1>2, <1>6, <1>7, <3>1, <3>5 DEF Recorded, Stated, MaySent, Sunk, Active, Asked, Cancelling
    <3> QED
      BY <1>2, <1>6, <3>4, <3>5, <3>6
  <2> QED
    BY <2>1, <2>2
<1> HIDE DEF z
<1>10. /\ e \in CallRecord /\ Informed(z, sel[c], e) /\ Executing(z, sent[c], e)
       /\ e.pc \notin {"evaluate", "mark"}
  BY <1>2, <1>9, OrderedEntrySound
<1> HIDE DEF e
<1>11. ~Sunk(r) /\ (Asked(r) => Asked(z))
  BY <1>2, <1>9 DEF Sunk, Asked
<1> QED
  BY <1>1, <1>2, <1>3, <1>9, <1>10, <1>11, ExecutionMoves DEF r, k

\* A step that closes an order that was not recorded.
LEMMA UnorderedMoves ==
    ASSUME IInv, NEW c \in Campaigns, call[c]["exec"].pc \in Ordering, ~Cancelling(camp[c]),
           NEW y \in CampaignRecord, NEW res \in Reservations, NEW held \in 0 .. Price + Allowance,
           y = [camp[c] EXCEPT !.res = res, !.held = held],
           Write(c, [y EXCEPT !.st = "order_failed"]),
           NEW e \in CallRecord, Move(c, "exec", e), e.pc \in {"idle", "evaluate"}, e.view = NoView,
           UNCHANGED pack, SellerUnchanged, ProcessUnchanged
    PROVE  IInv'
<1> DEFINE r == camp[c]
           k == call[c]["exec"]
           z == [y EXCEPT !.st = "order_failed"]
<1>1. k.pc \in Working \ {"submit"}
  BY DEF Working, Ordering
<1>2. /\ r \in CampaignRecord /\ Recorded(r, sent[c], sel[c]) /\ Stated(r)
      /\ r.att = "none" /\ (r.ord = NoView \/ Asked(r))
  BY <1>1, AtWork DEF Executing
<1>3. ~Asked(r) /\ ~MaySent(r) /\ ~Sunk(r) /\ ~r.paid
  BY <1>2, NotOrdered
<1>4. "order_failed" \in CampaignStates
  BY DEF CampaignStates
<1>5. z \in CampaignRecord
  BY <1>4, Zenon DEF CampaignRecord
<1>6. /\ y.ord = r.ord /\ y.oq = r.oq /\ y.att = r.att /\ y.rcpt = r.rcpt /\ y.paid = r.paid
      /\ y.late = r.late
      /\ y.canc = r.canc /\ y.psbt = r.psbt
  BY <1>2 DEF CampaignRecord
<1>7. /\ z.ord = y.ord /\ z.oq = y.oq /\ z.att = y.att /\ z.rcpt = y.rcpt /\ z.paid = y.paid
      /\ z.late = y.late
      /\ z.st = "order_failed" /\ z.canc = y.canc /\ z.psbt = y.psbt
  BY DEF CampaignRecord
<1>8. Write(c, z)
  OBVIOUS
<1> HIDE DEF r, k, z
<1>9. Recorded(z, sent[c], sel[c]) /\ Stated(z)
  BY <1>2, <1>3, <1>6, <1>7 DEF Recorded, Stated, MaySent, Sunk, Active, Asked, Cancelling, CancellationStates
<1>10. Executing(z, sent[c], e) /\ Informed(z, sel[c], e)
  BY NoViewIsNone DEF Executing, Informed, Working, Ordering, Signing, Gating
<1> QED
  BY <1>1, <1>2, <1>3, <1>5, <1>6, <1>7, <1>8, <1>9, <1>10, ExecutionMoves DEF r, k

LEMMA OrderFailsKeeps ==
    ASSUME IInv, NEW c \in Campaigns, OrderFails(c) PROVE IInv'
<1>1. call[c]["exec"].pc \in Ordering /\ call[c]["exec"].pc \in Working \ {"submit"}
  BY DEF OrderFails, At, Ordering, Working
<1>2. UNCHANGED pack /\ SellerUnchanged /\ ProcessUnchanged /\ Move(c, "exec", Idle)
  BY DEF OrderFails
<1>3. CASE Cancelling(camp[c])
  <2>1. UNCHANGED camp
    BY <1>3, Here DEF OrderFails, Write
  <2> QED
    BY <1>1, <1>2, <2>1, Quiet, ExecutionGoesOn
<1>4. CASE ~Cancelling(camp[c])
  <2> DEFINE y == Suspend(camp[c])
             res == IF camp[c].res = "none" THEN camp[c].res ELSE "uncertain"
  <2>1. Write(c, [y EXCEPT !.st = "order_failed"])
    BY <1>4 DEF OrderFails
  <2>2. camp[c] \in CampaignRecord /\ camp[c].held \in 0 .. Price + Allowance /\ res \in Reservations
    BY Here, RecordFields DEF Reservations
  <2>3. y \in CampaignRecord
    BY <2>2, SuspendTyped
  <2>4. y = [camp[c] EXCEPT !.res = res, !.held = camp[c].held]
    BY <2>2 DEF Suspend, CampaignRecord
  <2> HIDE DEF y, res
  <2> QED
    BY <1>1, <1>2, <1>4, <2>1, <2>2, <2>3, <2>4, IdleTyped, UnorderedMoves DEF Idle, For
<1> QED
  BY <1>3, <1>4

LEMMA QuoteExpiredKeeps ==
    ASSUME IInv, NEW c \in Campaigns, QuoteExpired(c) PROVE IInv'
<1> DEFINE d == [For("evaluate", 0) EXCEPT !.then = "requoted"]
<1>1. call[c]["exec"].pc \in Ordering /\ call[c]["exec"].pc \in Working \ {"submit"}
  BY DEF QuoteExpired, At, Ordering, Working
<1>2. UNCHANGED pack /\ SellerUnchanged /\ ProcessUnchanged
  BY DEF QuoteExpired
<1>3. CASE Cancelling(camp[c])
  <2>1. UNCHANGED camp /\ Move(c, "exec", Idle)
    BY <1>3, Here DEF QuoteExpired, Write
  <2> QED
    BY <1>1, <1>2, <2>1, Quiet, ExecutionGoesOn
<1>4. CASE ~Cancelling(camp[c])
  <2> DEFINE y == Release(camp[c])
  <2>1. Write(c, [y EXCEPT !.st = "order_failed"])
    BY <1>4 DEF QuoteExpired
  <2>2. PICK e \in {Idle, d} : Move(c, "exec", e)
    BY <1>4 DEF QuoteExpired
  <2>3. e \in CallRecord /\ e.pc \in {"idle", "evaluate"} /\ e.view = NoView
    <3>1. "evaluate" \in Steps /\ 0 \in 0 .. MaxQuotes
      BY BuyerAssumption DEF Steps
    <3>2. /\ For("evaluate", 0) \in CallRecord /\ For("evaluate", 0).pc = "evaluate"
          /\ For("evaluate", 0).view = NoView
      BY <3>1, EntryTyped
    <3>3. d \in CallRecord /\ d.pc = "evaluate" /\ d.view = NoView
      BY <3>2 DEF CallRecord
    <3> HIDE DEF d
    <3> QED
      BY <2>2, <3>3, IdleTyped DEF Idle, For
  <2>4. y \in CampaignRecord
    BY Here, ReleaseTyped
  <2>5. y = [camp[c] EXCEPT !.res = "none", !.held = 0] /\ "none" \in Reservations
    BY DEF Release, Reservations
  <2> HIDE DEF y, d
  <2> QED
    BY <1>1, <1>2, <1>4, <2>1, <2>2, <2>3, <2>4, <2>5, Amounts, UnorderedMoves
<1> QED
  BY <1>3, <1>4

LEMMA BeginSigningKeeps ==
    ASSUME IInv, NEW c \in Campaigns, BeginSigning(c) PROVE IInv'
<1> DEFINE r == camp[c]
           k == call[c]["exec"]
           y == [r EXCEPT !.st = "signing"]
           e == [k EXCEPT !.pc = "sign"]
<1>1. k.pc = "prepare" /\ k.pc \in Working \ {"submit"}
  BY DEF BeginSigning, At, Working, Signing
<1>2. /\ r \in CampaignRecord /\ Recorded(r, sent[c], sel[c]) /\ Stated(r)
      /\ k \in CallRecord /\ Informed(r, sel[c], k) /\ r.att = "none" /\ r.ord # NoView
  BY <1>1, AtWork DEF Executing, Signing
<1>3. UNCHANGED pack /\ SellerUnchanged /\ ProcessUnchanged
  BY DEF BeginSigning
<1>4. CASE Cancelling(r) /\ Move(c, "exec", For("cancel", 0)) /\ UNCHANGED camp
  BY <1>1, <1>3, <1>4, Quiet, ExecutionGoesOn
<1>5. CASE ~Cancelling(r) /\ Write(c, y) /\ call' = [call EXCEPT ![c]["exec"].pc = "sign"]
  <2>1. "signing" \in CampaignStates /\ "sign" \in Steps
    BY DEF CampaignStates, Steps
  <2>2. y \in CampaignRecord
    BY <1>2, <2>1, Zenon DEF CampaignRecord
  <2>3. /\ y.ord = r.ord /\ y.oq = r.oq /\ y.att = r.att /\ y.rcpt = r.rcpt /\ y.paid = r.paid
        /\ y.late = r.late
        /\ y.res = r.res /\ y.st = "signing" /\ y.canc = r.canc /\ y.psbt = r.psbt
    BY <1>2 DEF CampaignRecord
  <2>4. e \in CallRecord /\ e.pc = "sign" /\ e.q = k.q /\ e.view = k.view
    BY <1>2, <2>1, GoesOnTo
  <2>5. Move(c, "exec", e)
    BY <1>5 DEF Move
  <2>6. ~Asked(r) /\ ~MaySent(r) /\ ~Sunk(r) /\ ~r.paid
    BY <1>2, <1>5, NotOrdered
  <2> HIDE DEF y, e, r, k
  <2>7. Recorded(y, sent[c], sel[c]) /\ Stated(y)
    BY <1>2, <2>3, <2>6 DEF Recorded, Stated, MaySent, Sunk, Active, Asked, Cancelling, CancellationStates
  <2>8. Executing(y, sent[c], e) /\ Informed(y, sel[c], e)
    BY <1>1, <1>2, <2>3, <2>4, <2>6 DEF Executing, Informed, Ordering, Signing, Gating
  <2> QED
    BY <1>1, <1>3, <1>5, <2>2, <2>3, <2>4, <2>5, <2>6, <2>7, <2>8, ExecutionMoves DEF r, k
<1> QED
  BY <1>4, <1>5 DEF BeginSigning

LEMMA RecordSignedKeeps ==
    ASSUME IInv, NEW c \in Campaigns, RecordSigned(c) PROVE IInv'
<1> DEFINE r == camp[c]
           k == call[c]["exec"]
<1>1. k.pc = "sign" /\ k.pc \in Working \ {"submit"}
  BY DEF RecordSigned, At, Working, Signing
<1>2. /\ r \in CampaignRecord /\ Recorded(r, sent[c], sel[c]) /\ Stated(r)
      /\ r.st \notin {"absent", "submitting_payment"}
      /\ k \in CallRecord /\ r.att = "none" /\ r.ord # NoView
  BY <1>1, AtWork DEF Executing, Signing
<1>3. UNCHANGED pack /\ SellerUnchanged /\ ProcessUnchanged
  BY DEF RecordSigned
<1>4. PICK fee \in 0 .. Allowance :
        LET z == IF Cancelling(r) THEN r
                 ELSE [r EXCEPT !.res = "prepared", !.held = Price + fee,
                          !.fee = fee, !.att = "prepared", !.psbt = TRUE, !.rcpt = FALSE]
        IN Write(c, z) /\ Move(c, "exec", IF Cancelling(z) THEN For("cancel", 0) ELSE For("gate", k.q))
  BY DEF RecordSigned
<1> DEFINE held == Price + fee
           y == [r EXCEPT !.res = "prepared", !.held = held,
                     !.fee = fee, !.att = "prepared", !.psbt = TRUE, !.rcpt = FALSE]
           e == For("gate", k.q)
<1>5. CASE Cancelling(r)
  <2>1. Move(c, "exec", For("cancel", 0)) /\ UNCHANGED camp
    BY <1>4, <1>5, Here DEF Write
  <2> QED
    BY <1>1, <1>3, <2>1, Quiet, ExecutionGoesOn
<1>6. CASE ~Cancelling(r)
  <2>1. /\ "prepared" \in Reservations /\ "prepared" \in Attempts /\ held \in 0 .. Price + Allowance
        /\ "gate" \in Steps /\ k.q \in 0 .. MaxQuotes
    BY <1>2, Amounts DEF Reservations, Attempts, Steps, CallRecord
  <2>2. Write(c, y) /\ Move(c, "exec", IF Cancelling(y) THEN For("cancel", 0) ELSE e)
    BY <1>4, <1>6
  <2> HIDE DEF held, k, r
  <2>3. y \in CampaignRecord
    BY <1>2, <2>1, Zenon DEF CampaignRecord
  <2>4. /\ y.ord = r.ord /\ y.oq = r.oq /\ y.late = r.late /\ y.att = "prepared" /\ y.paid = r.paid
        /\ y.st = r.st /\ y.canc = r.canc
    BY <1>2 DEF CampaignRecord
  <2>5. ~Asked(r) /\ ~MaySent(r) /\ ~Sunk(r) /\ ~r.paid
    BY <1>2, <1>6, NotOrdered
  <2>6. e \in CallRecord /\ e.pc = "gate" /\ e.view = NoView
    BY <2>1, EntryTyped
  <2> HIDE DEF y, e
  <2>7. Move(c, "exec", e)
    BY <1>6, <2>2, <2>4 DEF Cancelling
  <2>8. Recorded(y, sent[c], sel[c]) /\ Stated(y)
    BY <1>2, <1>6, <2>4, <2>5 DEF Recorded, Stated, MaySent, Sunk, Active, Asked, Cancelling,
      CancellationStates
  <2>9. Executing(y, sent[c], e) /\ Informed(y, sel[c], e)
    BY <1>2, <2>4, <2>6, NoViewIsNone DEF Executing, Informed, Ordering, Signing, Gating
  <2> QED
    BY <1>1, <1>2, <1>3, <2>2, <2>3, <2>4, <2>5, <2>6, <2>7, <2>8, <2>9, ExecutionMoves DEF r, k
<1> QED
  BY <1>5, <1>6

LEMMA SigningFailsKeeps ==
    ASSUME IInv, NEW c \in Campaigns, SigningFails(c) PROVE IInv'
<1> DEFINE r == camp[c]
           k == call[c]["exec"]
           y == Release(r)
<1>1. k.pc = "sign" /\ k.pc \in Working \ {"submit"}
  BY DEF SigningFails, At, Working, Signing
<1>2. /\ r \in CampaignRecord /\ Recorded(r, sent[c], sel[c]) /\ Stated(r)
      /\ r.att = "none" /\ r.ord # NoView
  BY <1>1, AtWork DEF Executing, Signing
<1>3. UNCHANGED pack /\ SellerUnchanged /\ ProcessUnchanged /\ Move(c, "exec", Idle)
  BY DEF SigningFails
<1>4. CASE Cancelling(r)
  <2>1. UNCHANGED camp
    BY <1>4, Here DEF SigningFails, Write
  <2> QED
    BY <1>1, <1>3, <2>1, Quiet, ExecutionGoesOn
<1>5. CASE ~Cancelling(r)
  <2>1. PICK st \in {"spend_blocked", "payment_preparation_failed"} :
          Write(c, [y EXCEPT !.st = st])
    BY <1>5 DEF SigningFails
  <2> DEFINE z == [y EXCEPT !.st = st]
  <2>2. st \in CampaignStates /\ y \in CampaignRecord
    BY <1>2, ReleaseTyped DEF CampaignStates
  <2>3. /\ y.ord = r.ord /\ y.oq = r.oq /\ y.att = r.att /\ y.rcpt = r.rcpt /\ y.paid = r.paid
        /\ y.late = r.late
        /\ y.canc = r.canc /\ y.psbt = r.psbt
    BY <1>2 DEF Release, CampaignRecord
  <2> HIDE DEF y
  <2>4. z \in CampaignRecord
    BY <2>2, Zenon DEF CampaignRecord
  <2>5. /\ z.ord = y.ord /\ z.oq = y.oq /\ z.att = y.att /\ z.rcpt = y.rcpt /\ z.paid = y.paid
        /\ z.late = y.late
        /\ z.st = st /\ z.canc = y.canc /\ z.psbt = y.psbt
    BY <2>2 DEF CampaignRecord
  <2>6. ~Asked(r) /\ ~MaySent(r) /\ ~Sunk(r) /\ ~r.paid
    BY <1>2, <1>5, NotOrdered
  <2>a. Write(c, z)
    BY <2>1
  <2> HIDE DEF z, r, k
  <2>7. Recorded(z, sent[c], sel[c]) /\ Stated(z)
    BY <1>2, <2>3, <2>5, <2>6 DEF Recorded, Stated, MaySent, Sunk, Active, Asked, Cancelling,
      CancellationStates
  <2> QED
    BY <1>1, <1>3, <2>a, <2>3, <2>4, <2>5, <2>6, <2>7, Quiet, ExecutionMoves DEF r, k
<1> QED
  BY <1>4, <1>5

\* The submission itself: the only step that counts one more call of the wallet.
LEMMA SubmitKeeps ==
    ASSUME IInv, NEW c \in Campaigns, Submit(c) PROVE IInv'
<1> DEFINE r == camp[c]
           k == call[c]["exec"]
           total == Price + r.fee
           y == [r EXCEPT !.st = "submitting_payment", !.att = "submitting",
                          !.res = "submitting", !.held = total]
           e == [k EXCEPT !.pc = "submit"]
           s == [sent[c] EXCEPT ![r.oq] = @ + 1]
           m == [call[c] EXCEPT !["exec"] = e]
<1>1. k.pc = "gate" /\ k.pc \in Working \ {"submit"}
  BY DEF Submit, At, Working, Gating
<1>2. /\ r \in CampaignRecord /\ Recorded(r, sent[c], sel[c]) /\ Stated(r)
      /\ k \in CallRecord /\ Informed(r, sel[c], k)
      /\ r.att \in {"prepared", "submitting"} /\ (~r.late => r.att = "prepared")
  BY <1>1, AtWork DEF Executing, Gating
<1>3. UNCHANGED <<sel, pack>> /\ ProcessUnchanged
  BY DEF Submit
<1>4. CASE Cancelling(r) /\ Move(c, "exec", For("cancel", 0)) /\ UNCHANGED <<camp, sent>>
  BY <1>1, <1>3, <1>4, Quiet, ExecutionGoesOn DEF SellerUnchanged
<1>5. CASE /\ ~Cancelling(r) /\ sent[c][r.oq] < MaxSends /\ Write(c, y)
           /\ sent' = [sent EXCEPT ![c][r.oq] = @ + 1]
           /\ call' = [call EXCEPT ![c]["exec"].pc = "submit"]
  <2>1. /\ "submitting" \in Reservations /\ "submitting" \in Attempts
        /\ "submitting_payment" \in CampaignStates /\ "submit" \in Steps
        /\ total \in 0 .. Price + Allowance
    BY <1>2, RecordFields, Amounts DEF Reservations, Attempts, CampaignStates, Steps
  <2>2. /\ sent[c] \in [Quotes -> 0 .. MaxSends] /\ sel[c] \in Selling /\ pack[c] \in PackStates
        /\ call[c] \in [Procs -> CallRecord] /\ Called(r, sent[c], sel[c], call[c], pack[c], booting)
        /\ sel' = [sel EXCEPT ![c] = sel[c]] /\ pack' = [pack EXCEPT ![c] = pack[c]]
    BY <1>3, Here
  <2>3. camp' = [camp EXCEPT ![c] = y] /\ sent' = [sent EXCEPT ![c] = s] /\ call' = [call EXCEPT ![c] = m]
    BY <1>5 DEF Write
  <2> HIDE DEF total
  <2>4. y \in CampaignRecord
    BY <1>2, <2>1, Zenon DEF CampaignRecord
  <2>5. /\ y.ord = r.ord /\ y.oq = r.oq /\ y.att = "submitting" /\ y.rcpt = r.rcpt /\ y.paid = r.paid
        /\ y.late = r.late
        /\ y.res = "submitting" /\ y.st = "submitting_payment" /\ y.canc = r.canc /\ y.psbt = r.psbt
    BY <1>2 DEF CampaignRecord
  <2>6. e \in CallRecord /\ e.pc = "submit" /\ e.q = k.q /\ e.view = k.view
    BY <1>2, <2>1, GoesOnTo
  <2> HIDE DEF y, e, r, k
  <2>7. ~Sunk(r) /\ ~r.paid /\ ~Asked(r) /\ r.ord # NoView /\ r.oq \in Quotes
    BY <1>2, <1>5 DEF Recorded, Stated, Sunk
  <2>8. /\ \A q \in Quotes : s[q] = IF q = r.oq THEN sent[c][q] + 1 ELSE sent[c][q]
        /\ \A q \in Quotes : sent[c][q] \in 0 .. MaxSends
    BY <2>2, <2>7
  <2>9. s \in [Quotes -> 0 .. MaxSends]
    BY <1>5, <2>2, <2>7, <2>8, BuyerAssumption DEF r
  <2>a. ~r.late => \A q \in Quotes : sent[c][q] = 0
    BY <1>2 DEF Recorded, MaySent
  <2> HIDE DEF s
  <2>10. Recorded(y, s, sel[c])
    BY <1>2, <2>5, <2>7, <2>8, <2>a DEF Recorded, MaySent, Active
  <2>11. Stated(y)
    BY <1>2, <2>5, <2>7 DEF Stated, MaySent, Sunk, Asked, Cancelling
  <2>12. Executing(y, s, e)
    BY <2>5, <2>6 DEF Executing, Ordering, Signing, Gating
  <2>13. Informed(y, sel[c], e)
    BY <1>1, <1>2, <2>5, <2>6 DEF Informed
  <2>14. ~Asked(r) /\ ~Sunk(r)
    BY <2>7
  <2>15. Called(y, s, sel[c], m, pack[c], booting)
    BY <1>1, <1>2, <2>2, <2>4, <2>5, <2>6, <2>7, <2>12, <2>13, <2>14, ExecMoves DEF k
  <2>16. m \in [Procs -> CallRecord]
    BY <2>2, <2>6
  <2> HIDE DEF m
  <2> QED
    BY <1>3, <2>2, <2>3, <2>4, <2>9, <2>10, <2>11, <2>15, <2>16, CampaignSteps
<1> QED
  BY <1>4, <1>5 DEF Submit

LEMMA GateRefusesKeeps ==
    ASSUME IInv, NEW c \in Campaigns, GateRefuses(c) PROVE IInv'
<1> DEFINE r == camp[c]
           k == call[c]["exec"]
           e == [k EXCEPT !.pc = "blocked"]
<1>1. k.pc = "gate" /\ k.pc \in Working \ {"submit"}
  BY DEF GateRefuses, At, Working, Gating
<1>2. /\ r.st # "absent"
      /\ r.att \in {"prepared", "submitting"} /\ (~r.late => r.att = "prepared")
      /\ k \in CallRecord /\ Informed(r, sel[c], k)
  BY <1>1, AtWork DEF Executing, Gating
<1>3. Move(c, "exec", e) /\ UNCHANGED camp /\ UNCHANGED pack /\ SellerUnchanged /\ ProcessUnchanged
  BY DEF GateRefuses, Move
<1>4. "blocked" \in Steps
  BY DEF Steps
<1>5. e \in CallRecord /\ e.pc = "blocked" /\ e.q = k.q /\ e.view = k.view
  BY <1>2, <1>4, GoesOnTo
<1> HIDE DEF e, k, r
<1>6. Executing(r, sent[c], e) /\ Informed(r, sel[c], e)
  BY <1>2, <1>5 DEF Executing, Informed, Ordering, Signing
<1> QED
  BY <1>1, <1>3, <1>5, <1>6, ExecutionGoesOn DEF r, k

LEMMA DiscardAttemptKeeps ==
    ASSUME IInv, NEW c \in Campaigns, DiscardAttempt(c) PROVE IInv'
<1> DEFINE r == camp[c]
           k == call[c]["exec"]
           y == Release(r)
           z == [y EXCEPT !.st = "spend_blocked", !.psbt = FALSE, !.att = "none", !.fee = 0]
<1>1. k.pc = "blocked" /\ k.pc \in Working \ {"submit"}
  BY DEF DiscardAttempt, At, Working, Gating
<1>2. /\ r \in CampaignRecord /\ Recorded(r, sent[c], sel[c]) /\ Stated(r)
      /\ r.att \in {"prepared", "submitting"} /\ (~r.late => r.att = "prepared")
  BY <1>1, AtWork DEF Executing, Gating
<1>3. UNCHANGED pack /\ SellerUnchanged /\ ProcessUnchanged /\ Move(c, "exec", Idle)
  BY DEF DiscardAttempt
<1>4. CASE Cancelling(r)
  <2>1. UNCHANGED camp
    BY <1>4, Here DEF DiscardAttempt, Write
  <2> QED
    BY <1>1, <1>3, <2>1, Quiet, ExecutionGoesOn
<1>5. CASE ~Cancelling(r)
  <2>1. Write(c, z)
    BY <1>5 DEF DiscardAttempt
  <2>2. /\ "spend_blocked" \in CampaignStates /\ "none" \in Attempts /\ y \in CampaignRecord
        /\ 0 \in 0 .. Allowance
    BY <1>2, ReleaseTyped, Amounts DEF CampaignStates, Attempts
  <2>3. /\ y.ord = r.ord /\ y.oq = r.oq /\ y.rcpt = r.rcpt /\ y.paid = r.paid /\ y.canc = r.canc
        /\ y.late = r.late
    BY <1>2 DEF Release, CampaignRecord
  <2> HIDE DEF y
  <2>4. z \in CampaignRecord
    BY <2>2, Zenon DEF CampaignRecord
  <2>5. /\ z.ord = y.ord /\ z.oq = y.oq /\ z.att = "none" /\ z.rcpt = y.rcpt /\ z.paid = y.paid
        /\ z.late = y.late
        /\ z.st = "spend_blocked" /\ z.canc = y.canc /\ ~z.psbt
    BY <2>2 DEF CampaignRecord
  <2> HIDE DEF z, r, k
  <2>6. ~Asked(r) /\ ~Sunk(r) /\ ~r.paid
    BY <1>2, <1>5 DEF Recorded, Stated, Sunk
  <2>7. Recorded(z, sent[c], sel[c]) /\ Stated(z)
    BY <1>2, <2>3, <2>5, <2>6 DEF Recorded, Stated, MaySent, Sunk, Active, Asked, Cancelling,
      CancellationStates
  <2> QED
    BY <1>1, <1>3, <2>1, <2>3, <2>4, <2>5, <2>6, <2>7, Quiet, ExecutionMoves DEF r, k
<1> QED
  BY <1>4, <1>5

\* What the wallet answered, or that it did not answer: both end in a sync.
LEMMA OutcomeMoves ==
    ASSUME IInv, NEW c \in Campaigns, At(c, "exec", "submit"), NEW z \in CampaignRecord,
           z.ord = camp[c].ord, z.oq = camp[c].oq, z.paid = camp[c].paid, z.canc = camp[c].canc,
           z.late = camp[c].late,
           z.att \in {"submitted", "uncertain"}, z.res = z.att,
           camp[c].rcpt => z.rcpt, z.att = "submitted" => z.rcpt, z.psbt => camp[c].psbt,
           z.st = IF Cancelling(camp[c]) THEN camp[c].st
                  ELSE IF z.att = "submitted" THEN "payment_submitted" ELSE "payment_uncertain",
           Write(c, z), Move(c, "exec", SyncEntry(z)),
           UNCHANGED pack, SellerUnchanged, ProcessUnchanged
    PROVE  IInv'
<1> DEFINE r == camp[c]
           k == call[c]["exec"]
           e == SyncEntry(z)
<1>1. k.pc = "submit" /\ k.pc \in Working
  BY DEF At, Working
<1>2. /\ r \in CampaignRecord /\ Recorded(r, sent[c], sel[c]) /\ Stated(r)
      /\ r.att \in {"submitting", "uncertain"}
  BY <1>1, AtWork DEF Executing
<1> HIDE DEF r, k
<1>3. Recorded(z, sent[c], sel[c])
  BY <1>2 DEF Recorded, MaySent, Sunk, Active, r
<1>4. MaySent(r) /\ Sunk(z) /\ (Asked(r) => Asked(z)) /\ r.st \notin {"cancelled", "payment_failed"}
  BY <1>2 DEF MaySent, Sunk, Asked, Stated, r
<1>5. Stated(z)
  <2>1. CASE Cancelling(r)
    BY <1>2, <1>4, <2>1 DEF Stated, MaySent, Sunk, Asked, Cancelling, CancellationStates, Recorded, r
  <2>2. CASE ~Cancelling(r)
    BY <1>2, <1>4, <2>2 DEF Stated, MaySent, Sunk, Asked, Cancelling, CancellationStates, Recorded, r
  <2> QED
    BY <2>1, <2>2
<1>6. z.st \notin {"absent", "analyzing", "decision_failed", "submitting_payment"}
  BY DEF Cancelling, CancellationStates
<1>7. /\ e \in CallRecord /\ Informed(z, sel[c], e) /\ Executing(z, sent[c], e)
      /\ e.pc \notin {"evaluate", "mark"}
  <2>1. /\ e \in CallRecord /\ Informed(z, sel[c], e) /\ e.pc \in {"idle", "cancel", "sync"}
    BY <1>3, SyncEntrySound
  <2> HIDE DEF e
  <2> QED
    BY <2>1 DEF Executing, Working, Ordering, Signing, Gating
<1> HIDE DEF e
<1> QED
  BY <1>1, <1>3, <1>4, <1>5, <1>6, <1>7, ExecutionMoves DEF r, k, e

LEMMA RecordReceiptKeeps ==
    ASSUME IInv, NEW c \in Campaigns, RecordReceipt(c) PROVE IInv'
<1> DEFINE r == camp[c]
           st == IF Cancelling(r) THEN r.st ELSE "payment_submitted"
           y == [r EXCEPT !.att = "submitted", !.res = "submitted", !.st = st]
           z == [y EXCEPT !.rcpt = TRUE, !.psbt = FALSE]
<1>1. r \in CampaignRecord
  BY Here
<1>2. /\ st \in CampaignStates /\ "submitted" \in Attempts /\ "submitted" \in Reservations
  BY <1>1, RecordFields DEF CampaignStates, Attempts, Reservations
<1>3. Outcome(r, "submitted", "payment_submitted") = y
  BY DEF Outcome
<1>4. /\ At(c, "exec", "submit") /\ Write(c, z) /\ Move(c, "exec", SyncEntry(z))
      /\ UNCHANGED pack /\ SellerUnchanged /\ ProcessUnchanged
  BY <1>3 DEF RecordReceipt
<1>a. st = IF Cancelling(r) THEN r.st ELSE "payment_submitted"
  OBVIOUS
<1> HIDE DEF st
<1>5. y \in CampaignRecord
  BY <1>1, <1>2, Zenon DEF CampaignRecord
<1>6. /\ y.ord = r.ord /\ y.oq = r.oq /\ y.late = r.late /\ y.att = "submitted" /\ y.paid = r.paid
      /\ y.res = "submitted" /\ y.st = st /\ y.canc = r.canc
  BY <1>1 DEF CampaignRecord
<1> HIDE DEF y
<1>7. z \in CampaignRecord
  BY <1>5, Zenon DEF CampaignRecord
<1>8. /\ z.ord = y.ord /\ z.oq = y.oq /\ z.late = y.late /\ z.att = y.att /\ z.paid = y.paid
      /\ z.res = y.res /\ z.st = y.st /\ z.canc = y.canc /\ z.rcpt /\ ~z.psbt
  BY <1>5 DEF CampaignRecord
<1> HIDE DEF z
<1> QED
  BY <1>a, <1>4, <1>6, <1>7, <1>8, OutcomeMoves

LEMMA SubmissionUncertainKeeps ==
    ASSUME IInv, NEW c \in Campaigns, SubmissionUncertain(c) PROVE IInv'
<1> DEFINE r == camp[c]
           st == IF Cancelling(r) THEN r.st ELSE "payment_uncertain"
           z == [r EXCEPT !.att = "uncertain", !.res = "uncertain", !.st = st]
<1>1. r \in CampaignRecord
  BY Here
<1>2. /\ st \in CampaignStates /\ "uncertain" \in Attempts /\ "uncertain" \in Reservations
  BY <1>1, RecordFields DEF CampaignStates, Attempts, Reservations
<1>3. Outcome(r, "uncertain", "payment_uncertain") = z
  BY DEF Outcome
<1>4. /\ At(c, "exec", "submit") /\ Write(c, z) /\ Move(c, "exec", SyncEntry(z))
      /\ UNCHANGED pack /\ SellerUnchanged /\ ProcessUnchanged
  BY <1>3 DEF SubmissionUncertain
<1>a. st = IF Cancelling(r) THEN r.st ELSE "payment_uncertain"
  OBVIOUS
<1> HIDE DEF st
<1>5. z \in CampaignRecord
  BY <1>1, <1>2, Zenon DEF CampaignRecord
<1>6. /\ z.ord = r.ord /\ z.oq = r.oq /\ z.late = r.late /\ z.att = "uncertain" /\ z.paid = r.paid
      /\ z.res = "uncertain" /\ z.st = st /\ z.canc = r.canc /\ z.rcpt = r.rcpt /\ z.psbt = r.psbt
  BY <1>1 DEF CampaignRecord
<1> HIDE DEF z
<1> QED
  BY <1>a, <1>4, <1>5, <1>6, OutcomeMoves

-----------------------------------------------------------------------------
(* The Seller answers and proceeds. *)

\* The Seller has w for quote q now, and the calls are k.
LEMMA SellerMovesTo ==
    ASSUME IInv, NEW c \in Campaigns, NEW q \in Quotes, NEW w \in Views, Earned(w), Put(c, q, w),
           NEW k \in [Procs -> CallRecord], call' = [call EXCEPT ![c] = k],
           Called(camp[c], sent[c], [sel[c] EXCEPT ![q] = w], k, pack[c], booting),
           UNCHANGED <<camp, sent, pack>>, ProcessUnchanged
    PROVE  IInv'
<1> DEFINE v == [sel[c] EXCEPT ![q] = w]
<1>1. /\ camp[c] \in CampaignRecord /\ sent[c] \in [Quotes -> 0 .. MaxSends] /\ sel[c] \in Selling
      /\ pack[c] \in PackStates /\ Recorded(camp[c], sent[c], sel[c]) /\ Stated(camp[c])
      /\ camp' = [camp EXCEPT ![c] = camp[c]] /\ sent' = [sent EXCEPT ![c] = sent[c]]
      /\ pack' = [pack EXCEPT ![c] = pack[c]]
  BY Here
<1>2. v \in Selling /\ \A n \in Quotes : v[n] = IF n = q THEN w ELSE sel[c][n]
  BY <1>1 DEF Selling
<1>3. sel' = [sel EXCEPT ![c] = v]
  BY DEF Put
<1> HIDE DEF v
<1>4. Recorded(camp[c], sent[c], v)
  BY <1>1, <1>2, NoViewIsNone DEF Recorded
<1>5. Called(camp[c], sent[c], v, k, pack[c], booting)
  BY DEF v
<1> QED
  BY <1>1, <1>2, <1>3, <1>4, <1>5, CampaignSteps

\* The Seller's order changes, and no call hears of it.
LEMMA SellerMovesAlone ==
    ASSUME IInv, NEW c \in Campaigns, NEW q \in Quotes, NEW w \in Views, Earned(w), Put(c, q, w),
           UNCHANGED <<camp, sent, call, pack>>, ProcessUnchanged
    PROVE  IInv'
<1>1. /\ sel[c] \in Selling /\ call[c] \in [Procs -> CallRecord] /\ camp[c] \in CampaignRecord
      /\ Called(camp[c], sent[c], sel[c], call[c], pack[c], booting)
      /\ call' = [call EXCEPT ![c] = call[c]]
  BY Here
<1>2. \A n \in Quotes : sel[c][n] # NoView => [sel[c] EXCEPT ![q] = w][n] # NoView
  BY <1>1, NoViewIsNone DEF Selling
<1>3. Called(camp[c], sent[c], [sel[c] EXCEPT ![q] = w], call[c], pack[c], booting)
  BY <1>1, <1>2, SellerFollowed
<1> QED
  BY <1>1, <1>3, SellerMovesTo

\* An answer of the Seller changes its order to w and moves call p on to e.
LEMMA AnswerMoves ==
    ASSUME IInv, NEW c \in Campaigns, NEW p \in Procs, NEW q \in Quotes, NEW w \in Views, Earned(w),
           Put(c, q, w), NEW e \in CallRecord, Move(c, p, e), call[c][p].pc \notin {"idle", "submit", "mark"},
           UNCHANGED <<camp, sent, pack>>, ProcessUnchanged,
           Informed(camp[c], [sel[c] EXCEPT ![q] = w], e), e.pc \notin {"evaluate", "mark"},
           e.pc # "idle" => e.then = call[c][p].then \/ e.then # "requoted",
           e.pc \in Working => call[c][p].pc \in Working /\ Executing(camp[c], sent[c], e)
    PROVE  IInv'
<1> DEFINE r == camp[c]
           v == [sel[c] EXCEPT ![q] = w]
           k == [call[c] EXCEPT ![p] = e]
<1>1. /\ sel[c] \in Selling /\ call[c] \in [Procs -> CallRecord] /\ r \in CampaignRecord
      /\ Called(r, sent[c], sel[c], call[c], pack[c], booting)
      /\ r.st # "absent" /\ Alone(r, call[c], p)
  BY Here, CallExists
<1>2. \A n \in Quotes : sel[c][n] # NoView => v[n] # NoView
  BY <1>1, NoViewIsNone DEF Selling
<1> HIDE DEF v, r
<1>3. Called(r, sent[c], v, call[c], pack[c], booting)
  BY <1>1, <1>2, SellerFollowed
<1>4. e.pc # "idle" /\ e.then = "requoted" => p = "exec"
  BY <1>1 DEF Alone
<1>5. e.pc \in Working => p = "exec"
  BY <1>1 DEF Alone, Called
<1>a. Marking(r, call[c])
  BY <1>1, MarkingHere
<1>6. Executing(r, sent[c], e)
  BY DEF Executing, Working, r
<1>7. Called(r, sent[c], v, k, pack[c], booting)
  BY <1>1, <1>3, <1>4, <1>5, <1>6, <1>a, CallMoves DEF r, v
<1>8. k \in [Procs -> CallRecord] /\ call' = [call EXCEPT ![c] = k]
  BY <1>1, Here DEF Move
<1> HIDE DEF k
<1> QED
  BY <1>7, <1>8, SellerMovesTo DEF r, v

LEMMA ReviewedKeeps ==
    ASSUME NEW v \in Views, Earned(v) PROVE Reviewed(v) \in Views /\ Earned(Reviewed(v))
<1>1. ASSUME NEW canc \in Stops
      PROVE  [v EXCEPT !.canc = canc] \in Views /\ Earned([v EXCEPT !.canc = canc])
  BY <1>1 DEF Views, Earned, Authorized
<1>2. {"refund_review_required", "cancelled_unpaid"} \subseteq Stops
  BY DEF Stops
<1> QED
  BY <1>1, <1>2 DEF Reviewed

\* What the Seller has for a quote is earned, and there if a call relies on it.
LEMMA SellerHas ==
    ASSUME IInv, NEW c \in Campaigns, NEW q \in Quotes
    PROVE  /\ sel[c][q] \in Views \cup {NoView} /\ Earned(sel[c][q])
           /\ \A w : [sel[c] EXCEPT ![q] = w][q] = w
  BY Here DEF Selling, Recorded

\* A call with the answer w in hand.
LEMMA AnswerTyped ==
    ASSUME NEW k \in CallRecord, NEW pc \in Steps, NEW w \in Views,
           NEW e, e = [k EXCEPT !.pc = pc, !.view = w]
    PROVE  e \in CallRecord /\ e.pc = pc /\ e.q = k.q /\ e.view = w /\ e.then = k.then
<1>1. w \in Views \cup {NoView}
  OBVIOUS
<1>2. e \in CallRecord
  BY <1>1, Zenon DEF CallRecord
<1> QED
  BY <1>2 DEF CallRecord

LEMMA OrderAnsweredKeeps ==
    ASSUME IInv, NEW c \in Campaigns, NEW p \in Procs, OrderAnswered(c, p) PROVE IInv'
<1> DEFINE k == call[c][p]
           q == k.q
           w == IF sel[c][q] = NoView THEN Opened ELSE sel[c][q]
           pc == IF At(c, p, "create") THEN "created" ELSE "reordered"
           e == [k EXCEPT !.pc = pc, !.view = w]
           v == [sel[c] EXCEPT ![q] = w]
<1>1. k.pc \in {"create", "reorder"}
  BY DEF OrderAnswered
<1>2. /\ k \in CallRecord /\ q \in Quotes /\ Informed(camp[c], sel[c], k)
      /\ Alone(camp[c], call[c], p)
  BY <1>1, CallExists DEF Informed
<1>3. w \in Views /\ Earned(w)
  BY <1>2, SellerHas, NoViewIsNone
<1>4. Put(c, q, w) /\ UNCHANGED <<camp, sent, pack>> /\ ProcessUnchanged
  BY DEF OrderAnswered
<1>5. CASE UNCHANGED call
  BY <1>2, <1>3, <1>4, <1>5, SellerMovesAlone
<1>6. CASE Answered(c, p, pc, w)
  <2>1. /\ pc \in {"created", "reordered"} /\ pc \in Steps
        /\ (k.pc = "create" /\ pc = "created") \/ (k.pc = "reorder" /\ pc = "reordered")
    BY <1>1 DEF At, Steps
  <2> HIDE DEF pc, w
  <2>2. e \in CallRecord /\ e.pc = pc /\ e.q = q /\ e.view = w /\ e.then = k.then
    BY <1>2, <1>3, <2>1, AnswerTyped DEF CallRecord
  <2>3. p \in DOMAIN call[c] /\ c \in DOMAIN call
    BY DEF IInv, TypeOK
  <2>4. Move(c, p, e)
    BY <1>6, <2>3 DEF Answered, Move
  <2>5. v[q] = w /\ w # NoView
    BY <1>2, <1>3, SellerHas, NoViewIsNone
  <2> HIDE DEF e, v, q
  <2>6. Informed(camp[c], v, e)
    <3>1. k.pc = "reorder" => Asked(camp[c])
      BY <1>2 DEF Informed
    <3> QED
      BY <1>2, <1>3, <2>1, <2>2, <2>5, <3>1 DEF Informed
  <2>7. e.pc \in Working => k.pc \in Working /\ Executing(camp[c], sent[c], e)
    <3>1. CASE k.pc = "create"
      <4>1. k.pc \in Working /\ p = "exec"
        BY <1>2, <3>1 DEF Alone, Working, Ordering
      <4>2. Executing(camp[c], sent[c], k)
        BY <4>1, AtWork
      <4>3. Executing(camp[c], sent[c], e)
        BY <2>1, <2>2, <3>1, <4>1, <4>2 DEF Executing, Ordering, Signing, Gating
      <4> QED
        BY <4>1, <4>3
    <3>2. CASE k.pc = "reorder"
      BY <2>1, <2>2, <3>2 DEF Working, Ordering, Signing, Gating
    <3> QED
      BY <1>1, <3>1, <3>2
  <2>8. e.pc \notin {"evaluate", "mark"} /\ k.pc \notin {"idle", "submit", "mark"}
    BY <1>1, <2>1, <2>2
  <2> HIDE DEF k
  <2> QED
    BY <1>2, <1>3, <1>4, <2>2, <2>4, <2>6, <2>7, <2>8, AnswerMoves DEF v, k
<1> HIDE DEF e, v
<1> QED
  BY <1>5, <1>6 DEF OrderAnswered

LEMMA StopAnsweredKeeps ==
    ASSUME IInv, NEW c \in Campaigns, NEW p \in Procs, StopAnswered(c, p) PROVE IInv'
<1> DEFINE k == call[c][p]
           q == k.q
           old == sel[c][q]
           stop == IF old.canc # "none" THEN old
                   ELSE [old EXCEPT !.canc = IF old.prod = "idle" THEN "stop_requested"
                                             ELSE "cost_review_required"]
<1>1. k.pc = "stop"
  BY DEF StopAnswered, At
<1>2. /\ k \in CallRecord /\ q \in Quotes /\ Informed(camp[c], sel[c], k)
      /\ old # NoView /\ camp[c].ord # NoView
  BY <1>1, CallExists DEF Informed
<1>3. old \in Views /\ Earned(old)
  BY <1>2, SellerHas
<1>4. stop \in Views /\ Earned(stop)
  <2>1. ASSUME NEW canc \in Stops
        PROVE  [old EXCEPT !.canc = canc] \in Views /\ Earned([old EXCEPT !.canc = canc])
    BY <1>3, <2>1 DEF Views, Earned, Authorized
  <2>2. {"stop_requested", "cost_review_required"} \subseteq Stops
    BY DEF Stops
  <2> QED
    BY <1>3, <2>1, <2>2
<1>5. Reviewed(stop) \in Views /\ Earned(Reviewed(stop))
  BY <1>4, ReviewedKeeps
<1>6. UNCHANGED <<camp, sent, pack>> /\ ProcessUnchanged
  BY DEF StopAnswered
<1> HIDE DEF stop
<1>7. CASE Put(c, q, stop) /\ Move(c, p, Idle)
  <2>1. Idle.pc \notin Working /\ Idle.then = "none" /\ k.pc \notin {"idle", "submit", "mark"}
    BY <1>1, IdleTyped, Harmless
  <2> QED
    BY <1>2, <1>4, <1>6, <1>7, <2>1, Quiet, AnswerMoves
<1>8. CASE Put(c, q, Reviewed(stop)) /\ Answered(c, p, "stopped", Reviewed(stop))
  <2> DEFINE w == Reviewed(stop)
             e == [k EXCEPT !.pc = "stopped", !.view = w]
             v == [sel[c] EXCEPT ![q] = w]
  <2>1. w \in Views /\ Earned(w) /\ Put(c, q, w) /\ Answered(c, p, "stopped", w)
    BY <1>5, <1>8
  <2> HIDE DEF w
  <2>2. "stopped" \in Steps
    BY DEF Steps
  <2>3. e \in CallRecord /\ e.pc = "stopped" /\ e.q = q /\ e.view = w /\ e.then = k.then
    BY <1>2, <2>1, <2>2, AnswerTyped DEF CallRecord
  <2>4. p \in DOMAIN call[c] /\ c \in DOMAIN call
    BY DEF IInv, TypeOK
  <2>5. Move(c, p, e)
    BY <2>1, <2>4 DEF Answered, Move
  <2>6. v[q] = w /\ w # NoView
    <3>1. w # NoView
      BY <2>1, NoViewIsNone
    <3> HIDE DEF q, k
    <3>2. v[q] = w
      BY <1>2, SellerHas
    <3> QED
      BY <3>1, <3>2
  <2> HIDE DEF e, v, q
  <2>7. Informed(camp[c], v, e)
    BY <1>2, <2>1, <2>3, <2>6 DEF Informed
  <2>8. e.pc \notin {"evaluate", "mark"} /\ e.pc \notin Working /\ k.pc \notin {"idle", "submit", "mark"}
    BY <1>1, <2>3, Harmless
  <2> HIDE DEF k
  <2> QED
    BY <1>2, <1>6, <2>1, <2>3, <2>5, <2>7, <2>8, AnswerMoves DEF v, k
<1> QED
  BY <1>7, <1>8 DEF StopAnswered, stop

LEMMA SyncAnsweredKeeps ==
    ASSUME IInv, NEW c \in Campaigns, NEW p \in Procs, SyncAnswered(c, p) PROVE IInv'
<1> DEFINE k == call[c][p]
           w == sel[c][k.q]
           e == [k EXCEPT !.pc = "synced", !.view = w]
<1>1. k.pc = "sync"
  BY DEF SyncAnswered, At
<1>2. /\ k \in CallRecord /\ k.q \in Quotes /\ Informed(camp[c], sel[c], k)
      /\ w # NoView /\ camp[c].ord # NoView /\ camp[c].st # "absent" /\ Alone(camp[c], call[c], p)
  BY <1>1, CallExists DEF Informed
<1>3. w \in Views /\ Earned(w)
  BY <1>2, SellerHas
<1>4. "synced" \in Steps
  BY DEF Steps
<1>5. e \in CallRecord /\ e.pc = "synced" /\ e.q = k.q /\ e.view = w /\ e.then = k.then
  BY <1>2, <1>3, <1>4, AnswerTyped DEF CallRecord
<1>6. p \in DOMAIN call[c] /\ c \in DOMAIN call
  BY DEF IInv, TypeOK
<1>7. Move(c, p, e) /\ UNCHANGED camp /\ UNCHANGED pack /\ SellerUnchanged /\ ProcessUnchanged
  BY <1>6 DEF SyncAnswered, Answered, Move
<1> HIDE DEF e
<1>8. Informed(camp[c], sel[c], e)
  BY <1>2, <1>3, <1>5 DEF Informed
<1>9. k.then = "requoted" => p = "exec"
  BY <1>1, <1>2 DEF Alone
<1>10. e.pc # "evaluate" /\ e.pc \notin Working
  BY <1>5, Harmless
<1> QED
  BY <1>1, <1>2, <1>5, <1>7, <1>8, <1>9, <1>10, OneCallMoves

LEMMA RetryAnsweredKeeps ==
    ASSUME IInv, NEW c \in Campaigns, NEW p \in Procs, RetryAnswered(c, p) PROVE IInv'
<1> DEFINE k == call[c][p]
           q == k.q
           old == sel[c][q]
           w == [old EXCEPT !.prod = "idle"]
           v == [sel[c] EXCEPT ![q] = w]
           e == SyncEntry(camp[c])
<1>1. k.pc = "retry"
  BY DEF RetryAnswered, At
<1>2. k \in CallRecord /\ q \in Quotes /\ old # NoView
  BY <1>1, CallExists DEF Informed
<1>3. old \in Views /\ Earned(old)
  BY <1>2, SellerHas
<1>4. w \in Views /\ Earned(w)
  BY <1>3 DEF Views, Earned
<1>5. /\ Put(c, q, w) /\ Move(c, p, e) /\ UNCHANGED <<camp, sent, pack>> /\ ProcessUnchanged
  BY DEF RetryAnswered
<1>6. /\ e \in CallRecord /\ Informed(camp[c], sel[c], e)
      /\ e.pc \in {"idle", "cancel", "sync"} /\ e.then = "none"
  BY Here, SyncEntrySound
<1>7. \A n \in Quotes : sel[c][n] # NoView => v[n] # NoView
  BY <1>4, Here, NoViewIsNone DEF Selling
<1> HIDE DEF e, v, w
<1>8. Informed(camp[c], v, e)
  BY <1>6, <1>7 DEF Informed
<1>9. e.pc \notin {"evaluate", "mark"} /\ e.pc \notin Working /\ k.pc \notin {"idle", "submit", "mark"}
  BY <1>1, <1>6, Harmless
<1> HIDE DEF k
<1> QED
  BY <1>2, <1>4, <1>5, <1>6, <1>8, <1>9, AnswerMoves DEF v, k

LEMMA RequestFailsKeeps ==
    ASSUME IInv, NEW c \in Campaigns, NEW p \in Procs, RequestFails(c, p) PROVE IInv'
<1>1. call[c][p].pc \in {"reorder", "stop", "sync", "retry"}
  BY DEF RequestFails
<1>2. camp[c].st # "absent"
  BY <1>1, CallExists
<1>3. Move(c, p, Idle) /\ UNCHANGED camp /\ UNCHANGED pack /\ SellerUnchanged /\ ProcessUnchanged
  BY DEF RequestFails
<1> QED
  BY <1>1, <1>2, <1>3, IdleTyped, IdleCall, Harmless, OneCallMoves

LEMMA SellerReconcilesKeeps ==
    ASSUME IInv, NEW c \in Campaigns, NEW q \in Quotes, SellerReconciles(c, q) PROVE IInv'
<1> DEFINE old == sel[c][q]
<1>1. old # NoView
  <2>1. Reviewed(NoView) = NoView
    BY DEF Reviewed, NoView
  <2> QED
    BY <2>1 DEF SellerReconciles
<1>2. old \in Views /\ Earned(old)
  BY <1>1, SellerHas
<1>3. Reviewed(old) \in Views /\ Earned(Reviewed(old))
  BY <1>2, ReviewedKeeps
<1> QED
  BY <1>3, SellerMovesAlone DEF SellerReconciles

LEMMA SellerProceedsKeeps ==
    ASSUME IInv, NEW c \in Campaigns, NEW q \in Quotes, SellerProceeds(c, q) PROVE IInv'
<1> DEFINE old == sel[c][q]
           payable == sent[c][q] > 0 \/ ExternalPayer
<1>1. old \in Views /\ Earned(old)
  BY SellerHas DEF SellerProceeds
<1>2. PICK w \in SellerMoves(old, payable) : Put(c, q, LatePayment(w))
  BY DEF SellerProceeds
<1> HIDE DEF old, payable
<1>3. w \in Views /\ Earned(w)
  <2>1. CASE \E pay \in {"expired", "paid", "settled"} :
               /\ w = Reviewed([old EXCEPT !.pay = pay])
               /\ pay = "expired" => old.pay = "initiated"
    <3>1. PICK pay \in {"expired", "paid", "settled"} :
            w = Reviewed([old EXCEPT !.pay = pay]) /\ (pay = "expired" => old.pay = "initiated")
      BY <2>1
    <3>2. [old EXCEPT !.pay = pay] \in Views /\ Earned([old EXCEPT !.pay = pay])
      BY <1>1, <3>1 DEF Views, Pays, Earned, Authorized
    <3> QED
      BY <3>1, <3>2, ReviewedKeeps
  <2>2. CASE \E prod \in {"started", "completed", "failed"} :
               /\ w = [old EXCEPT !.prod = prod]
               /\ old.prod # "idle" \/ Authorized(old)
    <3>1. PICK prod \in {"started", "completed", "failed"} :
            w = [old EXCEPT !.prod = prod] /\ (old.prod # "idle" \/ Authorized(old))
      BY <2>2
    <3> QED
      BY <1>1, <3>1 DEF Views, Earned, Authorized
  <2> QED
    BY <1>2, <2>1, <2>2 DEF SellerMoves
<1>4. LatePayment(w) \in Views /\ Earned(LatePayment(w))
  <2>1. "refund_review_required" \in Stops
    BY DEF Stops
  <2>2. /\ [w EXCEPT !.canc = "refund_review_required"] \in Views
        /\ Earned([w EXCEPT !.canc = "refund_review_required"])
    BY <1>3, <2>1 DEF Views, Earned, Authorized
  <2> QED
    BY <1>3, <2>2 DEF LatePayment
<1>5. UNCHANGED <<camp, sent, call, pack>> /\ ProcessUnchanged
  BY DEF SellerProceeds
<1> QED
  BY <1>2, <1>4, <1>5, SellerMovesAlone

-----------------------------------------------------------------------------
(* Crashes, the start that follows, and the invariant. *)

\* No call fits every record that is not found submitting.
LEMMA NoCalls ==
    ASSUME NEW r \in CampaignRecord, NEW s, NEW v, NEW b, r.st # "submitting_payment"
    PROVE  Called(r, s, v, AllIdle, "none", b) /\ Marking(r, AllIdle)
<1>1. \A o \in Procs : AllIdle[o] = Idle
  BY IdleTyped
<1>2. Executing(r, s, AllIdle["exec"])
  BY <1>1, Quiet, ProcsHere
<1>3. ASSUME NEW o \in Procs PROVE Informed(r, v, AllIdle[o]) /\ Alone(r, AllIdle, o)
  BY <1>1, Quiet, IdleTyped, Harmless DEF Alone
<1>4. Marking(r, AllIdle)
  BY <1>1, IdleTyped DEF Marking
<1> QED
  BY <1>2, <1>3, <1>4 DEF Called, Submitting, Interrupted

LEMMA RestartKeeps ==
    ASSUME IInv, Restart PROVE IInv'
<1>1. ASSUME NEW c \in Campaigns
      PROVE  /\ call'[c] \in [Procs -> CallRecord] /\ pack'[c] \in PackStates
             /\ Called(camp[c], sent[c], sel[c], call'[c], pack'[c], TRUE)
  <2> DEFINE r == camp[c]
             k == Resumption(AllIdle, "main", r)
             t == Completion("none", r)
  <2>1. /\ call'[c] = IF Recoverable(r) THEN k ELSE AllIdle
        /\ pack'[c] = IF Recoverable(r) THEN t ELSE "none"
    BY DEF Restart
  <2>2. /\ r \in CampaignRecord /\ Recorded(r, sent[c], sel[c]) /\ Stated(r)
        /\ Called(r, sent[c], sel[c], call[c], pack[c], booting)
    BY Here
  <2>3. t \in {"none", "claim"} /\ {"none", "claim"} \subseteq PackStates
    BY DEF Completion, PackStates
  <2>4. AllIdle \in [Procs -> CallRecord] /\ \A o \in Procs : AllIdle[o] = Idle
    BY IdleTyped
  <2> HIDE DEF k, t, r
  <2>5. CASE Recoverable(r) /\ r.st = "submitting_payment"
    <3> DEFINE e == For("mark", 0)
               m == [AllIdle EXCEPT !["main"] = e]
    <3>1. k = m
      BY <2>5 DEF k, Resumption
    <3>2. r.att = "submitting" /\ MaySent(r)
      BY <2>2, <2>5 DEF Called, Submitting, MaySent
    <3>3. e \in CallRecord /\ e.pc = "mark" /\ e.then = "none" /\ Informed(r, sel[c], e)
      BY <3>2, MarkCall
    <3> HIDE DEF e
    <3>4. /\ m \in [Procs -> CallRecord] /\ m["main"] = e
          /\ \A o \in Procs \ {"main"} : m[o] = Idle
      BY <2>4, <3>3, ProcsHere
    <3>5. m["exec"] = Idle
      BY <3>4, ProcsHere
    <3> HIDE DEF m
    <3>6. Executing(r, sent[c], m["exec"])
      BY <3>5, Quiet
    <3>7. ASSUME NEW o \in Procs PROVE Informed(r, sel[c], m[o]) /\ Alone(r, m, o)
      BY <3>3, <3>4, Quiet, IdleTyped, Harmless DEF Alone
    <3>8. Submitting(r, m, TRUE)
      BY <3>2, <3>3, <3>4 DEF Submitting
    <3>a. Interrupted(r, m, TRUE)
      BY <3>2, <3>4 DEF Interrupted
    <3>9. Called(r, sent[c], sel[c], m, t, TRUE)
      BY <2>3, <2>5, <3>6, <3>7, <3>8, <3>a DEF Called
    <3> QED
      BY <2>1, <2>3, <2>5, <3>1, <3>4, <3>9 DEF r
  <2>6. CASE Recoverable(r) /\ r.st # "submitting_payment"
    <3>1. Called(r, sent[c], sel[c], AllIdle, "none", TRUE) /\ Marking(r, AllIdle)
      BY <2>2, <2>6, NoCalls
    <3>2. \A o \in Procs : AllIdle[o].pc # "evaluate"
      BY <2>4, IdleTyped
    <3>3. "main" \in Procs \ {"exec"} /\ r.st # "absent"
      BY <2>6, ProcsHere DEF Recoverable
    <3>4. k = Resumption(AllIdle, "main", r)
      BY DEF k
    <3>5. k \in [Procs -> CallRecord] /\ Called(r, sent[c], sel[c], k, "none", TRUE)
      BY <2>2, <2>4, <2>6, <3>1, <3>2, <3>3, <3>4, ResumptionSound
    <3>6. Called(r, sent[c], sel[c], k, t, TRUE)
      BY <2>3, <3>5, PackFollowed
    <3> QED
      BY <2>1, <2>3, <2>6, <3>5, <3>6 DEF r
  <2>7. CASE ~Recoverable(r)
    <3>1. r.st # "submitting_payment"
      BY <2>7 DEF Recoverable
    <3>2. Called(r, sent[c], sel[c], AllIdle, "none", TRUE)
      BY <2>2, <3>1, NoCalls
    <3> QED
      BY <2>1, <2>3, <2>4, <2>7, <3>2 DEF r
  <2> QED
    BY <2>5, <2>6, <2>7
<1>2. UNCHANGED <<camp, sel, sent>> /\ booting' = TRUE
  BY DEF Restart, SellerUnchanged
<1>3. TypeOK'
  <2>1. call' \in [Campaigns -> [Procs -> CallRecord]]
    BY <1>1 DEF Restart
  <2>2. pack' \in [Campaigns -> {"none", "claim", "working"}]
    BY <1>1 DEF Restart, PackStates
  <2>3. restarts' \in 0 .. MaxRestarts
    BY BuyerAssumption DEF Restart, IInv, TypeOK
  <2> QED
    BY <1>2, <2>1, <2>2, <2>3 DEF IInv, TypeOK
<1>4. ASSUME NEW c \in Campaigns
      PROVE  Sound(camp'[c], sent'[c], sel'[c], call'[c], pack'[c], booting')
  BY <1>1, <1>2, Here DEF Sound
<1> QED
  BY <1>3, <1>4 DEF IInv

LEMMA FinishBootKeeps ==
    ASSUME IInv, FinishBoot PROVE IInv'
<1>1. UNCHANGED <<camp, sel, sent, call, pack, restarts>> /\ booting' = FALSE
  BY DEF FinishBoot, SellerUnchanged
<1>2. TypeOK'
  BY <1>1 DEF IInv, TypeOK
<1>3. ASSUME NEW c \in Campaigns
      PROVE  Sound(camp'[c], sent'[c], sel'[c], call'[c], pack'[c], booting')
  <2>1. call[c] = AllIdle /\ pack[c] = "none"
    BY DEF FinishBoot
  <2>2. camp[c] \in CampaignRecord /\ Called(camp[c], sent[c], sel[c], AllIdle, "none", booting)
    BY <2>1, Here
  <2>3. camp[c].st # "submitting_payment"
    BY <2>2, IdleTyped, ProcsHere DEF Called, Submitting
  <2>4. Called(camp[c], sent[c], sel[c], AllIdle, "none", FALSE)
    BY <2>2, <2>3, NoCalls
  <2> QED
    BY <1>1, <2>1, <2>4, Here DEF Sound
<1> QED
  BY <1>2, <1>3 DEF IInv

LEMMA InitIInv == Init => IInv
<1> SUFFICES ASSUME Init PROVE IInv
  OBVIOUS
<1>1. 0 \in 0 .. MaxQuotes /\ 0 \in 0 .. MaxSends /\ 0 \in 0 .. MaxRestarts
  BY BuyerAssumption
<1>2. NoCampaign \in CampaignRecord
  BY <1>1, Amounts DEF NoCampaign, CampaignRecord, CampaignStates, Attempts, Reservations
<1>3. TypeOK
  BY <1>1, <1>2, IdleTyped DEF Init, TypeOK
<1>4. ASSUME NEW c \in Campaigns
      PROVE  Sound(camp[c], sent[c], sel[c], call[c], pack[c], booting)
  <2>1. /\ camp[c] = NoCampaign /\ call[c] = AllIdle /\ pack[c] = "none"
        /\ \A q \in Quotes : sel[c][q] = NoView /\ sent[c][q] = 0
    BY <1>4 DEF Init
  <2>2. /\ NoCampaign.st = "absent" /\ NoCampaign.att = "none" /\ NoCampaign.ord = NoView
        /\ ~NoCampaign.paid /\ NoCampaign.canc = "none" /\ ~NoCampaign.psbt
        /\ ~NoCampaign.late
    BY DEF NoCampaign
  <2>3. Recorded(camp[c], sent[c], sel[c]) /\ Stated(camp[c])
    BY <2>1, <2>2, NoViewIsNone DEF Recorded, Stated, MaySent, Sunk, Active, Asked
  <2>4. Called(NoCampaign, sent[c], sel[c], AllIdle, "none", booting)
    BY <1>2, <2>2, NoCalls
  <2> QED
    BY <2>1, <2>3, <2>4 DEF Sound
<1> QED
  BY <1>3, <1>4 DEF IInv

LEMMA NextIInv ==
    ASSUME IInv, [Next]_vars PROVE IInv'
<1>1. CASE UNCHANGED vars
  BY <1>1 DEF IInv, TypeOK, Sound, vars
<1>2. ASSUME NEW c \in Campaigns, NEW p \in Procs, CallStep(c, p) PROVE IInv'
  BY <1>2, EvaluatedKeeps, MarkInterruptedKeeps, RequestCancellationKeeps, RecordReorderedKeeps,
     RecordStoppedKeeps, RecordSyncedKeeps DEF CallStep
<1>3. ASSUME NEW c \in Campaigns, NEW p \in Procs, ClientStep(c, p) PROVE IInv'
  BY <1>3, CreateCampaignKeeps, ResumeCampaignKeeps, SyncCampaignKeeps, CancelCampaignKeeps,
     RetryFulfillmentKeeps DEF ClientStep
<1>4. ASSUME NEW c \in Campaigns, NEW p \in Procs, AnswerStep(c, p) PROVE IInv'
  BY <1>4, OrderAnsweredKeeps, StopAnsweredKeeps, SyncAnsweredKeeps, RetryAnsweredKeeps,
     RequestFailsKeeps DEF AnswerStep
<1>5. ASSUME NEW c \in Campaigns, ExecStep(c) PROVE IInv'
  BY <1>5, NotExecutableKeeps, ReserveSpendKeeps, ReservationRefusedKeeps, BeginOrderKeeps,
     RecordOrderKeeps, OrderFailsKeeps, QuoteExpiredKeeps, BeginSigningKeeps, RecordSignedKeeps,
     SigningFailsKeeps, SubmitKeeps, GateRefusesKeeps, DiscardAttemptKeeps, RecordReceiptKeeps,
     SubmissionUncertainKeeps DEF ExecStep
<1>6. ASSUME NEW c \in Campaigns,
             ExecuteCampaign(c) \/ Poll(c) \/ ClaimCompletion(c) \/ CompletionEnds(c)
      PROVE  IInv'
  BY <1>6, ExecuteCampaignKeeps, PollKeeps, ClaimCompletionKeeps, CompletionEndsKeeps
<1>7. ASSUME NEW c \in Campaigns, NEW q \in Quotes, SellerProceeds(c, q) \/ SellerReconciles(c, q)
      PROVE  IInv'
  BY <1>7, SellerProceedsKeeps, SellerReconcilesKeeps
<1>8. CASE Restart \/ FinishBoot
  BY <1>8, RestartKeeps, FinishBootKeeps
<1> QED
  BY <1>1, <1>2, <1>3, <1>4, <1>5, <1>6, <1>7, <1>8 DEF Next

LEMMA Invariant == Spec => []IInv
<1>1. Init => IInv
  BY InitIInv
<1>2. IInv /\ [Next]_vars => IInv'
  BY NextIInv
<1> QED
  BY <1>1, <1>2, PTL DEF Spec

-----------------------------------------------------------------------------
(* What follows from the invariant. *)

\* What the record of a campaign says and what its wallet did agree: one closed as
\* unpaid never submitted, unless a decision was written over its submission; a
\* cancelled one holds no allocation, and one being cancelled or booked no signed
\* material (buyer-service.mjs:60-67, 167-204, 580-604).
THEOREM RecordsAreConsistent == Spec => []RecordsConsistent
<1>1. IInv => RecordsConsistent
  <2> SUFFICES ASSUME IInv PROVE RecordsConsistent
    OBVIOUS
  <2>1. ASSUME NEW c \in Campaigns, camp[c].st \in {"cancelled", "payment_failed"}, ~camp[c].late
      PROVE Unsent(c)
    BY <2>1, Here DEF Recorded, Stated, Unsent
  <2>2. CancelledHoldsNothing
    BY Here DEF CancelledHoldsNothing, Stated
  <2> QED
    BY <2>1, <2>2 DEF RecordsConsistent, ClosedMeansUnsent, IInv
<1> QED
  BY <1>1, Invariant, PTL

\* A cancelled campaign holds no allocation, and one that is being cancelled or is booked
\* no signed material, even if evaluations overlap (60-67, 203, 341, 929).
THEOREM CancellationReleases == Spec => [](TypeOK /\ CancelledHoldsNothing)
<1>1. IInv => TypeOK /\ CancelledHoldsNothing
  BY Here DEF IInv, CancelledHoldsNothing, Stated
<1> QED
  BY <1>1, Invariant, PTL

\* One campaign pays one order once, whatever crashes, cancellations, repeated
\* requests, requoting and lost answers come between, and however its evaluations
\* overlap, unless one of them wrote its decision over the submission (711-714, 1017).
THEOREM CampaignPaysOnce == Spec => []OneSubmission
<1>1. IInv => OneSubmission
  <2> SUFFICES ASSUME IInv, NEW c \in Campaigns, ~camp[c].late, NEW q \in Quotes
               PROVE  /\ sent[c][q] <= 1
                      /\ \A r \in Quotes : sent[c][q] > 0 /\ sent[c][r] > 0 => q = r
    BY Here, RecordFields DEF OneSubmission, SubmittedOnce
  <2>1. \A n \in Quotes : sent[c][n] = IF MaySent(camp[c]) /\ n = camp[c].oq THEN 1 ELSE 0
    BY Here DEF Recorded
  <2> QED
    BY <2>1
<1> QED
  BY <1>1, Invariant, PTL

\* A payment that may have left the wallet, as its attempt on record says, keeps its part
\* of the allocation until it is booked, even if evaluations overlap (583-586, 1043).
THEOREM MaybeSentStaysAllocated == Spec => []ReservationKept
<1>1. IInv => ReservationKept
  BY Here DEF ReservationKept, Recorded
<1> QED
  BY <1>1, Invariant, PTL

\* The invoice a campaign paid is the order on its record, and a debit is booked for
\* this Buyer's own payment only (361-363, 497-521, 873).
THEOREM PaidOrderIsOwnAndOnRecord == Spec => []PaidIsOnRecord
<1>1. IInv => PaidIsOnRecord
  <2> SUFFICES ASSUME IInv, NEW c \in Campaigns
               PROVE  /\ \A q \in Quotes : sent[c][q] > 0 => camp[c].oq = q
                      /\ camp[c].paid => /\ camp[c].rcpt /\ sent[c][camp[c].oq] > 0
                                         /\ camp[c].res = "committed" \/ Active(camp[c])
    BY DEF PaidIsOnRecord, PaidOrderOnRecord, BookedIsOwn
  <2>1. Recorded(camp[c], sent[c], sel[c])
    BY Here
  <2>2. \A q \in Quotes : sent[c][q] > 0 => camp[c].oq = q
    BY <2>1 DEF Recorded
  <2>3. camp[c].paid => /\ camp[c].rcpt /\ sent[c][camp[c].oq] > 0
                        /\ camp[c].res = "committed" \/ Active(camp[c])
    <3>1. ASSUME camp[c].paid PROVE sent[c][camp[c].oq] > 0
      BY <2>1, <3>1 DEF Recorded, MaySent, Sunk
    <3> QED
      BY <2>1, <3>1 DEF Recorded
  <2> QED
    BY <2>2, <2>3
<1> QED
  BY <1>1, Invariant, PTL

\* Only the submission counts another call of the wallet.
LEMMA OnlySubmitSends ==
    ASSUME [Next]_vars, sent' # sent PROVE \E c \in Campaigns : Submit(c)
<1>1. ASSUME NEW c \in Campaigns, NEW p \in Procs, CallStep(c, p) \/ ClientStep(c, p) \/ AnswerStep(c, p)
      PROVE  sent' = sent
  BY <1>1 DEF CallStep, ClientStep, AnswerStep, SellerUnchanged, Evaluated, MarkInterrupted,
     RequestCancellation, RecordReordered, RecordStopped, RecordSynced, CreateCampaign,
     ResumeCampaign, SyncCampaign, CancelCampaign, RetryFulfillment, OrderAnswered,
     StopAnswered, SyncAnswered, RetryAnswered, RequestFails
<1>2. ASSUME NEW c \in Campaigns, ExecStep(c), ~Submit(c) PROVE sent' = sent
  BY <1>2 DEF ExecStep, SellerUnchanged, NotExecutable, ReserveSpend, ReservationRefused,
     BeginOrder, RecordOrder, OrderFails, QuoteExpired, BeginSigning, RecordSigned,
     SigningFails, GateRefuses, DiscardAttempt, RecordReceipt, SubmissionUncertain
<1>3. ASSUME NEW c \in Campaigns,
             \/ ExecuteCampaign(c) \/ Poll(c) \/ ClaimCompletion(c) \/ CompletionEnds(c)
             \/ \E q \in Quotes : SellerProceeds(c, q) \/ SellerReconciles(c, q)
      PROVE  sent' = sent
  BY <1>3 DEF ExecuteCampaign, Poll, ClaimCompletion, CompletionEnds, SellerProceeds,
     SellerReconciles, SellerUnchanged
<1>4. CASE Restart \/ FinishBoot \/ UNCHANGED vars
  BY <1>4 DEF Restart, FinishBoot, SellerUnchanged, vars
<1> QED
  BY <1>1, <1>2, <1>3, <1>4 DEF Next

\* Once a cancellation is committed, no execution already under way submits (334, 980).
THEOREM CancellationStopsSubmission == Spec => NoSubmitAfterCancel
<1>1. IInv /\ [Next]_vars =>
          [\A c \in Campaigns : sent'[c] # sent[c] => ~Asked(camp[c]) /\ ~Cancelling(camp[c])]_vars
  <2> SUFFICES ASSUME IInv, [Next]_vars, NEW c \in Campaigns, sent'[c] # sent[c]
               PROVE  ~Asked(camp[c]) /\ ~Cancelling(camp[c])
    OBVIOUS
  <2>1. PICK d \in Campaigns : Submit(d)
    BY OnlySubmitSends
  <2>2. d = c /\ ~Cancelling(camp[c])
    BY <2>1 DEF Submit, IInv, TypeOK
  <2>3. ~Sunk(camp[c])
    <3>1. call[c]["exec"].pc \in Working /\ call[c]["exec"].pc \in Gating
      BY <2>1, <2>2 DEF Submit, At, Working, Gating
    <3> QED
      BY <3>1, AtWork DEF Executing, Sunk
  <2> QED
    BY <2>2, <2>3, Here DEF Stated
<1> QED
  BY <1>1, Invariant, PTL DEF Spec, NoSubmitAfterCancel
-----------------------------------------------------------------------------
(* What a step does to the accounts of a campaign. *)

\* A payment that may have left the wallet holds exactly its debit, unless a late
\* decision made the ledger disown it.
OnAccount(r) == ~r.late /\ MaySent(r) => r.held = Price + r.fee

\* What every step but the submission and a late decision does to a record r that
\* becomes z: nothing is sent or forgotten, nothing booked is taken back, no sent
\* amount changes.
Accounted(r, z) ==
    /\ z.late = r.late
    /\ ~r.late =>
          /\ MaySent(z) <=> MaySent(r)
          /\ r.paid => z.paid
          /\ MaySent(r) => z.fee = r.fee /\ z.held \in {r.held, Price + r.fee}

LEMMA AccountedTwice ==
    ASSUME NEW r, NEW y, NEW z, Accounted(r, y), Accounted(y, z) PROVE Accounted(r, z)
  BY DEF Accounted

LEMMA SameAccount ==
    ASSUME NEW r, NEW z, z.att = r.att, z.paid = r.paid, z.fee = r.fee, z.held = r.held,
           z.late = r.late
    PROVE  Accounted(r, z)
  BY DEF Accounted, MaySent

\* While nothing was sent, nothing is on account.
LEMMA NoAccount ==
    ASSUME NEW r, NEW z, ~MaySent(r), ~MaySent(z), r.paid => z.paid, z.late = r.late
    PROVE  Accounted(r, z)
  BY DEF Accounted

LEMMA ReleaseAccounted ==
    ASSUME NEW r \in CampaignRecord, ~MaySent(r) PROVE Accounted(r, Release(r))
<1>1. Release(r).att = r.att /\ Release(r).paid = r.paid /\ Release(r).late = r.late
  BY DEF Release, CampaignRecord
<1> QED
  BY <1>1, NoAccount DEF MaySent

LEMMA UnsettleAccounted ==
    ASSUME NEW r \in CampaignRecord PROVE Accounted(r, Unsettle(r))
<1>1. /\ Unsettle(r).att = r.att /\ Unsettle(r).paid = r.paid /\ Unsettle(r).fee = r.fee
      /\ Unsettle(r).held \in {r.held, Price + r.fee} /\ Unsettle(r).late = r.late
  BY DEF Unsettle, CampaignRecord
<1> QED
  BY <1>1 DEF Accounted, MaySent

LEMMA SuspendAccounted ==
    ASSUME NEW r \in CampaignRecord PROVE Accounted(r, Suspend(r))
<1>1. /\ Suspend(r).att = r.att /\ Suspend(r).paid = r.paid /\ Suspend(r).fee = r.fee
      /\ Suspend(r).held = r.held /\ Suspend(r).late = r.late
  BY DEF Suspend, CampaignRecord
<1> QED
  BY <1>1, SameAccount

LEMMA ResolvedAccounted ==
    ASSUME NEW r \in CampaignRecord, NEW v \in Views PROVE Accounted(r, Resolved(r, v))
<1> DEFINE conflict == v.canc = "cancelled_unpaid" /\ (MaySent(r) \/ r.paid)
           st == IF v.canc = "cancelled_unpaid" /\ ~conflict THEN "cancelled"
                 ELSE IF v.canc \in {"refund_review_required", "cost_review_required"}
                 THEN v.canc ELSE "cancellation_pending"
           canc == IF r.canc = "none" THEN "derived" ELSE r.canc
           disputed == r.conflict \/ conflict
           w == [r EXCEPT !.st = st, !.canc = canc, !.conflict = disputed]
<1>1. /\ st \in CampaignStates /\ disputed \in BOOLEAN
      /\ canc \in {"none", "derived", "local", "remote"}
  BY RecordFields DEF CancellationStates, CampaignStates
<1>2. st = "cancelled" => ~MaySent(r)
  OBVIOUS
<1>3. Resolved(r, v) = IF st = "cancelled" THEN Release(w)
                       ELSE IF conflict /\ ~r.paid THEN Unsettle(w) ELSE w
  BY DEF Resolved
<1> HIDE DEF st, canc, disputed, conflict
<1>4. w \in CampaignRecord
  BY <1>1, Zenon DEF CampaignRecord
<1>5. /\ w.att = r.att /\ w.paid = r.paid /\ w.fee = r.fee /\ w.held = r.held
      /\ w.late = r.late
  BY DEF CampaignRecord
<1> HIDE DEF w
<1>6. Accounted(r, w)
  BY <1>5, SameAccount
<1>7. st = "cancelled" => Accounted(w, Release(w))
  BY <1>2, <1>4, <1>5, ReleaseAccounted DEF MaySent
<1>8. Accounted(w, Unsettle(w))
  BY <1>4, UnsettleAccounted
<1> QED
  BY <1>3, <1>6, <1>7, <1>8, AccountedTwice

LEMMA ProducedAccounted ==
    ASSUME NEW r \in CampaignRecord, NEW v \in Views PROVE Accounted(r, Produced(r, v))
<1>1. ASSUME NEW st PROVE Accounted(r, [r EXCEPT !.st = st])
  <2>1. /\ [r EXCEPT !.st = st].att = r.att /\ [r EXCEPT !.st = st].paid = r.paid
        /\ [r EXCEPT !.st = st].fee = r.fee /\ [r EXCEPT !.st = st].held = r.held
        /\ [r EXCEPT !.st = st].late = r.late
    BY DEF CampaignRecord
  <2> QED
    BY <2>1, SameAccount
<1>2. \/ Produced(r, v) = Resolved(r, v) \/ Produced(r, v) = r
      \/ \E st : Produced(r, v) = [r EXCEPT !.st = st]
  BY DEF Produced
<1> QED
  BY <1>1, <1>2, ResolvedAccounted, SameAccount

LEMMA SyncedAccounted ==
    ASSUME NEW r \in CampaignRecord, NEW v \in Views PROVE Accounted(r, Synced(r, v))
<1> DEFINE w == [r EXCEPT !.ord = v]
           x == [Suspend(w) EXCEPT !.st = "payment_origin_review_required"]
           u == [r EXCEPT !.ord = v, !.psbt = FALSE]
<1>1. v \in Views \cup {NoView} /\ "payment_origin_review_required" \in CampaignStates
  BY DEF CampaignStates
<1>2. w \in CampaignRecord /\ u \in CampaignRecord
  BY <1>1, Zenon DEF CampaignRecord
<1>3. Accounted(r, w)
  <2>1. /\ w.att = r.att /\ w.paid = r.paid /\ w.fee = r.fee /\ w.held = r.held
        /\ w.late = r.late
    BY DEF CampaignRecord
  <2> QED
    BY <2>1, SameAccount
<1>4. Accounted(r, u)
  <2>1. /\ u.att = r.att /\ u.paid = r.paid /\ u.fee = r.fee /\ u.held = r.held
        /\ u.late = r.late
    BY DEF CampaignRecord
  <2> QED
    BY <2>1, SameAccount
<1>5. Accounted(r, OriginUnverified(r, v))
  <2>1. OriginUnverified(r, v) \in {Resolved(Suspend(w), v), x}
    BY DEF OriginUnverified
  <2> HIDE DEF w
  <2>2. Suspend(w) \in CampaignRecord /\ Accounted(w, Suspend(w))
    BY <1>2, SuspendTyped, SuspendAccounted
  <2>3. Accounted(Suspend(w), Resolved(Suspend(w), v))
    BY <2>2, ResolvedAccounted
  <2>4. Accounted(Suspend(w), x)
    <3>1. /\ x.att = Suspend(w).att /\ x.paid = Suspend(w).paid /\ x.fee = Suspend(w).fee
          /\ x.held = Suspend(w).held /\ x.late = Suspend(w).late
      BY <2>2 DEF CampaignRecord
    <3> QED
      BY <3>1, SameAccount
  <2> QED
    BY <1>3, <2>1, <2>2, <2>3, <2>4, AccountedTwice
<1>6. Accounted(r, Committed(r, v)) /\ Committed(r, v) \in CampaignRecord
  <2>1. Committed(r, v) \in CampaignRecord /\ Committed(r, v).paid
    BY CommittedKeeps
  <2>2. /\ Committed(r, v).att = r.att /\ Committed(r, v).fee = r.fee
        /\ Committed(r, v).held = Price + r.fee /\ Committed(r, v).late = r.late
    BY DEF Committed, CampaignRecord
  <2> QED
    BY <2>1, <2>2 DEF Accounted, MaySent
<1>7. Accounted(r, EndedUnpaid(r, v)) /\ EndedUnpaid(r, v) \in CampaignRecord
  <2> DEFINE sent1 == [Unsettle(u) EXCEPT !.st = "payment_uncertain", !.conflict = TRUE]
             failed == [Release(u) EXCEPT !.st = "payment_failed"]
  <2>1. EndedUnpaid(r, v) = IF MaySent(r) THEN sent1 ELSE failed
    BY DEF EndedUnpaid
  <2>2. u.att = r.att
    BY DEF CampaignRecord
  <2> HIDE DEF u
  <2>3. Accounted(u, Unsettle(u)) /\ Unsettle(u) \in CampaignRecord
    BY <1>2, UnsettleAccounted, UnsettleTyped
  <2>4. ~MaySent(r) => Accounted(u, Release(u)) /\ Release(u) \in CampaignRecord
    BY <1>2, <2>2, ReleaseAccounted, ReleaseTyped DEF MaySent
  <2>5. Accounted(Unsettle(u), sent1)
    <3>1. /\ sent1.att = Unsettle(u).att /\ sent1.paid = Unsettle(u).paid
          /\ sent1.fee = Unsettle(u).fee /\ sent1.held = Unsettle(u).held
          /\ sent1.late = Unsettle(u).late
      BY <2>3 DEF CampaignRecord
    <3> QED
      BY <3>1, SameAccount
  <2>6. ~MaySent(r) => Accounted(Release(u), failed)
    <3> SUFFICES ASSUME ~MaySent(r) PROVE Accounted(Release(u), failed)
      OBVIOUS
    <3>1. /\ failed.att = Release(u).att /\ failed.paid = Release(u).paid
          /\ failed.fee = Release(u).fee /\ failed.held = Release(u).held
          /\ failed.late = Release(u).late
      BY <2>4 DEF CampaignRecord
    <3> QED
      BY <3>1, SameAccount
  <2>7. EndedUnpaid(r, v) \in CampaignRecord
    BY EndedUnpaidKeeps
  <2> HIDE DEF sent1, failed
  <2> QED
    BY <1>4, <2>1, <2>3, <2>4, <2>5, <2>6, <2>7, AccountedTwice
<1>8. Accounted(r, StillOpen(r, v)) /\ StillOpen(r, v) \in CampaignRecord
  <2>1. /\ StillOpen(r, v).att = r.att /\ StillOpen(r, v).paid = r.paid
        /\ StillOpen(r, v).fee = r.fee /\ StillOpen(r, v).held = r.held
        /\ StillOpen(r, v).late = r.late
    BY DEF StillOpen, CampaignRecord
  <2> QED
    BY <2>1, SameAccount, StillOpenKeeps
<1>9. \/ Synced(r, v) = OriginUnverified(r, v)
      \/ \E y \in {Committed(r, v), EndedUnpaid(r, v), StillOpen(r, v)} :
            Synced(r, v) = Produced(y, v)
  BY DEF Synced
<1> QED
  BY <1>5, <1>6, <1>7, <1>8, <1>9, ProducedAccounted, AccountedTwice

LEMMA CancelledAccounted ==
    ASSUME NEW r \in CampaignRecord, NEW s, NEW sv, Recorded(r, s, sv)
    PROVE  Accounted(r, Cancelled(r))
<1> DEFINE remote == r.canc = "remote" \/ r.st = "ordering" \/ r.ord # NoView
           st == IF remote THEN "cancellation_pending" ELSE "cancelled"
           canc == IF r.canc # "none" THEN r.canc ELSE IF remote THEN "remote" ELSE "local"
           w == [r EXCEPT !.st = st, !.canc = canc, !.psbt = FALSE]
<1>1. Cancelled(r) = IF Final(r) THEN r ELSE IF remote THEN w ELSE Release(w)
  BY DEF Cancelled
<1>2. ~remote => ~MaySent(r)
  BY DEF Recorded, MaySent
<1>3. w \in CampaignRecord
  <2>1. st \in CampaignStates /\ canc \in {"none", "derived", "local", "remote"}
    BY RecordFields DEF CampaignStates, CancellationStates
  <2> HIDE DEF st, canc
  <2> QED
    BY <2>1, Zenon DEF CampaignRecord
<1>4. /\ w.att = r.att /\ w.paid = r.paid /\ w.fee = r.fee /\ w.held = r.held
      /\ w.late = r.late
  BY DEF CampaignRecord
<1> HIDE DEF w, remote
<1>5. Accounted(r, w) /\ Accounted(r, r)
  BY <1>4, SameAccount
<1>6. ~remote => Accounted(w, Release(w))
  BY <1>2, <1>3, <1>4, ReleaseAccounted DEF MaySent
<1> QED
  BY <1>1, <1>5, <1>6, AccountedTwice

\* A step on campaign c that is neither a submission nor a late decision.
Accounts(c) == \E z : Write(c, z) /\ Accounted(camp[c], z)

\* A decision is written over the submission in progress of campaign c.
Disownment(c) ==
    /\ ~camp[c].late /\ MaySent(camp[c]) /\ ~camp[c].paid
    /\ \E z : Write(c, z) /\ z.late

LEMMA AccountsOf ==
    ASSUME NEW c \in Campaigns, NEW z, Write(c, z), Accounted(camp[c], z) PROVE Accounts(c)
  BY DEF Accounts

LEMMA AccountsSame ==
    ASSUME IInv, NEW c \in Campaigns, UNCHANGED camp PROVE Accounts(c)
<1>1. Write(c, camp[c]) /\ Accounted(camp[c], camp[c])
  BY Here, SameAccount DEF Write
<1> QED
  BY <1>1 DEF Accounts

\* What has no attempt has no account.
LEMMA Unattempted ==
    ASSUME NEW r, NEW s, NEW v, Recorded(r, s, v), r.att \in {"none", "prepared"}
    PROVE  ~MaySent(r) /\ ~r.paid
  BY DEF Recorded, MaySent, Sunk

LEMMA QuietAccounts ==
    ASSUME IInv, NEW c \in Campaigns, NEW p \in Procs,
           \/ ResumeCampaign(c, p) \/ SyncCampaign(c, p) \/ CancelCampaign(c, p)
           \/ RetryFulfillment(c, p) \/ AnswerStep(c, p) \/ NotExecutable(c) \/ GateRefuses(c)
           \/ ExecuteCampaign(c) \/ Poll(c)
           \/ \E q \in Quotes : SellerProceeds(c, q) \/ SellerReconciles(c, q)
    PROVE  Accounts(c)
<1>1. UNCHANGED camp
  BY DEF ResumeCampaign, SyncCampaign, CancelCampaign, RetryFulfillment, AnswerStep,
     OrderAnswered, StopAnswered, SyncAnswered, RetryAnswered, RequestFails, NotExecutable,
     GateRefuses, ExecuteCampaign, Poll, SellerProceeds, SellerReconciles
<1> QED
  BY <1>1, AccountsSame

LEMMA CallAccounts ==
    ASSUME IInv, IInv', NEW c \in Campaigns, NEW p \in Procs, CallStep(c, p)
    PROVE  Accounts(c) \/ Disownment(c)
<1> DEFINE r == camp[c]
           k == call[c][p]
<1>1. /\ r \in CampaignRecord /\ Recorded(r, sent[c], sel[c]) /\ k \in CallRecord
      /\ Informed(r, sel[c], k)
  BY Here DEF Called
<1>2. k.view # NoView => k.view \in Views
  BY <1>1 DEF CallRecord
<1>3. ASSUME Evaluated(c, p) PROVE Accounts(c) \/ Disownment(c)
  <2> DEFINE y == Redecided(r)
             ready == [y EXCEPT !.st = "decision_ready", !.quote = @ + 1]
             failed == [y EXCEPT !.st = "decision_failed"]
  <2>1. Write(c, r) \/ Write(c, ready) \/ Write(c, failed)
    BY <1>3 DEF Evaluated
  <2>2. /\ y.att = r.att /\ y.paid = r.paid /\ y.fee = r.fee /\ y.held = r.held
        /\ y.late = (r.late \/ r.att = "submitting")
    BY <1>1 DEF Redecided, CampaignRecord
  <2>3. /\ ready.att = y.att /\ ready.paid = y.paid /\ ready.fee = y.fee
        /\ ready.held = y.held /\ ready.late = y.late
        /\ failed.att = y.att /\ failed.paid = y.paid /\ failed.fee = y.fee
        /\ failed.held = y.held /\ failed.late = y.late
    BY <1>1 DEF Redecided, CampaignRecord
  <2> HIDE DEF y, ready, failed
  <2>4. CASE Write(c, r)
    BY <2>4, SameAccount, AccountsOf
  <2>5. CASE r.late \/ r.att # "submitting"
    <3>1. y.late = r.late
      BY <1>1, <2>2, <2>5, RecordFields
    <3>2. Accounted(r, ready) /\ Accounted(r, failed)
      BY <2>2, <2>3, <3>1, SameAccount
    <3> QED
      BY <2>1, <2>4, <3>2, AccountsOf
  <2>6. CASE ~r.late /\ r.att = "submitting"
    <3>1. ready.late /\ failed.late
      BY <2>2, <2>3, <2>6
    <3>2. MaySent(r) /\ ~r.paid
      BY <1>1, <2>6 DEF Recorded, MaySent, Sunk
    <3> QED
      BY <2>1, <2>4, <2>6, <3>1, <3>2 DEF Disownment
  <2> QED
    BY <2>5, <2>6
<1>4. ASSUME MarkInterrupted(c, p) PROVE Accounts(c)
  <2> DEFINE z == [r EXCEPT !.st = "payment_uncertain", !.att = "uncertain"]
  <2>1. Write(c, z) /\ k.pc = "mark"
    BY <1>4 DEF MarkInterrupted, At
  <2>2. MaySent(r)
    BY <2>1, MarkFindsSent
  <2>3. /\ z.att = "uncertain" /\ z.paid = r.paid /\ z.fee = r.fee /\ z.held = r.held
        /\ z.late = r.late
    BY <1>1 DEF CampaignRecord
  <2> HIDE DEF z, r
  <2>4. Accounted(r, z)
    BY <2>2, <2>3 DEF Accounted, MaySent
  <2> QED
    BY <2>1, <2>4 DEF Accounts, r
<1>5. ASSUME RequestCancellation(c, p) PROVE Accounts(c)
  BY <1>1, <1>5, CancelledAccounted, AccountsOf DEF RequestCancellation
<1>6. ASSUME RecordReordered(c, p) PROVE Accounts(c)
  <2>1. Accounted(r, [r EXCEPT !.ord = k.view, !.oq = k.q])
    BY <1>1 DEF Accounted, MaySent, CampaignRecord
  <2> QED
    BY <1>6, <2>1, AccountsOf, AccountsSame DEF RecordReordered
<1>7. ASSUME RecordStopped(c, p) PROVE Accounts(c)
  <2> DEFINE w == [r EXCEPT !.ord = k.view]
  <2>1. k.view \in Views
    BY <1>1, <1>2, <1>7 DEF RecordStopped, At, Informed
  <2>2. w \in CampaignRecord
    BY <1>1, <2>1, Zenon DEF CampaignRecord
  <2>3. Accounted(r, w)
    BY <1>1 DEF Accounted, MaySent, CampaignRecord
  <2> HIDE DEF w
  <2>4. Accounted(r, Resolved(w, k.view))
    BY <2>1, <2>2, <2>3, ResolvedAccounted, AccountedTwice
  <2> QED
    BY <1>7, <2>4, AccountsOf, AccountsSame DEF RecordStopped, w
<1>8. ASSUME RecordSynced(c, p) PROVE Accounts(c)
  <2>1. k.view \in Views
    BY <1>1, <1>2, <1>8 DEF RecordSynced, At, Informed
  <2>2. Accounted(r, Synced(r, k.view))
    BY <1>1, <2>1, SyncedAccounted
  <2> QED
    BY <1>8, <2>2, AccountsOf, AccountsSame DEF RecordSynced
<1> QED
  BY <1>3, <1>4, <1>5, <1>6, <1>7, <1>8 DEF CallStep

LEMMA CreationAccounts ==
    ASSUME IInv, NEW c \in Campaigns, NEW p \in Procs, CreateCampaign(c, p)
    PROVE  Accounts(c)
<1>1. camp[c].st = "absent" /\ Recorded(camp[c], sent[c], sel[c]) /\ Stated(camp[c])
  BY Here DEF CreateCampaign, Exists
<1>2. ~MaySent(camp[c]) /\ ~camp[c].paid /\ camp[c].late = FALSE
  BY <1>1, Here, Unattempted, RecordFields DEF Stated
<1>3. /\ ~MaySent([NoCampaign EXCEPT !.st = "analyzing"])
      /\ [NoCampaign EXCEPT !.st = "analyzing"].late = FALSE
  BY DEF NoCampaign, MaySent
<1> QED
  BY <1>2, <1>3, NoAccount, AccountsOf DEF CreateCampaign

LEMMA CompletionAccounts ==
    ASSUME IInv, NEW c \in Campaigns, ClaimCompletion(c) \/ CompletionEnds(c)
    PROVE  Accounts(c)
<1> DEFINE r == camp[c]
<1>1. r \in CampaignRecord
  BY Here
<1>2. ASSUME NEW st, NEW pkg
      PROVE  Accounted(r, [r EXCEPT !.st = st]) /\ Accounted(r, [r EXCEPT !.pkg = pkg, !.st = st])
  BY <1>1 DEF Accounted, MaySent, CampaignRecord
<1>3. CASE ClaimCompletion(c)
  BY <1>2, <1>3, AccountsOf, AccountsSame DEF ClaimCompletion
<1>4. CASE CompletionEnds(c)
  <2>1. PICK made \in BOOLEAN :
          Write(c, [r EXCEPT !.pkg = r.pkg \/ made,
                             !.st = IF Asked(r) THEN r.st
                                    ELSE IF made THEN "completed" ELSE "packaging_failed"])
    BY <1>4 DEF CompletionEnds
  <2> QED
    BY <1>2, <2>1, AccountsOf
<1> QED
  BY <1>3, <1>4

LEMMA ExecAccounts ==
    ASSUME IInv, NEW c \in Campaigns, ExecStep(c), ~Submit(c)
    PROVE  Accounts(c)
<1> DEFINE r == camp[c]
           k == call[c]["exec"]
<1>1. /\ r \in CampaignRecord /\ Recorded(r, sent[c], sel[c]) /\ Executing(r, sent[c], k)
  BY Here DEF Called
<1>2. Accounted(r, r)
  BY SameAccount
<1>3. k.pc \in Ordering \cup Signing \cup Gating => r.late \/ (~MaySent(r) /\ ~r.paid)
  BY <1>1, Unattempted DEF Executing
<1>4. ASSUME NEW st PROVE Accounted(r, [r EXCEPT !.st = st])
  BY <1>1 DEF Accounted, MaySent, CampaignRecord
<1>5. ASSUME NEW z, r.late \/ (~MaySent(r) /\ ~r.paid), z.late = r.late,
             z.att = r.att \/ z.att \in {"none", "prepared"}
      PROVE  Accounted(r, z)
  BY <1>1, <1>5, RecordFields DEF Accounted, MaySent
<1>6. ASSUME ReserveSpend(c) PROVE Accounts(c)
  <2> DEFINE z == [r EXCEPT !.res = "reserved", !.held = Price + Allowance]
  <2>1. UNCHANGED camp \/ (~Active(r) /\ ~r.paid /\ Write(c, z))
    BY <1>6 DEF ReserveSpend
  <2>2. ~Active(r) /\ ~r.paid => ~MaySent(r)
    BY <1>1 DEF Recorded
  <2>3. z.att = r.att /\ z.late = r.late
    BY <1>1 DEF CampaignRecord
  <2> QED
    BY <1>5, <2>1, <2>2, <2>3, AccountsOf, AccountsSame
<1>7. ASSUME ReservationRefused(c) \/ BeginOrder(c) \/ BeginSigning(c) PROVE Accounts(c)
  BY <1>4, <1>7, AccountsOf, AccountsSame DEF ReservationRefused, BeginOrder, BeginSigning
<1>8. ASSUME RecordOrder(c) PROVE Accounts(c)
  <2> DEFINE linked == [r EXCEPT !.ord = k.view, !.oq = k.q]
             w == [linked EXCEPT !.st = "payment_origin_review_required", !.res = "uncertain"]
             y == [linked EXCEPT !.st = "awaiting_payment"]
  <2>1. \E z \in {linked, w, y} : Write(c, z)
    BY <1>8 DEF RecordOrder
  <2>2. /\ linked.att = r.att /\ w.att = r.att /\ y.att = r.att
        /\ linked.late = r.late /\ w.late = r.late /\ y.late = r.late
    BY <1>1 DEF CampaignRecord
  <2>3. r.late \/ (~MaySent(r) /\ ~r.paid)
    BY <1>3, <1>8 DEF RecordOrder, At, Ordering
  <2> HIDE DEF linked, w, y
  <2> QED
    BY <1>5, <2>1, <2>2, <2>3, AccountsOf
<1>9. ASSUME OrderFails(c) \/ QuoteExpired(c) \/ SigningFails(c) \/ DiscardAttempt(c)
      PROVE  Accounts(c)
  <2>1. k.pc \in Ordering \cup Signing \cup Gating
    BY <1>9 DEF OrderFails, QuoteExpired, SigningFails, DiscardAttempt, At, Ordering, Signing,
       Gating
  <2>2. \/ \E st : Write(c, [Suspend(r) EXCEPT !.st = st])
        \/ \E st : Write(c, [Release(r) EXCEPT !.st = st])
        \/ Write(c, [Release(r) EXCEPT !.st = "spend_blocked", !.psbt = FALSE,
                                       !.att = "none", !.fee = 0])
        \/ Write(c, r)
    BY <1>9 DEF OrderFails, QuoteExpired, SigningFails, DiscardAttempt
  <2>3. Suspend(r) \in CampaignRecord /\ Release(r) \in CampaignRecord
    BY <1>1, SuspendTyped, ReleaseTyped
  <2>4. /\ Suspend(r).att = r.att /\ Release(r).att = r.att
        /\ Suspend(r).late = r.late /\ Release(r).late = r.late
    BY <1>1 DEF Suspend, Release, CampaignRecord
  <2>5. ASSUME NEW st
        PROVE  /\ [Suspend(r) EXCEPT !.st = st].att = r.att
               /\ [Suspend(r) EXCEPT !.st = st].late = r.late
               /\ [Release(r) EXCEPT !.st = st].att = r.att
               /\ [Release(r) EXCEPT !.st = st].late = r.late
    BY <2>3, <2>4 DEF CampaignRecord
  <2>6. /\ [Release(r) EXCEPT !.st = "spend_blocked", !.psbt = FALSE,
                              !.att = "none", !.fee = 0].att = "none"
        /\ [Release(r) EXCEPT !.st = "spend_blocked", !.psbt = FALSE,
                              !.att = "none", !.fee = 0].late = r.late
    BY <2>3, <2>4 DEF CampaignRecord
  <2> QED
    BY <1>2, <1>3, <1>5, <2>1, <2>2, <2>5, <2>6, AccountsOf
<1>10. ASSUME RecordSigned(c) PROVE Accounts(c)
  <2>1. PICK fee \in 0 .. Allowance :
          \/ Write(c, r)
          \/ Write(c, [r EXCEPT !.res = "prepared", !.held = Price + fee, !.fee = fee,
                                !.att = "prepared", !.psbt = TRUE, !.rcpt = FALSE])
    BY <1>10 DEF RecordSigned
  <2>2. /\ [r EXCEPT !.res = "prepared", !.held = Price + fee, !.fee = fee,
                     !.att = "prepared", !.psbt = TRUE, !.rcpt = FALSE].att = "prepared"
        /\ [r EXCEPT !.res = "prepared", !.held = Price + fee, !.fee = fee,
                     !.att = "prepared", !.psbt = TRUE, !.rcpt = FALSE].late = r.late
    BY <1>1 DEF CampaignRecord
  <2>3. r.late \/ (~MaySent(r) /\ ~r.paid)
    BY <1>3, <1>10 DEF RecordSigned, At, Signing
  <2> QED
    BY <1>2, <1>5, <2>1, <2>2, <2>3, AccountsOf
<1>11. ASSUME RecordReceipt(c) \/ SubmissionUncertain(c) PROVE Accounts(c)
  <2> DEFINE s == Outcome(r, "submitted", "payment_submitted")
             u == Outcome(r, "uncertain", "payment_uncertain")
             z == [s EXCEPT !.rcpt = TRUE, !.psbt = FALSE]
  <2>1. Write(c, z) \/ Write(c, u)
    BY <1>11 DEF RecordReceipt, SubmissionUncertain
  <2>2. MaySent(r)
    BY <1>1, <1>11 DEF RecordReceipt, SubmissionUncertain, At, Executing, MaySent
  <2>3. /\ z.att = "submitted" /\ z.paid = r.paid /\ z.fee = r.fee /\ z.held = r.held
        /\ u.att = "uncertain" /\ u.paid = r.paid /\ u.fee = r.fee /\ u.held = r.held
        /\ z.late = r.late /\ u.late = r.late
    BY <1>1 DEF Outcome, CampaignRecord
  <2> HIDE DEF z, u, s
  <2>4. Accounted(r, z) /\ Accounted(r, u)
    BY <2>2, <2>3 DEF Accounted, MaySent
  <2> QED
    BY <2>1, <2>4, AccountsOf
<1>12. ASSUME NotExecutable(c) \/ GateRefuses(c) PROVE Accounts(c)
  BY <1>12, AccountsSame DEF NotExecutable, GateRefuses
<1> QED
  BY <1>6, <1>7, <1>8, <1>9, <1>10, <1>11, <1>12 DEF ExecStep

\* The submission itself: a prepared, unsent attempt leaves with its exact debit.
Submission(c) ==
    LET r == camp[c] IN
    /\ ~r.late /\ ~MaySent(r) /\ ~r.paid /\ r.fee \in 0 .. Allowance
    /\ Fits(c, Price + r.fee)
    /\ Write(c, [r EXCEPT !.st = "submitting_payment", !.att = "submitting",
                          !.res = "submitting", !.held = Price + r.fee])

LEMMA SubmitAccounts ==
    ASSUME IInv, NEW c \in Campaigns, Submit(c)
    PROVE  Accounts(c) \/ Submission(c)
<1>1. /\ camp[c] \in CampaignRecord /\ Recorded(camp[c], sent[c], sel[c])
      /\ Executing(camp[c], sent[c], call[c]["exec"])
  BY Here DEF Called
<1> DEFINE z == [camp[c] EXCEPT !.st = "submitting_payment", !.att = "submitting",
                                !.res = "submitting", !.held = Price + camp[c].fee]
<1>2. \/ UNCHANGED camp
      \/ Fits(c, Price + camp[c].fee) /\ Write(c, z)
  BY DEF Submit
<1>3. CASE camp[c].late
  <2>1. z.late = camp[c].late
    BY <1>1 DEF CampaignRecord
  <2> HIDE DEF z
  <2>2. Accounted(camp[c], z)
    BY <1>3, <2>1 DEF Accounted
  <2> QED
    BY <1>2, <2>2, AccountsOf, AccountsSame
<1>4. CASE ~camp[c].late
  <2>1. camp[c].att = "prepared"
    BY <1>1, <1>4 DEF Submit, At, Executing, Gating
  <2>2. ~MaySent(camp[c]) /\ ~camp[c].paid /\ camp[c].fee \in 0 .. Allowance
    BY <1>1, <2>1, Unattempted, RecordFields
  <2> QED
    BY <1>2, <1>4, <2>2, AccountsSame DEF Submission
<1> QED
  BY <1>3, <1>4

\* Every step leaves the accounts of all campaigns but one alone, and sends or disowns
\* at most one payment.
LEMMA StepAccounts ==
    ASSUME IInv, IInv', [Next]_vars
    PROVE  \/ UNCHANGED camp
           \/ \E c \in Campaigns : Accounts(c) \/ Disownment(c) \/ Submission(c)
<1>1. ASSUME NEW c \in Campaigns, NEW p \in Procs,
             CallStep(c, p) \/ ClientStep(c, p) \/ AnswerStep(c, p)
      PROVE  Accounts(c) \/ Disownment(c)
  BY <1>1, CallAccounts, CreationAccounts, QuietAccounts DEF ClientStep
<1>2. ASSUME NEW c \in Campaigns, ExecStep(c) PROVE Accounts(c) \/ Submission(c)
  BY <1>2, ExecAccounts, SubmitAccounts
<1>3. ASSUME NEW c \in Campaigns,
             \/ ExecuteCampaign(c) \/ Poll(c) \/ ClaimCompletion(c) \/ CompletionEnds(c)
             \/ \E q \in Quotes : SellerProceeds(c, q) \/ SellerReconciles(c, q)
      PROVE  Accounts(c)
  BY <1>3, QuietAccounts, CompletionAccounts, ProcsHere
<1>4. CASE Restart \/ FinishBoot \/ UNCHANGED vars
  BY <1>4 DEF Restart, FinishBoot, vars
<1> QED
  BY <1>1, <1>2, <1>3, <1>4 DEF Next

-----------------------------------------------------------------------------
(* Sums over sets of campaigns. *)

\* The element MapThenSumSet takes from a set first.
Pick(s) == CHOOSE x \in s : TRUE

\* g sums the values of f over every set of campaigns, one element at a time.
IsSum(g, f) ==
    /\ g \in [SUBSET Campaigns -> Nat]
    /\ \A s \in SUBSET Campaigns :
         g[s] = IF s = {} THEN 0 ELSE f[Pick(s)] + g[s \ {Pick(s)}]

\* Among sets of campaigns one has no smaller one beside it: what the inductions
\* over sets below rest on.
LEMMA SmallestSet ==
  ASSUME NEW T \in SUBSET SUBSET Campaigns, T # {}
  PROVE  \E s \in T : \A t \in T : t \subseteq s => t = s
<1>1. FiniteSubsetsOf(Campaigns) = SUBSET Campaigns
  BY FS_FiniteSubsetsOfFinite, BuyerAssumption
<1>0. IsWellFoundedOn(StrictSubsetOrdering(Campaigns), SUBSET Campaigns)
  BY <1>1, FS_StrictSubsetOrderingWellFounded, Zenon
<1>2. \E s \in T : \A t \in T : ~ (<<t, s>> \in StrictSubsetOrdering(Campaigns))
  BY <1>0, WFMin, Zenon
<1> QED
  BY <1>2 DEF StrictSubsetOrdering

LEMMA PickIn == \A s : s # {} => Pick(s) \in s
  BY DEF Pick

LEMMA SumExists ==
  ASSUME NEW f \in [Campaigns -> Nat]
  PROVE  \E g : IsSum(g, f)
<1> DEFINE Upto(g, n) == \A s \in SUBSET Campaigns : Cardinality(s) <= n =>
                           g[s] = IF s = {} THEN 0 ELSE f[Pick(s)] + g[s \ {Pick(s)}]
           K == {n \in Nat : \E g \in [SUBSET Campaigns -> Nat] : Upto(g, n)}
           Bad == Nat \ K
<1>1. \A s \in SUBSET Campaigns : IsFiniteSet(s) /\ Cardinality(s) \in Nat
  BY BuyerAssumption, FS_Subset, FS_CardinalityType
<1>2. 0 \in K
  <2> DEFINE g == [s \in SUBSET Campaigns |-> 0]
  <2>1. g \in [SUBSET Campaigns -> Nat]
    OBVIOUS
  <2>2. Upto(g, 0)
    BY <1>1, FS_EmptySet
  <2> QED
    BY <2>1, <2>2
<1>3. ASSUME NEW n \in K PROVE n + 1 \in K
  <2>1. PICK g \in [SUBSET Campaigns -> Nat] : Upto(g, n)
    BY <1>3
  <2> DEFINE h == [s \in SUBSET Campaigns |->
                     IF s = {} THEN 0 ELSE f[Pick(s)] + g[s \ {Pick(s)}]]
  <2>2. \A s \in SUBSET Campaigns : s # {} => f[Pick(s)] \in Nat /\ g[s \ {Pick(s)}] \in Nat
    BY <2>1, PickIn
  <2>3. h \in [SUBSET Campaigns -> Nat]
    BY <2>2
  <2>4. \A s \in SUBSET Campaigns : Cardinality(s) <= n => h[s] = g[s]
    BY <2>1
  <2>5. ASSUME NEW s \in SUBSET Campaigns, Cardinality(s) <= n + 1, s # {}
        PROVE  h[s] = f[Pick(s)] + h[s \ {Pick(s)}]
    <3>1. Cardinality(s \ {Pick(s)}) = Cardinality(s) - 1
      BY <1>1, <2>5, PickIn, FS_RemoveElement
    <3>2. Cardinality(s \ {Pick(s)}) <= n
      BY <3>1, <1>1, <2>5
    <3>3. h[s \ {Pick(s)}] = g[s \ {Pick(s)}]
      BY <3>2, <2>4
    <3> QED
      BY <3>3, <2>5
  <2>6. Upto(h, n + 1)
    BY <2>5
  <2>7. n + 1 \in Nat
    BY <1>3
  <2> HIDE DEF h, Upto
  <2> QED
    BY <2>3, <2>6, <2>7
<1>4. Nat \subseteq K
  <2>1. SUFFICES ASSUME Bad # {} PROVE FALSE
    OBVIOUS
  <2> HIDE DEF K
  <2>2. PICK n \in Bad : \A m \in Bad : ~ (<<m, n>> \in OpToRel(<, Nat))
    <3>1. Bad \subseteq Nat
      OBVIOUS
    <3> HIDE DEF Bad
    <3> QED
      BY <2>1, <3>1, NatLessThanWellFounded, WFMin, Zenon
  <2>3. \A m \in Bad : ~ (m < n)
    BY <2>2 DEF OpToRel
  <2>4. n # 0 /\ n \in Nat
    BY <1>2
  <2>5. n - 1 \in Nat /\ n - 1 < n
    BY <2>4
  <2>6. n - 1 \in K
    BY <2>3, <2>5
  <2>7. (n - 1) + 1 \in K
    BY <1>3, <2>6
  <2> QED
    BY <2>7, <2>4
<1>5. PICK g \in [SUBSET Campaigns -> Nat] : Upto(g, Cardinality(Campaigns))
  BY <1>1, <1>4
<1>6. \A s \in SUBSET Campaigns : Cardinality(s) <= Cardinality(Campaigns)
  BY BuyerAssumption, FS_Subset
<1> QED
  BY <1>5, <1>6 DEF IsSum

\* A sum does not depend on the order of its elements.
LEMMA SumRemove ==
  ASSUME NEW f \in [Campaigns -> Nat], NEW g, IsSum(g, f)
  PROVE  \A s \in SUBSET Campaigns : \A c \in s : g[s] = f[c] + g[s \ {c}]
<1> DEFINE Bad == {s \in SUBSET Campaigns : \E c \in s : g[s] # f[c] + g[s \ {c}]}
<1>1. SUFFICES ASSUME Bad # {} PROVE FALSE
  OBVIOUS
<1>2. PICK s \in Bad : \A t \in Bad : t \subseteq s => t = s
  <2>1. Bad \in SUBSET SUBSET Campaigns
    OBVIOUS
  <2> HIDE DEF Bad
  <2> QED
    BY <1>1, <2>1, SmallestSet
<1>3. PICK c \in s : g[s] # f[c] + g[s \ {c}]
  OBVIOUS
<1> DEFINE x == Pick(s)
<1>4. s \in SUBSET Campaigns /\ x \in s /\ x \in Campaigns /\ c \in Campaigns
  BY PickIn
<1>5. g[s] = f[x] + g[s \ {x}]
  BY <1>4 DEF IsSum
<1> HIDE DEF x
<1>6. x # c
  BY <1>3, <1>5
<1>7. s \ {x} \notin Bad /\ s \ {c} \notin Bad
  BY <1>2, <1>4
<1>8. g[s \ {x}] = f[c] + g[(s \ {x}) \ {c}] /\ g[s \ {c}] = f[x] + g[(s \ {c}) \ {x}]
  BY <1>4, <1>6, <1>7
<1>9. (s \ {x}) \ {c} = (s \ {c}) \ {x}
  OBVIOUS
<1>10. f[x] \in Nat /\ f[c] \in Nat /\ g[(s \ {c}) \ {x}] \in Nat
  BY <1>4 DEF IsSum
<1>11. g[s \ {c}] = f[x] + g[(s \ {c}) \ {x}] /\ g[s] = f[x] + (f[c] + g[(s \ {c}) \ {x}])
  BY <1>5, <1>8, <1>9, Zenon
<1>12. g[s] # f[c] + g[s \ {c}]
  BY <1>3
<1> HIDE DEF Bad
<1> QED
  BY <1>10, <1>11, <1>12

\* Sums over two sets bound the sum over their union.
LEMMA SumUnion ==
  ASSUME NEW f \in [Campaigns -> Nat], NEW g, IsSum(g, f),
         NEW a \in SUBSET Campaigns
  PROVE  \A b \in SUBSET Campaigns : g[a \cup b] <= g[a] + g[b]
<1> DEFINE Bad == {b \in SUBSET Campaigns : ~ (g[a \cup b] <= g[a] + g[b])}
<1>1. SUFFICES ASSUME Bad # {} PROVE FALSE
  OBVIOUS
<1>2. PICK b \in Bad : \A t \in Bad : t \subseteq b => t = b
  <2>1. Bad \in SUBSET SUBSET Campaigns
    OBVIOUS
  <2> HIDE DEF Bad
  <2> QED
    BY <1>1, <2>1, SmallestSet
<1>3. b \in SUBSET Campaigns /\ ~ (g[a \cup b] <= g[a] + g[b])
  BY <1>2
<1>4. \A s \in SUBSET Campaigns : g[s] \in Nat
  BY DEF IsSum
<1>5. CASE b = {}
  <2>1. a \cup b = a
    BY <1>5
  <2>2. g[a \cup b] = g[a] /\ g[a] \in Nat /\ g[b] \in Nat
    BY <2>1, <1>3, <1>4
  <2> HIDE DEF Bad
  <2> QED
    BY <2>2, <1>3
<1>6. ASSUME NEW c \in b PROVE FALSE
  <2> DEFINE d == b \ {c}
  <2>1. d \in SUBSET Campaigns /\ d \notin Bad
    BY <1>2, <1>3, <1>6
  <2>2. g[a \cup d] <= g[a] + g[d]
    BY <2>1
  <2>6. a \cup b \in SUBSET Campaigns /\ a \cup d \in SUBSET Campaigns
    BY <1>3
  <2>7. g[a] \in Nat /\ g[b] \in Nat /\ g[d] \in Nat /\ g[a \cup b] \in Nat /\ g[a \cup d] \in Nat
    BY <1>3, <1>4, <2>1, <2>6
  <2>3. g[b] = f[c] + g[d] /\ f[c] \in Nat
    BY <1>3, <1>6, SumRemove
  <2>4. CASE c \in a
    <3>1. a \cup b = a \cup d
      BY <2>4, <1>6
    <3> HIDE DEF d, Bad
    <3> QED
      BY <3>1, <2>2, <2>3, <2>7, <1>3
  <2>5. CASE c \notin a
    <3>1. (a \cup b) \ {c} = a \cup d
      BY <2>5
    <3>2. a \cup b \in SUBSET Campaigns /\ c \in a \cup b /\ a \cup d \in SUBSET Campaigns
      BY <1>3, <1>6
    <3>3. g[a \cup b] = f[c] + g[a \cup d]
      BY <3>1, <3>2, SumRemove
    <3> HIDE DEF d, Bad
    <3> QED
      BY <3>3, <2>2, <2>3, <2>7, <1>3
  <2> QED
    BY <2>4, <2>5
<1> QED
  BY <1>5, <1>6

\* A sum over fewer campaigns is no larger.
LEMMA SumMonotone ==
  ASSUME NEW f \in [Campaigns -> Nat], NEW g, IsSum(g, f),
         NEW a \in SUBSET Campaigns
  PROVE  \A b \in SUBSET Campaigns : g[a] <= g[a \cup b]
<1> DEFINE Bad == {b \in SUBSET Campaigns : ~ (g[a] <= g[a \cup b])}
<1>1. SUFFICES ASSUME Bad # {} PROVE FALSE
  OBVIOUS
<1>2. PICK b \in Bad : \A t \in Bad : t \subseteq b => t = b
  <2>1. Bad \in SUBSET SUBSET Campaigns
    OBVIOUS
  <2> HIDE DEF Bad
  <2> QED
    BY <1>1, <2>1, SmallestSet
<1>3. b \in SUBSET Campaigns /\ ~ (g[a] <= g[a \cup b])
  BY <1>2
<1>4. \A s \in SUBSET Campaigns : g[s] \in Nat
  BY DEF IsSum
<1>5. PICK c \in b : c \notin a
  <2>1. CASE b \subseteq a
    <3>1. a \cup b = a
      BY <2>1
    <3>2. g[a \cup b] = g[a] /\ g[a] \in Nat
      BY <3>1, <1>4
    <3> HIDE DEF Bad
    <3> QED
      BY <3>2, <1>3
  <2> QED
    BY <2>1
<1> DEFINE d == b \ {c}
<1>6. d \in SUBSET Campaigns /\ d \notin Bad
  BY <1>2, <1>3, <1>5
<1>7. g[a] <= g[a \cup d]
  BY <1>6
<1>8. (a \cup b) \ {c} = a \cup d /\ a \cup b \in SUBSET Campaigns /\ c \in a \cup b
  BY <1>3, <1>5
<1>9. g[a \cup b] = f[c] + g[a \cup d] /\ f[c] \in Nat
  BY <1>3, <1>5, <1>8, SumRemove
<1>10. g[a] \in Nat /\ g[a \cup d] \in Nat /\ g[a \cup b] \in Nat
  BY <1>3, <1>4, <1>6
<1> HIDE DEF Bad, d
<1> QED
  BY <1>3, <1>7, <1>9, <1>10

\* h satisfies the equations of a sum of f over the subsets of a.
SumsOver(h, f, a) ==
    \A s \in SUBSET a : h[s] = IF s = {} THEN 0 ELSE f[Pick(s)] + h[s \ {Pick(s)}]

\* Only the sum does.
LEMMA SumUnique ==
  ASSUME NEW f \in [Campaigns -> Nat], NEW g, IsSum(g, f),
         NEW a \in SUBSET Campaigns, NEW h, SumsOver(h, f, a)
  PROVE  h[a] = g[a]
<1> DEFINE Bad == {s \in SUBSET a : h[s] # g[s]}
<1>1. SUFFICES ASSUME Bad # {} PROVE FALSE
  OBVIOUS
<1>2. PICK s \in Bad : \A t \in Bad : t \subseteq s => t = s
  <2>1. Bad \in SUBSET SUBSET Campaigns
    OBVIOUS
  <2> HIDE DEF Bad
  <2> QED
    BY <1>1, <2>1, SmallestSet
<1>3. s \in SUBSET Campaigns /\ s \in SUBSET a /\ h[s] # g[s]
  OBVIOUS
<1>4. s # {} /\ Pick(s) \in s
  BY <1>3, PickIn DEF IsSum, SumsOver
<1>5. s \ {Pick(s)} \notin Bad
  BY <1>2, <1>4
<1>6. h[s \ {Pick(s)}] = g[s \ {Pick(s)}]
  BY <1>3, <1>4, <1>5
<1>7. g[s] = f[Pick(s)] + g[s \ {Pick(s)}]
  BY <1>3, <1>4 DEF IsSum
<1>8. h[s] = f[Pick(s)] + h[s \ {Pick(s)}]
  BY <1>3, <1>4 DEF SumsOver
<1> QED
  BY <1>3, <1>6, <1>7, <1>8

LEMMA RestrictSum ==
  ASSUME NEW f \in [Campaigns -> Nat], NEW g, IsSum(g, f), NEW a \in SUBSET Campaigns
  PROVE  \E h : h = [s \in SUBSET a |-> IF s = {} THEN 0 ELSE f[Pick(s)] + h[s \ {Pick(s)}]]
<1> DEFINE h == [s \in SUBSET a |-> g[s]]
<1>1. ASSUME NEW s \in SUBSET a
      PROVE  h[s] = IF s = {} THEN 0 ELSE f[Pick(s)] + h[s \ {Pick(s)}]
  BY <1>1 DEF IsSum
<1>2. h = [s \in SUBSET a |-> h[s]]
  OBVIOUS
<1> HIDE DEF h
<1>3. h = [s \in SUBSET a |-> IF s = {} THEN 0 ELSE f[Pick(s)] + h[s \ {Pick(s)}]]
  BY <1>1, <1>2
<1> QED
  BY <1>3

-----------------------------------------------------------------------------
(* The accounts of the campaigns and the entries of the ledger. *)

HeldBy == [c \in Campaigns |-> camp[c].held]
Entries == [c \in Campaigns |-> EntryOf(c)]

LEMMA HeldSum ==
  ASSUME HeldBy \in [Campaigns -> Nat], NEW g, IsSum(g, HeldBy), NEW a \in SUBSET Campaigns
  PROVE  MapThenSumSet(HeldOf, a) = g[a]
<1> DEFINE P(h) == h = [s \in SUBSET a |->
               IF s = {} THEN 0
               ELSE camp[CHOOSE x \in s : TRUE].held + h[s \ {CHOOSE x \in s : TRUE}]]
           it == CHOOSE h : P(h)
<1>1. \E h : P(h)
  <2>1. PICK h : h = [s \in SUBSET a |->
                        IF s = {} THEN 0 ELSE HeldBy[Pick(s)] + h[s \ {Pick(s)}]]
    BY RestrictSum
  <2>2. ASSUME NEW s \in SUBSET a, s # {} PROVE HeldBy[Pick(s)] = camp[Pick(s)].held
    BY PickIn, <2>2 DEF HeldBy
  <2>3. h = [s \in SUBSET a |-> IF s = {} THEN 0 ELSE camp[Pick(s)].held + h[s \ {Pick(s)}]]
    BY <2>1, <2>2
  <2>4. P(h)
    BY <2>3 DEF Pick
  <2> QED
    BY <2>4
<1>2. P(it)
  BY <1>1
<1>3. MapThenSumSet(HeldOf, a) = it[a]
  BY DEF MapThenSumSet, MapThenFoldSet, HeldOf
<1> HIDE DEF it
<1>4. \A s \in SUBSET a : it[s] = IF s = {} THEN 0 ELSE camp[Pick(s)].held + it[s \ {Pick(s)}]
  BY <1>2 DEF Pick
<1>5. SumsOver(it, HeldBy, a)
  BY <1>4, PickIn DEF HeldBy, SumsOver
<1>6. it[a] = g[a]
  BY <1>5, SumUnique
<1> QED
  BY <1>3, <1>6

\* The entries of a are on account: they sum up to what their campaigns hold.
LEMMA EntrySum ==
    ASSUME HeldBy \in [Campaigns -> Nat], NEW g, IsSum(g, HeldBy), NEW a \in SUBSET Campaigns,
           \A c \in a : Entries[c].sats = camp[c].held
    PROVE  Ledger!Total(a) = g[a]
<1> DEFINE P(h) == h = [s \in SUBSET a |->
               IF s = {} THEN 0
               ELSE [c \in Campaigns |-> EntryOf(c)][CHOOSE x \in s : TRUE].sats
                    + h[s \ {CHOOSE x \in s : TRUE}]]
           it == CHOOSE h : P(h)
<1>1. \E h : P(h)
  <2>1. PICK h : h = [s \in SUBSET a |->
                        IF s = {} THEN 0 ELSE HeldBy[Pick(s)] + h[s \ {Pick(s)}]]
    BY RestrictSum
  <2>2. ASSUME NEW s \in SUBSET a, s # {} PROVE HeldBy[Pick(s)] = Entries[Pick(s)].sats
    BY PickIn, <2>2 DEF HeldBy
  <2>3. h = [s \in SUBSET a |-> IF s = {} THEN 0 ELSE Entries[Pick(s)].sats + h[s \ {Pick(s)}]]
    BY <2>1, <2>2
  <2>4. P(h)
    BY <2>3 DEF Pick, Entries
  <2> QED
    BY <2>4
<1>2. P(it)
  BY <1>1
<1>3. Ledger!Total(a) = it[a]
  BY DEF Ledger!Total, Ledger!SatsOf, Ledger!MapThenSumSet, Ledger!MapThenFoldSet
<1> HIDE DEF it
<1>4. \A s \in SUBSET a : it[s] = IF s = {} THEN 0 ELSE Entries[Pick(s)].sats + it[s \ {Pick(s)}]
  BY <1>2 DEF Pick, Entries
<1>5. SumsOver(it, HeldBy, a)
  BY <1>4, PickIn DEF HeldBy, SumsOver
<1>6. it[a] = g[a]
  BY <1>5, SumUnique
<1> QED
  BY <1>3, <1>6

\* The entry of a campaign, from its record alone.
EntryFor(r) ==
    IF r.late THEN [state |-> "disowned", sats |-> 0]
    ELSE IF r.paid THEN [state |-> "spent", sats |-> Price + r.fee]
    ELSE IF MaySent(r) THEN [state |-> "sent", sats |-> Price + r.fee]
    ELSE IF Active(r) THEN [state |-> "held", sats |-> r.held]
    ELSE [state |-> "free", sats |-> 0]

\* submitPrepared was called for exactly those attempts that may have been sent.
LEMMA SentOrNot ==
    ASSUME NEW r \in CampaignRecord, NEW s, NEW v, Recorded(r, s, v), ~r.late
    PROVE  MaySent(r) <=> ~ \A q \in Quotes : s[q] = 0
  BY DEF Recorded, MaySent

LEMMA EntryIs == ASSUME IInv, NEW c \in Campaigns PROVE Entries[c] = EntryFor(camp[c])
<1>1. ~camp[c].late => (MaySent(camp[c]) <=> ~Unsent(c))
  BY Here, SentOrNot DEF Unsent
<1> QED
  BY <1>1 DEF Entries, EntryOf, EntryFor, DebitOf

LEMMA EntryWillBe ==
    ASSUME IInv', NEW c \in Campaigns PROVE Entries'[c] = EntryFor(camp'[c])
<1>1. camp'[c] \in CampaignRecord /\ Recorded(camp'[c], sent'[c], sel'[c])
  BY DEF IInv, TypeOK, Sound
<1>2. ~camp'[c].late => (MaySent(camp'[c]) <=> ~Unsent(c)')
  BY <1>1, SentOrNot DEF Unsent
<1> QED
  BY <1>2 DEF Entries, EntryOf, EntryFor, DebitOf

LEMMA EntryFields ==
    ASSUME NEW r \in CampaignRecord
    PROVE  /\ EntryFor(r).state = IF r.late THEN "disowned" ELSE IF r.paid THEN "spent"
                                  ELSE IF MaySent(r) THEN "sent"
                                  ELSE IF Active(r) THEN "held" ELSE "free"
           /\ EntryFor(r).sats = IF r.late THEN 0 ELSE IF r.paid \/ MaySent(r) THEN Price + r.fee
                                 ELSE IF Active(r) THEN r.held ELSE 0
           /\ EntryFor(r).sats \in 0 .. Price + Allowance
           /\ EntryFor(r) = [state |-> EntryFor(r).state, sats |-> EntryFor(r).sats]
<1>1. r.held \in 0 .. Price + Allowance /\ Price + r.fee \in 0 .. Price + Allowance
  BY RecordFields, Amounts
<1>6. CASE r.late
  BY <1>6, Amounts DEF EntryFor
<1>2. CASE ~r.late /\ r.paid
  BY <1>1, <1>2 DEF EntryFor
<1>3. CASE ~r.late /\ ~r.paid /\ MaySent(r)
  BY <1>1, <1>3 DEF EntryFor
<1>4. CASE ~r.late /\ ~r.paid /\ ~MaySent(r) /\ Active(r)
  BY <1>1, <1>4 DEF EntryFor
<1>5. CASE ~r.late /\ ~r.paid /\ ~MaySent(r) /\ ~Active(r)
  BY <1>1, <1>5, Amounts DEF EntryFor
<1> QED
  BY <1>2, <1>3, <1>4, <1>5, <1>6

\* A step that keeps the accounts keeps an entry, holds, releases or books it.
LEMMA EntryMoves ==
    ASSUME NEW r \in CampaignRecord, NEW z \in CampaignRecord, Accounted(r, z),
           r.paid => MaySent(r), z.paid => MaySent(z)
    PROVE  \/ EntryFor(z) = EntryFor(r)
           \/ /\ EntryFor(r).state \in {"free", "held"} /\ EntryFor(z).state = "held"
           \/ EntryFor(r).state = "held" /\ EntryFor(z) = [state |-> "free", sats |-> 0]
           \/ /\ EntryFor(r).state = "sent" /\ EntryFor(z).state = "spent"
              /\ EntryFor(z).sats = EntryFor(r).sats
<1>4. CASE r.late
  BY <1>4 DEF Accounted, EntryFor
<1>1. CASE ~r.late /\ r.paid
  <2>1. ~z.late /\ z.paid /\ z.fee = r.fee
    BY <1>1 DEF Accounted
  <2> QED
    BY <1>1, <2>1 DEF EntryFor
<1>2. CASE ~r.late /\ ~r.paid /\ MaySent(r)
  <2>1. ~z.late /\ MaySent(z) /\ z.fee = r.fee
    BY <1>2 DEF Accounted
  <2>2. CASE z.paid
    BY <1>2, <2>1, <2>2, EntryFields
  <2>3. CASE ~z.paid
    BY <1>2, <2>1, <2>3 DEF EntryFor
  <2> QED
    BY <2>2, <2>3
<1>3. CASE ~r.late /\ ~r.paid /\ ~MaySent(r)
  <2>1. ~z.late /\ ~MaySent(z) /\ ~z.paid
    BY <1>3 DEF Accounted
  <2>2. CASE Active(z)
    BY <1>3, <2>1, <2>2, EntryFields
  <2>3. CASE ~Active(z)
    <3>1. EntryFor(z) = [state |-> "free", sats |-> 0]
      BY <2>1, <2>3 DEF EntryFor
    <3>2. CASE Active(r)
      BY <1>3, <3>1, <3>2, EntryFields
    <3>3. CASE ~Active(r)
      BY <1>3, <3>1, <3>3 DEF EntryFor
    <3> QED
      BY <3>2, <3>3
  <2> QED
    BY <2>2, <2>3
<1> QED
  BY <1>1, <1>2, <1>3, <1>4

\* What the proof of a step knows of the entries when one record changes.
LEMMA OneEntry ==
    ASSUME IInv, IInv', NEW c \in Campaigns, NEW z, Write(c, z)
    PROVE  /\ camp[c] \in CampaignRecord /\ z \in CampaignRecord /\ camp'[c] = z
           /\ camp[c].paid => MaySent(camp[c])
           /\ z.paid => MaySent(z)
           /\ Entries[c] = EntryFor(camp[c]) /\ Entries'[c] = EntryFor(z)
           /\ \A d \in Campaigns \ {c} : Entries'[d] = Entries[d]
           /\ Entries' = [Entries EXCEPT ![c] = EntryFor(z)]
<1>1. camp[c] \in CampaignRecord /\ Recorded(camp[c], sent[c], sel[c])
  BY Here
<1>2. camp'[c] = z /\ \A d \in Campaigns \ {c} : camp'[d] = camp[d]
  BY DEF Write, IInv, TypeOK
<1>3. z \in CampaignRecord /\ Recorded(z, sent'[c], sel'[c])
  BY <1>2 DEF IInv, TypeOK, Sound
<1>4. Entries[c] = EntryFor(camp[c]) /\ Entries'[c] = EntryFor(z)
  BY <1>2, EntryIs, EntryWillBe
<1>5. ASSUME NEW d \in Campaigns \ {c} PROVE Entries'[d] = Entries[d]
  BY <1>2, EntryIs, EntryWillBe
<1>6. Entries' = [Entries EXCEPT ![c] = EntryFor(z)]
  BY <1>4, <1>5 DEF Entries
<1>7. (camp[c].paid => MaySent(camp[c])) /\ (z.paid => MaySent(z))
  BY <1>1, <1>3 DEF Recorded, MaySent, Sunk
<1> QED
  BY <1>1, <1>2, <1>3, <1>4, <1>5, <1>6, <1>7

\* A move of one entry that the ledger allows.
LEMMA LedgerMoves ==
    ASSUME NEW c \in Campaigns, NEW e, NEW f, Entries[c] = e,
           Entries' = [Entries EXCEPT ![c] = f],
           e = [state |-> e.state, sats |-> e.sats], f = [state |-> f.state, sats |-> f.sats],
           f.sats \in 0 .. Price + Allowance,
           \/ f = e
           \/ e.state \in {"free", "held"} /\ f.state = "held"
           \/ e.state = "held" /\ f = [state |-> "free", sats |-> 0]
           \/ e.state = "sent" /\ f.state = "spent" /\ f.sats = e.sats
           \/ e.state = "sent" /\ f = [state |-> "disowned", sats |-> 0]
    PROVE  [Ledger!LedgerNext]_Entries
<1> DEFINE E == [d \in Campaigns |-> EntryOf(d)]
<1>2. E[c] = e /\ E' = [E EXCEPT ![c] = f] /\ DOMAIN E = Campaigns
  BY DEF Entries
<1>3. E'[c] = f
  BY <1>2
<1>5. CASE f = e
  <2>1. E' = E
    BY <1>2, <1>5
  <2> QED
    BY <2>1 DEF Entries
<1>6. CASE e.state \in {"free", "held"} /\ f.state = "held"
  <2>1. Ledger!Hold(c)
    BY <1>2, <1>3, <1>6 DEF Ledger!Hold, Ledger!Becomes
  <2> QED
    BY <2>1 DEF Ledger!LedgerNext
<1>7. CASE e.state = "held" /\ f = [state |-> "free", sats |-> 0]
  <2>1. Ledger!Release(c)
    BY <1>2, <1>7 DEF Ledger!Release, Ledger!Free
  <2> QED
    BY <2>1 DEF Ledger!LedgerNext
<1>8. CASE e.state = "sent" /\ f.state = "spent" /\ f.sats = e.sats
  <2>1. [e EXCEPT !.state = "spent"] = f
    BY <1>8
  <2>2. E' = [E EXCEPT ![c].state = "spent"]
    BY <1>2, <2>1
  <2>3. Ledger!Book(c)
    BY <1>2, <1>8, <2>2 DEF Ledger!Book
  <2> QED
    BY <2>3 DEF Ledger!LedgerNext
<1>9. CASE e.state = "sent" /\ f = [state |-> "disowned", sats |-> 0]
  <2>1. Ledger!Disown(c)
    BY <1>2, <1>9 DEF Ledger!Disown, Ledger!Disowned
  <2> QED
    BY <2>1 DEF Ledger!LedgerNext
<1> QED
  BY <1>5, <1>6, <1>7, <1>8, <1>9

LEMMA AccountsMove ==
    ASSUME IInv, IInv', NEW c \in Campaigns, Accounts(c)
    PROVE  [Ledger!LedgerNext]_Entries
<1>1. PICK z : Write(c, z) /\ Accounted(camp[c], z)
  BY DEF Accounts
<1>2. /\ camp[c] \in CampaignRecord /\ z \in CampaignRecord
      /\ camp[c].paid => MaySent(camp[c])
      /\ z.paid => MaySent(z)
      /\ Entries[c] = EntryFor(camp[c])
      /\ Entries' = [Entries EXCEPT ![c] = EntryFor(z)]
  BY <1>1, OneEntry
<1>3. /\ EntryFor(z).sats \in 0 .. Price + Allowance
      /\ EntryFor(camp[c]) = [state |-> EntryFor(camp[c]).state, sats |-> EntryFor(camp[c]).sats]
      /\ EntryFor(z) = [state |-> EntryFor(z).state, sats |-> EntryFor(z).sats]
  BY <1>2, EntryFields
<1> QED
  BY <1>1, <1>2, <1>3, EntryMoves, LedgerMoves

\* A late decision disowns what had been sent.
LEMMA DisownmentMoves ==
    ASSUME IInv, IInv', NEW c \in Campaigns, Disownment(c)
    PROVE  [Ledger!LedgerNext]_Entries
<1>1. PICK z : Write(c, z) /\ z.late
  BY DEF Disownment
<1>2. ~camp[c].late /\ MaySent(camp[c]) /\ ~camp[c].paid
  BY DEF Disownment
<1>3. /\ camp[c] \in CampaignRecord /\ Entries[c] = EntryFor(camp[c])
      /\ Entries' = [Entries EXCEPT ![c] = EntryFor(z)]
  BY <1>1, OneEntry
<1>4. EntryFor(camp[c]).state = "sent" /\ EntryFor(z) = [state |-> "disowned", sats |-> 0]
  BY <1>1, <1>2, <1>3, EntryFields DEF EntryFor
<1>5. /\ EntryFor(camp[c]) = [state |-> EntryFor(camp[c]).state, sats |-> EntryFor(camp[c]).sats]
      /\ EntryFor(z) = [state |-> EntryFor(z).state, sats |-> EntryFor(z).sats]
      /\ EntryFor(z).sats \in 0 .. Price + Allowance
  BY <1>3, <1>4, EntryFields, Amounts
<1> QED
  BY <1>3, <1>4, <1>5, LedgerMoves

\* What all payments that may have left the wallet hold.
AllOnAccount == \A c \in Campaigns : OnAccount(camp[c])

\* The gate looks at what the ledger looks at: everybody else's holdings, and what
\* has been spent.
LEMMA GateSeesLedger ==
    ASSUME IInv, AllOnAccount, NEW c \in Campaigns, ~camp[c].paid, NEW total \in Nat,
           Fits(c, total)
    PROVE  /\ Ledger!Total(Ledger!InState({"held", "sent", "spent"}) \ {c}) + total <= Limit
           /\ Cardinality(Ledger!InState({"held", "sent"}) \ {c}) < MaxPending
<1> DEFINE Paid == {d \in Campaigns : camp[d].paid}
           U == Ledger!InState({"held", "sent", "spent"}) \ {c}
           V == Ledger!InState({"held", "sent"}) \ {c}
<1>1. HeldBy \in [Campaigns -> Nat]
  <2>1. ASSUME NEW d \in Campaigns PROVE camp[d].held \in Nat
    <3>1. camp[d].held \in 0 .. Price + Allowance
      BY Here, RecordFields
    <3> QED
      BY <3>1
  <2> QED
    BY <2>1 DEF HeldBy
<1>2. PICK g : IsSum(g, HeldBy)
  BY <1>1, SumExists
<1>3. ASSUME NEW d \in Campaigns
      PROVE  /\ Entries[d].state \in {"spent", "sent", "held", "free", "disowned"}
             /\ Entries[d].state = "spent" => camp[d].paid
             /\ Entries[d].state \in {"sent", "held"} => Active(camp[d])
             /\ Entries[d].state \in {"spent", "sent", "held"} => Entries[d].sats = camp[d].held
  <2>1. camp[d] \in CampaignRecord /\ Entries[d] = EntryFor(camp[d])
    BY Here, EntryIs
  <2>2. /\ camp[d].paid => MaySent(camp[d])
        /\ ~camp[d].paid /\ MaySent(camp[d]) => Active(camp[d])
    BY Here DEF Recorded, MaySent, Sunk
  <2>3. ~camp[d].late /\ MaySent(camp[d]) => camp[d].held = Price + camp[d].fee
    BY DEF AllOnAccount, OnAccount
  <2> QED
    BY <2>1, <2>2, <2>3, EntryFields
<1>4. U \subseteq Holding(c) \cup Paid
  <2>1. U = {d \in Campaigns : Entries[d].state \in {"held", "sent", "spent"}} \ {c}
    BY DEF Ledger!InState, Entries
  <2>2. Holding(c) = {d \in Campaigns \ {c} : Active(camp[d])}
    BY DEF Holding
  <2> HIDE DEF U
  <2> QED
    BY <1>3, <2>1, <2>2
<1>5. V \subseteq Holding(c)
  <2>1. V = {d \in Campaigns : Entries[d].state \in {"held", "sent"}} \ {c}
    BY DEF Ledger!InState, Entries
  <2>2. Holding(c) = {d \in Campaigns \ {c} : Active(camp[d])}
    BY DEF Holding
  <2> HIDE DEF V
  <2> QED
    BY <1>3, <2>1, <2>2
<1>6. Holding(c) \in SUBSET Campaigns /\ Paid \in SUBSET Campaigns /\ U \in SUBSET Campaigns
  BY DEF Holding, Ledger!InState
<1>7. \A d \in U : Entries[d].sats = camp[d].held
  <2>1. \A d \in U : d \in Campaigns /\ Entries[d].state \in {"held", "sent", "spent"}
    BY DEF Ledger!InState, Entries
  <2> HIDE DEF U
  <2> QED
    BY <1>3, <2>1
<1> HIDE DEF U, V
<1>8. Ledger!Total(U) + total <= Limit
  <2>1. Ledger!Total(U) = g[U]
    BY <1>1, <1>2, <1>4, <1>6, <1>7, EntrySum
  <2>2. MapThenSumSet(HeldOf, Holding(c)) = g[Holding(c)] /\ Spent = g[Paid]
    BY <1>1, <1>2, <1>6, HeldSum DEF Spent
  <2>3. g[Holding(c) \cup Paid] <= g[Holding(c)] + g[Paid]
    BY <1>1, <1>2, <1>6, SumUnion
  <2>6. g[U] <= g[Holding(c) \cup Paid]
    <3>1. U \cup (Holding(c) \cup Paid) = Holding(c) \cup Paid
      BY <1>4
    <3> DEFINE W == Holding(c) \cup Paid
    <3>2. W \in SUBSET Campaigns
      BY <1>6
    <3> HIDE DEF W, Paid
    <3>3. g[U] <= g[U \cup W]
      BY <1>1, <1>2, <1>6, <3>2, SumMonotone
    <3> QED
      BY <3>1, <3>3 DEF W
  <2>4. g[Holding(c)] + g[Paid] + total <= Limit
    BY <2>2 DEF Fits
  <2>5. g[U] \in Nat /\ g[Holding(c) \cup Paid] \in Nat /\ g[Holding(c)] \in Nat /\ g[Paid] \in Nat /\ Limit \in Nat
    BY <1>2, <1>4, <1>6, BuyerAssumption DEF IsSum
  <2> HIDE DEF Paid
  <2> QED
    BY <2>1, <2>3, <2>4, <2>5, <2>6
<1>9. Cardinality(V) < MaxPending
  <2>1. IsFiniteSet(Holding(c))
    BY <1>6, BuyerAssumption, FS_Subset
  <2>2. Cardinality(V) <= Cardinality(Holding(c)) /\ IsFiniteSet(V)
    BY <1>5, <2>1, FS_Subset
  <2>3. Cardinality(V) \in Nat /\ Cardinality(Holding(c)) \in Nat
    BY <2>1, <2>2, FS_CardinalityType
  <2> QED
    BY <2>2, <2>3, BuyerAssumption DEF Fits
<1> QED
  BY <1>8, <1>9 DEF U, V

LEMMA SubmissionMoves ==
    ASSUME IInv, IInv', AllOnAccount, NEW c \in Campaigns, Submission(c)
    PROVE  Ledger!LedgerNext
<1> DEFINE r == camp[c]
           z == [r EXCEPT !.st = "submitting_payment", !.att = "submitting",
                          !.res = "submitting", !.held = Price + r.fee]
           total == Price + r.fee
           E == [d \in Campaigns |-> EntryOf(d)]
<1>1. /\ ~r.late /\ ~MaySent(r) /\ ~r.paid
      /\ Fits(c, total) /\ Write(c, z) /\ total \in 0 .. Price + Allowance
  BY Amounts DEF Submission
<1>2. /\ r \in CampaignRecord /\ z \in CampaignRecord /\ Entries[c] = EntryFor(r)
      /\ Entries' = [Entries EXCEPT ![c] = EntryFor(z)]
  BY <1>1, OneEntry
<1>3. z.att = "submitting" /\ z.paid = r.paid /\ z.fee = r.fee /\ z.late = r.late
  BY <1>2 DEF CampaignRecord
<1> HIDE DEF z
<1>4. EntryFor(z) = [state |-> "sent", sats |-> total]
  BY <1>1, <1>3 DEF EntryFor, MaySent
<1>5. EntryFor(r).state \in {"free", "held"}
  BY <1>1, <1>2, EntryFields
<1>6. /\ Ledger!Total(Ledger!InState({"held", "sent", "spent"}) \ {c}) + total <= Limit
      /\ Cardinality(Ledger!InState({"held", "sent"}) \ {c}) < MaxPending
  BY <1>1, GateSeesLedger
<1>7. E[c] = EntryFor(r) /\ E' = [E EXCEPT ![c] = [state |-> "sent", sats |-> total]]
  BY <1>2, <1>4 DEF Entries
<1>8. E'[c] = [state |-> "sent", sats |-> total]
  BY <1>7
<1>9. Ledger!Becomes(c, "sent")
  <2>1. E' = [E EXCEPT ![c] = E'[c]]
    BY <1>7, <1>8
  <2>2. E'[c].state = "sent" /\ E'[c].sats = total
    BY <1>8
  <2> HIDE DEF total
  <2> QED
    BY <1>1, <2>1, <2>2, Zenon DEF Ledger!Becomes
<1>10. E[c].state \in {"free", "held"}
  BY <1>5, <1>7
<1>11. Ledger!Total(Ledger!InState({"held", "sent", "spent"}) \ {c}) + E'[c].sats <= Limit
  BY <1>6, <1>8
<1>12. Ledger!Cardinality(Ledger!InState({"held", "sent"}) \ {c}) < MaxPending
  BY <1>6, Zenon DEF Ledger!Cardinality, Cardinality
<1>13. Ledger!Send(c)
  BY <1>9, <1>10, <1>11, <1>12, Zenon DEF Ledger!Send
<1> QED
  BY <1>13 DEF Ledger!LedgerNext

LEMMA AccountsKept ==
    ASSUME IInv, IInv', AllOnAccount, [Next]_vars PROVE AllOnAccount'
<1>1. ASSUME NEW c \in Campaigns, NEW z, Write(c, z), OnAccount(z) PROVE AllOnAccount'
  <2>1. camp'[c] = z /\ \A d \in Campaigns \ {c} : camp'[d] = camp[d]
    BY <1>1 DEF Write, IInv, TypeOK
  <2> QED
    BY <1>1, <2>1 DEF AllOnAccount
<1>2. ASSUME NEW c \in Campaigns, Accounts(c) PROVE AllOnAccount'
  <2>1. PICK z : Write(c, z) /\ Accounted(camp[c], z)
    BY <1>2 DEF Accounts
  <2>2. OnAccount(z)
    BY <2>1 DEF AllOnAccount, OnAccount, Accounted
  <2> QED
    BY <1>1, <2>1, <2>2
<1>3. ASSUME NEW c \in Campaigns, Submission(c) PROVE AllOnAccount'
  <2> DEFINE r == camp[c]
             z == [r EXCEPT !.st = "submitting_payment", !.att = "submitting",
                            !.res = "submitting", !.held = Price + r.fee]
  <2>1. Write(c, z)
    BY <1>3 DEF Submission
  <2>2. z.held = Price + r.fee /\ z.fee = r.fee
    BY Here DEF CampaignRecord
  <2> HIDE DEF z
  <2>3. OnAccount(z)
    BY <2>2 DEF OnAccount
  <2> QED
    BY <1>1, <2>1, <2>3
<1>4. ASSUME NEW c \in Campaigns, Disownment(c) PROVE AllOnAccount'
  BY <1>1, <1>4 DEF Disownment, OnAccount
<1>5. CASE UNCHANGED camp
  BY <1>5 DEF AllOnAccount
<1> QED
  BY <1>2, <1>3, <1>4, <1>5, StepAccounts

LEMMA NextMoves ==
    ASSUME IInv, IInv', AllOnAccount, [Next]_vars PROVE [Ledger!LedgerNext]_Entries
<1>1. CASE UNCHANGED camp
  <2>1. \A c \in Campaigns : Entries'[c] = Entries[c]
    BY <1>1, EntryIs, EntryWillBe
  <2>2. Entries' = Entries
    BY <2>1 DEF Entries
  <2> QED
    BY <2>2
<1> QED
  BY <1>1, StepAccounts, AccountsMove, DisownmentMoves, SubmissionMoves

LEMMA InitMoves == ASSUME Init PROVE AllOnAccount /\ Ledger!LedgerInit
<1>1. /\ NoCampaign.att = "none" /\ ~NoCampaign.paid /\ NoCampaign.res = "none"
      /\ ~NoCampaign.late
  BY DEF NoCampaign
<1>2. AllOnAccount
  BY <1>1 DEF Init, AllOnAccount, OnAccount, MaySent
<1>3. ASSUME NEW c \in Campaigns PROVE EntryOf(c) = [state |-> "free", sats |-> 0]
  <2>1. Unsent(c) /\ camp[c] = NoCampaign
    BY DEF Init, Unsent
  <2> QED
    BY <1>1, <2>1 DEF EntryOf, Active
<1> QED
  BY <1>2, <1>3 DEF Ledger!LedgerInit, Ledger!Free

\* BuyerSpend implements the ledger: whatever order the reservations, gates, receipts
\* and answers of any number of campaigns come in, an amount leaves for the wallet only
\* if it fits beside all that is held, sent and spent, and a sent amount is never free
\* again (buyer-service.mjs 976-1012, 1145-1217).  Nothing is assumed of when decisions
\* arrive: one written over a submission in progress disowns that campaign's entry
\* and leaves the promise about all others in force.
THEOREM LedgerImplemented == Spec => ImplementsLedger
<1>1. Init => AllOnAccount /\ Ledger!LedgerInit
  BY InitMoves
<1>2. IInv /\ IInv' /\ AllOnAccount /\ [Next]_vars =>
          AllOnAccount' /\ [Ledger!LedgerNext]_Entries
  BY AccountsKept, NextMoves
<1> QED
  BY <1>1, <1>2, Invariant, PTL DEF Spec, ImplementsLedger, Ledger!LedgerSpec, Entries
=============================================================================
