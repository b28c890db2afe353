----------------------------- MODULE VeoSegments -----------------------------
(***************************************************************************)
(* The paid video segments of the Seller's orders                          *)
(* (google-veo-video-provider.mjs): receipts that outlive a crash, at most *)
(* two submissions per segment, the hourly ledger all orders share, and    *)
(* the gate a stop closes.                                                 *)
(*                                                                         *)
(* One Seller process works at one run of prepare() per order; the lock    *)
(* file of a segment is the one of SupplierAttempt and is free again once  *)
(* its owner is dead.  A file is written beside its name and renamed, so   *)
(* it is there as a whole or not at all.                                   *)
(***************************************************************************)
EXTENDS Naturals, FiniteSets

CONSTANTS
    Orders,
    SegmentsOf,       \* {1}, or {1, 2} when a reference video guides the order
    MaxGenerations,   \* reservations per window
    Window,           \* generationWindowMs
    Stoppable,        \* bound on the orders that may be stopped
    MaxTime,          \* bound on the clock
    MaxCrashes        \* bound on crashes

ASSUME VeoAssumption ==
    /\ SegmentsOf \in [Orders -> {{1}, {1, 2}}]
    /\ MaxGenerations \in Nat \ {0}
    /\ {Window, MaxTime, MaxCrashes} \subseteq Nat
    /\ Stoppable \subseteq Orders /\ "none" \notin Orders

VARIABLES now, crashes, stopped, ledger, tail, receipt, file, manifest, run,
    sent, late

vars == <<now, crashes, stopped, ledger, tail, receipt, file, manifest, run,
    sent, late>>
environment == <<now, crashes, stopped>>

-----------------------------------------------------------------------------
Attempts == 1 .. 2
Work == {<<o, s>> : o \in Orders, s \in 1 .. 2}
\* reservationId, and when it was made.
Entry == [work : Work, attempt : Attempts, at : Nat]
Unidentified == {"submitting", "submission_uncertain"}
Identified == {"submitted", "succeeded", "failed"}
Receipt == [st : {"none", "cancelled_before_submission"} \cup Unidentified \cup Identified,
    tries : 0 .. 2, op : 0 .. 2]
NoReceipt == [st |-> "none", tries |-> 0, op |-> 0]
Steps == {"idle", "gate", "enter", "queue", "reserve", "submit", "spend", "send", "answer",
    "poll", "succeed", "manifest"}
\* seen: the ledger as #reserveUnlocked read it.
Run == [pc : Steps, seg : 1 .. 2, seen : SUBSET Entry]
Idle == [pc |-> "idle", seg |-> 1, seen |-> {}]

TypeOK ==
    /\ {now, crashes} \subseteq Nat
    /\ stopped \subseteq Orders
    /\ ledger \subseteq Entry
    /\ tail \in Orders \cup {"none"}
    /\ receipt \in [Work -> Receipt]
    /\ file \in [Work -> 0 .. 2]
    /\ manifest \in [Orders -> BOOLEAN]
    /\ run \in [Orders -> Run]
    /\ sent \in [Work -> Nat]
    /\ late \in [Orders -> Nat]

Init ==
    /\ now = 0 /\ crashes = 0
    /\ stopped \in SUBSET Orders
    /\ ledger = {} /\ tail = "none"
    /\ receipt = [w \in Work |-> NoReceipt]
    /\ file = [w \in Work |-> 0]
    /\ manifest = [o \in Orders |-> FALSE]
    /\ run = [o \in Orders |-> Idle]
    /\ sent = [w \in Work |-> 0]
    /\ late = [o \in Orders |-> 0]

At(o, pc) == run[o].pc = pc
Goes(o, pc) == run' = [run EXCEPT ![o].pc = pc]
\* The run throws or returns; the segment lock and the turn in the queue go with it.
Ends(o) == run' = [run EXCEPT ![o] = Idle]
Segment(o) == <<o, run[o].seg>>
Writes(o, r) == receipt' = [receipt EXCEPT ![Segment(o)] = r]
\* After a segment: the next one, behind a gate of its own, or the manifest.
Advances(o) == run' = [run EXCEPT ![o] =
    IF run[o].seg + 1 \in SegmentsOf[o] THEN [pc |-> "gate", seg |-> 2, seen |-> {}]
    ELSE [pc |-> "manifest", seg |-> run[o].seg, seen |-> {}]]

-----------------------------------------------------------------------------
(* prepare() and the gates. *)

\* A manifest that exists is returned as it is, and a stopped order throws at once.
Begin(o) ==
    /\ At(o, "idle") /\ ~manifest[o] /\ o \notin stopped
    /\ Goes(o, "enter")
    /\ UNCHANGED environment
    /\ UNCHANGED <<ledger, tail, receipt, file, manifest, sent, late>>

\* Between the segments.
PassGate(o) ==
    /\ At(o, "gate")
    /\ IF o \in stopped THEN Ends(o) ELSE Goes(o, "enter")
    /\ UNCHANGED environment
    /\ UNCHANGED <<ledger, tail, receipt, file, manifest, sent, late>>

\* #generateSegmentUnlocked by what the receipt says.
AttemptOf(o) == receipt[Segment(o)].tries + 1

AttemptsAllowed(o) == AttemptOf(o) <= 2

EnterSegment(o) ==
    LET r == receipt[Segment(o)] IN
    /\ At(o, "enter")
    /\ \/ /\ r.st = "succeeded"
          /\ IF file[Segment(o)] = r.op THEN Advances(o) ELSE Ends(o)
       \/ r.st \in {"failed", "cancelled_before_submission"} /\ Ends(o)
       \/ r.st = "submitted" /\ Goes(o, "poll")
       \/ /\ r.st \in {"none"} \cup Unidentified
          /\ IF AttemptsAllowed(o) THEN Goes(o, "queue") ELSE Ends(o)
    /\ UNCHANGED environment
    /\ UNCHANGED <<ledger, tail, receipt, file, manifest, sent, late>>

-----------------------------------------------------------------------------
(* #reserve: one at a time, in this process; the entry outlives a crash. *)

\* Mutant: reservations do not wait for each other.
JumpQueue(o) ==
    /\ At(o, "queue")
    /\ tail' = "none"
    /\ run' = [run EXCEPT ![o].pc = "reserve", ![o].seen = ledger]
    /\ UNCHANGED environment
    /\ UNCHANGED <<ledger, receipt, file, manifest, sent, late>>

TakeTurn(o) ==
    /\ At(o, "queue") /\ tail = "none"
    /\ tail' = o
    /\ run' = [run EXCEPT ![o].pc = "reserve", ![o].seen = ledger]
    /\ UNCHANGED environment
    /\ UNCHANGED <<ledger, receipt, file, manifest, sent, late>>

Reserved(o) == \E e \in run[o].seen : e.work = Segment(o) /\ e.attempt = AttemptOf(o)
Recent(entries) == {e \in entries : e.at + Window >= now}

\* Mutant: a refused reservation leaves its turn taken.
ReserveStuck(o) ==
    /\ At(o, "reserve")
    /\ \/ /\ Reserved(o)
          /\ run' = [run EXCEPT ![o].pc = "submit", ![o].seen = {}]
          /\ tail' = "none" /\ UNCHANGED ledger
       \/ /\ ~Reserved(o) /\ Cardinality(Recent(run[o].seen)) < MaxGenerations
          /\ ledger' = run[o].seen \cup
                 {[work |-> Segment(o), attempt |-> AttemptOf(o), at |-> now]}
          /\ run' = [run EXCEPT ![o].pc = "submit", ![o].seen = {}]
          /\ tail' = "none"
       \/ /\ ~Reserved(o) /\ Cardinality(Recent(run[o].seen)) >= MaxGenerations
          /\ Ends(o) /\ UNCHANGED <<ledger, tail>>
    /\ UNCHANGED environment
    /\ UNCHANGED <<receipt, file, manifest, sent, late>>

Reserve(o) ==
    /\ At(o, "reserve")
    /\ tail' = "none"
    /\ \/ /\ Reserved(o)
          /\ run' = [run EXCEPT ![o].pc = "submit", ![o].seen = {}]
          /\ UNCHANGED ledger
       \/ /\ ~Reserved(o) /\ Cardinality(Recent(run[o].seen)) < MaxGenerations
          /\ ledger' = run[o].seen \cup
                 {[work |-> Segment(o), attempt |-> AttemptOf(o), at |-> now]}
          /\ run' = [run EXCEPT ![o].pc = "submit", ![o].seen = {}]
       \/ /\ ~Reserved(o) /\ Cardinality(Recent(run[o].seen)) >= MaxGenerations
          /\ Ends(o) /\ UNCHANGED ledger
    /\ UNCHANGED environment
    /\ UNCHANGED <<receipt, file, manifest, sent, late>>

-----------------------------------------------------------------------------
(* One submission. *)

\* The attempt is on disk before the request is sent.
WriteSubmitting(o) ==
    /\ At(o, "submit")
    /\ Writes(o, [st |-> "submitting", tries |-> AttemptOf(o), op |-> 0])
    /\ Goes(o, "spend")
    /\ UNCHANGED environment
    /\ UNCHANGED <<ledger, tail, file, manifest, sent, late>>

\* The gate that directly precedes the request; a gate that cannot be read is like a
\* request that failed.
Uncertain(o) ==
    /\ Writes(o, [receipt[Segment(o)] EXCEPT !.st = "submission_uncertain"])
    /\ Goes(o, "enter")

SpendGate(o) ==
    /\ At(o, "spend")
    /\ \/ /\ o \in stopped
          /\ Writes(o, [receipt[Segment(o)] EXCEPT !.st = "cancelled_before_submission"])
          /\ Ends(o)
       \/ o \notin stopped /\ Goes(o, "send") /\ UNCHANGED receipt
       \/ Uncertain(o)
    /\ UNCHANGED environment
    /\ UNCHANGED <<ledger, tail, file, manifest, sent, late>>

\* The request leaves; Veo may start an operation for it, named by the attempt.
Send(o) ==
    LET w == Segment(o) IN
    /\ At(o, "send")
    /\ sent' = [sent EXCEPT ![w] = @ + 1]
    /\ late' = [late EXCEPT ![o] = IF o \in stopped THEN @ + 1 ELSE @]
    /\ Goes(o, "answer")
    /\ UNCHANGED environment
    /\ UNCHANGED <<ledger, tail, receipt, file, manifest>>

\* Without an operation name the loop turns to the next attempt.
Answered(o) ==
    LET w == Segment(o) IN
    /\ At(o, "answer")
    /\ \/ /\ Writes(o, [receipt[w] EXCEPT !.st = "submitted", !.op = receipt[w].tries])
          /\ Goes(o, "poll")
       \/ Uncertain(o)
    /\ UNCHANGED environment
    /\ UNCHANGED <<ledger, tail, file, manifest, sent, late>>

\* Mutant: the receipt is written before the video is in place.
PollReceiptFirst(o) ==
    /\ At(o, "poll")
    /\ Goes(o, "succeed")
    /\ UNCHANGED environment
    /\ UNCHANGED <<ledger, tail, receipt, file, manifest, sent, late>>

\* Mutant: an operation that is not done by the deadline counts as uncertain.
PollGivesUp(o) ==
    /\ At(o, "poll")
    /\ Uncertain(o)
    /\ UNCHANGED environment
    /\ UNCHANGED <<ledger, tail, file, manifest, sent, late>>

\* A finished operation leaves its video, then its receipt, or an error.  Until the
\* deadline nothing else is known: the run ends and a later one takes the operation
\* up again, as it does when Veo's answer has no usable video.  An operation that
\* has once given its video does not turn out to have failed.
Poll(o) ==
    LET w == Segment(o) IN
       /\ At(o, "poll")
       /\ \/ /\ file' = [file EXCEPT ![w] = receipt[w].op]
             /\ Goes(o, "succeed") /\ UNCHANGED receipt
          \/ /\ file[w] # receipt[w].op
             /\ Writes(o, [receipt[w] EXCEPT !.st = "failed"])
             /\ Ends(o) /\ UNCHANGED file
          \/ Ends(o) /\ UNCHANGED <<receipt, file>>
       /\ UNCHANGED environment
       /\ UNCHANGED <<ledger, tail, manifest, sent, late>>

Succeed(o) ==
    /\ At(o, "succeed")
    /\ Writes(o, [receipt[Segment(o)] EXCEPT !.st = "succeeded"])
    /\ Advances(o)
    /\ UNCHANGED environment
    /\ UNCHANGED <<ledger, tail, file, manifest, sent, late>>

\* Two segments are joined first; joining them again gives the same video.
WriteManifest(o) ==
    /\ At(o, "manifest")
    /\ manifest' = [manifest EXCEPT ![o] = TRUE]
    /\ Ends(o)
    /\ UNCHANGED environment
    /\ UNCHANGED <<ledger, tail, receipt, file, sent, late>>

\* A read, a write, a poll or the work with ffmpeg fails and the run throws.  What a
\* submission throws is caught: SpendGate and Answered.
Throws(o) ==
    /\ run[o].pc \notin {"idle", "queue", "spend", "send", "answer"}
    /\ Ends(o)
    /\ tail' = IF tail = o THEN "none" ELSE tail
    /\ UNCHANGED environment
    /\ UNCHANGED <<ledger, receipt, file, manifest, sent, late>>

-----------------------------------------------------------------------------
(* Around the runs. *)

\* A durable cancellation or the marker in the job directory; neither is taken back.
\* An order may be stopped before its production begins.
Stop(o) ==
    /\ o \in Stoppable \ stopped
    /\ stopped' = stopped \cup {o}
    /\ UNCHANGED <<now, crashes, ledger, tail, receipt, file, manifest, run, sent, late>>

Crash ==
    /\ crashes < MaxCrashes
    /\ crashes' = crashes + 1
    /\ run' = [o \in Orders |-> Idle]
    /\ tail' = "none"
    /\ UNCHANGED <<now, stopped, ledger, receipt, file, manifest, sent, late>>

Tick ==
    /\ now < MaxTime
    /\ now' = now + 1
    /\ UNCHANGED <<crashes, stopped, ledger, tail, receipt, file, manifest, run, sent, late>>

RunStep(o) ==
    \/ PassGate(o) \/ EnterSegment(o) \/ TakeTurn(o) \/ Reserve(o) \/ WriteSubmitting(o)
    \/ SpendGate(o) \/ Send(o) \/ Answered(o) \/ Poll(o) \/ Succeed(o) \/ WriteManifest(o)
    \/ Throws(o)

Next ==
    \/ \E o \in Orders : Begin(o) \/ RunStep(o) \/ Stop(o)
    \/ Crash \/ Tick

Spec == Init /\ [][Next]_vars

\* Requests time out, a promise chain runs on, and the queue is first in, first out.
Fairness == \A o \in Orders : WF_vars(RunStep(o)) /\ SF_vars(TakeTurn(o))
FairSpec == Spec /\ Fairness

-----------------------------------------------------------------------------
\* PAYMENT_LIFECYCLE.md:39-42: over any crashes and retries a segment is submitted at
\* most twice, and never more often than its receipt on disk admits.
SubmissionsCounted == \A w \in Work :
    sent[w] <= receipt[w].tries /\ receipt[w].tries <= 2

\* Once the receipt names an operation nobody submits the segment again, and the
\* name stays ("never resubmit an identified operation", 322).
OperationKept == [][\A w \in Work : receipt[w].st \in Identified =>
    sent'[w] = sent[w] /\ receipt'[w].st \in Identified /\ receipt'[w].op = receipt[w].op]_vars

\* Every submission has an entry of its own in the ledger, which concurrent orders
\* cannot lose, and no window holds more entries than the cap (480-511).
EveryWindow == \A e \in ledger :
    Cardinality({f \in ledger : f.at <= e.at /\ e.at <= f.at + Window}) <= MaxGenerations
EntryPerAttempt == \A w \in Work : \A a \in 1 .. receipt[w].tries :
    \E e \in ledger : e.work = w /\ e.attempt = a
LedgerHolds == EveryWindow /\ EntryPerAttempt

\* A stop lets through at most the one request that had passed the gate, however
\* many segments and attempts were still to come.
StopEndsBuying == \A o \in Orders : late[o] <= 1

\* What all orders together can cost is bounded, over crashes, stops and interleavings.
SpendingBounded == TypeOK /\ SubmissionsCounted /\ LedgerHolds /\ StopEndsBuying

\* A manifest stands for videos that are on disk and came from the operations the
\* receipts name; a second segment continues a first one that exists.
VideoBehind(w) ==
    /\ receipt[w].st = "succeeded"
    /\ file[w] = receipt[w].op
ManifestBacked == \A o \in Orders :
    /\ manifest[o] => \A s \in SegmentsOf[o] : VideoBehind(<<o, s>>)
    /\ sent[<<o, 2>>] > 0 => VideoBehind(<<o, 1>>)

\* A run ends, whatever other orders do in the queue of reservations.
RunsEnd == \A o \in Orders : ~At(o, "idle") ~> At(o, "idle")
=============================================================================
