-------------------------- MODULE VeoSegments_proofs --------------------------
(***************************************************************************)
(* Proofs about VeoSegments, for any orders, limits, windows and bounds:   *)
(* what all orders together can spend, that a known operation is never     *)
(* bought again, and what a manifest stands for.                           *)
(***************************************************************************)
EXTENDS VeoSegments, FiniteSetTheorems, TLAPS

(* What holds of one order: of its segments' receipts, and of its run by where that is. *)

\* No request without an attempt on the receipt, and at most two of them.
Counting(o) == \A s \in 1 .. 2 :
    sent[<<o, s>>] <= receipt[<<o, s>>].tries /\ receipt[<<o, s>>].tries <= 2

Standing(o) == LET r == receipt[Segment(o)] IN
    /\ run[o].pc \in {"queue", "reserve", "submit"} =>
           r.st \in {"none"} \cup Unidentified /\ r.tries <= 1
    /\ run[o].pc \in {"spend", "send", "answer"} => r.st = "submitting"
    /\ run[o].pc \in {"spend", "send"} => sent[Segment(o)] < r.tries
    /\ run[o].pc \in {"poll", "succeed"} => r.st = "submitted"
    /\ run[o].pc = "succeed" => file[Segment(o)] = r.op

\* An attempt is in the ledger before it is on the receipt.
InLedger(w, a) == \E e \in ledger : e.work = w /\ e.attempt = a
Listed(o) ==
    /\ \A s \in 1 .. 2 : \A a \in 1 .. receipt[<<o, s>>].tries : InLedger(<<o, s>>, a)
    /\ run[o].pc = "submit" => InLedger(Segment(o), AttemptOf(o))

\* Who is about to send had passed the gate before the stop.
Stopping(o) == late[o] <= 1 /\ (late[o] > 0 => o \in stopped /\ run[o].pc # "send")

\* A second segment follows a video, a manifest follows all of them.
Backed(o) ==
    /\ manifest[o] => \A s \in SegmentsOf[o] : VideoBehind(<<o, s>>)
    /\ sent[<<o, 2>>] > 0 => VideoBehind(<<o, 1>>)
    /\ run[o].pc = "idle" => run[o].seg = 1
    /\ run[o].pc # "idle" =>
         /\ run[o].seg \in SegmentsOf[o]
         /\ run[o].seg = 2 => VideoBehind(<<o, 1>>)
    /\ run[o].pc = "manifest" =>
         run[o].seg + 1 \notin SegmentsOf[o] /\ VideoBehind(Segment(o))

OrderSound(o) == Counting(o) /\ Standing(o) /\ Listed(o) /\ Stopping(o) /\ Backed(o)

(* What holds of the ledger all orders share. *)

\* One run at a time reserves, on the ledger as it is.
Turns == \A o \in Orders :
    /\ run[o].pc = "reserve" <=> tail = o
    /\ run[o].pc = "reserve" => run[o].seen = ledger
Entries == IsFiniteSet(ledger) /\ (\A e \in ledger : e.at <= now) /\ EveryWindow

IInv == TypeOK /\ Turns /\ Entries /\ \A o \in Orders : OrderSound(o)

-----------------------------------------------------------------------------
(* Steps that leave an order alone. *)

Same(o, s) ==
    /\ receipt'[<<o, s>>] = receipt[<<o, s>>] /\ file'[<<o, s>>] = file[<<o, s>>]
    /\ sent'[<<o, s>>] = sent[<<o, s>>]
Steady(o) ==
    /\ run'[o] = run[o] /\ Same(o, 1) /\ Same(o, 2)
    /\ manifest'[o] = manifest[o] /\ late'[o] = late[o]
    /\ ledger \subseteq ledger' /\ stopped \subseteq stopped'

LEMMA SteadyKeeps ==
    ASSUME TypeOK, NEW o \in Orders, OrderSound(o), Steady(o) PROVE OrderSound(o)'
<1>1. run[o].seg = 1 \/ run[o].seg = 2
  BY DEF TypeOK, Run
<1>2. \A s \in 1 .. 2 : Same(o, s)
  BY DEF Steady
<1>3. Counting(o)'
  BY <1>2 DEF OrderSound, Counting, Same
<1>4. Standing(o)'
  BY <1>1, <1>2 DEF OrderSound, Standing, Steady, Same, Segment
<1>5. Listed(o)'
  <2>1. \A w, a : InLedger(w, a) => InLedger(w, a)'
    BY DEF InLedger, Steady
  <2>2. Segment(o)' = Segment(o) /\ AttemptOf(o)' = AttemptOf(o)
    BY <1>1, <1>2 DEF Segment, AttemptOf, Steady, Same
  <2> QED
    BY <1>2, <2>1, <2>2 DEF OrderSound, Listed, Steady, Same
<1>6. Stopping(o)'
  BY DEF OrderSound, Stopping, Steady
<1>7. Backed(o)'
  BY <1>1, <1>2, VeoAssumption DEF OrderSound, Backed, VideoBehind, Steady, Same, Segment
<1> QED
  BY <1>3, <1>4, <1>5, <1>6, <1>7 DEF OrderSound

-----------------------------------------------------------------------------
(* Types. *)

LEMMA GoesTyped ==
    ASSUME TypeOK, NEW o \in Orders, NEW pc \in Steps, Goes(o, pc)
    PROVE  run' \in [Orders -> Run]
<1>1. run[o] \in Run
  BY DEF TypeOK
<1> QED
  BY <1>1 DEF TypeOK, Goes, Run

LEMMA IdleTyped == Idle \in Run
  BY DEF Idle, Run, Steps

LEMMA EndsTyped ==
    ASSUME TypeOK, NEW o \in Orders, Ends(o) PROVE run' \in [Orders -> Run]
  BY IdleTyped DEF TypeOK, Ends

LEMMA AdvancesTyped ==
    ASSUME TypeOK, NEW o \in Orders, Advances(o)
    PROVE  /\ run' \in [Orders -> Run]
           /\ IF run[o].seg + 1 \in SegmentsOf[o]
              THEN run'[o].pc = "gate" /\ run'[o].seg = 2
              ELSE run'[o].pc = "manifest" /\ run'[o].seg = run[o].seg
<1>1. run[o] \in Run /\ {"gate", "manifest"} \subseteq Steps
  BY DEF TypeOK, Steps
<1>2. run[o].seg \in 1 .. 2
  BY <1>1 DEF Run
<1>3. /\ [pc |-> "gate", seg |-> 2, seen |-> {}] \in Run
      /\ [pc |-> "manifest", seg |-> run[o].seg, seen |-> {}] \in Run
  BY <1>1, <1>2 DEF Run
<1> QED
  BY <1>3 DEF TypeOK, Advances

LEMMA SegmentTyped ==
    ASSUME TypeOK, NEW o \in Orders
    PROVE  run[o].seg \in 1 .. 2 /\ Segment(o) = <<o, run[o].seg>> /\ Segment(o) \in Work
  BY DEF TypeOK, Run, Segment, Work

LEMMA WritesTyped ==
    ASSUME TypeOK, NEW o \in Orders, NEW r \in Receipt, Writes(o, r)
    PROVE  receipt' \in [Work -> Receipt]
  BY SegmentTyped DEF TypeOK, Writes

-----------------------------------------------------------------------------
(* What a step of an order has to show. *)

\* The type invariant when no order, clock or ledger is touched.
LEMMA Basics ==
    ASSUME IInv, NEW o \in Orders
    PROVE  /\ run[o] \in Run /\ run[o].seg \in 1 .. 2
           /\ Segment(o) = <<o, run[o].seg>> /\ Segment(o) \in Work
           /\ <<o, 1>> \in Work /\ <<o, 2>> \in Work
           /\ receipt[Segment(o)] \in Receipt /\ SegmentsOf[o] \in {{1}, {1, 2}}
           /\ OrderSound(o)
<1>1. SegmentsOf[o] \in {{1}, {1, 2}}
  BY VeoAssumption
<1>2. <<o, 1>> \in Work /\ <<o, 2>> \in Work
  BY DEF Work
<1> QED
  BY <1>1, <1>2, SegmentTyped DEF IInv, TypeOK

\* A step that only moves the run.
LEMMA MoveSound ==
    ASSUME IInv, NEW o \in Orders, Same(o, 1), Same(o, 2), run'[o] \in Run,
           manifest'[o] = manifest[o], late'[o] = late[o],
           ledger \subseteq ledger', stopped \subseteq stopped',
           Standing(o)',
           (run[o].pc = "submit" => InLedger(Segment(o), AttemptOf(o)))',
           run'[o].pc = "send" => late[o] = 0,
           run'[o].pc = "idle" => run'[o].seg = 1,
           run'[o].pc # "idle" => /\ run'[o].seg \in SegmentsOf[o]
                                  /\ run'[o].seg = 2 => VideoBehind(<<o, 1>>),
           run'[o].pc = "manifest" => /\ run'[o].seg + 1 \notin SegmentsOf[o]
                                      /\ VideoBehind(<<o, run'[o].seg>>)
    PROVE  OrderSound(o)'
<1>0. \A s \in 1 .. 2 : Same(o, s)
  <2>1. \A s \in 1 .. 2 : s = 1 \/ s = 2
    OBVIOUS
  <2> QED
    BY <2>1
<1>1. /\ \A s \in 1 .. 2 : Same(o, s)
      /\ SegmentsOf[o] \in {{1}, {1, 2}} /\ OrderSound(o) /\ run'[o].seg \in 1 .. 2
  BY <1>0, Basics DEF Run
<1>2. Counting(o)'
  BY <1>1 DEF OrderSound, Counting, Same
<1>3. Listed(o)'
  <2>1. \A w, a : InLedger(w, a) => InLedger(w, a)'
    BY DEF InLedger
  <2> QED
    BY <1>1, <2>1 DEF OrderSound, Listed, Same
<1>4. Stopping(o)'
  BY <1>1 DEF OrderSound, Stopping
<1>5. Backed(o)'
  BY <1>1 DEF OrderSound, Backed, VideoBehind, Same, Segment
<1> QED
  BY <1>2, <1>3, <1>4, <1>5 DEF OrderSound

\* A run that is over asks for nothing.
LEMMA EndsSound ==
    ASSUME IInv, NEW o \in Orders, Same(o, 1), Same(o, 2), run'[o] = Idle,
           manifest'[o] = manifest[o], late'[o] = late[o],
           ledger \subseteq ledger', stopped \subseteq stopped'
    PROVE  OrderSound(o)'
<1>1. run'[o] \in Run /\ run'[o].pc = "idle" /\ run'[o].seg = 1
  BY IdleTyped DEF Idle
<1>2. Standing(o)'
  BY <1>1 DEF Standing
<1> QED
  BY <1>1, <1>2, MoveSound

\* The ledger and the queue, for steps outside of both.
LEMMA SharedKeeps ==
    ASSUME IInv, NEW o \in Orders, UNCHANGED <<ledger, tail, now>>,
           \A p \in Orders \ {o} : run'[p] = run[p],
           run[o].pc # "reserve", run'[o].pc # "reserve"
    PROVE  Turns' /\ Entries'
  BY DEF IInv, Turns, Entries, EveryWindow

\* A step that names where the run goes.
LEMMA GoesTo ==
    ASSUME TypeOK, NEW o \in Orders, NEW pc \in Steps, Goes(o, pc)
    PROVE  /\ run' \in [Orders -> Run] /\ run'[o] \in Run
           /\ run'[o].pc = pc /\ run'[o].seg = run[o].seg
<1>1. run[o] \in Run
  BY DEF TypeOK
<1> QED
  BY <1>1, GoesTyped DEF TypeOK, Goes, Run

LEMMA EndsAt ==
    ASSUME TypeOK, NEW o \in Orders, Ends(o)
    PROVE  run' \in [Orders -> Run] /\ run'[o] = Idle /\ Idle.pc = "idle"
  BY EndsTyped DEF TypeOK, Ends, Idle

LEMMA Unmoved ==
    ASSUME NEW o, UNCHANGED <<receipt, file, sent>> PROVE Same(o, 1) /\ Same(o, 2)
  BY DEF Same

\* A step that moves one run and does nothing else.
LEMMA QuietKeeps ==
    ASSUME IInv, NEW o \in Orders, UNCHANGED environment,
           UNCHANGED <<ledger, tail, receipt, file, manifest, sent, late>>,
           run' \in [Orders -> Run], \A p \in Orders \ {o} : run'[p] = run[p],
           run[o].pc # "reserve", run'[o].pc \notin {"idle", "reserve", "submit", "manifest"},
           Standing(o)',
           run'[o].pc = "send" => late[o] = 0,
           run'[o].seg \in SegmentsOf[o], run'[o].seg = 2 => VideoBehind(<<o, 1>>)
    PROVE  IInv'
<1>1. TypeOK'
  BY DEF IInv, TypeOK, environment
<1>2. Turns' /\ Entries'
  BY SharedKeeps DEF environment
<1>3. \A p \in Orders \ {o} : Steady(p)
  BY DEF Steady, Same, environment
<1>4. OrderSound(o)'
  BY Unmoved, MoveSound DEF environment
<1> QED
  BY <1>1, <1>2, <1>3, <1>4, SteadyKeeps DEF IInv

\* A run that ends gives up its turn.
LEMMA EndsKeeps ==
    ASSUME IInv, NEW o \in Orders, UNCHANGED environment, Ends(o),
           UNCHANGED <<ledger, receipt, file, manifest, sent, late>>,
           tail' = IF tail = o THEN "none" ELSE tail
    PROVE  IInv'
<1>1. run' \in [Orders -> Run] /\ run'[o] = Idle /\ run'[o].pc = "idle"
  BY EndsAt DEF IInv
<1>2. \A p \in Orders \ {o} : run'[p] = run[p]
  BY DEF Ends, IInv, TypeOK
<1>3. TypeOK'
  BY <1>1 DEF IInv, TypeOK, environment
<1>4. Turns'
  <2>1. \A p \in Orders : p # "none"
    BY VeoAssumption
  <2> QED
    BY <1>1, <1>2, <2>1 DEF IInv, Turns
<1>5. Entries'
  BY DEF IInv, Entries, EveryWindow, environment
<1>6. \A p \in Orders \ {o} : Steady(p)
  BY <1>2 DEF Steady, Same, environment
<1>7. OrderSound(o)'
  BY <1>1, Unmoved, EndsSound DEF environment
<1> QED
  BY <1>3, <1>4, <1>5, <1>6, <1>7, SteadyKeeps DEF IInv

-----------------------------------------------------------------------------
(* One lemma per action. *)

LEMMA BeginKeeps == ASSUME IInv, NEW o \in Orders, Begin(o) PROVE IInv'
<1>1. /\ run'[o].pc = "enter" /\ run'[o].seg = run[o].seg /\ run' \in [Orders -> Run]
      /\ \A p \in Orders \ {o} : run'[p] = run[p]
  BY GoesTo DEF IInv, TypeOK, Begin, Goes, Steps
<1>2. 1 \in SegmentsOf[o]
  BY Basics
<1>4. run[o].pc = "idle"
  BY DEF Begin, At
<1>5. run[o].seg = 1
  BY <1>4, Basics DEF OrderSound, Backed
<1>3. Standing(o)'
  BY <1>1 DEF Standing
<1>6. run'[o].seg \in SegmentsOf[o] /\ run'[o].seg # 2
  BY <1>1, <1>2, <1>5
<1>7. UNCHANGED environment /\ UNCHANGED <<ledger, tail, receipt, file, manifest, sent, late>>
  BY DEF Begin
<1>8. /\ run'[o].pc \notin {"idle", "reserve", "submit", "manifest"} /\ run'[o].pc # "send"
      /\ run[o].pc # "reserve"
  BY <1>1, <1>4
<1> QED
  BY <1>1, <1>3, <1>6, <1>7, <1>8, QuietKeeps

LEMMA PassGateKeeps == ASSUME IInv, NEW o \in Orders, PassGate(o) PROVE IInv'
<1>1. CASE Ends(o)
  <2>1. tail' = IF tail = o THEN "none" ELSE tail
    BY DEF PassGate, At, IInv, Turns
  <2> QED
    BY <1>1, <2>1, EndsKeeps DEF PassGate
<1>2. CASE Goes(o, "enter")
  <2>1. /\ run'[o].pc = "enter" /\ run'[o].seg = run[o].seg /\ run' \in [Orders -> Run]
        /\ \A p \in Orders \ {o} : run'[p] = run[p]
    BY <1>2, GoesTo DEF IInv, TypeOK, Goes, Steps
  <2>2. /\ run[o].pc = "gate" /\ run[o].seg \in SegmentsOf[o]
        /\ run[o].seg = 2 => VideoBehind(<<o, 1>>)
    BY Basics DEF OrderSound, Backed, PassGate, At
  <2>3. Standing(o)'
    BY <2>1 DEF Standing
  <2> QED
    BY <2>1, <2>2, <2>3, QuietKeeps DEF PassGate
<1> QED
  BY <1>1, <1>2 DEF PassGate

LEMMA EnterSegmentKeeps == ASSUME IInv, NEW o \in Orders, EnterSegment(o) PROVE IInv'
<1>1. /\ run[o].pc = "enter" /\ run[o].seg \in SegmentsOf[o]
      /\ run[o].seg = 2 => VideoBehind(<<o, 1>>)
      /\ SegmentsOf[o] \in {{1}, {1, 2}} /\ Segment(o) = <<o, run[o].seg>>
      /\ receipt[Segment(o)] \in Receipt
  BY Basics DEF OrderSound, Backed, EnterSegment, At
<1>2. CASE Ends(o)
  <2>1. tail' = IF tail = o THEN "none" ELSE tail
    BY <1>1 DEF EnterSegment, IInv, Turns
  <2> QED
    BY <1>2, <2>1, EndsKeeps DEF EnterSegment
<1>3. CASE receipt[Segment(o)].st = "submitted" /\ Goes(o, "poll")
  <2>1. /\ run'[o].pc = "poll" /\ run'[o].seg = run[o].seg /\ run' \in [Orders -> Run]
        /\ \A p \in Orders \ {o} : run'[p] = run[p]
    BY <1>3, GoesTo DEF IInv, TypeOK, Goes, Steps
  <2>2. Standing(o)'
    BY <1>1, <1>3, <2>1 DEF Standing, Segment, EnterSegment
  <2> QED
    BY <1>1, <2>1, <2>2, QuietKeeps DEF EnterSegment
<1>4. CASE /\ receipt[Segment(o)].st \in {"none"} \cup Unidentified
           /\ AttemptsAllowed(o) /\ Goes(o, "queue")
  <2>1. /\ run'[o].pc = "queue" /\ run'[o].seg = run[o].seg /\ run' \in [Orders -> Run]
        /\ \A p \in Orders \ {o} : run'[p] = run[p]
    BY <1>4, GoesTo DEF IInv, TypeOK, Goes, Steps
  <2>2. receipt[Segment(o)].tries <= 1
    BY <1>1, <1>4 DEF AttemptsAllowed, AttemptOf, Receipt
  <2>3. Standing(o)'
    BY <1>1, <1>4, <2>1, <2>2 DEF Standing, Segment, EnterSegment
  <2> QED
    BY <1>1, <2>1, <2>3, QuietKeeps DEF EnterSegment
<1>5. CASE /\ receipt[Segment(o)].st = "succeeded" /\ file[Segment(o)] = receipt[Segment(o)].op
           /\ Advances(o)
  <2>1. /\ run' \in [Orders -> Run] /\ \A p \in Orders \ {o} : run'[p] = run[p]
        /\ IF run[o].seg + 1 \in SegmentsOf[o] THEN run'[o].pc = "gate" /\ run'[o].seg = 2
           ELSE run'[o].pc = "manifest" /\ run'[o].seg = run[o].seg
    BY <1>5, AdvancesTyped DEF IInv, TypeOK, Advances
  <2>2. VideoBehind(<<o, run[o].seg>>)
    BY <1>1, <1>5 DEF VideoBehind
  <2>3. Standing(o)'
    BY <2>1 DEF Standing
  <2>4. CASE run[o].seg + 1 \in SegmentsOf[o]
    BY <1>1, <2>1, <2>2, <2>3, <2>4, QuietKeeps DEF EnterSegment
  <2>5. CASE run[o].seg + 1 \notin SegmentsOf[o]
    <3>1. TypeOK'
      BY <2>1 DEF IInv, TypeOK, EnterSegment, environment
    <3>2. Turns' /\ Entries'
      BY <1>1, <2>1, <2>5, SharedKeeps DEF EnterSegment, environment
    <3>3. OrderSound(o)'
      BY <1>1, <2>1, <2>2, <2>3, <2>5, Unmoved, MoveSound DEF EnterSegment, environment
    <3>4. \A p \in Orders \ {o} : Steady(p)
      BY <2>1 DEF EnterSegment, Steady, Same, environment
    <3> QED
      BY <3>1, <3>2, <3>3, <3>4, SteadyKeeps DEF IInv
  <2> QED
    BY <2>4, <2>5
<1> QED
  BY <1>2, <1>3, <1>4, <1>5 DEF EnterSegment

LEMMA TakeTurnKeeps == ASSUME IInv, NEW o \in Orders, TakeTurn(o) PROVE IInv'
<1>1. /\ run[o] \in Run /\ run[o].pc = "queue" /\ ledger \subseteq Entry
      /\ "reserve" \in Steps /\ o # "none" /\ Segment(o) = <<o, run[o].seg>>
  BY Basics, VeoAssumption DEF IInv, TypeOK, TakeTurn, At, Steps
<1>2. /\ run'[o] = [run[o] EXCEPT !.pc = "reserve", !.seen = ledger]
      /\ \A p \in Orders \ {o} : run'[p] = run[p]
  BY DEF IInv, TypeOK, TakeTurn
<1>3. /\ run'[o] \in Run /\ run'[o].pc = "reserve" /\ run'[o].seen = ledger
      /\ run'[o].seg = run[o].seg
  BY <1>1, <1>2 DEF Run
<1>4. run' \in [Orders -> Run]
  BY <1>3 DEF IInv, TypeOK, TakeTurn
<1>5. TypeOK'
  BY <1>4 DEF IInv, TypeOK, TakeTurn, environment
<1>6. Turns'
  <2>1. tail = "none" /\ tail' = o /\ ledger' = ledger /\ \A p \in Orders : p # "none"
    BY VeoAssumption DEF TakeTurn
  <2>2. \A p \in Orders : run[p].pc # "reserve"
    BY <2>1 DEF IInv, Turns
  <2> QED
    BY <1>2, <1>3, <2>1, <2>2 DEF Turns
<1>7. Entries'
  BY DEF IInv, Entries, EveryWindow, TakeTurn, environment
<1>8. Standing(o)'
  <2>1. Standing(o)
    BY Basics DEF OrderSound
  <2> QED
    BY <1>1, <1>3, <2>1 DEF Standing, Segment, TakeTurn
<1>9. OrderSound(o)'
  <2>1. /\ run[o].seg \in SegmentsOf[o]
        /\ run[o].seg = 2 => VideoBehind(<<o, 1>>)
    BY <1>1, Basics DEF OrderSound, Backed
  <2> QED
    BY <1>3, <1>8, <2>1, Unmoved, MoveSound DEF TakeTurn, environment
<1>10. \A p \in Orders \ {o} : Steady(p)
  BY <1>2 DEF TakeTurn, Steady, Same, environment
<1> QED
  BY <1>5, <1>6, <1>7, <1>9, <1>10, SteadyKeeps DEF IInv

\* An entry is made when fewer than the cap are in its window, which ends with it.
LEMMA NewEntryFits ==
    ASSUME IInv, NEW entry \in Entry, entry.at = now, entry \notin ledger,
           Cardinality(Recent(ledger)) < MaxGenerations,
           ledger' = ledger \cup {entry}, now' = now
    PROVE  Entries'
<1>1. IsFiniteSet(ledger) /\ (\A e \in ledger : e.at <= now /\ e.at \in Nat) /\ now \in Nat
  BY DEF IInv, Entries, TypeOK, Entry
<1>2. IsFiniteSet(ledger') /\ \A e \in ledger' : e.at <= now'
  BY <1>1, FS_AddElement
<1>3. ASSUME NEW e \in ledger'
      PROVE  Cardinality({f \in ledger' : f.at <= e.at /\ e.at <= f.at + Window})
               <= MaxGenerations
  <2> DEFINE W(S) == {f \in S : f.at <= e.at /\ e.at <= f.at + Window}
  <2>1. CASE e.at = now
    <3>1. W(ledger') = Recent(ledger) \cup {entry}
      BY <1>1, <2>1, VeoAssumption DEF Recent
    <3>2. IsFiniteSet(Recent(ledger)) /\ entry \notin Recent(ledger)
      BY <1>1, FS_Subset DEF Recent
    <3>3. Cardinality(W(ledger')) = Cardinality(Recent(ledger)) + 1
      BY <3>1, <3>2, FS_AddElement
    <3>4. Cardinality(Recent(ledger)) \in Nat
      BY <3>2, FS_CardinalityType
    <3> HIDE DEF W
    <3>5. Cardinality(W(ledger')) <= MaxGenerations
      BY <3>3, <3>4, VeoAssumption
    <3> QED
      BY <3>5 DEF W
  <2>2. CASE e.at # now
    <3>1. e \in ledger /\ e.at <= now /\ e.at \in Nat
      BY <1>1, <2>2
    <3>2. W(ledger') = W(ledger)
      BY <1>1, <2>2, <3>1
    <3>3. Cardinality(W(ledger)) <= MaxGenerations
      BY <3>1 DEF IInv, Entries, EveryWindow
    <3> QED
      BY <3>2, <3>3
  <2> QED
    BY <2>1, <2>2
<1> QED
  BY <1>2, <1>3 DEF Entries, EveryWindow

LEMMA ReserveKeeps == ASSUME IInv, NEW o \in Orders, Reserve(o) PROVE IInv'
<1>1. /\ run[o] \in Run /\ run[o].pc = "reserve" /\ run[o].seen = ledger /\ tail = o
      /\ "submit" \in Steps /\ o # "none" /\ Segment(o) = <<o, run[o].seg>>
      /\ Segment(o) \in Work /\ receipt[Segment(o)] \in Receipt /\ Standing(o)
  BY Basics, VeoAssumption DEF IInv, TypeOK, Reserve, At, Steps, Turns, OrderSound
<1>2. CASE Ends(o) /\ UNCHANGED ledger
  BY <1>1, <1>2, EndsKeeps DEF Reserve
<1>3. CASE /\ run' = [run EXCEPT ![o].pc = "submit", ![o].seen = {}]
           /\ \/ UNCHANGED ledger /\ Reserved(o)
              \/ /\ ledger' = ledger \cup
                      {[work |-> Segment(o), attempt |-> AttemptOf(o), at |-> now]}
                 /\ ~Reserved(o) /\ Cardinality(Recent(ledger)) < MaxGenerations
  <2> DEFINE entry == [work |-> Segment(o), attempt |-> AttemptOf(o), at |-> now]
  <2>1. /\ run'[o] = [run[o] EXCEPT !.pc = "submit", !.seen = {}]
        /\ \A p \in Orders \ {o} : run'[p] = run[p]
    BY <1>3 DEF IInv, TypeOK
  <2>2. /\ run'[o] \in Run /\ run'[o].pc = "submit" /\ run'[o].seg = run[o].seg
    BY <1>1, <2>1 DEF Run
  <2>3. run' \in [Orders -> Run]
    BY <1>3, <2>2 DEF IInv, TypeOK
  <2>4. AttemptOf(o) \in Attempts
    BY <1>1 DEF Standing, AttemptOf, Attempts, Receipt
  <2>5. entry \in Entry
    BY <1>1, <2>4 DEF Entry, IInv, TypeOK
  <2>6. ledger \subseteq ledger' /\ ledger' \subseteq Entry
    BY <1>3, <2>5 DEF IInv, TypeOK
  <2>7. TypeOK'
    BY <2>3, <2>6 DEF IInv, TypeOK, Reserve, environment
  <2>8. Turns'
    <3>1. tail' = "none" /\ \A p \in Orders : p # "none"
      BY VeoAssumption DEF Reserve
    <3>2. \A p \in Orders : run'[p].pc # "reserve"
      BY <1>1, <2>1, <2>2 DEF IInv, Turns
    <3> QED
      BY <3>1, <3>2 DEF Turns
  <2>9. Entries'
    <3>1. CASE UNCHANGED ledger
      BY <3>1 DEF IInv, Entries, EveryWindow, Reserve, environment
    <3>2. CASE /\ ledger' = ledger \cup {entry} /\ ~Reserved(o)
               /\ Cardinality(Recent(ledger)) < MaxGenerations
      <4>1. entry \notin ledger
        BY <1>1, <3>2 DEF Reserved
      <4>2. entry.at = now /\ now' = now
        BY DEF Reserve, environment
      <4> HIDE DEF entry
      <4> QED
        BY <2>5, <3>2, <4>1, <4>2, NewEntryFits
    <3> QED
      BY <1>3, <3>1, <3>2
  <2>10. InLedger(Segment(o), AttemptOf(o))'
    <3>1. Segment(o)' = Segment(o) /\ AttemptOf(o)' = AttemptOf(o)
      BY <1>1, <2>2 DEF Segment, AttemptOf, Reserve
    <3>2. \E e \in ledger' : e.work = Segment(o) /\ e.attempt = AttemptOf(o)
      <4>1. CASE UNCHANGED ledger /\ Reserved(o)
        BY <1>1, <4>1 DEF Reserved
      <4>2. CASE ledger' = ledger \cup {entry}
        <5>1. entry \in ledger' /\ entry.work = Segment(o) /\ entry.attempt = AttemptOf(o)
          BY <4>2
        <5> QED
          BY <5>1
      <4> QED
        BY <1>3, <4>1, <4>2
    <3> QED
      BY <3>1, <3>2 DEF InLedger
  <2>11. Standing(o)'
    BY <1>1, <2>2 DEF Standing, Segment, Reserve
  <2>12. OrderSound(o)'
    <3>1. /\ run[o].seg \in SegmentsOf[o]
          /\ run[o].seg = 2 => VideoBehind(<<o, 1>>)
      BY <1>1, Basics DEF OrderSound, Backed
    <3> QED
      BY <2>2, <2>6, <2>10, <2>11, <3>1, Unmoved, MoveSound DEF Reserve, environment
  <2>13. \A p \in Orders \ {o} : Steady(p)
    BY <2>1, <2>6 DEF Reserve, Steady, Same, environment
  <2> QED
    BY <2>7, <2>8, <2>9, <2>12, <2>13, SteadyKeeps DEF IInv
<1> QED
  BY <1>1, <1>2, <1>3 DEF Reserve

-----------------------------------------------------------------------------
(* The submission. *)

\* A step of a run that writes the receipt of its segment and nothing else.
LEMMA WritesKeep ==
    ASSUME IInv, NEW o \in Orders, NEW r \in Receipt, Writes(o, r),
           UNCHANGED environment, UNCHANGED <<ledger, tail, file, manifest, sent, late>>,
           run' \in [Orders -> Run], \A p \in Orders \ {o} : run'[p] = run[p],
           run[o].pc # "reserve", run'[o].pc \notin {"reserve", "submit", "send"},
           receipt[Segment(o)].st # "succeeded",
           r.tries \in {receipt[Segment(o)].tries, receipt[Segment(o)].tries + 1},
           r.tries # receipt[Segment(o)].tries => InLedger(Segment(o), r.tries),
           Standing(o)',
           run'[o].pc = "idle" => run'[o].seg = 1,
           run'[o].pc # "idle" => /\ run'[o].seg \in SegmentsOf[o]
                                  /\ (run'[o].seg = 2 => VideoBehind(<<o, 1>>)'),
           run'[o].pc = "manifest" => /\ run'[o].seg + 1 \notin SegmentsOf[o]
                                      /\ VideoBehind(<<o, run[o].seg>>)'
                                      /\ run'[o].seg = run[o].seg
    PROVE  IInv'
<1>1. PICK s \in 1 .. 2 : s = run[o].seg
  BY Basics
<1>2. /\ Segment(o) = <<o, s>> /\ <<o, s>> \in Work /\ SegmentsOf[o] \in {{1}, {1, 2}}
      /\ <<o, 1>> \in Work /\ <<o, 2>> \in Work /\ OrderSound(o)
      /\ receipt \in [Work -> Receipt]
  BY <1>1, Basics DEF IInv, TypeOK
<1>3. /\ receipt'[<<o, s>>] = r
      /\ \A w \in Work : w # <<o, s>> => receipt'[w] = receipt[w]
  BY <1>2 DEF Writes
<1>4. TypeOK'
  BY WritesTyped DEF IInv, TypeOK, environment
<1>5. Turns' /\ Entries'
  BY SharedKeeps DEF environment
<1>6. \A p \in Orders \ {o} : Steady(p)
  BY <1>3 DEF Steady, Same, environment, Work
<1>7. Counting(o)'
  <2>1. r.tries \in Nat /\ receipt[<<o, s>>].tries \in Nat /\ r.tries <= 2
    BY <1>2 DEF Receipt
  <2>2. \A t \in 1 .. 2 : sent[<<o, t>>] \in Nat /\ <<o, t>> \in Work
    BY <1>2 DEF IInv, TypeOK, Work
  <2> QED
    BY <1>2, <1>3, <2>1, <2>2 DEF OrderSound, Counting
<1>8. Listed(o)'
  <2>1. \A w, a : InLedger(w, a)' <=> InLedger(w, a)
    BY DEF InLedger
  <2>2. \A t \in 1 .. 2 : \A a \in 1 .. receipt'[<<o, t>>].tries : InLedger(<<o, t>>, a)
    <3>1. ASSUME NEW t \in 1 .. 2, NEW a \in 1 .. receipt'[<<o, t>>].tries
          PROVE  InLedger(<<o, t>>, a)
      <4>1. CASE a \in 1 .. receipt[<<o, t>>].tries
        BY <4>1, <1>2 DEF OrderSound, Listed
      <4>2. CASE a \notin 1 .. receipt[<<o, t>>].tries
        <5>1. <<o, t>> \in Work
          BY DEF Work
        <5>2. t = s /\ a = r.tries /\ r.tries # receipt[<<o, s>>].tries
          BY <1>2, <1>3, <3>1, <4>2, <5>1 DEF Receipt
        <5> QED
          BY <1>2, <5>2
      <4> QED
        BY <4>1, <4>2
    <3> QED
      BY <3>1
  <2> QED
    BY <2>1, <2>2 DEF Listed
<1>9. Stopping(o)'
  BY <1>2 DEF OrderSound, Stopping, environment
<1>10. Backed(o)'
  <2>1. \A t \in 1 .. 2 : VideoBehind(<<o, t>>) => VideoBehind(<<o, t>>)'
    <3>1. \A t \in 1 .. 2 : <<o, t>> \in Work
      BY DEF Work
    <3> QED
      BY <1>2, <1>3, <3>1 DEF VideoBehind
  <2> QED
    BY <1>1, <1>2, <2>1 DEF OrderSound, Backed, Segment
<1> QED
  BY <1>4, <1>5, <1>6, <1>7, <1>8, <1>9, <1>10, SteadyKeeps DEF IInv, OrderSound

LEMMA Written ==
    ASSUME IInv, NEW o \in Orders, NEW r \in Receipt, Writes(o, r), UNCHANGED file,
           receipt[Segment(o)].st # "succeeded"
    PROVE  /\ receipt'[<<o, run[o].seg>>] = r
           /\ \A s \in 1 .. 2 : VideoBehind(<<o, s>>) => VideoBehind(<<o, s>>)'
<1>1. PICK s \in 1 .. 2 : s = run[o].seg
  BY Basics
<1>2. Segment(o) = <<o, s>> /\ \A t \in 1 .. 2 : <<o, t>> \in Work
  BY <1>1, Basics DEF Work
<1>3. /\ receipt'[<<o, s>>] = r
      /\ \A w \in Work : w # <<o, s>> => receipt'[w] = receipt[w]
  BY <1>2 DEF Writes, IInv, TypeOK
<1>4. receipt[<<o, s>>].st # "succeeded"
  BY <1>2
<1> QED
  BY <1>1, <1>2, <1>3, <1>4 DEF VideoBehind

\* The run goes on after the write.
LEMMA WritesTo ==
    ASSUME IInv, NEW o \in Orders, NEW r \in Receipt, Writes(o, r),
           UNCHANGED environment, UNCHANGED <<ledger, tail, file, manifest, sent, late>>,
           NEW pc \in {"spend", "enter", "poll"}, Goes(o, pc),
           run[o].pc \notin {"idle", "reserve"},
           receipt[Segment(o)].st # "succeeded",
           r.tries \in {receipt[Segment(o)].tries, receipt[Segment(o)].tries + 1},
           r.tries # receipt[Segment(o)].tries => InLedger(Segment(o), r.tries),
           pc = "spend" => r.st = "submitting" /\ sent[Segment(o)] < r.tries,
           pc = "poll" => r.st = "submitted"
    PROVE  IInv'
<1>1. /\ run' \in [Orders -> Run] /\ run'[o].pc = pc /\ run'[o].seg = run[o].seg
      /\ \A p \in Orders \ {o} : run'[p] = run[p]
  BY GoesTo DEF IInv, TypeOK, Goes, Steps
<1>2. /\ run[o].seg \in SegmentsOf[o] /\ (run[o].seg = 2 => VideoBehind(<<o, 1>>))
      /\ Segment(o) = <<o, run[o].seg>>
  BY Basics DEF OrderSound, Backed
<1>3. receipt'[<<o, run[o].seg>>] = r /\ (VideoBehind(<<o, 1>>) => VideoBehind(<<o, 1>>)')
  <2>1. \A s \in 1 .. 2 : VideoBehind(<<o, s>>) => VideoBehind(<<o, s>>)'
    BY Written
  <2>2. receipt'[<<o, run[o].seg>>] = r
    BY Written
  <2> HIDE DEF VideoBehind
  <2> QED
    BY <2>1, <2>2
<1>4. Standing(o)'
  BY <1>1, <1>2, <1>3 DEF Standing, Segment
<1>5. /\ run'[o].seg \in SegmentsOf[o]
      /\ run'[o].seg = 2 => VideoBehind(<<o, 1>>)'
  BY <1>1, <1>2, <1>3
<1>6. run'[o].pc \notin {"reserve", "submit", "send", "idle", "manifest"}
  BY <1>1
<1> QED
  BY <1>1, <1>4, <1>5, <1>6, WritesKeep

\* The run ends with the write.
LEMMA WritesEnd ==
    ASSUME IInv, NEW o \in Orders, NEW r \in Receipt, Writes(o, r), Ends(o),
           UNCHANGED environment, UNCHANGED <<ledger, tail, file, manifest, sent, late>>,
           run[o].pc # "reserve", receipt[Segment(o)].st # "succeeded",
           r.tries = receipt[Segment(o)].tries
    PROVE  IInv'
<1>1. run' \in [Orders -> Run] /\ run'[o].pc = "idle" /\ run'[o].seg = 1
  BY EndsAt DEF IInv, Idle
<1>2. \A p \in Orders \ {o} : run'[p] = run[p]
  BY DEF Ends, IInv, TypeOK
<1>3. Standing(o)'
  BY <1>1 DEF Standing
<1> QED
  BY <1>1, <1>2, <1>3, WritesKeep

LEMMA WriteSubmittingKeeps == ASSUME IInv, NEW o \in Orders, WriteSubmitting(o) PROVE IInv'
<1> DEFINE r == [st |-> "submitting", tries |-> AttemptOf(o), op |-> 0]
<1>1. /\ run[o].pc = "submit" /\ receipt[Segment(o)] \in Receipt
      /\ receipt[Segment(o)].st \in {"none"} \cup Unidentified
      /\ receipt[Segment(o)].tries <= 1 /\ InLedger(Segment(o), AttemptOf(o))
      /\ Segment(o) = <<o, run[o].seg>> /\ run[o].seg \in 1 .. 2 /\ Counting(o)
      /\ Segment(o) \in Work
  BY Basics DEF OrderSound, Standing, Listed, WriteSubmitting, At
<1>2. receipt[Segment(o)].tries \in 0 .. 1
  BY <1>1 DEF Receipt
<1>3. AttemptOf(o) \in 0 .. 2 /\ AttemptOf(o) = receipt[Segment(o)].tries + 1
  BY <1>2 DEF AttemptOf
<1>4. r \in Receipt /\ r.tries = AttemptOf(o)
  BY <1>3 DEF Receipt, Unidentified
<1>5. sent[Segment(o)] <= receipt[Segment(o)].tries /\ sent[Segment(o)] \in Nat
  BY <1>1 DEF Counting, IInv, TypeOK
<1>6. sent[Segment(o)] < r.tries
  BY <1>2, <1>3, <1>4, <1>5
<1>7. receipt[Segment(o)].st # "succeeded"
  BY <1>1 DEF Unidentified
<1>8. Writes(o, r) /\ Goes(o, "spend") /\ r.st = "submitting"
  BY DEF WriteSubmitting
<1> HIDE DEF r
<1> QED
  BY <1>1, <1>3, <1>4, <1>6, <1>7, <1>8, WritesTo DEF WriteSubmitting

\* What a submission throws leaves its attempt on the receipt.
LEMMA UncertainKeeps ==
    ASSUME IInv, NEW o \in Orders, Uncertain(o), run[o].pc \in {"spend", "answer"},
           UNCHANGED environment, UNCHANGED <<ledger, tail, file, manifest, sent, late>>
    PROVE  IInv'
<1> DEFINE r == [receipt[Segment(o)] EXCEPT !.st = "submission_uncertain"]
<1>1. receipt[Segment(o)] \in Receipt /\ receipt[Segment(o)].st = "submitting"
  BY Basics DEF OrderSound, Standing
<1>2. r \in Receipt /\ r.tries = receipt[Segment(o)].tries
  BY <1>1 DEF Receipt, Unidentified
<1>3. Writes(o, r) /\ Goes(o, "enter")
  BY DEF Uncertain
<1> HIDE DEF r
<1> QED
  BY <1>1, <1>2, <1>3, WritesTo

LEMMA SpendGateKeeps == ASSUME IInv, NEW o \in Orders, SpendGate(o) PROVE IInv'
<1>1. /\ run[o].pc = "spend" /\ receipt[Segment(o)] \in Receipt
      /\ receipt[Segment(o)].st = "submitting" /\ sent[Segment(o)] < receipt[Segment(o)].tries
      /\ Segment(o) = <<o, run[o].seg>> /\ run[o].seg \in SegmentsOf[o]
      /\ (run[o].seg = 2 => VideoBehind(<<o, 1>>)) /\ late[o] \in Nat
      /\ (late[o] > 0 => o \in stopped)
  BY Basics DEF OrderSound, Standing, Backed, Stopping, SpendGate, At, IInv, TypeOK
<1>2. CASE /\ Writes(o, [receipt[Segment(o)] EXCEPT !.st = "cancelled_before_submission"])
           /\ Ends(o)
  <2> DEFINE r == [receipt[Segment(o)] EXCEPT !.st = "cancelled_before_submission"]
  <2>1. r \in Receipt /\ r.tries = receipt[Segment(o)].tries
    BY <1>1 DEF Receipt
  <2>2. Writes(o, r) /\ Ends(o)
    BY <1>2
  <2> HIDE DEF r
  <2> QED
    BY <1>1, <2>1, <2>2, WritesEnd DEF SpendGate
<1>3. CASE o \notin stopped /\ Goes(o, "send") /\ UNCHANGED receipt
  <2>1. /\ run'[o].pc = "send" /\ run'[o].seg = run[o].seg /\ run' \in [Orders -> Run]
        /\ \A p \in Orders \ {o} : run'[p] = run[p]
    BY <1>3, GoesTo DEF IInv, TypeOK, Goes, Steps
  <2>2. UNCHANGED <<ledger, tail, receipt, file, manifest, sent, late>> /\ UNCHANGED environment
    BY <1>3 DEF SpendGate
  <2>3. Standing(o)'
    BY <1>1, <2>1, <2>2 DEF Standing, Segment
  <2>4. late[o] = 0
    BY <1>1, <1>3
  <2>5. run'[o].seg \in SegmentsOf[o] /\ (run'[o].seg = 2 => VideoBehind(<<o, 1>>))
    BY <1>1, <2>1
  <2> QED
    BY <1>1, <2>1, <2>2, <2>3, <2>4, <2>5, QuietKeeps
<1>4. CASE Uncertain(o)
  BY <1>1, <1>4, UncertainKeeps DEF SpendGate
<1> QED
  BY <1>2, <1>3, <1>4 DEF SpendGate

LEMMA AnsweredKeeps == ASSUME IInv, NEW o \in Orders, Answered(o) PROVE IInv'
<1> DEFINE r == [receipt[Segment(o)] EXCEPT !.st = "submitted", !.op = receipt[Segment(o)].tries]
<1>1. /\ run[o].pc = "answer" /\ receipt[Segment(o)] \in Receipt
      /\ receipt[Segment(o)].st = "submitting"
  BY Basics DEF OrderSound, Standing, Answered, At
<1>2. r \in Receipt /\ r.tries = receipt[Segment(o)].tries /\ r.st = "submitted"
  BY <1>1 DEF Receipt, Identified
<1>3. CASE Writes(o, r) /\ Goes(o, "poll")
  <2> HIDE DEF r
  <2> QED
    BY <1>1, <1>2, <1>3, WritesTo DEF Answered
<1>4. CASE Uncertain(o)
  BY <1>1, <1>4, UncertainKeeps DEF Answered
<1> QED
  BY <1>3, <1>4 DEF Answered

\* The request: the attempt it stands for is on the receipt, and the gate is behind it.
LEMMA SendKeeps == ASSUME IInv, NEW o \in Orders, Send(o) PROVE IInv'
<1>1. PICK s \in 1 .. 2 : s = run[o].seg
  BY Basics
<1>2. /\ Segment(o) = <<o, s>> /\ run[o].pc = "send" /\ OrderSound(o)
      /\ \A t \in 1 .. 2 : <<o, t>> \in Work /\ sent[<<o, t>>] \in Nat
                           /\ receipt[<<o, t>>] \in Receipt
      /\ SegmentsOf[o] \in {{1}, {1, 2}}
  <2>1. \A t \in 1 .. 2 : <<o, t>> \in Work
    BY DEF Work
  <2>2. /\ \A w \in Work : sent[w] \in Nat /\ receipt[w] \in Receipt
        /\ run[o].pc = "send"
    BY DEF IInv, TypeOK, Send, At
  <2> QED
    BY <1>1, <2>1, <2>2, Basics
<1>3. /\ run'[o].pc = "answer" /\ run'[o].seg = run[o].seg /\ run' \in [Orders -> Run]
      /\ \A p \in Orders \ {o} : run'[p] = run[p]
  BY GoesTo DEF Send, IInv, TypeOK, Goes, Steps
<1>4. /\ sent'[<<o, s>>] = sent[<<o, s>>] + 1
      /\ \A w \in Work : w # <<o, s>> => sent'[w] = sent[w]
  BY <1>2 DEF Send, IInv, TypeOK
<1>5. /\ late'[o] = IF o \in stopped THEN late[o] + 1 ELSE late[o]
      /\ \A p \in Orders \ {o} : late'[p] = late[p]
      /\ late[o] \in Nat
  BY DEF Send, IInv, TypeOK
<1>6. TypeOK'
  <2>1. sent' \in [Work -> Nat]
    BY <1>2 DEF Send, IInv, TypeOK
  <2>2. late' \in [Orders -> Nat]
    BY DEF Send, IInv, TypeOK
  <2> QED
    BY <1>3, <2>1, <2>2 DEF Send, IInv, TypeOK, environment
<1>7. Turns' /\ Entries'
  BY <1>2, <1>3, SharedKeeps DEF Send, environment
<1>8. \A p \in Orders \ {o} : Steady(p)
  BY <1>3, <1>4, <1>5 DEF Send, Steady, Same, environment, Work
<1>9. Counting(o)'
  <2>1. sent[<<o, s>>] < receipt[<<o, s>>].tries
    BY <1>2 DEF OrderSound, Standing
  <2>2. \A t \in 1 .. 2 : receipt[<<o, t>>].tries \in Nat /\ sent[<<o, t>>] \in Nat
    BY <1>2 DEF Receipt
  <2>3. \A t \in 1 .. 2 : sent[<<o, t>>] <= receipt[<<o, t>>].tries /\ receipt[<<o, t>>].tries <= 2
    BY <1>2 DEF OrderSound, Counting
  <2>4. \A t \in 1 .. 2 : sent'[<<o, t>>] <= receipt[<<o, t>>].tries
    BY <1>2, <1>4, <2>1, <2>2, <2>3
  <2> QED
    BY <2>3, <2>4 DEF Counting, Send
<1>10. Standing(o)'
  BY <1>2, <1>3 DEF OrderSound, Standing, Send, Segment
<1>11. Listed(o)'
  <2>1. \A w, a : InLedger(w, a)' <=> InLedger(w, a)
    BY DEF InLedger, Send
  <2> QED
    BY <1>2, <1>3, <2>1 DEF OrderSound, Listed, Send
<1>12. Stopping(o)'
  <2>1. late[o] = 0
    BY <1>2, <1>5 DEF OrderSound, Stopping
  <2> QED
    BY <1>3, <1>5, <2>1 DEF Stopping, Send, environment
<1>13. Backed(o)'
  <2>1. \A t \in 1 .. 2 : VideoBehind(<<o, t>>)' <=> VideoBehind(<<o, t>>)
    BY DEF VideoBehind, Send
  <2>2. sent'[<<o, 2>>] > 0 => sent[<<o, 2>>] > 0 \/ s = 2
    BY <1>2, <1>4
  <2>3. s = 2 => VideoBehind(<<o, 1>>)
    BY <1>1, <1>2 DEF OrderSound, Backed
  <2> QED
    BY <1>1, <1>2, <1>3, <2>1, <2>2, <2>3 DEF OrderSound, Backed, Send
<1> QED
  BY <1>6, <1>7, <1>8, <1>9, <1>10, <1>11, <1>12, <1>13, SteadyKeeps DEF IInv, OrderSound

-----------------------------------------------------------------------------
(* The operation. *)

\* The video of a known operation: nothing rests on another one's file.
LEMMA FileKeeps ==
    ASSUME IInv, NEW o \in Orders, At(o, "poll"), Goes(o, "succeed"),
           file' = [file EXCEPT ![Segment(o)] = receipt[Segment(o)].op],
           UNCHANGED environment, UNCHANGED <<ledger, tail, receipt, manifest, sent, late>>
    PROVE  IInv'
<1>1. PICK s \in 1 .. 2 : s = run[o].seg
  BY Basics
<1>2. /\ Segment(o) = <<o, s>> /\ <<o, s>> \in Work /\ OrderSound(o) /\ run[o].pc = "poll"
      /\ SegmentsOf[o] \in {{1}, {1, 2}} /\ receipt[<<o, s>>] \in Receipt
  BY <1>1, Basics DEF At
<1>3. /\ run'[o].pc = "succeed" /\ run'[o].seg = run[o].seg /\ run' \in [Orders -> Run]
      /\ \A p \in Orders \ {o} : run'[p] = run[p]
  BY GoesTo DEF IInv, TypeOK, Goes, Steps
<1>4. /\ file'[<<o, s>>] = receipt[<<o, s>>].op
      /\ \A w \in Work : w # <<o, s>> => file'[w] = file[w]
  BY <1>2 DEF IInv, TypeOK
<1>5. receipt[<<o, s>>].st = "submitted"
  BY <1>2 DEF OrderSound, Standing
<1>6. TypeOK'
  <2>1. receipt[<<o, s>>].op \in 0 .. 2
    BY <1>2 DEF Receipt
  <2>2. file' \in [Work -> 0 .. 2]
    BY <1>2, <2>1 DEF IInv, TypeOK
  <2> QED
    BY <1>3, <2>2 DEF IInv, TypeOK, environment
<1>7. Turns' /\ Entries'
  BY <1>2, <1>3, SharedKeeps DEF environment
<1>8. \A p \in Orders \ {o} : Steady(p)
  BY <1>3, <1>4 DEF Steady, Same, environment, Work
<1>9. Counting(o)'
  BY <1>2 DEF OrderSound, Counting
<1>10. Standing(o)'
  BY <1>1, <1>2, <1>3, <1>4, <1>5 DEF Standing, Segment
<1>11. Listed(o)'
  <2>1. \A w, a : InLedger(w, a)' <=> InLedger(w, a)
    BY DEF InLedger
  <2> QED
    BY <1>2, <1>3, <2>1 DEF OrderSound, Listed
<1>12. Stopping(o)'
  BY <1>2, <1>3 DEF OrderSound, Stopping, environment
<1>13. Backed(o)'
  <2>1. \A t \in 1 .. 2 : VideoBehind(<<o, t>>) => VideoBehind(<<o, t>>)'
    <3>1. \A t \in 1 .. 2 : <<o, t>> \in Work
      BY DEF Work
    <3> QED
      BY <1>4, <1>5, <3>1 DEF VideoBehind
  <2> QED
    BY <1>1, <1>2, <1>3, <2>1 DEF OrderSound, Backed
<1> QED
  BY <1>6, <1>7, <1>8, <1>9, <1>10, <1>11, <1>12, <1>13, SteadyKeeps DEF IInv, OrderSound

LEMMA PollKeeps == ASSUME IInv, NEW o \in Orders, Poll(o) PROVE IInv'
<1>1. /\ run[o].pc = "poll" /\ receipt[Segment(o)] \in Receipt
      /\ receipt[Segment(o)].st = "submitted"
  BY Basics DEF OrderSound, Standing, Poll, At
<1>2. CASE /\ file' = [file EXCEPT ![Segment(o)] = receipt[Segment(o)].op]
           /\ Goes(o, "succeed") /\ UNCHANGED receipt
  BY <1>2, FileKeeps DEF Poll
<1>3. CASE /\ Writes(o, [receipt[Segment(o)] EXCEPT !.st = "failed"])
           /\ Ends(o) /\ UNCHANGED file
  <2> DEFINE r == [receipt[Segment(o)] EXCEPT !.st = "failed"]
  <2>1. r \in Receipt /\ r.tries = receipt[Segment(o)].tries
    BY <1>1 DEF Receipt, Identified
  <2>2. Writes(o, r) /\ Ends(o)
    BY <1>3
  <2> HIDE DEF r
  <2> QED
    BY <1>1, <1>3, <2>1, <2>2, WritesEnd DEF Poll
<1>4. CASE Ends(o) /\ UNCHANGED <<receipt, file>>
  <2>1. tail' = IF tail = o THEN "none" ELSE tail
    BY <1>1 DEF Poll, IInv, Turns
  <2> QED
    BY <1>4, <2>1, EndsKeeps DEF Poll
<1> QED
  BY <1>2, <1>3, <1>4 DEF Poll

LEMMA SucceedKeeps == ASSUME IInv, NEW o \in Orders, Succeed(o) PROVE IInv'
<1> DEFINE r == [receipt[Segment(o)] EXCEPT !.st = "succeeded"]
<1>1. /\ run[o].pc = "succeed" /\ receipt[Segment(o)] \in Receipt
      /\ receipt[Segment(o)].st = "submitted" /\ file[Segment(o)] = receipt[Segment(o)].op
      /\ Segment(o) = <<o, run[o].seg>> /\ run[o].seg \in SegmentsOf[o]
      /\ SegmentsOf[o] \in {{1}, {1, 2}} /\ run[o].seg \in 1 .. 2
  BY Basics DEF OrderSound, Standing, Backed, Succeed, At
<1>2. /\ run' \in [Orders -> Run] /\ \A p \in Orders \ {o} : run'[p] = run[p]
      /\ IF run[o].seg + 1 \in SegmentsOf[o] THEN run'[o].pc = "gate" /\ run'[o].seg = 2
         ELSE run'[o].pc = "manifest" /\ run'[o].seg = run[o].seg
  BY AdvancesTyped DEF IInv, TypeOK, Succeed, Advances
<1>3. /\ r \in Receipt /\ r.tries = receipt[Segment(o)].tries
      /\ r.st = "succeeded" /\ r.op = receipt[Segment(o)].op
  BY <1>1 DEF Receipt, Identified
<1>4. Writes(o, r) /\ file' = file
  BY DEF Succeed
<1> HIDE DEF r
<1>5. PICK s \in 1 .. 2 : s = run[o].seg
  BY <1>1
<1>6. VideoBehind(<<o, s>>)'
  <2>1. receipt'[<<o, s>>] = r
    BY <1>1, <1>3, <1>4, <1>5, Written
  <2>2. file'[<<o, s>>] = r.op
    BY <1>1, <1>3, <1>4, <1>5
  <2> QED
    BY <1>3, <2>1, <2>2 DEF VideoBehind
<1>7. Standing(o)'
  BY <1>2 DEF Standing
<1>8. /\ run[o].pc # "reserve" /\ run'[o].pc \notin {"reserve", "submit", "send", "idle"}
      /\ receipt[Segment(o)].st # "succeeded"
  BY <1>1, <1>2
<1>9. UNCHANGED environment /\ UNCHANGED <<ledger, tail, file, manifest, sent, late>>
  BY DEF Succeed
<1>10. /\ run'[o].seg \in SegmentsOf[o]
       /\ run'[o].seg = 2 => VideoBehind(<<o, 1>>)'
  <2>1. CASE s = 1
    BY <1>1, <1>2, <1>5, <1>6, <2>1
  <2>2. CASE s = 2
    <3>1. run'[o].seg = 2 /\ run[o].seg = 2 /\ SegmentsOf[o] = {1, 2}
      BY <1>1, <1>2, <1>5, <2>2
    <3>2. VideoBehind(<<o, 1>>)
      BY <1>1, <3>1, Basics DEF OrderSound, Backed
    <3>3. \A t \in 1 .. 2 : VideoBehind(<<o, t>>) => VideoBehind(<<o, t>>)'
      BY <1>3, <1>4, <1>8, Written
    <3>4. VideoBehind(<<o, 1>>)'
      BY <3>2, <3>3
    <3> QED
      BY <3>1, <3>4
  <2> QED
    BY <2>1, <2>2
<1>11. run'[o].pc = "manifest" => /\ run'[o].seg + 1 \notin SegmentsOf[o]
                                  /\ VideoBehind(<<o, run[o].seg>>)'
                                  /\ run'[o].seg = run[o].seg
  <2>1. run'[o].pc = "manifest" =>
          run'[o].seg + 1 \notin SegmentsOf[o] /\ run'[o].seg = run[o].seg
    BY <1>2
  <2>2. run'[o].seg = s => VideoBehind(<<o, run[o].seg>>)'
    BY <1>6 DEF VideoBehind
  <2> QED
    BY <1>5, <2>1, <2>2
<1> QED
  BY <1>2, <1>3, <1>4, <1>7, <1>8, <1>9, <1>10, <1>11, WritesKeep

LEMMA WriteManifestKeeps == ASSUME IInv, NEW o \in Orders, WriteManifest(o) PROVE IInv'
<1>1. /\ run[o].pc = "manifest" /\ run[o].seg \in SegmentsOf[o]
      /\ run[o].seg + 1 \notin SegmentsOf[o] /\ VideoBehind(<<o, run[o].seg>>)
      /\ (run[o].seg = 2 => VideoBehind(<<o, 1>>)) /\ SegmentsOf[o] \in {{1}, {1, 2}}
      /\ OrderSound(o)
  BY Basics DEF OrderSound, Backed, WriteManifest, At
<1>2. /\ run' \in [Orders -> Run] /\ run'[o].pc = "idle" /\ run'[o].seg = 1
      /\ \A p \in Orders \ {o} : run'[p] = run[p]
  BY EndsAt DEF IInv, TypeOK, Idle, Ends, WriteManifest
<1>3. \A p \in Orders \ {o} : manifest'[p] = manifest[p]
  BY DEF WriteManifest, IInv, TypeOK
<1>4. TypeOK'
  BY <1>2 DEF IInv, TypeOK, WriteManifest, environment
<1>5. Turns' /\ Entries'
  BY <1>1, <1>2, SharedKeeps DEF WriteManifest, environment
<1>6. \A p \in Orders \ {o} : Steady(p)
  BY <1>2, <1>3 DEF Steady, Same, WriteManifest, environment
<1>7. Counting(o)'
  BY <1>1 DEF OrderSound, Counting, WriteManifest
<1>8. Standing(o)'
  BY <1>2 DEF Standing
<1>9. Listed(o)'
  <2>1. \A w, a : InLedger(w, a)' <=> InLedger(w, a)
    BY DEF InLedger, WriteManifest
  <2> QED
    BY <1>1, <1>2, <2>1 DEF OrderSound, Listed, WriteManifest
<1>10. Stopping(o)'
  BY <1>1, <1>2 DEF OrderSound, Stopping, WriteManifest, environment
<1>11. Backed(o)'
  <2>1. \A s \in SegmentsOf[o] : VideoBehind(<<o, s>>)
    BY <1>1
  <2>2. \A s \in 1 .. 2 : VideoBehind(<<o, s>>)' <=> VideoBehind(<<o, s>>)
    BY DEF VideoBehind, WriteManifest
  <2>3. \A s \in SegmentsOf[o] : VideoBehind(<<o, s>>)'
    BY <1>1, <2>1, <2>2
  <2>4. sent[<<o, 2>>] > 0 => VideoBehind(<<o, 1>>)'
    BY <1>1, <2>2 DEF OrderSound, Backed
  <2> QED
    BY <1>2, <2>3, <2>4 DEF Backed, WriteManifest
<1> QED
  BY <1>4, <1>5, <1>6, <1>7, <1>8, <1>9, <1>10, <1>11, SteadyKeeps DEF IInv, OrderSound

LEMMA ThrowsKeeps == ASSUME IInv, NEW o \in Orders, Throws(o) PROVE IInv'
  BY EndsKeeps DEF Throws

-----------------------------------------------------------------------------
(* Steps around the runs. *)

LEMMA StopKeeps == ASSUME IInv, NEW o \in Orders, Stop(o) PROVE IInv'
<1>1. TypeOK'
  BY DEF Stop, IInv, TypeOK
<1>2. Turns' /\ Entries'
  BY DEF Stop, IInv, Turns, Entries, EveryWindow
<1>3. \A p \in Orders : Steady(p)
  BY DEF Stop, Steady, Same
<1> QED
  BY <1>1, <1>2, <1>3, SteadyKeeps DEF IInv

LEMMA CrashKeeps == ASSUME IInv, Crash PROVE IInv'
<1>1. run' \in [Orders -> Run] /\ \A p \in Orders : run'[p] = Idle /\ Idle.pc = "idle"
  BY IdleTyped DEF Crash, Idle
<1>2. TypeOK'
  BY <1>1 DEF Crash, IInv, TypeOK
<1>3. Turns'
  BY <1>1, VeoAssumption DEF Crash, Turns
<1>4. Entries'
  BY DEF Crash, IInv, Entries, EveryWindow
<1>5. ASSUME NEW p \in Orders PROVE OrderSound(p)'
  <2>1. Same(p, 1) /\ Same(p, 2)
    BY DEF Crash, Same
  <2> QED
    BY <1>1, <2>1, EndsSound DEF Crash
<1> QED
  BY <1>2, <1>3, <1>4, <1>5 DEF IInv

LEMMA TickKeeps == ASSUME IInv, Tick PROVE IInv'
<1>1. TypeOK'
  BY DEF Tick, IInv, TypeOK
<1>2. Turns' /\ \A p \in Orders : Steady(p)
  BY DEF Tick, IInv, Turns, Steady, Same
<1>3. Entries'
  <2>1. now \in Nat /\ now' = now + 1 /\ ledger' = ledger /\ \A e \in ledger : e.at \in Nat
    BY DEF Tick, IInv, TypeOK, Entry
  <2> QED
    BY <2>1 DEF IInv, Entries, EveryWindow
<1> QED
  BY <1>1, <1>2, <1>3, SteadyKeeps DEF IInv

LEMMA StutterKeeps == ASSUME IInv, UNCHANGED vars PROVE IInv'
<1>1. TypeOK' /\ Turns' /\ Entries'
  BY DEF vars, IInv, TypeOK, Turns, Entries, EveryWindow
<1>2. \A p \in Orders : Steady(p)
  BY DEF vars, Steady, Same
<1> QED
  BY <1>1, <1>2, SteadyKeeps DEF IInv

-----------------------------------------------------------------------------
(* The theorems. *)

LEMMA InitIInv == Init => IInv
<1> SUFFICES ASSUME Init PROVE IInv
  OBVIOUS
<1>1. TypeOK
  BY IdleTyped DEF Init, TypeOK, NoReceipt, Receipt, Unidentified, Identified
<1>2. \A o \in Orders : run[o].pc = "idle" /\ run[o].seg = 1 /\ o # "none"
  BY VeoAssumption DEF Init, Idle
<1>3. Turns
  BY <1>2 DEF Init, Turns
<1>4. Entries
  BY FS_EmptySet DEF Init, Entries, EveryWindow
<1>5. ASSUME NEW o \in Orders PROVE OrderSound(o)
  <2>1. \A s \in 1 .. 2 : <<o, s>> \in Work
    BY DEF Work
  <2>2. \A s \in 1 .. 2 :
          sent[<<o, s>>] = 0 /\ receipt[<<o, s>>] = NoReceipt /\ file[<<o, s>>] = 0
    BY <2>1 DEF Init
  <2>3. \A a \in 1 .. 0 : FALSE
    OBVIOUS
  <2> QED
    BY <1>2, <2>2, <2>3 DEF Init, OrderSound, Counting, Standing, Listed, Stopping, Backed,
      NoReceipt
<1> QED
  BY <1>1, <1>3, <1>4, <1>5 DEF IInv

LEMMA StepIInv == IInv /\ [Next]_vars => IInv'
<1> SUFFICES ASSUME IInv, [Next]_vars PROVE IInv'
  OBVIOUS
<1>1. ASSUME NEW o \in Orders, RunStep(o) PROVE IInv'
  BY <1>1, PassGateKeeps, EnterSegmentKeeps, TakeTurnKeeps, ReserveKeeps,
    WriteSubmittingKeeps, SpendGateKeeps, SendKeeps, AnsweredKeeps, PollKeeps, SucceedKeeps,
    WriteManifestKeeps, ThrowsKeeps DEF RunStep
<1>2. ASSUME NEW o \in Orders, Begin(o) \/ Stop(o) PROVE IInv'
  BY <1>2, BeginKeeps, StopKeeps
<1>3. CASE Crash \/ Tick \/ UNCHANGED vars
  BY <1>3, CrashKeeps, TickKeeps, StutterKeeps
<1> QED
  BY <1>1, <1>2, <1>3 DEF Next

LEMMA AlwaysIInv == Spec => []IInv
  BY InitIInv, StepIInv, PTL DEF Spec

LEMMA IInvBounds == IInv => SpendingBounded /\ ManifestBacked
<1> SUFFICES ASSUME IInv PROVE SpendingBounded /\ ManifestBacked
  OBVIOUS
<1>1. \A w \in Work : \E o \in Orders, s \in 1 .. 2 : w = <<o, s>>
  BY DEF Work
<1>2. SubmissionsCounted
  BY <1>1 DEF IInv, OrderSound, Counting, SubmissionsCounted
<1>3. EntryPerAttempt
  <2>1. ASSUME NEW o \in Orders, NEW s \in 1 .. 2, NEW a \in 1 .. receipt[<<o, s>>].tries
        PROVE  InLedger(<<o, s>>, a)
    BY DEF IInv, OrderSound, Listed
  <2>2. \A w \in Work : \A a \in 1 .. receipt[w].tries : InLedger(w, a)
    BY <1>1, <2>1
  <2> QED
    BY <2>2 DEF InLedger, EntryPerAttempt
<1>4. StopEndsBuying
  BY DEF IInv, OrderSound, Stopping, StopEndsBuying
<1>5. ManifestBacked
  BY DEF IInv, OrderSound, Backed, ManifestBacked
<1> QED
  BY <1>2, <1>3, <1>4, <1>5 DEF SpendingBounded, LedgerHolds, IInv, Entries

\* However many orders run at once, crash and are stopped: a segment is submitted at
\* most twice and only as its receipt admits, every submission has its entry in the
\* hourly ledger and no window holds more than the cap, and a stop lets through one
\* request at most (SpendingBounded).
THEOREM SpendingStaysBounded == Spec => []SpendingBounded
  BY AlwaysIInv, IInvBounds, PTL

\* A manifest is only ever written over videos that are on disk and came from the
\* operations the receipts name, and a second segment follows a first (ManifestBacked).
THEOREM ManifestsStandForVideos == Spec => []ManifestBacked
  BY AlwaysIInv, IInvBounds, PTL

LEMMA KnownKept ==
    ASSUME IInv, NEW o \in Orders, RunStep(o), NEW w \in Work, receipt[w].st \in Identified
    PROVE  sent'[w] = sent[w] /\ receipt'[w].st \in Identified /\ receipt'[w].op = receipt[w].op
<1>1. PICK own \in Work : own = Segment(o)
  BY Basics
<1>2. Standing(o) /\ receipt[own] \in Receipt /\ receipt \in [Work -> Receipt]
      /\ sent \in [Work -> Nat]
  BY <1>1, Basics DEF OrderSound, IInv, TypeOK
<1>3. CASE UNCHANGED <<receipt, sent>>
  BY <1>3
<1>4. CASE Send(o)
  <2>1. receipt[own].st = "submitting"
    BY <1>1, <1>2, <1>4 DEF Standing, Send, At
  <2>2. w # own
    BY <2>1 DEF Identified
  <2>3. sent'[w] = sent[w] /\ receipt' = receipt
    BY <1>1, <1>2, <1>4, <2>2 DEF Send
  <2> QED
    BY <2>3
<1>5. CASE WriteSubmitting(o) \/ SpendGate(o) \/ Answered(o) \/ Poll(o) \/ Succeed(o)
  <2>1. sent' = sent /\ \A v \in Work : v # own => receipt'[v] = receipt[v]
    BY <1>1, <1>2, <1>5 DEF WriteSubmitting, SpendGate, Answered, Poll, Succeed, Uncertain,
      Writes
  <2>2. CASE WriteSubmitting(o) \/ SpendGate(o) \/ Answered(o)
    <3>1. receipt[own].st \notin Identified
      BY <1>1, <1>2, <2>2 DEF Standing, WriteSubmitting, SpendGate, Answered, At, Unidentified,
        Identified
    <3> QED
      BY <2>1, <3>1
  <2>3. CASE Poll(o) \/ Succeed(o)
    <3>1. \/ receipt'[own] = receipt[own]
          \/ receipt'[own] = [receipt[own] EXCEPT !.st = "failed"]
          \/ receipt'[own] = [receipt[own] EXCEPT !.st = "succeeded"]
      BY <1>1, <1>2, <2>3 DEF Poll, Succeed, Writes
    <3>2. /\ receipt[own].st \in Identified => receipt'[own].st \in Identified
          /\ receipt'[own].op = receipt[own].op
      BY <1>2, <3>1 DEF Receipt, Identified
    <3> QED
      BY <2>1, <3>2
  <2> QED
    BY <1>5, <2>2, <2>3
<1> QED
  BY <1>3, <1>4, <1>5 DEF RunStep, PassGate, EnterSegment, TakeTurn, Reserve, WriteManifest,
    Throws

\* No step, crash or race of the queue buys an operation again that is known, or
\* forgets its name (OperationKept).
THEOREM OperationsStayKnown == Spec => OperationKept
<1> DEFINE Kept == \A w \in Work : receipt[w].st \in Identified =>
      sent'[w] = sent[w] /\ receipt'[w].st \in Identified /\ receipt'[w].op = receipt[w].op
<1>1. IInv /\ [Next]_vars => Kept
  <2>1. (\E o \in Orders : RunStep(o)) /\ IInv => Kept
    BY KnownKept
  <2>2. (\E o \in Orders : Begin(o) \/ Stop(o)) \/ Crash \/ Tick \/ UNCHANGED vars => Kept
    BY DEF Begin, Stop, Crash, Tick, vars
  <2> QED
    BY <2>1, <2>2 DEF Next
<1> QED
  <2>1. IInv /\ [Next]_vars => [Kept]_vars
    BY <1>1
  <2> QED
    BY <2>1, AlwaysIInv, PTL DEF Spec, OperationKept
=============================================================================
