--------------------------- MODULE JsonStore_proofs ---------------------------
(***************************************************************************)
(* Proofs about JsonStore, for any processes, transactions and number of   *)
(* power failures, when no process is started while another still starts   *)
(* or leaves: one owner, no reported transaction lost, and every step is   *)
(* one of the atomic store.                                                *)
(***************************************************************************)
EXTENDS JsonStore, SequenceTheorems, FiniteSetTheorems, TLAPS

Works(p) == proc[p].pc \in Working
Busy(p) == proc[p].pc \in Acquiring \/ proc[p].released
Owns(p) == lock.owner = p /\ lock.written

\* Who works holds the lock or is about to leave, and who takes the lock away from
\* somebody takes it from the dead.
Locked(p) ==
    /\ Busy(p) => \A q \in Procs \ {p} : ~Busy(q)
    /\ proc[p].released => Works(p) /\ \A q \in Procs \ {p} : ~Works(q)
    /\ Works(p) /\ ~proc[p].released => Owns(p)
    /\ proc[p].pc = "unlink" => ~OwnerLives
    /\ proc[p].pc = "write" => lock.owner = p

\* The transactions a process has been asked for; only one that is ready has any.
Waits(p) ==
    /\ proc[p].ready => Works(p) /\ proc[p].pc # "load"
    /\ proc[p].pc = "idle" => proc[p].ready
    /\ ~proc[p].ready => /\ proc[p].queue = <<>> /\ proc[p].mem = {} /\ proc[p].draft = {}
                         /\ ~proc[p].released
    /\ proc[p].pc \in Persisting /\ proc[p].ready =>
         proc[p].queue # <<>> /\ proc[p].draft = DraftOf(p)
    /\ proc[p].mem \subseteq asked /\ proc[p].draft \subseteq asked
    /\ \A i \in DOMAIN proc[p].queue : proc[p].queue[i] \in asked
    /\ \A i, j \in DOMAIN proc[p].queue : proc[p].queue[i] = proc[p].queue[j] => i = j

\* What the file holds against what the process has in memory.
Persists(p) ==
    /\ proc[p].ready =>
         sure \subseteq proc[p].mem /\ proc[p].mem \subseteq disk /\ disk \in Content
    /\ proc[p].pc \in Persisting /\ ~proc[p].ready => sure = {} /\ disk \in {Absent, {}}
    /\ proc[p].pc \in {"renamed", "synced"} => disk = proc[p].draft
    /\ proc[p].pc = "synced" => maybe = {disk}

Durable == \A d \in maybe \cup {disk} : sure \subseteq d /\ d \subseteq asked \cup Absent

Sound(p) == Locked(p) /\ Waits(p) /\ Persists(p)
Unowned == lock.owner = "none" => ~lock.written
IInv == ~Overlap /\ TypeOK /\ Unowned /\ Durable /\ \A p \in Procs : Sound(p)

-----------------------------------------------------------------------------
LEMMA Places ==
    /\ Working \cap Acquiring = {} /\ Persisting \subseteq Working
    /\ {"new", "dead"} \cap (Working \cup Acquiring) = {}
  BY DEF Working, Acquiring, Persisting

LEMMA Parts ==
    ASSUME IInv, NEW p \in Procs
    PROVE  Locked(p) /\ Waits(p) /\ Persists(p) /\ proc[p] \in Process /\ p # "none"
  BY StoreAssumption DEF IInv, TypeOK, Sound

\* Two never work at the file.
LEMMA OnlyWorker ==
    ASSUME IInv, NEW p \in Procs, NEW q \in Procs \ {p}, Works(p) PROVE ~Works(q)
<1>1. Locked(p) /\ Locked(q)
  BY Parts
<1>2. CASE proc[p].released \/ proc[q].released
  BY <1>1, <1>2 DEF Locked
<1>3. CASE ~proc[p].released /\ ~proc[q].released
  BY <1>1, <1>3 DEF Locked, Owns
<1> QED
  BY <1>2, <1>3

\* A process that does not work keeps nothing of the file.
LEMMA RestingKeeps ==
    ASSUME IInv, NEW q \in Procs, ~Works(q), proc'[q] = proc[q], asked \subseteq asked'
    PROVE  Waits(q)' /\ Persists(q)'
<1>1. Waits(q) /\ ~proc[q].ready /\ proc[q].pc \notin Persisting \cup {"idle"} /\ proc[q].queue = <<>>
  BY Parts, Places DEF Waits, Works, Working
<1>2. Waits(q)'
  BY <1>1 DEF Waits
<1>3. Persists(q)'
  BY <1>1 DEF Persists, Persisting
<1> QED
  BY <1>2, <1>3

\* The processes a step of p leaves alone, when it does not touch the file.
LEMMA OthersWait ==
    ASSUME IInv, NEW q \in Procs, proc'[q] = proc[q], UNCHANGED <<disk, maybe, sure>>, asked \subseteq asked'
    PROVE  Waits(q)' /\ Persists(q)'
<1>1. Waits(q) /\ Persists(q)
  BY Parts
<1>2. Waits(q)'
  BY <1>1 DEF Waits, Works, DraftOf
<1>3. Persists(q)'
  BY <1>1 DEF Persists
<1> QED
  BY <1>2, <1>3

\* The locks, when p neither takes nor leaves one.
LEMMA LocksKeep ==
    ASSUME IInv, NEW p \in Procs, UNCHANGED lock, \A q \in Procs \ {p} : proc'[q] = proc[q],
           Works(p), Works(p)', proc'[p].released = proc[p].released
    PROVE  \A q \in Procs : Locked(q)'
<1>1. \A q \in Procs : Busy(q)' <=> Busy(q)
  BY Places DEF Busy, Works
<1>2. \A q \in Procs : (Works(q)' <=> Works(q)) /\ (proc'[q].released <=> proc[q].released)
  BY DEF Works
<1>3. \A q \in Procs : Alive(q)' <=> Alive(q)
  BY Places DEF Alive, Works
<1>4. ASSUME NEW q \in Procs PROVE Locked(q)'
  <2>1. Locked(q)
    BY Parts
  <2>2. OwnerLives' => OwnerLives
    BY <1>3 DEF OwnerLives, IInv, TypeOK, Unowned
  <2>3. proc'[q].pc \in {"unlink", "write"} => proc[q].pc = proc'[q].pc
    BY Places DEF Works, Acquiring
  <2> QED
    BY <1>1, <1>2, <2>1, <2>2, <2>3 DEF Locked, Owns
<1> QED
  BY <1>4

\* What remains to show when nothing but one process and the lock changes.
LEMMA ProcessKeeps ==
    ASSUME IInv, NEW p \in Procs, NEW r \in Process, proc' = [proc EXCEPT ![p] = r],
           lock' \in [owner : Procs \cup {"none"}, written : BOOLEAN], Unowned',
           UNCHANGED <<disk, maybe, sure, losses>>, asked \subseteq asked', asked' \subseteq Txns,
           \A q \in Procs : Locked(q)', Waits(p)', Persists(p)'
    PROVE  IInv'
<1>1. /\ proc'[p] = r /\ \A q \in Procs \ {p} : proc'[q] = proc[q]
      /\ proc' \in [Procs -> Process]
  BY DEF IInv, TypeOK
<1>2. TypeOK'
  BY <1>1 DEF IInv, TypeOK
<1>3. Durable'
  BY DEF IInv, Durable
<1>4. ASSUME NEW q \in Procs \ {p} PROVE Waits(q)' /\ Persists(q)'
  BY <1>1, OthersWait
<1>5. \A q \in Procs : Sound(q)'
  BY <1>4 DEF Sound
<1> QED
  BY <1>2, <1>3, <1>5 DEF IInv

-----------------------------------------------------------------------------
(* Taking the lock.  No other process starts or leaves meanwhile. *)

\* A process on its way to the lock, or out of it, has nothing of the file.
LEMMA AcquiringKeeps ==
    ASSUME IInv, NEW p \in Procs, NEW r \in Process, proc' = [proc EXCEPT ![p] = r],
           ~proc[p].ready, ~r.ready, r.pc \notin {"idle"} \cup Persisting,
           r.queue = <<>>, r.mem = {}, r.draft = {}, ~r.released,
           lock' \in [owner : Procs \cup {"none"}, written : BOOLEAN], Unowned',
           UNCHANGED <<file, history>>,
           \A q \in Procs : Locked(q)'
    PROVE  IInv'
<1>1. proc'[p] = r
  BY DEF IInv, TypeOK
<1>2. Waits(p)'
  BY <1>1 DEF Waits
<1>3. Persists(p)'
  BY <1>1 DEF Persists, Persisting
<1>4. asked' \subseteq Txns
  BY DEF IInv, TypeOK, history
<1> QED
  BY <1>2, <1>3, <1>4, ProcessKeeps DEF file, history

\* A step of p on its way to the lock: what becomes of the others.
LEMMA OthersLocked ==
    ASSUME IInv, NEW p \in Procs, NEW q \in Procs \ {p}, proc'[q] = proc[q], ~Busy(q),
           ~Works(p) \/ ~Works(q),
           Works(q) => lock' = lock
    PROVE  Locked(q)'
<1>1. Locked(q) /\ ~proc[q].released /\ proc[q].pc \notin Acquiring
  BY Parts DEF Busy
<1> QED
  BY <1>1 DEF Locked, Busy, Works, Owns, Acquiring

LEMMA StartKeeps == ASSUME IInv, NEW p \in Procs, Start(p) PROVE IInv'
<1>1. /\ proc[p].pc = "new" /\ ~proc[p].ready /\ Waits(p) /\ proc[p] \in Process
      /\ UNCHANGED <<lock, file, history>>
  BY Parts, Places DEF Start, At, Waits, Works, Working
<1> DEFINE r == [proc[p] EXCEPT !.pc = "lock"]
<1>2. /\ r \in Process /\ r.pc = "lock" /\ r.queue = proc[p].queue /\ r.mem = proc[p].mem
      /\ r.draft = proc[p].draft /\ r.ready = proc[p].ready /\ r.released = proc[p].released
  BY <1>1 DEF Process, Acquiring
<1>3. proc' = [proc EXCEPT ![p] = r]
  BY DEF Start, Goes
<1> HIDE DEF r
<1>4. /\ proc'[p] = r /\ \A q \in Procs \ {p} : proc'[q] = proc[q]
  BY <1>3 DEF IInv, TypeOK
<1>5. \A q \in Procs \ {p} : ~Busy(q)
  BY DEF Start, Apart, IInv, Busy
<1>6. ASSUME NEW q \in Procs \ {p} PROVE Locked(q)'
  BY <1>1, <1>4, <1>5, Places, OthersLocked DEF Works
<1>7. ~r.released
  BY <1>1, <1>2 DEF Waits
<1>8. Locked(p)'
  BY <1>2, <1>4, <1>5, <1>7, Places DEF Locked, Busy, Works, Working, Persisting
<1>9. \A q \in Procs : Locked(q)'
  BY <1>6, <1>8
<1> QED
  BY <1>1, <1>2, <1>3, <1>7, <1>9, AcquiringKeeps DEF Waits, IInv, TypeOK, Unowned, Persisting

\* The step of a process that is on its way to the lock.
LEMMA OnTheWay ==
    ASSUME IInv, NEW p \in Procs, proc[p].pc \in Acquiring
    PROVE  /\ ~proc[p].ready /\ proc[p].queue = <<>> /\ proc[p].mem = {} /\ proc[p].draft = {}
           /\ ~proc[p].released /\ proc[p] \in Process /\ ~Works(p) /\ Locked(p)
           /\ \A q \in Procs \ {p} : ~Busy(q)
<1>1. Waits(p) /\ Locked(p) /\ proc[p] \in Process
  BY Parts
<1>2. ~Works(p) /\ Busy(p)
  BY Places DEF Works, Busy
<1> QED
  BY <1>1, <1>2 DEF Waits, Locked

Steps(p, pc, att) == proc' = [proc EXCEPT ![p] = [proc[p] EXCEPT !.pc = pc, !.att = att]]

LEMMA WayKeeps ==
    ASSUME IInv, NEW p \in Procs, proc[p].pc \in Acquiring,
           NEW pc \in Acquiring \cup {"load"}, NEW att \in 0 .. 1,
           Steps(p, pc, att),
           lock' \in [owner : Procs \cup {"none"}, written : BOOLEAN], Unowned',
           lock' = lock \/ \A q \in Procs : ~Works(q),
           pc = "load" => Owns(p)', pc = "unlink" => ~OwnerLives', pc = "write" => lock'.owner = p,
           UNCHANGED <<file, history>>
    PROVE  IInv'
<1> DEFINE r == [proc[p] EXCEPT !.pc = pc, !.att = att]
<1>1. /\ r \in Process /\ r.pc = pc /\ r.queue = <<>> /\ r.mem = {} /\ r.draft = {}
      /\ ~r.ready /\ ~r.released
  BY OnTheWay DEF Process, Working
<1>2. proc' = [proc EXCEPT ![p] = r]
  BY DEF Steps
<1> HIDE DEF r
<1>3. /\ proc'[p] = r /\ \A q \in Procs \ {p} : proc'[q] = proc[q]
  BY <1>2 DEF IInv, TypeOK
<1>4. \A q \in Procs \ {p} : ~Busy(q)
  BY OnTheWay
<1>5. ASSUME NEW q \in Procs \ {p} PROVE Locked(q)'
  BY <1>3, <1>4, OnTheWay, OthersLocked
<1>6. Locked(p)'
  BY <1>1, <1>3, <1>4, Places DEF Locked, Busy, Works, Working, Persisting
<1>7. \A q \in Procs : Locked(q)'
  BY <1>5, <1>6
<1>8. r.pc \notin {"idle"} \cup Persisting
  BY <1>1 DEF Acquiring, Persisting
<1> QED
  BY <1>1, <1>2, <1>7, <1>8, OnTheWay, AcquiringKeeps

LEMMA DeadTyped ==
    /\ Dead \in Process /\ Dead.pc = "dead" /\ ~Dead.ready /\ ~Dead.released /\ Dead.queue = <<>>
    /\ Dead.mem = {} /\ Dead.draft = {} /\ Fresh \in Process
<1>1. <<>> \in Seq(Txns) /\ {} \in Content
  BY EmptySeq DEF Content
<1>2. Fresh \in Process
  BY <1>1 DEF Fresh, Process
<1> QED
  BY <1>1, <1>2 DEF Dead, Fresh, Process

\* A process that is gone; the lock is what it was.
LEMMA GoneKeeps ==
    ASSUME IInv, NEW p \in Procs, proc[p].pc \in Acquiring \/ Works(p), Dies(p),
           lock' \in [owner : Procs \cup {"none"}, written : BOOLEAN], Unowned',
           lock' = lock \/ \A q \in Procs : ~Works(q) /\ (Busy(q) => q = p),
           UNCHANGED <<file, history>>
    PROVE  IInv'
<1>1. /\ Dead \in Process /\ Dead.pc = "dead" /\ ~Dead.ready /\ ~Dead.released /\ Dead.queue = <<>>
      /\ Dead.mem = {} /\ Dead.draft = {}
  BY DeadTyped
<1>2. proc' = [proc EXCEPT ![p] = Dead]
  BY DEF Dies
<1>3. /\ proc'[p] = Dead /\ \A q \in Procs \ {p} : proc'[q] = proc[q]
  BY <1>2 DEF IInv, TypeOK
<1>4. ASSUME NEW q \in Procs \ {p} PROVE Locked(q)'
  <2>1. Locked(q)
    BY Parts
  <2>2. ~Busy(p)' /\ ~Works(p)'
    BY <1>1, <1>3, Places DEF Busy, Works
  <2>3. \A v \in Procs \ {p} : (Busy(v)' <=> Busy(v)) /\ (Works(v)' <=> Works(v))
    BY <1>3 DEF Busy, Works
  <2>4. CASE lock' = lock
    <3>1. OwnerLives' => OwnerLives
      BY <1>1, <1>3, <2>4, Places DEF OwnerLives, Alive, IInv, TypeOK, Unowned
    <3> QED
      BY <1>3, <2>1, <2>2, <2>3, <2>4, <3>1 DEF Locked, Owns
  <2>5. CASE ~Works(q) /\ ~Busy(q)
    BY <1>3, <2>1, <2>2, <2>3, <2>5 DEF Locked, Busy, Acquiring
  <2> QED
    BY <2>4, <2>5
<1>5. Locked(p)'
  BY <1>1, <1>3, Places DEF Locked, Busy, Works
<1>6. \A q \in Procs : Locked(q)'
  BY <1>4, <1>5
<1>7. Waits(p)' /\ Persists(p)'
  BY <1>1, <1>3 DEF Waits, Persists, Persisting
<1>8. asked' \subseteq Txns
  BY DEF IInv, TypeOK, history
<1> QED
  BY <1>1, <1>2, <1>6, <1>7, <1>8, ProcessKeeps DEF file, history

\* Nobody works while one is on its way and the owner of the lock is dead.
LEMMA NobodyWorks ==
    ASSUME IInv, NEW p \in Procs, proc[p].pc \in Acquiring, ~OwnerLives \/ lock.owner = p
    PROVE  \A q \in Procs : ~Works(q) /\ (Busy(q) => q = p)
<1>1. ~Works(p) /\ \A q \in Procs \ {p} : ~Busy(q)
  BY OnTheWay
<1>2. ASSUME NEW q \in Procs \ {p}, Works(q) PROVE FALSE
  <2>1. ~proc[q].released
    BY <1>1 DEF Busy
  <2>2. Owns(q) /\ Alive(q)
    BY <1>2, <2>1, Parts, Places DEF Locked, Works, Alive
  <2> QED
    BY <2>2 DEF Owns, OwnerLives
<1> QED
  BY <1>1, <1>2

LEMMA TakeLockKeeps == ASSUME IInv, NEW p \in Procs, TakeLock(p) PROVE IInv'
<1>1. /\ proc[p].pc \in Acquiring /\ UNCHANGED <<file, history>> /\ proc[p] \in Process
      /\ proc \in [Procs -> Process] /\ p # "none"
      /\ lock \in [owner : Procs \cup {"none"}, written : BOOLEAN] /\ Unowned
  BY Parts DEF TakeLock, At, Acquiring, IInv, TypeOK
<1>2. proc[p].att \in 0 .. 1
  BY <1>1 DEF Process
<1>3. ASSUME NEW pc \in Acquiring, Goes(p, pc)
      PROVE  Steps(p, pc, proc[p].att)
  BY <1>1, <1>3 DEF Goes, Process, Steps
<1>4. CASE lock = NoLock /\ lock' = [owner |-> p, written |-> FALSE] /\ Goes(p, "write")
  <2>1. \A q \in Procs : ~Works(q)
    BY <1>1, <1>4, NobodyWorks DEF NoLock, OwnerLives
  <2>2. /\ lock' \in [owner : Procs \cup {"none"}, written : BOOLEAN] /\ Unowned'
        /\ lock'.owner = p
    BY <1>1, <1>4 DEF Unowned
  <2>3. Steps(p, "write", proc[p].att)
    BY <1>3, <1>4 DEF Acquiring
  <2> QED
    BY <1>1, <1>2, <2>1, <2>2, <2>3, WayKeeps DEF Acquiring
<1>5. CASE Goes(p, "held") /\ UNCHANGED lock
  <2>1. Steps(p, "held", proc[p].att)
    BY <1>3, <1>5 DEF Acquiring
  <2> QED
    BY <1>1, <1>2, <1>5, <2>1, WayKeeps DEF Acquiring, Unowned
<1> QED
  BY <1>4, <1>5 DEF TakeLock

LEMMA ReadOwnerKeeps == ASSUME IInv, NEW p \in Procs, ReadOwner(p) PROVE IInv'
<1>1. /\ proc[p].pc = "held" /\ UNCHANGED <<lock, file, history>> /\ proc[p] \in Process
      /\ proc \in [Procs -> Process]
      /\ lock \in [owner : Procs \cup {"none"}, written : BOOLEAN] /\ Unowned
  BY Parts DEF ReadOwner, At, IInv, TypeOK
<1>2. CASE Dies(p)
  BY <1>1, <1>2, GoneKeeps DEF Acquiring, Unowned
<1>3. CASE ~OwnerLives /\ Goes(p, "unlink")
  <2>1. proc[p].att \in 0 .. 1
    BY <1>1 DEF Process
  <2>2. Steps(p, "unlink", proc[p].att)
    BY <1>1, <1>3 DEF Goes, Process, Steps
  <2>3. /\ proc'[p].pc = "unlink" /\ \A q \in Procs \ {p} : proc'[q] = proc[q]
    BY <1>1, <2>2 DEF Process, Steps
  <2>4. ~OwnerLives'
    BY <1>1, <1>3, <2>3 DEF OwnerLives, Alive, Unowned
  <2> QED
    BY <1>1, <2>1, <2>2, <2>4, WayKeeps DEF Acquiring, Unowned
<1> QED
  BY <1>2, <1>3 DEF ReadOwner

LEMMA UnlinkKeeps == ASSUME IInv, NEW p \in Procs, Unlink(p) PROVE IInv'
<1>1. /\ proc[p].pc = "unlink" /\ UNCHANGED <<file, history>> /\ proc[p] \in Process
      /\ proc \in [Procs -> Process] /\ lock' = NoLock
      /\ ~OwnerLives
  BY Parts DEF Unlink, At, IInv, TypeOK, Locked
<1>2. /\ NoLock \in [owner : Procs \cup {"none"}, written : BOOLEAN] /\ Unowned'
  BY <1>1 DEF NoLock, Unowned
<1>3. \A q \in Procs : ~Works(q) /\ (Busy(q) => q = p)
  BY <1>1, NobodyWorks DEF Acquiring
<1>4. CASE Dies(p)
  BY <1>1, <1>2, <1>3, <1>4, GoneKeeps DEF Acquiring
<1>5. CASE proc' = [proc EXCEPT ![p].pc = "lock", ![p].att = 1]
  <2>1. Steps(p, "lock", 1)
    BY <1>1, <1>5 DEF Process, Steps
  <2> QED
    BY <1>1, <1>2, <1>3, <2>1, WayKeeps DEF Acquiring
<1> QED
  BY <1>4, <1>5 DEF Unlink

LEMMA WriteLockKeeps == ASSUME IInv, NEW p \in Procs, WriteLock(p) PROVE IInv'
<1>1. /\ proc[p].pc = "write" /\ UNCHANGED <<file, history>> /\ proc[p] \in Process
      /\ proc \in [Procs -> Process] /\ lock.owner = p /\ p # "none"
      /\ lock \in [owner : Procs \cup {"none"}, written : BOOLEAN]
  BY Parts DEF WriteLock, At, IInv, TypeOK, Locked
<1>2. lock' = [lock EXCEPT !.written = TRUE] /\ Goes(p, "load")
  BY <1>1 DEF WriteLock
<1>3. /\ lock' \in [owner : Procs \cup {"none"}, written : BOOLEAN] /\ Unowned' /\ Owns(p)'
  BY <1>1, <1>2 DEF Unowned, Owns
<1>4. \A q \in Procs : ~Works(q)
  BY <1>1, NobodyWorks DEF Acquiring
<1>5. proc[p].att \in 0 .. 1
  BY <1>1 DEF Process
<1>6. Steps(p, "load", proc[p].att)
  BY <1>1, <1>2 DEF Goes, Process, Steps
<1> QED
  BY <1>1, <1>3, <1>4, <1>5, <1>6, WayKeeps DEF Acquiring

-----------------------------------------------------------------------------
(* Working at the file. *)

\* What remains to show when the one at work goes on with it.
LEMMA FileKeeps ==
    ASSUME IInv, NEW p \in Procs, NEW r \in Process, proc' = [proc EXCEPT ![p] = r],
           Works(p), r.pc \in Working, r.released = proc[p].released, UNCHANGED <<lock, losses>>,
           disk' \in Content \cup {Absent}, maybe' \subseteq Content \cup {Absent},
           asked \subseteq asked', asked' \subseteq Txns, sure' \subseteq Txns,
           Durable', Waits(p)', Persists(p)'
    PROVE  IInv'
<1>1. /\ proc'[p] = r /\ \A q \in Procs \ {p} : proc'[q] = proc[q]
      /\ proc' \in [Procs -> Process]
  BY DEF IInv, TypeOK
<1>2. TypeOK'
  BY <1>1 DEF IInv, TypeOK
<1>3. Unowned'
  BY DEF IInv, Unowned
<1>4. \A q \in Procs : Locked(q)'
  <2>1. Works(p)'
    BY <1>1 DEF Works
  <2> QED
    BY <1>1, <2>1, LocksKeep
<1>5. ASSUME NEW q \in Procs \ {p} PROVE Waits(q)' /\ Persists(q)'
  BY <1>1, OnlyWorker, RestingKeeps
<1>6. \A q \in Procs : Sound(q)'
  BY <1>4, <1>5 DEF Sound
<1> QED
  BY <1>2, <1>3, <1>6 DEF IInv

\* A queue that grows at its end and shrinks at its head.
LEMMA Grows ==
    ASSUME NEW s \in Seq(Txns), NEW t \in Txns
    PROVE  /\ Append(s, t) \in Seq(Txns) /\ Append(s, t) # <<>>
           /\ DOMAIN Append(s, t) = DOMAIN s \cup {Len(s) + 1} /\ Len(s) + 1 \notin DOMAIN s
           /\ Append(s, t)[Len(s) + 1] = t
           /\ \A i \in DOMAIN s : Append(s, t)[i] = s[i]
           /\ s # <<>> => Head(Append(s, t)) = Head(s)
  BY AppendProperties, LenProperties, EmptySeq, HeadTailProperties

LEMMA Shrinks ==
    ASSUME NEW s \in Seq(Txns), s # <<>>
    PROVE  /\ Head(s) \in Txns /\ Head(s) = s[1] /\ 1 \in DOMAIN s /\ Tail(s) \in Seq(Txns)
           /\ \A i \in DOMAIN Tail(s) : Tail(s)[i] = s[i + 1] /\ i + 1 \in DOMAIN s /\ i + 1 # 1
           /\ \A i \in DOMAIN s : i = 1 \/ (i - 1 \in DOMAIN Tail(s) /\ Tail(s)[i - 1] = s[i])
           /\ \A i, j \in DOMAIN Tail(s) : i + 1 = j + 1 => i = j
<1>1. /\ Head(s) \in Txns /\ Tail(s) \in Seq(Txns) /\ Len(Tail(s)) = Len(s) - 1
      /\ \A i \in 1 .. Len(Tail(s)) : Tail(s)[i] = s[i + 1]
  BY HeadTailProperties
<1>2. Head(s) = s[1] /\ Len(s) \in Nat /\ Len(s) # 0
  BY EmptySeq
<1>3. DOMAIN s = 1 .. Len(s) /\ DOMAIN Tail(s) = 1 .. Len(Tail(s))
  BY <1>1, LenProperties
<1> QED
  BY <1>1, <1>2, <1>3

\* The answer of the transaction at the head, whatever the state in memory is then.
LEMMA AnswersKeep ==
    ASSUME IInv, NEW p \in Procs, NEW m \in Content, Answers(p, m), proc[p].queue # <<>>,
           UNCHANGED <<lock, file, asked, losses>>,
           sure' \subseteq m, m \subseteq disk, m \subseteq asked, Durable'
    PROVE  IInv'
<1> DEFINE r == [proc[p] EXCEPT !.pc = "idle", !.mem = m, !.draft = {}, !.queue = Tail(@)]
<1>1. Waits(p) /\ Persists(p) /\ proc[p] \in Process /\ proc[p].queue \in Seq(Txns) /\ proc[p].ready
  BY Parts DEF Answers, Process
<1>2. Tail(proc[p].queue) \in Seq(Txns) /\ {} \in Content
  BY <1>1, Shrinks DEF Content
<1>3. r \in Process
  BY <1>1, <1>2 DEF Process, Working
<1>4. /\ r.pc = "idle" /\ r.mem = m /\ r.queue = Tail(proc[p].queue)
      /\ r.ready /\ r.released = proc[p].released /\ r.draft = {}
  BY <1>1 DEF Process
<1>5. proc' = [proc EXCEPT ![p] = r]
  BY DEF Answers
<1> HIDE DEF r
<1>6. proc'[p] = r
  BY <1>5 DEF IInv, TypeOK
<1>7. \A i \in DOMAIN r.queue : r.queue[i] \in asked
  BY <1>1, <1>4, Shrinks DEF Waits
<1>8. \A i, j \in DOMAIN r.queue : r.queue[i] = r.queue[j] => i = j
  <2>1. SUFFICES ASSUME NEW i \in DOMAIN r.queue, NEW j \in DOMAIN r.queue, r.queue[i] = r.queue[j]
                 PROVE  i = j
    OBVIOUS
  <2>2. i + 1 = j + 1
    BY <1>1, <1>4, <2>1, Shrinks DEF Waits
  <2> QED
    BY <1>1, <1>4, <2>2, Shrinks
<1>9. Waits(p)'
  BY <1>4, <1>6, <1>7, <1>8 DEF Waits, Works, Working, Persisting
<1>10. Persists(p)'
  BY <1>1, <1>4, <1>6 DEF Persists, Persisting, file
<1>11. Works(p) /\ r.pc \in Working
  BY <1>1, <1>4 DEF Waits, Working
<1>12. /\ disk' \in Content \cup {Absent} /\ maybe' \subseteq Content \cup {Absent}
       /\ asked' \subseteq Txns /\ sure' \subseteq Txns
  BY DEF IInv, TypeOK, file, Content
<1> QED
  BY <1>3, <1>4, <1>5, <1>9, <1>10, <1>11, <1>12, FileKeeps

LEMMA ThrowsKeeps == ASSUME IInv, NEW p \in Procs, Throws(p) PROVE IInv'
<1>1. Persists(p) /\ proc[p].ready /\ proc[p].mem \in Content
  BY Parts DEF Throws, Answers, Process
<1>2. /\ sure' \subseteq proc[p].mem /\ proc[p].mem \subseteq disk /\ proc[p].mem \subseteq asked
      /\ Durable'
  BY <1>1, Parts DEF Throws, Persists, Waits, Durable, IInv, file, history
<1> QED
  BY <1>1, <1>2, AnswersKeep DEF Throws, history, file

LEMMA FailsKeeps == ASSUME IInv, NEW p \in Procs, Fails(p) PROVE IInv'
<1>1. Persists(p) /\ Waits(p) /\ proc[p].mem \in Content /\ proc[p].pc \in Persisting /\ Works(p)
  BY Parts, Places DEF Fails, Process, Works
<1>2. CASE Answers(p, proc[p].mem)
  <2>1. proc[p].queue # <<>>
    BY <1>1, <1>2 DEF Waits, Answers
  <2>2. /\ sure' \subseteq proc[p].mem /\ proc[p].mem \subseteq disk /\ proc[p].mem \subseteq asked
        /\ Durable'
    BY <1>1, <1>2 DEF Fails, Waits, Answers, Persists, Durable, IInv, file, history
  <2> QED
    BY <1>1, <1>2, <2>1, <2>2, AnswersKeep DEF Fails, history, file
<1>3. CASE Dies(p)
  BY <1>1, <1>3, GoneKeeps DEF Fails, IInv, TypeOK, Unowned
<1> QED
  BY <1>2, <1>3 DEF Fails

LEMMA LoadKeeps == ASSUME IInv, NEW p \in Procs, Load(p) PROVE IInv'
<1>1. /\ proc[p].pc = "load" /\ UNCHANGED <<lock, file, history>> /\ Waits(p) /\ Works(p)
      /\ proc[p] \in Process /\ proc[p].queue \in Seq(Txns) /\ disk \in Content \cup {Absent}
  BY Parts DEF Load, At, IInv, TypeOK, Process, Works, Working
<1>2. ~proc[p].ready /\ proc[p].queue = <<>> /\ proc[p].mem = {} /\ proc[p].draft = {} /\ ~proc[p].released
  BY <1>1 DEF Waits
<1>3. /\ Durable' /\ sure \subseteq disk /\ sure \subseteq Txns
      /\ disk \subseteq asked \cup Absent
  BY <1>1 DEF IInv, TypeOK, Durable, file, history
<1>4. /\ disk' \in Content \cup {Absent} /\ maybe' \subseteq Content \cup {Absent}
      /\ asked' \subseteq Txns /\ sure' \subseteq Txns
      /\ asked \subseteq asked' /\ UNCHANGED <<lock, losses>>
  BY <1>1 DEF IInv, TypeOK, file, history
<1>5. CASE disk = Absent /\ proc' = [proc EXCEPT ![p].pc = "temp"]
  <2> DEFINE r == [proc[p] EXCEPT !.pc = "temp"]
  <2>1. r \in Process
    BY <1>1 DEF Process, Working, Persisting
  <2>2. /\ r.pc = "temp" /\ ~r.ready /\ r.queue = <<>> /\ r.mem = {} /\ r.draft = {} /\ ~r.released
    BY <1>1, <1>2 DEF Process
  <2>3. proc' = [proc EXCEPT ![p] = r]
    BY <1>5
  <2>r. r.pc \in Working /\ r.released = proc[p].released
    BY <1>2, <2>2 DEF Working, Persisting
  <2> HIDE DEF r
  <2>4. proc'[p] = r
    BY <2>3 DEF IInv, TypeOK
  <2>5. sure = {}
    BY <1>3, <1>5, StoreAssumption DEF Absent
  <2>6. Waits(p)' /\ Persists(p)'
    BY <1>1, <1>5, <2>2, <2>4, <2>5 DEF Waits, Persists, Persisting, file, history
  <2> QED
    BY <1>1, <1>2, <1>3, <1>4, <2>1, <2>2, <2>3, <2>6, <2>r, FileKeeps
<1>6. CASE disk # Absent /\ proc' = [proc EXCEPT ![p].pc = "idle", ![p].ready = TRUE, ![p].mem = disk]
  <2> DEFINE r == [proc[p] EXCEPT !.pc = "idle", !.ready = TRUE, !.mem = disk]
  <2>1. r \in Process
    BY <1>1, <1>6 DEF Process, Working
  <2>2. /\ r.pc = "idle" /\ r.ready /\ r.queue = <<>> /\ r.mem = disk /\ ~r.released /\ r.draft = {}
    BY <1>1, <1>2 DEF Process
  <2>3. proc' = [proc EXCEPT ![p] = r]
    BY <1>1, <1>6 DEF Process
  <2>r. r.pc \in Working /\ r.released = proc[p].released
    BY <1>2, <2>2 DEF Working, Persisting
  <2> HIDE DEF r
  <2>4. proc'[p] = r
    BY <2>3 DEF IInv, TypeOK
  <2>5. Waits(p)'
    <3>1. disk \subseteq asked
      BY <1>1, <1>3, <1>6, StoreAssumption DEF Absent, Content
    <3> QED
      BY <1>4, <2>2, <2>4, <3>1 DEF Waits, Works, Working, Persisting
  <2>6. Persists(p)'
    BY <1>1, <1>3, <1>6, <2>2, <2>4 DEF Persists, Persisting, file, history
  <2> QED
    BY <1>1, <1>2, <1>3, <1>4, <2>1, <2>2, <2>3, <2>5, <2>6, <2>r, FileKeeps
<1> QED
  BY <1>5, <1>6 DEF Load

LEMMA AskKeeps == ASSUME IInv, NEW p \in Procs, NEW t \in Txns, Ask(p, t) PROVE IInv'
<1> DEFINE r == [proc[p] EXCEPT !.queue = Append(@, t)]
<1>1. /\ proc[p].ready /\ t \notin asked /\ asked' = asked \cup {t}
      /\ UNCHANGED <<lock, disk, maybe, sure, losses>> /\ Waits(p) /\ Persists(p) /\ Works(p)
      /\ proc[p] \in Process /\ proc[p].queue \in Seq(Txns) /\ proc[p].pc \in Working
  BY Parts DEF Ask, Waits, Process, file, Works
<1>2. r \in Process
  BY <1>1, Grows DEF Process
<1>3. /\ r.pc = proc[p].pc /\ r.ready /\ r.released = proc[p].released /\ r.mem = proc[p].mem
      /\ r.draft = proc[p].draft /\ r.queue = Append(proc[p].queue, t)
  BY <1>1 DEF Process
<1>4. proc' = [proc EXCEPT ![p] = r]
  BY DEF Ask
<1> HIDE DEF r
<1>5. proc'[p] = r
  BY <1>4 DEF IInv, TypeOK
<1>6. /\ \A i \in DOMAIN r.queue : r.queue[i] \in asked'
      /\ \A i, j \in DOMAIN r.queue : r.queue[i] = r.queue[j] => i = j
  BY <1>1, <1>3, Grows DEF Waits
<1>7. r.pc \in Persisting => r.queue # <<>> /\ r.draft = r.mem \cup {Head(r.queue)}
  BY <1>1, <1>3, Grows DEF Waits, DraftOf
<1>8. Waits(p)'
  BY <1>1, <1>3, <1>5, <1>6, <1>7 DEF Waits, Works, DraftOf
<1>9. Persists(p)'
  BY <1>1, <1>3, <1>5 DEF Persists
<1>10. /\ disk' \in Content \cup {Absent} /\ maybe' \subseteq Content \cup {Absent}
       /\ asked' \subseteq Txns /\ sure' \subseteq Txns /\ Durable'
  BY <1>1 DEF IInv, TypeOK, Durable
<1> QED
  BY <1>1, <1>2, <1>3, <1>4, <1>8, <1>9, <1>10, FileKeeps

\* The steps of #persist: the queue and the state in memory stay.
LEMMA PersistKeeps ==
    ASSUME IInv, NEW p \in Procs, NEW pc \in Persisting, NEW d \in Content,
           proc' = [proc EXCEPT ![p] = [proc[p] EXCEPT !.pc = pc, !.draft = d]],
           Works(p), proc[p].pc # "load", UNCHANGED <<lock, history>>,
           disk' \in Content \cup {Absent}, maybe' \subseteq Content \cup {Absent}, Durable',
           d \subseteq asked,
           proc[p].ready => /\ proc[p].queue # <<>> /\ d = DraftOf(p)
                            /\ proc[p].mem \subseteq disk' /\ disk' \in Content,
           ~proc[p].ready => d = {} /\ sure = {} /\ disk' \in {Absent, {}},
           pc \in {"renamed", "synced"} => disk' = d,
           pc = "synced" => maybe' = {disk'}
    PROVE  IInv'
<1> DEFINE r == [proc[p] EXCEPT !.pc = pc, !.draft = d]
<1>1. Waits(p) /\ Persists(p) /\ proc[p] \in Process
  BY Parts
<1>2. r \in Process
  BY <1>1 DEF Process, Working
<1>3. /\ r.pc = pc /\ r.ready = proc[p].ready /\ r.released = proc[p].released
      /\ r.mem = proc[p].mem /\ r.draft = d /\ r.queue = proc[p].queue
  BY <1>1 DEF Process
<1>4. proc' = [proc EXCEPT ![p] = r]
  OBVIOUS
<1> HIDE DEF r
<1>5. proc'[p] = r
  BY <1>4 DEF IInv, TypeOK
<1>6. r.pc \in Working /\ r.pc \notin {"load", "idle"}
  BY <1>3, Places DEF Persisting
<1>7. Waits(p)'
  BY <1>1, <1>3, <1>5, <1>6 DEF Waits, Works, DraftOf, history
<1>8. Persists(p)'
  BY <1>1, <1>3, <1>5 DEF Persists, history
<1>9. asked' \subseteq Txns /\ sure' \subseteq Txns
  BY DEF IInv, TypeOK, history
<1> QED
  BY <1>2, <1>3, <1>4, <1>6, <1>7, <1>8, <1>9, FileKeeps DEF history

LEMMA BeginKeeps == ASSUME IInv, NEW p \in Procs, Begin(p) PROVE IInv'
<1>1. /\ proc[p].pc = "idle" /\ proc[p].ready /\ Works(p) /\ Persists(p) /\ proc[p] \in Process
      /\ proc[p].queue # <<>> /\ UNCHANGED <<lock, file, history>>
  BY Parts DEF Begin, At, Waits, Works, Working
<1>2. DraftOf(p) \in Content /\ DraftOf(p) \subseteq asked
  BY <1>1, Parts, Shrinks DEF DraftOf, Process, Content, Waits
<1>3. proc' = [proc EXCEPT ![p] = [proc[p] EXCEPT !.pc = "temp", !.draft = DraftOf(p)]]
  BY <1>1 DEF Begin, Process
<1>4. /\ disk' \in Content \cup {Absent} /\ maybe' \subseteq Content \cup {Absent} /\ Durable'
      /\ proc[p].mem \subseteq disk' /\ disk' \in Content
  BY <1>1 DEF IInv, TypeOK, Durable, file, history, Persists
<1> QED
  BY <1>1, <1>2, <1>3, <1>4, PersistKeeps DEF Persisting

LEMMA RenameKeeps == ASSUME IInv, NEW p \in Procs, Rename(p) PROVE IInv'
<1>1. /\ proc[p].pc = "temp" /\ proc[p].pc \in Persisting /\ Works(p) /\ Waits(p) /\ Persists(p)
      /\ proc[p] \in Process /\ UNCHANGED <<lock, history>>
      /\ disk' = proc[p].draft /\ maybe' = maybe \cup {proc[p].draft}
  BY Parts DEF Rename, At, Works, Working, Persisting
<1>2. proc[p].draft \in Content /\ proc[p].draft \subseteq asked
  BY <1>1 DEF Process, Waits
<1>3. proc' = [proc EXCEPT ![p] = [proc[p] EXCEPT !.pc = "renamed", !.draft = proc[p].draft]]
  BY <1>1 DEF Rename, Goes, Process
<1>4. /\ proc[p].ready => /\ proc[p].queue # <<>> /\ proc[p].draft = DraftOf(p)
                          /\ proc[p].mem \subseteq proc[p].draft /\ sure \subseteq proc[p].draft
      /\ ~proc[p].ready => proc[p].draft = {} /\ sure = {} /\ disk' = {}
  BY <1>1 DEF Waits, Persists, DraftOf
<1>5. Durable'
  BY <1>1, <1>2, <1>4 DEF IInv, Durable, history
<1>6. disk' \in Content \cup {Absent} /\ maybe' \subseteq Content \cup {Absent}
  BY <1>1, <1>2 DEF IInv, TypeOK
<1> QED
  BY <1>1, <1>2, <1>3, <1>4, <1>5, <1>6, PersistKeeps DEF Persisting

LEMMA SyncDirectoryKeeps == ASSUME IInv, NEW p \in Procs, SyncDirectory(p) PROVE IInv'
<1>1. /\ proc[p].pc = "renamed" /\ proc[p].pc \in Persisting /\ Works(p) /\ Waits(p) /\ Persists(p)
      /\ proc[p] \in Process /\ UNCHANGED <<lock, disk, history>> /\ maybe' = {disk}
  BY Parts DEF SyncDirectory, At, Works, Working, Persisting
<1>2. proc[p].draft \in Content /\ proc[p].draft \subseteq asked
  BY <1>1 DEF Process, Waits
<1>3. proc' = [proc EXCEPT ![p] = [proc[p] EXCEPT !.pc = "synced", !.draft = proc[p].draft]]
  BY <1>1 DEF SyncDirectory, Goes, Process
<1>4. /\ disk = proc[p].draft
      /\ proc[p].ready => /\ proc[p].queue # <<>> /\ proc[p].draft = DraftOf(p)
                          /\ proc[p].mem \subseteq disk
      /\ ~proc[p].ready => proc[p].draft = {} /\ sure = {} /\ disk \in {Absent, {}}
  BY <1>1 DEF Waits, Persists
<1>5. Durable'
  BY <1>1 DEF IInv, Durable, history
<1>6. disk' \in Content \cup {Absent} /\ maybe' \subseteq Content \cup {Absent}
  BY <1>1, <1>2, <1>4
<1> QED
  BY <1>1, <1>2, <1>3, <1>4, <1>5, <1>6, PersistKeeps DEF Persisting

LEMMA CommitKeeps == ASSUME IInv, NEW p \in Procs, Commit(p) PROVE IInv'
<1>1. /\ proc[p].pc = "synced" /\ proc[p].pc \in Persisting /\ Works(p) /\ Waits(p) /\ Persists(p)
      /\ proc[p] \in Process /\ UNCHANGED <<lock, file, asked, losses>>
      /\ proc[p].draft \in Content /\ disk = proc[p].draft /\ maybe = {disk}
      /\ proc[p].draft \subseteq asked
  BY Parts DEF Commit, At, Waits, Works, Working, Persisting, Process, Persists
<1>2. CASE Answers(p, proc[p].draft) /\ sure' = sure \cup {Head(proc[p].queue)}
  <2>1. /\ proc[p].queue # <<>> /\ proc[p].draft = DraftOf(p) /\ sure \subseteq proc[p].mem
    BY <1>1, <1>2 DEF Answers, Waits, Persists
  <2>2. sure' \subseteq proc[p].draft
    BY <1>2, <2>1 DEF DraftOf
  <2>3. Durable'
    BY <1>1, <2>2 DEF Durable, file
  <2> QED
    BY <1>1, <1>2, <2>1, <2>2, <2>3, AnswersKeep
<1>3. CASE /\ ~proc[p].ready /\ UNCHANGED sure
           /\ proc' = [proc EXCEPT ![p].pc = "idle", ![p].ready = TRUE]
  <2> DEFINE r == [proc[p] EXCEPT !.pc = "idle", !.ready = TRUE]
  <2>1. r \in Process
    BY <1>1 DEF Process, Working
  <2>2. /\ r.pc = "idle" /\ r.ready /\ r.queue = <<>> /\ r.mem = {} /\ r.released = proc[p].released
        /\ r.draft = {}
    BY <1>1, <1>3 DEF Process, Waits
  <2>3. proc' = [proc EXCEPT ![p] = r]
    BY <1>1, <1>3 DEF Process
  <2> HIDE DEF r
  <2>4. proc'[p] = r
    BY <2>3 DEF IInv, TypeOK
  <2>5. Waits(p)'
    BY <2>2, <2>4 DEF Waits, Works, Working, Persisting
  <2>6. sure = {}
    BY <1>1, <1>3 DEF Persists
  <2>7. Persists(p)'
    BY <1>1, <1>3, <2>2, <2>4, <2>6 DEF Persists, Persisting, file
  <2>8. /\ disk' \in Content \cup {Absent} /\ maybe' \subseteq Content \cup {Absent}
        /\ asked' \subseteq Txns /\ sure' \subseteq Txns /\ Durable'
    BY <1>1, <1>3 DEF IInv, TypeOK, Durable, file
  <2> QED
    BY <1>1, <2>1, <2>2, <2>3, <2>5, <2>7, <2>8, FileKeeps DEF Working
<1> QED
  BY <1>2, <1>3 DEF Commit

-----------------------------------------------------------------------------
(* Shutdown, crash, power failure. *)

LEMMA ReleaseKeeps == ASSUME IInv, NEW p \in Procs, Release(p) PROVE IInv'
<1> DEFINE r == [proc[p] EXCEPT !.released = TRUE]
<1>1. /\ proc[p].ready /\ Works(p) /\ Waits(p) /\ Persists(p) /\ proc[p] \in Process
      /\ UNCHANGED <<file, history>> /\ lock' = NoLock
      /\ \A q \in Procs \ {p} : ~Busy(q)
  BY Parts DEF Release, Waits, Apart, IInv, Busy
<1>2. /\ r \in Process /\ r.released /\ r.pc = proc[p].pc /\ r.ready /\ r.queue = proc[p].queue
      /\ r.mem = proc[p].mem /\ r.draft = proc[p].draft
  BY <1>1 DEF Process
<1>3. proc' = [proc EXCEPT ![p] = r]
  BY DEF Release
<1> HIDE DEF r
<1>4. /\ proc'[p] = r /\ \A q \in Procs \ {p} : proc'[q] = proc[q]
  BY <1>3 DEF IInv, TypeOK
<1>5. /\ lock' \in [owner : Procs \cup {"none"}, written : BOOLEAN] /\ Unowned'
  BY <1>1 DEF NoLock, Unowned
<1>6. \A q \in Procs \ {p} : ~Works(q)
  BY <1>1, OnlyWorker
<1>7. ASSUME NEW q \in Procs \ {p} PROVE Locked(q)'
  BY <1>1, <1>4, <1>6 DEF Locked, Busy, Works, Acquiring
<1>8. Locked(p)'
  BY <1>1, <1>2, <1>4, <1>6, Places DEF Locked, Busy, Works, Acquiring, Working, Persisting
<1>9. \A q \in Procs : Locked(q)'
  BY <1>7, <1>8
<1>10. Waits(p)' /\ Persists(p)'
  BY <1>1, <1>2, <1>4 DEF Waits, Persists, Works, DraftOf, file, history
<1>11. asked' \subseteq Txns
  BY <1>1 DEF IInv, TypeOK, history
<1> QED
  BY <1>1, <1>2, <1>3, <1>5, <1>9, <1>10, <1>11, ProcessKeeps DEF file, history

LEMMA CrashKeeps == ASSUME IInv, NEW p \in Procs, Crash(p) PROVE IInv'
<1>1. proc[p].pc \in Acquiring \/ Works(p)
  BY Parts DEF Crash, Alive, Process, Works
<1> QED
  BY <1>1, GoneKeeps DEF Crash, IInv, TypeOK, Unowned

LEMMA PowerLossKeeps == ASSUME IInv, PowerLoss PROVE IInv'
<1>1. /\ losses \in Nat /\ losses' = losses + 1 /\ UNCHANGED <<asked, sure>>
      /\ disk' \in maybe /\ maybe' = {disk'}
      /\ maybe \subseteq Content \cup {Absent} /\ asked \subseteq Txns /\ sure \subseteq Txns
  BY DEF PowerLoss, IInv, TypeOK
<1>2. /\ lock' \in [owner : Procs \cup {"none"}, written : BOOLEAN] /\ Unowned'
  <2>1. lock \in [owner : Procs \cup {"none"}, written : BOOLEAN] /\ Unowned
    BY DEF IInv, TypeOK
  <2>2. CASE lock' = lock
    BY <2>1, <2>2 DEF Unowned
  <2>3. CASE lock' = [lock EXCEPT !.written = FALSE]
    BY <2>1, <2>3 DEF Unowned
  <2>4. CASE lock' = NoLock
    BY <2>4 DEF NoLock, Unowned
  <2> QED
    BY <2>2, <2>3, <2>4 DEF PowerLoss
<1>3. ASSUME NEW p \in Procs
      PROVE  /\ proc'[p] \in Process /\ proc'[p].pc \in {"new", "dead"} /\ ~proc'[p].ready
             /\ ~proc'[p].released /\ proc'[p].queue = <<>> /\ proc'[p].mem = {} /\ proc'[p].draft = {}
  <2>1. proc'[p] = IF Alive(p) THEN Dead ELSE proc[p]
    BY DEF PowerLoss
  <2>2. Waits(p) /\ proc[p] \in Process
    BY Parts
  <2>3. CASE Alive(p)
    BY <2>1, <2>3, DeadTyped
  <2>4. CASE ~Alive(p)
    BY <2>1, <2>2, <2>4, Places DEF Alive, Waits, Works
  <2> QED
    BY <2>3, <2>4
<1>4. TypeOK'
  <2>1. proc' \in [Procs -> Process]
    BY <1>3 DEF PowerLoss
  <2> QED
    BY <1>1, <1>2, <2>1 DEF TypeOK
<1>5. Durable'
  BY <1>1 DEF IInv, Durable
<1>6. ASSUME NEW p \in Procs PROVE ~Busy(p)' /\ ~Works(p)'
  BY <1>3, Places DEF Busy, Works
<1>7. ASSUME NEW p \in Procs PROVE Sound(p)'
  <2>1. Locked(p)'
    BY <1>6 DEF Locked, Busy, Acquiring
  <2>2. Waits(p)'
    BY <1>3 DEF Waits, Persisting
  <2>3. Persists(p)'
    BY <1>3 DEF Persists, Persisting
  <2> QED
    BY <2>1, <2>2, <2>3 DEF Sound
<1> QED
  BY <1>2, <1>4, <1>5, <1>7 DEF IInv

-----------------------------------------------------------------------------
LEMMA InitIInv == ASSUME ~Overlap, Init PROVE IInv
<1>1. /\ lock = NoLock /\ \A p \in Procs : proc[p] = Fresh
      /\ disk = Absent /\ maybe = {Absent} /\ asked = {} /\ sure = {} /\ losses = 0
  BY DEF Init
<1>2. TypeOK
  BY <1>1, DeadTyped DEF Init, TypeOK, NoLock
<1>3. Unowned /\ Durable
  BY <1>1 DEF Unowned, Durable, NoLock
<1>4. ASSUME NEW p \in Procs PROVE Sound(p)
  <2>1. /\ proc[p].pc = "new" /\ ~proc[p].ready /\ ~proc[p].released /\ proc[p].queue = <<>>
        /\ proc[p].mem = {} /\ proc[p].draft = {}
    BY <1>1 DEF Fresh
  <2>2. ASSUME NEW q \in Procs PROVE ~Busy(q) /\ ~Works(q)
    BY <1>1, Places DEF Busy, Works, Fresh
  <2>3. Locked(p)
    BY <2>1, <2>2 DEF Locked
  <2>4. Waits(p) /\ Persists(p)
    BY <2>1 DEF Waits, Persists, Persisting
  <2> QED
    BY <2>3, <2>4 DEF Sound
<1> QED
  BY <1>2, <1>3, <1>4 DEF IInv

LEMMA StepIInv == ASSUME IInv, [Next]_vars PROVE IInv'
<1>1. ASSUME NEW p \in Procs, Start(p) \/ Acquire(p) \/ Persist(p) \/ Release(p) \/ Crash(p)
      PROVE  IInv'
  <2>1. CASE Start(p)
    BY <2>1, StartKeeps
  <2>2. CASE Acquire(p)
    BY <2>2, TakeLockKeeps, ReadOwnerKeeps, UnlinkKeeps, WriteLockKeeps, LoadKeeps DEF Acquire
  <2>3. CASE Persist(p)
    BY <2>3, BeginKeeps, RenameKeeps, SyncDirectoryKeeps, CommitKeeps, ThrowsKeeps, FailsKeeps
       DEF Persist
  <2>4. CASE Release(p)
    BY <2>4, ReleaseKeeps
  <2>5. CASE Crash(p)
    BY <2>5, CrashKeeps
  <2> QED
    BY <1>1, <2>1, <2>2, <2>3, <2>4, <2>5
<1>2. ASSUME NEW p \in Procs, NEW t \in Txns, Ask(p, t) PROVE IInv'
  BY <1>2, AskKeeps
<1>3. CASE UNCHANGED vars
  <2>1. UNCHANGED <<lock, proc, disk, maybe, asked, sure, losses>>
    BY <1>3 DEF vars
  <2>2. TypeOK' /\ Unowned' /\ Durable'
    BY <2>1 DEF IInv, TypeOK, Unowned, Durable
  <2>3. ASSUME NEW p \in Procs PROVE Sound(p)'
    BY <2>1 DEF IInv, Sound, Locked, Waits, Persists, Busy, Works, Owns, OwnerLives, Alive, DraftOf
  <2> QED
    BY <2>2, <2>3 DEF IInv
<1> QED
  BY <1>1, <1>2, <1>3, PowerLossKeeps DEF Next

LEMMA Invariant == ASSUME ~Overlap PROVE Spec => []IInv
<1>1. Init => IInv
  BY InitIInv
<1>2. IInv /\ [Next]_vars => IInv'
  BY StepIInv
<1> QED
  BY <1>1, <1>2, PTL DEF Spec

\* Whatever the processes left of the lock file, two never work at the file; what was
\* reported as done is in the file, in what a power failure may leave of it, and in the
\* memory of the process that works (json-store.mjs).
THEOREM StoreStaysSound == ASSUME ~Overlap PROVE Spec => []StoreSound
<1>1. ASSUME IInv PROVE StoreSound
  <2>1. TypeOK
    BY <1>1 DEF IInv
  <2>2. NothingReportedIsLost
    BY <1>1 DEF IInv, Durable, Sound, Persists, NothingReportedIsLost
  <2>3. OneOwner
    <3>1. CASE Workers = {}
      BY <3>1, FS_EmptySet DEF OneOwner
    <3>2. CASE Workers # {}
      <4>1. PICK p \in Procs : Works(p)
        BY <3>2 DEF Workers, Works
      <4>2. Workers = {p}
        BY <1>1, <4>1, OnlyWorker DEF Workers, Works
      <4> QED
        BY <4>2, FS_Singleton DEF OneOwner
    <3> QED
      BY <3>1, <3>2
  <2> QED
    BY <2>1, <2>2, <2>3 DEF StoreSound
<1> QED
  BY <1>1, Invariant, PTL

-----------------------------------------------------------------------------
(* Every step is one of the atomic store, or none. *)

Value == IF disk = Absent THEN {} ELSE disk
Open == {t \in Txns : \E p \in Procs : \E i \in DOMAIN proc[p].queue : proc[p].queue[i] = t}

Step ==
    \/ \E t \in Txns : Atomic!Ask(t) \/ Atomic!Write(t) \/ Atomic!Report(t) \/ Atomic!Refuse(t)
    \/ Atomic!Die
    \/ UNCHANGED <<asked, Value, sure, Open>>

LEMMA ValueIs ==
    ASSUME IInv
    PROVE  sure \subseteq Value /\ Value \subseteq asked /\ (disk \in Content => Value = disk)
<1>1. /\ sure \subseteq disk /\ disk \subseteq asked \cup Absent /\ disk \in Content \cup {Absent}
      /\ sure \subseteq Txns
  BY DEF IInv, TypeOK, Durable
<1>2. Absent \notin Content
  BY StoreAssumption DEF Absent, Content
<1> QED
  BY <1>1, <1>2, StoreAssumption DEF Value, Absent, Content

\* Only the one at work has transactions waiting.
LEMMA OneQueue ==
    ASSUME IInv, NEW p \in Procs, NEW q \in Procs \ {p}, Works(p) \/ ~Works(q)
    PROVE  proc[q].queue = <<>>
<1>1. ~Works(q)
  BY OnlyWorker
<1> QED
  BY <1>1, Parts DEF Waits

LEMMA OpenIs ==
    ASSUME IInv, NEW p \in Procs, Works(p)
    PROVE  Open = {t \in Txns : \E i \in DOMAIN proc[p].queue : proc[p].queue[i] = t}
<1>1. \A q \in Procs \ {p} : proc[q].queue = <<>>
  BY OneQueue
<1>2. \A q \in Procs \ {p} : DOMAIN proc[q].queue = {}
  BY <1>1, EmptySeq, LenProperties
<1> QED
  BY <1>2 DEF Open

LEMMA Quiet ==
    ASSUME \A q \in Procs : proc'[q].queue = proc[q].queue, UNCHANGED <<disk, asked, sure>>
    PROVE  Step
<1>1. Open' = Open
  BY DEF Open
<1>2. Value' = Value
  BY DEF Value
<1> QED
  BY <1>1, <1>2 DEF Step

LEMMA AcquireSteps ==
    ASSUME IInv, NEW p \in Procs, Start(p) \/ Acquire(p) \/ Release(p) PROVE Step
<1>1. UNCHANGED <<disk, asked, sure>>
  BY DEF Start, Acquire, Release, TakeLock, ReadOwner, Unlink, WriteLock, Load, file, history
<1>2. proc \in [Procs -> Process]
  BY DEF IInv, TypeOK
<1>3. ASSUME NEW q \in Procs PROVE proc'[q].queue = proc[q].queue
  <2>1. CASE Dies(p) /\ proc[p].pc \in Acquiring
    BY <1>2, <2>1, OnTheWay, DeadTyped DEF Dies
  <2>2. CASE \E pc \in {"lock", "held", "unlink", "write", "load", "temp"} : Goes(p, pc)
    BY <1>2, <2>2 DEF Goes, Process
  <2>3. CASE proc' = [proc EXCEPT ![p].pc = "idle", ![p].ready = TRUE, ![p].mem = disk]
    BY <1>2, <2>3 DEF Process
  <2>4. CASE proc' = [proc EXCEPT ![p].pc = "lock", ![p].att = 1]
    BY <1>2, <2>4 DEF Process
  <2>5. CASE proc' = [proc EXCEPT ![p].released = TRUE]
    BY <1>2, <2>5 DEF Process
  <2>6. CASE Start(p)
    BY <2>2, <2>6 DEF Start
  <2>7. CASE TakeLock(p) \/ WriteLock(p)
    BY <2>2, <2>7 DEF TakeLock, WriteLock
  <2>8. CASE ReadOwner(p) \/ Unlink(p)
    BY <2>1, <2>2, <2>4, <2>8 DEF ReadOwner, Unlink, At, Acquiring
  <2>9. CASE Load(p)
    BY <2>2, <2>3, <2>9 DEF Load, Goes
  <2>10. CASE Release(p)
    BY <2>5, <2>10 DEF Release
  <2> QED
    BY <2>6, <2>7, <2>8, <2>9, <2>10 DEF Acquire
<1> QED
  BY <1>1, <1>3, Quiet

LEMMA AskSteps == ASSUME IInv, NEW p \in Procs, NEW t \in Txns, Ask(p, t) PROVE Step
<1>1. /\ proc \in [Procs -> Process] /\ proc[p] \in Process /\ proc[p].queue \in Seq(Txns)
      /\ UNCHANGED <<disk, sure>> /\ t \notin asked /\ asked' = asked \cup {t}
  BY Parts DEF IInv, TypeOK, Ask, Process, file
<1>2. proc'[p].queue = Append(proc[p].queue, t) /\ \A q \in Procs \ {p} : proc'[q] = proc[q]
  BY <1>1 DEF Ask, Process
<1>3. Open' = Open \cup {t}
  <2>1. \E i \in DOMAIN proc'[p].queue : proc'[p].queue[i] = t
    BY <1>1, <1>2, Grows
  <2>2. ASSUME NEW u \in Txns, NEW q \in Procs
        PROVE  (\E i \in DOMAIN proc[q].queue : proc[q].queue[i] = u)
                 => (\E i \in DOMAIN proc'[q].queue : proc'[q].queue[i] = u)
    BY <1>1, <1>2, Grows
  <2>3. ASSUME NEW u \in Txns \ {t}, NEW q \in Procs
        PROVE  (\E i \in DOMAIN proc'[q].queue : proc'[q].queue[i] = u)
                 => (\E i \in DOMAIN proc[q].queue : proc[q].queue[i] = u)
    BY <1>1, <1>2, Grows
  <2> QED
    BY <2>1, <2>2, <2>3 DEF Open
<1>4. Value' = Value
  BY <1>1 DEF Value
<1>5. Atomic!Ask(t)
  BY <1>1, <1>3, <1>4 DEF Atomic!Ask, Value, Open
<1> QED
  BY <1>5 DEF Step

\* An answer takes the transaction at the head from those that wait.
LEMMA AnswerLeaves ==
    ASSUME IInv, NEW p \in Procs, NEW m \in Content, Answers(p, m), proc[p].queue # <<>>
    PROVE  /\ Head(proc[p].queue) \in Open
           /\ Open' = Open \ {Head(proc[p].queue)}
<1>1. /\ proc \in [Procs -> Process] /\ proc[p] \in Process /\ proc[p].queue \in Seq(Txns)
      /\ Waits(p) /\ Works(p)
  BY Parts DEF IInv, TypeOK, Process, Answers, Waits
<1>2. proc'[p].queue = Tail(proc[p].queue) /\ \A q \in Procs \ {p} : proc'[q] = proc[q]
  BY <1>1 DEF Answers, Process
<1>3. \A q \in Procs \ {p} : DOMAIN proc'[q].queue = {}
  <2>1. \A q \in Procs \ {p} : proc'[q].queue = <<>>
    BY <1>1, <1>2, OneQueue
  <2> QED
    BY <2>1, EmptySeq, LenProperties
<1>4. Open' = {t \in Txns : \E i \in DOMAIN Tail(proc[p].queue) : Tail(proc[p].queue)[i] = t}
  BY <1>2, <1>3 DEF Open
<1>5. Open = {t \in Txns : \E i \in DOMAIN proc[p].queue : proc[p].queue[i] = t}
  BY <1>1, OpenIs
<1> DEFINE s == proc[p].queue
<1>6. \A i, j \in DOMAIN s : s[i] = s[j] => i = j
  BY <1>1 DEF Waits
<1>7. /\ Head(s) \in Txns /\ Head(s) = s[1] /\ 1 \in DOMAIN s
      /\ \A i \in DOMAIN Tail(s) : Tail(s)[i] = s[i + 1] /\ i + 1 \in DOMAIN s /\ i + 1 # 1
      /\ \A i \in DOMAIN s : i = 1 \/ (i - 1 \in DOMAIN Tail(s) /\ Tail(s)[i - 1] = s[i])
  BY <1>1, Shrinks
<1> HIDE DEF s
<1>8. ASSUME NEW t \in Txns
      PROVE  (\E i \in DOMAIN Tail(s) : Tail(s)[i] = t)
               <=> (\E i \in DOMAIN s : s[i] = t) /\ t # Head(s)
  <2>1. ASSUME NEW i \in DOMAIN Tail(s), Tail(s)[i] = t
        PROVE  (\E j \in DOMAIN s : s[j] = t) /\ t # Head(s)
    BY <1>6, <1>7, <2>1
  <2>2. ASSUME NEW i \in DOMAIN s, s[i] = t, t # Head(s)
        PROVE  \E j \in DOMAIN Tail(s) : Tail(s)[j] = t
    BY <1>7, <2>2
  <2> QED
    BY <2>1, <2>2
<1> QED
  BY <1>4, <1>5, <1>7, <1>8 DEF s

LEMMA RefuseSteps ==
    ASSUME IInv, NEW p \in Procs, Answers(p, proc[p].mem), proc[p].queue # <<>>,
           UNCHANGED <<disk, asked, sure>>
    PROVE  Step
<1>1. PICK t \in Txns : t = Head(proc[p].queue)
  BY Parts, Shrinks DEF Process
<1>2. t \in Open /\ Open' = Open \ {t}
  BY <1>1, Parts, AnswerLeaves DEF Process
<1>3. Value' = Value
  BY DEF Value
<1>4. Atomic!Refuse(t)
  BY <1>2, <1>3 DEF Atomic!Refuse, Value, Open
<1> QED
  BY <1>1, <1>4 DEF Step

LEMMA RenameSteps == ASSUME IInv, NEW p \in Procs, Rename(p) PROVE Step
<1>1. /\ proc \in [Procs -> Process] /\ proc[p] \in Process /\ proc[p].pc = "temp"
      /\ Waits(p) /\ Persists(p) /\ Works(p) /\ proc[p].pc \in Persisting
      /\ UNCHANGED <<asked, sure>> /\ disk' = proc[p].draft /\ proc[p].draft \in Content
  BY Parts, Places DEF IInv, TypeOK, Rename, At, Works, Persisting, Process, history
<1>2. \A q \in Procs : proc'[q].queue = proc[q].queue
  BY <1>1 DEF Rename, Goes, Process
<1>3. Open' = Open
  BY <1>2 DEF Open
<1>4. Value' = proc[p].draft
  <2>1. Absent \notin Content
    BY StoreAssumption DEF Absent, Content
  <2> QED
    BY <1>1, <2>1 DEF Value
<1>5. CASE proc[p].ready
  <2>1. /\ proc[p].queue # <<>> /\ proc[p].draft = DraftOf(p) /\ sure \subseteq proc[p].mem
        /\ proc[p].mem \subseteq disk /\ disk \in Content
    BY <1>1, <1>5 DEF Waits, Persists
  <2>2. PICK t \in Txns : t = Head(proc[p].queue) /\ t \in Open
    BY <1>1, <2>1, Shrinks, OpenIs DEF Process
  <2>3. proc[p].mem \in SUBSET Value /\ Value' = proc[p].mem \cup {t}
    BY <1>4, <2>1, <2>2, ValueIs DEF DraftOf
  <2>4. Atomic!Write(t)
    BY <1>1, <1>3, <2>1, <2>2, <2>3 DEF Atomic!Write, Value, Open
  <2> QED
    BY <2>4 DEF Step
<1>6. CASE ~proc[p].ready
  <2>1. Value' = Value
    BY <1>1, <1>4, <1>6 DEF Waits, Persists, Value
  <2> QED
    BY <1>1, <1>3, <2>1 DEF Step
<1> QED
  BY <1>5, <1>6

LEMMA CommitSteps == ASSUME IInv, NEW p \in Procs, Commit(p) PROVE Step
<1>1. /\ proc \in [Procs -> Process] /\ proc[p] \in Process /\ proc[p].pc = "synced"
      /\ Waits(p) /\ Persists(p) /\ Works(p) /\ proc[p].pc \in Persisting
      /\ UNCHANGED <<disk, asked>> /\ disk = proc[p].draft /\ proc[p].draft \in Content
  BY Parts, Places DEF IInv, TypeOK, Commit, At, Works, Persisting, Process, Persists, file
<1>2. CASE Answers(p, proc[p].draft) /\ sure' = sure \cup {Head(proc[p].queue)}
  <2>1. proc[p].queue # <<>> /\ proc[p].draft = DraftOf(p)
    BY <1>1, <1>2 DEF Waits, Answers
  <2>2. PICK t \in Txns : t = Head(proc[p].queue)
    BY <1>1, <2>1, Shrinks DEF Process
  <2>3. t \in Open /\ Open' = Open \ {t}
    BY <1>1, <1>2, <2>1, <2>2, AnswerLeaves
  <2>4. t \in Value /\ Value' = Value
    BY <1>1, <2>1, <2>2, ValueIs DEF DraftOf, Value
  <2>5. Atomic!Report(t)
    BY <1>1, <1>2, <2>2, <2>3, <2>4 DEF Atomic!Report, Value, Open
  <2> QED
    BY <2>5 DEF Step
<1>3. CASE proc' = [proc EXCEPT ![p].pc = "idle", ![p].ready = TRUE] /\ UNCHANGED sure
  <2>1. \A q \in Procs : proc'[q].queue = proc[q].queue
    BY <1>1, <1>3 DEF Process
  <2> QED
    BY <1>1, <1>3, <2>1, Quiet
<1> QED
  BY <1>2, <1>3 DEF Commit

LEMMA PersistSteps == ASSUME IInv, NEW p \in Procs, Persist(p) PROVE Step
<1>1. /\ proc \in [Procs -> Process] /\ proc[p] \in Process /\ Waits(p)
  BY Parts DEF IInv, TypeOK
<1>2. CASE Begin(p)
  <2>1. \A q \in Procs : proc'[q].queue = proc[q].queue
    BY <1>1, <1>2 DEF Begin, Process
  <2> QED
    BY <1>2, <2>1, Quiet DEF Begin, file, history
<1>3. CASE SyncDirectory(p)
  <2>1. \A q \in Procs : proc'[q].queue = proc[q].queue
    BY <1>1, <1>3 DEF SyncDirectory, Goes, Process
  <2> QED
    BY <1>3, <2>1, Quiet DEF SyncDirectory, history
<1>4. CASE Throws(p)
  BY <1>4, RefuseSteps DEF Throws, file, history
<1>5. CASE Fails(p)
  <2>1. CASE Answers(p, proc[p].mem)
    <3>1. proc[p].queue # <<>>
      BY <1>1, <1>5, <2>1 DEF Fails, Answers, Waits
    <3> QED
      BY <1>5, <2>1, <3>1, RefuseSteps DEF Fails, file, history
  <2>2. CASE ~proc[p].ready /\ Dies(p)
    <3>1. \A q \in Procs : proc'[q].queue = proc[q].queue
      BY <1>1, <2>2, DeadTyped DEF Dies, Waits
    <3> QED
      BY <1>5, <3>1, Quiet DEF Fails, file, history
  <2> QED
    BY <1>5, <2>1, <2>2 DEF Fails
<1> QED
  BY <1>2, <1>3, <1>4, <1>5, RenameSteps, CommitSteps DEF Persist

\* Nobody waits once the one at work is gone.
LEMMA DeathSteps ==
    ASSUME IInv, IInv', UNCHANGED <<asked, sure>>, \A q \in Procs : proc'[q].queue = <<>>
    PROVE  Step
<1>1. \A q \in Procs : DOMAIN proc'[q].queue = {}
  BY EmptySeq, LenProperties
<1>2. Open' = {}
  BY <1>1 DEF Open
<1>3. sure' \subseteq Value' /\ Value' \subseteq asked'
  <2>1. /\ sure' \subseteq disk' /\ disk' \subseteq asked' \cup Absent
        /\ disk' \in Content \cup {Absent} /\ sure' \subseteq Txns
    BY DEF IInv, TypeOK, Durable
  <2> QED
    BY <2>1, StoreAssumption DEF Value, Absent, Content
<1>4. Atomic!Die
  BY <1>2, <1>3 DEF Atomic!Die, Value, Open
<1> QED
  BY <1>4 DEF Step

LEMMA CrashSteps == ASSUME IInv, IInv', NEW p \in Procs, Crash(p) PROVE Step
<1>1. /\ proc \in [Procs -> Process] /\ Waits(p) /\ UNCHANGED <<disk, asked, sure>>
  BY Parts DEF IInv, TypeOK, Crash, file, history
<1>2. proc'[p] = Dead /\ \A q \in Procs \ {p} : proc'[q] = proc[q]
  BY <1>1 DEF Crash, Dies
<1>3. CASE Works(p)
  BY <1>1, <1>2, <1>3, OneQueue, DeadTyped, DeathSteps
<1>4. CASE ~Works(p)
  BY <1>1, <1>2, <1>4, DeadTyped, Quiet DEF Waits
<1> QED
  BY <1>3, <1>4

LEMMA PowerLossSteps == ASSUME IInv, IInv', PowerLoss PROVE Step
<1>1. ASSUME NEW q \in Procs PROVE proc'[q].queue = <<>>
  <2>1. proc'[q] = IF Alive(q) THEN Dead ELSE proc[q]
    BY DEF PowerLoss
  <2>2. ~Alive(q) => ~Works(q)
    BY Places DEF Alive, Works
  <2> QED
    BY <2>1, <2>2, Parts, DeadTyped DEF Waits
<1> QED
  BY <1>1, DeathSteps DEF PowerLoss

LEMMA NextSteps == ASSUME IInv, [Next]_vars PROVE [Atomic!AtomicNext]_(Atomic!atomicVars)
<1>1. IInv'
  BY StepIInv
<1>2. ASSUME NEW p \in Procs, Start(p) \/ Acquire(p) \/ Persist(p) \/ Release(p) \/ Crash(p)
      PROVE  Step
  BY <1>1, <1>2, AcquireSteps, PersistSteps, CrashSteps
<1>3. ASSUME UNCHANGED vars PROVE Step
  <2>1. UNCHANGED <<proc, disk, asked, sure>>
    BY <1>3 DEF vars
  <2>2. \A q \in Procs : proc'[q].queue = proc[q].queue
    BY <2>1
  <2> QED
    BY <2>1, <2>2, Quiet
<1>4. Step
  <2>1. CASE PowerLoss
    BY <1>1, <2>1, PowerLossSteps
  <2>2. ASSUME NEW p \in Procs, NEW t \in Txns, Ask(p, t) PROVE Step
    BY <2>2, AskSteps
  <2> QED
    BY <1>2, <1>3, <2>1, <2>2 DEF Next
<1> QED
  BY <1>4 DEF Step, Value, Open, Atomic!AtomicNext, Atomic!atomicVars

\* The store is an atomic one: transactions take effect whole, on all that was reported,
\* and a crash or a failure at any call takes back nothing that was (json-store.mjs 41-71).
\* The part of ImplementsAtomicStore without fairness.
THEOREM StoreIsAtomic ==
    ASSUME ~Overlap
    PROVE  Spec => Atomic!AtomicInit /\ [][Atomic!AtomicNext]_(Atomic!atomicVars)
<1>1. ASSUME Init PROVE Atomic!AtomicInit
  <2>1. \A p \in Procs : proc[p].queue = <<>>
    BY <1>1, DeadTyped DEF Init, Fresh
  <2>2. \A p \in Procs : DOMAIN proc[p].queue = {}
    BY <2>1, EmptySeq, LenProperties
  <2> QED
    BY <1>1, <2>2 DEF Init, Atomic!AtomicInit
<1>2. IInv /\ [Next]_vars => [Atomic!AtomicNext]_(Atomic!atomicVars)
  BY NextSteps
<1> QED
  BY <1>1, <1>2, Invariant, PTL DEF Spec
=============================================================================
