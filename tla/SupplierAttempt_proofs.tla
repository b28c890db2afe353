----------------------- MODULE SupplierAttempt_proofs -----------------------
(***************************************************************************)
(* Proofs about SupplierAttempt, for every set of processes and calls and  *)
(* every bound on recovery.                                                *)
(***************************************************************************)
EXTENDS SupplierAttempt, TLAPS

Active(k) == call[k].pc \notin {"ready", "ended", "dead"}
Holds(k) == Working(k) \/ call[k].pc \in {"recheck", "rename", "release", "unlink"}

\* A call that runs belongs to a living process, the owners it goes after are
\* dead, and it is where its work is: at lock 0, or recovering a lower lock.
Placed(k) ==
    /\ Active(k) => OwnerAlive(k)
    /\ Active(k) => \A d \in Depths : d < DepthOf(k) =>
           call[k].seen[d] \in Calls /\ ~OwnerAlive(call[k].seen[d])
    /\ Working(k) \/ At(k, "ready") => DepthOf(k) = 0
    /\ call[k].pc \in {"recheck", "rename"} => DepthOf(k) # 0

\* The lock a call holds carries its token, the one it writes is still empty and
\* its own, and the one it is about to rename is the dead owner's.
Guarded(k) ==
    /\ Holds(k) => lock[DepthOf(k)] = k
    /\ At(k, "write") => lock[DepthOf(k)] = "torn"
    /\ At(k, "write") => \A j \in Calls :
           At(j, "write") /\ DepthOf(j) = DepthOf(k) => j = k
    /\ At(k, "rename") => lock[DepthOf(k) - 1] = call[k].seen[DepthOf(k) - 1]

\* A call past the marker check has not been answered, and one past its
\* reservation has a marker that nothing was paid for yet.
Accounted(k) ==
    /\ call[k].pc \in {"reserve", "before", "paying", "mark"} => returned = "absent"
    /\ At(k, "before") => paid + 1 <= Spent(first) + Spent(second)

\* The inductive invariant.
IInv == /\ TypeOK
        /\ PaidIsCounted
        /\ \A k \in Calls : Placed(k)
        /\ \A k \in Calls : Guarded(k)
        /\ \A k \in Calls : Accounted(k)

LEMMA InitIInv == Init => IInv
<1> SUFFICES ASSUME Init PROVE IInv
  OBVIOUS
<1>1. Ready \in CallRecord
  BY SupplierAssumption DEF Ready, CallRecord, Steps, Depths
<1>2. TypeOK
  BY <1>1 DEF Init, TypeOK, Markers, Depths
<1>3. ASSUME NEW k \in Calls PROVE Placed(k) /\ Guarded(k) /\ Accounted(k)
  BY <1>3 DEF Init, Ready, At, Placed, Guarded, Accounted, Active, Holds, Working, DepthOf
<1>4. PaidIsCounted
  BY DEF Init, PaidIsCounted, Spent
<1> QED
  BY <1>2, <1>3, <1>4 DEF IInv

\* Two calls never hold the same lock, so one call at a time works.
LEMMA HoldersDiffer ==
  ASSUME IInv, NEW j \in Calls, NEW k \in Calls, Holds(j), Holds(k),
         DepthOf(j) = DepthOf(k)
  PROVE  j = k
BY DEF IInv, Guarded

LEMMA OneAtWork == IInv => OneWorker
<1> SUFFICES ASSUME IInv, NEW j \in Calls, NEW k \in Calls, Working(j), Working(k)
             PROVE  j = k
  BY DEF OneWorker
<1>1. DepthOf(j) = DepthOf(k)
  BY DEF IInv, Placed, Working
<1> QED
  BY <1>1, HoldersDiffer DEF Holds

\* What is about to be renamed is the lock of a dead owner.
LEMMA TargetIsDead ==
  ASSUME IInv, NEW j \in Calls, At(j, "rename")
  PROVE  /\ DepthOf(j) - 1 \in Depths
         /\ lock[DepthOf(j) - 1] \in Calls /\ ~OwnerAlive(lock[DepthOf(j) - 1])
<1>1. Placed(j) /\ Guarded(j) /\ DepthOf(j) \in Depths
  BY DEF IInv, TypeOK, CallRecord, DepthOf
<1>2. DepthOf(j) - 1 \in Depths /\ DepthOf(j) - 1 < DepthOf(j)
  BY <1>1, SupplierAssumption DEF Placed, At, Depths
<1>3. Active(j)
  BY DEF Active, At
<1> QED
  BY <1>1, <1>2, <1>3 DEF Placed, Guarded

\* What becomes of a record whose step alone changes.
LEMMA GoesChanges ==
  ASSUME TypeOK, NEW k \in Calls, NEW pc \in Steps, Goes(k, pc)
  PROVE  /\ call' \in [Calls -> CallRecord]
         /\ \A j \in Calls \ {k} : call'[j] = call[j]
         /\ call'[k].pc = pc /\ call'[k].depth = call[k].depth
         /\ call'[k].seen = call[k].seen
BY DEF TypeOK, Goes, CallRecord

\* And of one that gives up its lock.
LEMMA ReleasedChanges ==
  ASSUME TypeOK, NEW k \in Calls
  PROVE  /\ Released(k) \in CallRecord
         /\ Released(k).pc \in {"ended", "claim"}
         /\ Released(k).depth <= call[k].depth
         /\ Released(k).seen = call[k].seen
<1> DEFINE d == DepthOf(k) - 1
<1>1. CASE DepthOf(k) = 0 \/ ~call[k].fine \/ call[k].tries[d] + 1 = MaxTries
  <2>1. Released(k) = [call[k] EXCEPT !.pc = "ended"]
    BY <1>1 DEF Released
  <2>2. call[k] \in CallRecord /\ call[k].depth <= call[k].depth
    BY SupplierAssumption DEF TypeOK, CallRecord, Depths
  <2> QED
    BY <2>1, <2>2 DEF CallRecord, Steps
<1>2. CASE ~(DepthOf(k) = 0 \/ ~call[k].fine \/ call[k].tries[d] + 1 = MaxTries)
  <2>1. d \in Depths
    BY <1>2, SupplierAssumption DEF TypeOK, CallRecord, DepthOf, Depths
  <2>2. call[k].tries[d] \in 0 .. MaxTries - 1
    BY <2>1 DEF TypeOK, CallRecord
  <2>3. call[k].tries[d] + 1 \in 0 .. MaxTries - 1
    BY <1>2, <2>2, SupplierAssumption
  <2>4. [call[k].tries EXCEPT ![d] = @ + 1] \in [Depths -> 0 .. MaxTries - 1]
    BY <2>1, <2>3 DEF TypeOK, CallRecord
  <2>5. Released(k) = [call[k] EXCEPT !.pc = "claim", !.depth = d, !.tries[d] = @ + 1]
    BY <1>2 DEF Released
  <2>6. d <= DepthOf(k)
    BY <2>1, SupplierAssumption DEF TypeOK, CallRecord, DepthOf, Depths
  <2> QED
    <3> DEFINE t == [call[k].tries EXCEPT ![d] = @ + 1]
    <3>1. Released(k) = [call[k] EXCEPT !.pc = "claim", !.depth = d, !.tries = t]
      BY <2>5
    <3>2. t \in [Depths -> 0 .. MaxTries - 1]
      BY <2>4
    <3>3. call[k] \in CallRecord
      BY DEF TypeOK
    <3> HIDE DEF d, t
    <3> QED
      BY <2>1, <2>6, <3>1, <3>2, <3>3 DEF CallRecord, DepthOf, Steps
<1> QED
  BY <1>1, <1>2

-----------------------------------------------------------------------------
(* A step that only moves call k on, leaving the files alone. *)

LEMMA MoveKeeps ==
  ASSUME IInv, NEW k \in Calls, call' \in [Calls -> CallRecord],
         \A j \in Calls \ {k} : call'[j] = call[j], ~At(k, "write")',
         UNCHANGED <<alive, paid>>, UNCHANGED files,
         Placed(k)', Guarded(k)', Accounted(k)'
  PROVE  IInv'
<1> USE DEF files
<1>1. TypeOK
  BY DEF IInv
<1>3. TypeOK'
  BY <1>1 DEF TypeOK
<1>4. PaidIsCounted'
  BY DEF IInv, PaidIsCounted, Spent
<1>5. ASSUME NEW j \in Calls \ {k} PROVE Placed(j)' /\ Guarded(j)' /\ Accounted(j)'
  <2>1. Placed(j) /\ Guarded(j) /\ Accounted(j)
    BY DEF IInv
  <2>2. call'[j] = call[j]
    OBVIOUS
  <2>3. Placed(j)'
    BY <2>1, <2>2 DEF Placed, Active, Working, At, OwnerAlive, DepthOf
  <2>4. Guarded(j)'
    BY <2>1, <2>2 DEF Guarded, Holds, Working, At, DepthOf
  <2>5. Accounted(j)'
    BY <2>1, <2>2 DEF Accounted, At, Spent
  <2> QED
    BY <2>3, <2>4, <2>5
<1> QED
  BY <1>3, <1>4, <1>5 DEF IInv

\* Most moves do not even change what the call holds.
LEMMA PlainMoveKeeps ==
  ASSUME IInv, NEW k \in Calls, NEW pc \in Steps, Goes(k, pc),
         UNCHANGED <<alive, paid>>, UNCHANGED files, 
         pc \in {"ended"}
           \/ (pc \in {"claim", "occupied"} /\ (Active(k) \/ DepthOf(k) = 0) /\ OwnerAlive(k))
           \/ (pc = "release" /\ Holds(k))
           \/ (pc \in {"reserve", "mark"} /\ Working(k) /\ returned = "absent")
  PROVE  IInv'
<1> USE DEF files
<1>1. /\ call'[k].pc = pc /\ call'[k].depth = call[k].depth
      /\ call'[k].seen = call[k].seen /\ call' \in [Calls -> CallRecord]
      /\ \A j \in Calls \ {k} : call'[j] = call[j]
  BY GoesChanges DEF IInv
<1>2. Placed(k) /\ Guarded(k) /\ Accounted(k) /\ TypeOK
  BY DEF IInv
<1>3. pc \notin {"write", "rename", "recheck", "before"}
  OBVIOUS
<1>4. Placed(k)'
  <2>1. call[k].depth \in Nat
    BY <1>2, SupplierAssumption DEF TypeOK, CallRecord, Depths
  <2> QED
    BY <1>1, <1>2, <2>1, SupplierAssumption
       DEF Placed, Active, Working, Holds, At, OwnerAlive, DepthOf, Depths
<1>5. Guarded(k)'
  BY <1>1, <1>2, <1>3 DEF Guarded, Holds, Working, At, DepthOf
<1>6. Accounted(k)'
  BY <1>1, <1>2, <1>3 DEF Accounted, At, Spent
<1> QED
  BY <1>1, <1>3, <1>4, <1>5, <1>6, MoveKeeps DEF At

LEMMA PlainMoves ==
  ASSUME IInv, NEW k \in Calls,
         \/ Begin(k) \/ LockTaken(k) \/ WriteLockFails(k)
         \/ CheckReturned(k) \/ ReserveRefused(k) \/ SupplierFails(k) \/ SupplierAnswers(k)
  PROVE  IInv'
<1> USE DEF Steps, At, Active, Working, Holds
<1>0. Placed(k) /\ Accounted(k)
  BY DEF IInv
<1>1. CASE Begin(k)
  BY <1>0, <1>1, PlainMoveKeeps DEF Begin, Placed
<1>2. CASE LockTaken(k)
  BY <1>0, <1>2, PlainMoveKeeps DEF LockTaken, Placed
<1>3. CASE WriteLockFails(k)
  BY <1>3, PlainMoveKeeps DEF WriteLockFails
<1>4. CASE CheckReturned(k)
  BY <1>4, PlainMoveKeeps DEF CheckReturned
<1>5. CASE ReserveRefused(k)
  BY <1>5, PlainMoveKeeps DEF ReserveRefused
<1>6. CASE SupplierFails(k)
  BY <1>0, <1>6, PlainMoveKeeps DEF SupplierFails, Accounted
<1>7. CASE SupplierAnswers(k)
  BY <1>0, <1>7, PlainMoveKeeps DEF SupplierAnswers, Accounted
<1> QED
  BY <1>1, <1>2, <1>3, <1>4, <1>5, <1>6, <1>7

LEMMA ReleaseKeeps ==
  ASSUME IInv, NEW k \in Calls, Release(k)
  PROVE  IInv'
<1>1. lock[DepthOf(k)] = k
  BY DEF IInv, Guarded, Holds, Release, At
<1>2. Goes(k, "unlink")
  BY <1>1 DEF Release, Goes, IInv, TypeOK
<1>3. UNCHANGED <<alive, paid>> /\ UNCHANGED files /\ At(k, "release")
  BY DEF Release
<1>4. /\ call'[k].pc = "unlink" /\ call'[k].depth = call[k].depth
      /\ call'[k].seen = call[k].seen /\ call' \in [Calls -> CallRecord]
      /\ \A j \in Calls \ {k} : call'[j] = call[j]
  BY <1>2, GoesChanges DEF IInv, Steps
<1>5. Placed(k) /\ Guarded(k)
  BY DEF IInv
<1>6. Placed(k)' /\ Guarded(k)' /\ Accounted(k)'
  BY <1>1, <1>3, <1>4, <1>5
     DEF Placed, Guarded, Accounted, Active, Holds, Working, At, OwnerAlive, DepthOf, files
<1> QED
  BY <1>3, <1>4, <1>6, MoveKeeps DEF At

LEMMA RecheckKeeps ==
  ASSUME IInv, NEW k \in Calls, Recheck(k)
  PROVE  IInv'
<1> DEFINE pc == IF lock[DepthOf(k) - 1] = call[k].seen[DepthOf(k) - 1]
                 THEN "rename" ELSE "release"
           fine == lock[DepthOf(k) - 1] # "torn"
<1>1. call' = [call EXCEPT ![k].pc = pc, ![k].fine = fine]
  BY DEF Recheck
<1>2. pc \in Steps /\ fine \in BOOLEAN /\ pc \in {"rename", "release"}
      /\ (pc = "rename" => lock[DepthOf(k) - 1] = call[k].seen[DepthOf(k) - 1])
  BY DEF Steps
<1> HIDE DEF pc, fine
<1>3. /\ call'[k].pc = pc /\ call'[k].depth = call[k].depth
      /\ call'[k].seen = call[k].seen /\ call' \in [Calls -> CallRecord]
      /\ \A j \in Calls \ {k} : call'[j] = call[j]
  BY <1>1, <1>2 DEF IInv, TypeOK, CallRecord
<1>4. UNCHANGED <<alive, paid>> /\ UNCHANGED files /\ At(k, "recheck")
  BY DEF Recheck
<1>5. Placed(k) /\ Guarded(k)
  BY DEF IInv
<1>6. Placed(k)'
  BY <1>2, <1>3, <1>4, <1>5 DEF Placed, Active, Working, At, OwnerAlive, DepthOf
<1>7. Guarded(k)' /\ Accounted(k)'
  BY <1>2, <1>3, <1>4, <1>5 DEF Guarded, Accounted, Holds, Working, At, DepthOf, files
<1> QED
  BY <1>2, <1>3, <1>4, <1>6, <1>7, MoveKeeps DEF At

-----------------------------------------------------------------------------
(* Steps that create, write or remove a lock. *)

\* Markers, payments and processes are as they were, only call k moves, and no
\* other call holds, writes or goes after the lock d that changes.
LEMMA LockStepKeeps ==
  ASSUME IInv, NEW k \in Calls, NEW d \in Depths,
         NEW l \in Calls \cup {"absent", "torn"}, lock' = [lock EXCEPT ![d] = l],
         call' \in [Calls -> CallRecord], \A j \in Calls \ {k} : call'[j] = call[j],
         UNCHANGED <<alive, paid>>, MarkersUnchanged,
         \A j \in Calls \ {k} :
             /\ Holds(j) \/ At(j, "write") => DepthOf(j) # d
             /\ At(j, "rename") => DepthOf(j) - 1 # d
             /\ At(j, "write") /\ At(k, "write")' => DepthOf(j) # DepthOf(k)',
         Placed(k)', Guarded(k)', Accounted(k)'
  PROVE  IInv'
<1> USE DEF MarkersUnchanged
<1>1. TypeOK'
  BY DEF IInv, TypeOK
<1>2. PaidIsCounted'
  BY DEF IInv, PaidIsCounted, Spent
<1>3. ASSUME NEW j \in Calls \ {k} PROVE Placed(j)' /\ Guarded(j)' /\ Accounted(j)'
  <2>1. Placed(j) /\ Guarded(j) /\ Accounted(j) /\ call'[j] = call[j] /\ j \in Calls
    BY DEF IInv
  <2>2. Placed(j)'
    BY <2>1 DEF Placed, Active, Working, At, OwnerAlive, DepthOf
  <2>3. Accounted(j)'
    BY <2>1 DEF Accounted, At, Spent
  <2>4. lock \in [Depths -> Calls \cup {"absent", "torn"}]
        /\ DepthOf(j) \in Depths
    BY DEF IInv, TypeOK, CallRecord, DepthOf
  <2>5. At(j, "rename") => DepthOf(j) - 1 \in Depths
    BY <2>1, <2>4, SupplierAssumption DEF Placed, At, Depths
  <2>6. (Holds(j) \/ At(j, "write")) => lock'[DepthOf(j)] = lock[DepthOf(j)]
    BY <2>4
  <2>7. At(j, "rename") => lock'[DepthOf(j) - 1] = lock[DepthOf(j) - 1]
    BY <2>4, <2>5
  <2>8. At(j, "write") => \A i \in Calls :
           At(i, "write")' /\ DepthOf(i)' = DepthOf(j) => i = j
    BY <2>1 DEF Guarded, At, DepthOf
  <2>9. Guarded(j)'
    BY <2>1, <2>6, <2>7, <2>8 DEF Guarded, Holds, Working, At, DepthOf
  <2> QED
    BY <2>2, <2>3, <2>9
<1> QED
  BY <1>1, <1>2, <1>3 DEF IInv

LEMMA CreateLockKeeps ==
  ASSUME IInv, NEW k \in Calls, CreateLock(k)
  PROVE  IInv'
<1> DEFINE d == DepthOf(k)
<1>1. /\ call'[k].pc = "write" /\ call'[k].depth = call[k].depth
      /\ call'[k].seen = call[k].seen /\ call' \in [Calls -> CallRecord]
      /\ \A j \in Calls \ {k} : call'[j] = call[j]
  BY GoesChanges DEF IInv, Steps, CreateLock
<1>2. d \in Depths /\ lock \in [Depths -> Calls \cup {"absent", "torn"}]
  BY DEF IInv, TypeOK, CallRecord, DepthOf
<1>3. lock[d] = "absent" /\ lock' = [lock EXCEPT ![d] = "torn"] /\ At(k, "claim")
      /\ UNCHANGED <<alive, paid>> /\ MarkersUnchanged
  BY DEF CreateLock
<1>4. \A j \in Calls : Placed(j) /\ Guarded(j)
  BY DEF IInv
<1>5. ASSUME NEW j \in Calls \ {k}
      PROVE  /\ Holds(j) \/ At(j, "write") => DepthOf(j) # d
             /\ At(j, "rename") => DepthOf(j) - 1 # d
  <2>1. j # "absent"
    BY SupplierAssumption
  <2>2. Holds(j) \/ At(j, "write") => DepthOf(j) # d
    BY <1>3, <1>4, <2>1 DEF Guarded
  <2>3. At(j, "rename") => DepthOf(j) - 1 # d
    BY <1>3, TargetIsDead, SupplierAssumption
  <2> QED
    BY <2>2, <2>3
<1>6. Placed(k)'
  BY <1>1, <1>3, <1>4 DEF Placed, Active, Working, At, OwnerAlive, DepthOf
<1>7. Guarded(k)'
  <2>1. lock'[d] = "torn"
    BY <1>2, <1>3
  <2>2. \A j \in Calls \ {k} : At(j, "write")' => DepthOf(j)' # d
    BY <1>1, <1>5 DEF At, DepthOf
  <2> QED
    BY <1>1, <2>1, <2>2 DEF Guarded, Holds, Working, At, DepthOf
<1>8. Accounted(k)'
  BY <1>1 DEF Accounted, At
<1>9. \A j \in Calls \ {k} : At(j, "write") /\ At(k, "write")' => DepthOf(j) # DepthOf(k)'
  BY <1>1, <1>5 DEF DepthOf
<1> HIDE DEF d
<1> QED
  BY <1>1, <1>2, <1>3, <1>5, <1>6, <1>7, <1>8, <1>9, LockStepKeeps

LEMMA WriteLockKeeps ==
  ASSUME IInv, NEW k \in Calls, WriteLock(k)
  PROVE  IInv'
<1> DEFINE d == DepthOf(k)
           pc == IF d = 0 THEN "returned" ELSE "recheck"
<1>1. pc \in Steps /\ pc \in {"returned", "recheck"} /\ (pc = "returned" <=> d = 0)
  BY DEF Steps
<1>2. /\ call'[k].pc = pc /\ call'[k].depth = call[k].depth
      /\ call'[k].seen = call[k].seen /\ call' \in [Calls -> CallRecord]
      /\ \A j \in Calls \ {k} : call'[j] = call[j]
  BY <1>1, GoesChanges DEF IInv, WriteLock
<1> HIDE DEF pc
<1>3. d \in Depths /\ lock \in [Depths -> Calls \cup {"absent", "torn"}]
  BY DEF IInv, TypeOK, CallRecord, DepthOf
<1>4. lock' = [lock EXCEPT ![d] = k] /\ At(k, "write")
      /\ UNCHANGED <<alive, paid>> /\ MarkersUnchanged
  BY DEF WriteLock
<1>5. \A j \in Calls : Placed(j) /\ Guarded(j)
  BY DEF IInv
<1>6. lock[d] = "torn"
  BY <1>4, <1>5 DEF Guarded
<1>7. ASSUME NEW j \in Calls \ {k}
      PROVE  /\ Holds(j) \/ At(j, "write") => DepthOf(j) # d
             /\ At(j, "rename") => DepthOf(j) - 1 # d
  <2>1. Holds(j) => DepthOf(j) # d
    BY <1>5, <1>6, SupplierAssumption DEF Guarded
  <2>2. At(j, "write") => DepthOf(j) # d
    BY <1>4, <1>5 DEF Guarded
  <2>3. At(j, "rename") => DepthOf(j) - 1 # d
    BY <1>6, TargetIsDead, SupplierAssumption
  <2> QED
    BY <2>1, <2>2, <2>3
<1>8. Placed(k)'
  BY <1>1, <1>2, <1>4, <1>5 DEF Placed, Active, Working, At, OwnerAlive, DepthOf
<1>9. Guarded(k)'
  BY <1>1, <1>2, <1>3, <1>4 DEF Guarded, Holds, Working, At, DepthOf
<1>10. Accounted(k)' /\ ~At(k, "write")'
  BY <1>1, <1>2 DEF Accounted, At
<1> QED
  BY <1>2, <1>3, <1>4, <1>7, <1>8, <1>9, <1>10, LockStepKeeps

LEMMA RenameStaleKeeps ==
  ASSUME IInv, NEW k \in Calls, RenameStale(k)
  PROVE  IInv'
<1> DEFINE d == DepthOf(k) - 1
<1>1. /\ call'[k].pc = "release" /\ call'[k].depth = call[k].depth
      /\ call'[k].seen = call[k].seen /\ call' \in [Calls -> CallRecord]
      /\ \A j \in Calls \ {k} : call'[j] = call[j]
  BY GoesChanges DEF IInv, RenameStale, Steps
<1>2. lock' = [lock EXCEPT ![d] = "absent"] /\ At(k, "rename")
      /\ UNCHANGED <<alive, paid>> /\ MarkersUnchanged
  BY DEF RenameStale
<1>3. /\ d \in Depths /\ lock[d] \in Calls /\ ~OwnerAlive(lock[d])
      /\ lock \in [Depths -> Calls \cup {"absent", "torn"}]
      /\ DepthOf(k) \in Depths /\ DepthOf(k) # d
  BY <1>2, TargetIsDead, SupplierAssumption DEF IInv, TypeOK, CallRecord, DepthOf, Depths
<1>4. \A j \in Calls : Placed(j) /\ Guarded(j)
  BY DEF IInv
<1>5. ASSUME NEW j \in Calls \ {k}
      PROVE  /\ Holds(j) \/ At(j, "write") => DepthOf(j) # d
             /\ At(j, "rename") => DepthOf(j) - 1 # d
  <2>1. Holds(j) => OwnerAlive(j)
    BY <1>4 DEF Placed, Active, Holds, Working
  <2>2. Holds(j) \/ At(j, "write") => DepthOf(j) # d
    BY <1>3, <1>4, <2>1, SupplierAssumption DEF Guarded
  <2>3. At(j, "rename") /\ DepthOf(j) - 1 = d => DepthOf(j) = DepthOf(k)
    BY <1>3, SupplierAssumption DEF IInv, TypeOK, CallRecord, DepthOf, Depths
  <2>4. At(j, "rename") => DepthOf(j) - 1 # d
    BY <1>2, <2>3, HoldersDiffer DEF Holds, At
  <2> QED
    BY <2>2, <2>4
<1>6. Placed(k)'
  BY <1>1, <1>2, <1>4 DEF Placed, Active, Working, At, OwnerAlive, DepthOf
<1>7. Guarded(k)'
  <2>1. lock'[DepthOf(k)] = k
    BY <1>2, <1>3, <1>4 DEF Guarded, Holds, At
  <2> QED
    BY <1>1, <2>1 DEF Guarded, Holds, Working, At, DepthOf
<1>8. Accounted(k)' /\ ~At(k, "write")'
  BY <1>1 DEF Accounted, At
<1> QED
  BY <1>1, <1>2, <1>3, <1>5, <1>6, <1>7, <1>8, LockStepKeeps

LEMMA UnlinkKeeps ==
  ASSUME IInv, NEW k \in Calls, Unlink(k)
  PROVE  IInv'
<1> DEFINE d == DepthOf(k)
<1>1. /\ Released(k) \in CallRecord /\ Released(k).pc \in {"ended", "claim"}
      /\ Released(k).depth <= d /\ Released(k).seen = call[k].seen
  BY ReleasedChanges DEF IInv, DepthOf
<1>2. /\ call'[k] = Released(k) /\ call' \in [Calls -> CallRecord]
      /\ \A j \in Calls \ {k} : call'[j] = call[j]
  BY <1>1 DEF Unlink, IInv, TypeOK
<1>3. lock' = [lock EXCEPT ![d] = "absent"] /\ At(k, "unlink")
      /\ UNCHANGED <<alive, paid>> /\ MarkersUnchanged
  BY DEF Unlink
<1>4. \A j \in Calls : Placed(j) /\ Guarded(j)
  BY DEF IInv
<1>5. lock[d] = k /\ OwnerAlive(k) /\ d \in Depths
  BY <1>3, <1>4 DEF Guarded, Placed, Active, Holds, At, IInv, TypeOK, CallRecord, DepthOf
<1>6. ASSUME NEW j \in Calls \ {k}
      PROVE  /\ Holds(j) \/ At(j, "write") => DepthOf(j) # d
             /\ At(j, "rename") => DepthOf(j) - 1 # d
  <2>1. Holds(j) \/ At(j, "write") => DepthOf(j) # d
    BY <1>4, <1>5, SupplierAssumption DEF Guarded
  <2>2. At(j, "rename") => DepthOf(j) - 1 # d
    BY <1>5, TargetIsDead
  <2> QED
    BY <2>1, <2>2
<1>7. Placed(k)'
  <2>1. \A e \in Depths : e < Released(k).depth => e < d
    BY <1>1, <1>5, SupplierAssumption DEF CallRecord, Depths
  <2> QED
    BY <1>1, <1>2, <1>3, <1>4, <1>5, <2>1
       DEF Placed, Active, Working, At, OwnerAlive, DepthOf
<1>8. Guarded(k)' /\ Accounted(k)' /\ ~At(k, "write")'
  BY <1>1, <1>2 DEF Guarded, Accounted, Holds, Working, At
<1> QED
  BY <1>2, <1>3, <1>5, <1>6, <1>7, <1>8, LockStepKeeps

LEMMA ReadOwnerKeeps ==
  ASSUME IInv, NEW k \in Calls, ReadOwner(k)
  PROVE  IInv'
<1> DEFINE d == DepthOf(k)
           owner == lock[d]
<1>1. UNCHANGED <<alive, paid>> /\ UNCHANGED files /\ At(k, "occupied")
  BY DEF ReadOwner
<1>2. Placed(k) /\ Active(k) /\ OwnerAlive(k)
      /\ d \in Nat /\ call \in [Calls -> CallRecord]
  <2>1. Placed(k) /\ call \in [Calls -> CallRecord]
    BY DEF IInv, TypeOK
  <2>2. Active(k)
    BY <1>1 DEF Active, At
  <2>3. d \in Nat
    BY <2>1, SupplierAssumption DEF CallRecord, Depths, DepthOf
  <2> QED
    BY <2>1, <2>2, <2>3 DEF Placed
<1>3. CASE Goes(k, "ended")
  BY <1>1, <1>3, PlainMoveKeeps DEF Steps
<1>4. CASE /\ owner \in Calls /\ ~OwnerAlive(owner) /\ d < MaxDepth
           /\ call' = [call EXCEPT ![k].pc = "claim", ![k].depth = d + 1,
                                   ![k].seen[d] = owner, ![k].tries[d + 1] = 0]
  <2>1. d \in Depths /\ d + 1 \in Depths /\ 0 \in 0 .. MaxTries - 1
    BY <1>2, <1>4, SupplierAssumption DEF Depths
  <2>2. /\ call'[k].pc = "claim" /\ call'[k].depth = d + 1
        /\ call'[k].seen = [call[k].seen EXCEPT ![d] = owner]
        /\ \A j \in Calls \ {k} : call'[j] = call[j]
    BY <1>2, <1>4 DEF CallRecord
  <2>3. call' \in [Calls -> CallRecord]
    <3> DEFINE s == [call[k].seen EXCEPT ![d] = owner]
               t == [call[k].tries EXCEPT ![d + 1] = 0]
               r == [call[k] EXCEPT !.pc = "claim", !.depth = d + 1, !.seen = s, !.tries = t]
    <3>1. call' = [call EXCEPT ![k] = r]
      BY <1>2, <1>4
    <3>2. s \in [Depths -> Calls \cup {"absent"}] /\ t \in [Depths -> 0 .. MaxTries - 1]
      BY <1>2, <1>4, <2>1 DEF CallRecord
    <3> HIDE DEF s, t, d
    <3>3. r \in CallRecord
      BY <1>2, <2>1, <3>2 DEF CallRecord, Steps
    <3> HIDE DEF r
    <3> QED
      BY <1>2, <3>1, <3>3
  <2>4. call[k].seen \in [Depths -> Calls \cup {"absent"}]
    BY <1>2 DEF CallRecord
  <2>5. \A e \in Depths : e < d + 1 => e = d \/ e < d
    BY <1>2, SupplierAssumption DEF Depths
  <2>6. \A e \in Depths : e < d + 1 =>
            call'[k].seen[e] \in Calls /\ ~OwnerAlive(call'[k].seen[e])
    BY <1>2, <1>4, <2>1, <2>2, <2>4, <2>5 DEF Placed
  <2>7. Placed(k)'
    BY <1>1, <1>2, <2>2, <2>6 DEF Placed, Active, Working, At, OwnerAlive, DepthOf
  <2>8. Guarded(k)' /\ Accounted(k)' /\ ~At(k, "write")'
    BY <2>2 DEF Guarded, Accounted, Holds, Working, At
  <2> QED
    BY <1>1, <2>2, <2>3, <2>7, <2>8, MoveKeeps
<1> QED
  BY <1>3, <1>4 DEF ReadOwner

-----------------------------------------------------------------------------
(* Steps of the one call at work that write a marker or pay. *)

\* What the others do not notice, because they are not at work.
LEMMA WorkKeeps ==
  ASSUME IInv, NEW k \in Calls, Working(k), call' \in [Calls -> CallRecord],
         \A j \in Calls \ {k} : call'[j] = call[j],
         call'[k].depth = call[k].depth, call'[k].seen = call[k].seen,
         call'[k].pc \in {"release", "before", "paying"},
         UNCHANGED <<alive, lock>>, {first, second, returned}' \subseteq Markers,
         paid' \in Nat, PaidIsCounted', Accounted(k)'
  PROVE  IInv'
<1>1. TypeOK'
  BY DEF IInv, TypeOK
<1>2. Placed(k)' /\ Guarded(k)'
  <2>1. Placed(k) /\ Guarded(k)
    BY DEF IInv
  <2> QED
    BY <2>1 DEF Placed, Guarded, Active, Holds, Working, At, OwnerAlive, DepthOf
<1>3. ASSUME NEW j \in Calls \ {k} PROVE Placed(j)' /\ Guarded(j)' /\ Accounted(j)'
  <2>1. Placed(j) /\ Guarded(j)
    BY DEF IInv
  <2>2. ~Working(j)
    BY OneAtWork DEF OneWorker
  <2>3. Placed(j)'
    BY <2>1 DEF Placed, Active, Working, At, OwnerAlive, DepthOf
  <2>4. Guarded(j)'
    BY <2>1 DEF Guarded, Holds, Working, At, DepthOf
  <2>5. Accounted(j)'
    BY <2>2 DEF Accounted, Working, At
  <2> QED
    BY <2>3, <2>4, <2>5
<1> QED
  BY <1>1, <1>2, <1>3 DEF IInv

LEMMA ReserveKeeps ==
  ASSUME IInv, NEW k \in Calls, ReserveFirst(k) \/ ReserveSecond(k)
  PROVE  IInv'
<1>1. Working(k) /\ returned = "absent" /\ UNCHANGED <<alive, lock, returned, paid>>
      /\ PaidIsCounted /\ TypeOK /\ paid \in Nat
  BY DEF ReserveFirst, ReserveSecond, Working, At, IInv, Accounted, TypeOK
<1>2. /\ {first, second, returned}' \subseteq Markers
      /\ Spent(first') + Spent(second') = Spent(first) + Spent(second) + 1
  BY <1>1 DEF ReserveFirst, ReserveSecond, TypeOK, Markers, Spent
<1>3. /\ call' \in [Calls -> CallRecord] /\ \A j \in Calls \ {k} : call'[j] = call[j]
      /\ call'[k].pc \in {"before", "release"} /\ call'[k].depth = call[k].depth
      /\ call'[k].seen = call[k].seen
  <2>1. CASE Goes(k, "release")
    BY <1>1, <2>1, GoesChanges DEF Steps
  <2>2. CASE ~Goes(k, "release")
    <3>1. PICK n \in 0 .. 2 : call' = [call EXCEPT ![k].pc = "before", ![k].attempt = n]
      BY <2>2 DEF ReserveFirst, ReserveSecond
    <3>2. call \in [Calls -> CallRecord]
      BY <1>1 DEF TypeOK
    <3>3. [call[k] EXCEPT !.pc = "before", !.attempt = n] \in CallRecord
      BY <3>2 DEF CallRecord, Steps
    <3> QED
      BY <3>1, <3>2, <3>3 DEF CallRecord
  <2> QED
    BY <2>1, <2>2
<1>4. Spent(first) + Spent(second) \in Nat
  BY DEF Spent
<1>5. PaidIsCounted'
  BY <1>1, <1>2, <1>4 DEF PaidIsCounted, Spent
<1>6. paid' + 1 <= Spent(first') + Spent(second')
  BY <1>1, <1>2, <1>4 DEF PaidIsCounted
<1>7. Accounted(k)'
  BY <1>1, <1>6 DEF Accounted, Spent
<1> QED
  BY <1>1, <1>2, <1>3, <1>5, <1>7, WorkKeeps

LEMMA PayKeeps ==
  ASSUME IInv, NEW k \in Calls, Pay(k)
  PROVE  IInv'
<1>1. Working(k) /\ UNCHANGED alive /\ UNCHANGED files /\ TypeOK /\ Accounted(k)
      /\ PaidIsCounted /\ paid \in Nat /\ At(k, "before") /\ returned = "absent"
      /\ paid + 1 <= Spent(first) + Spent(second)
  BY DEF Pay, Working, At, IInv, TypeOK, Accounted
<1>2. PICK pc \in {"paying", "release"} : Goes(k, pc)
  BY DEF Pay
<1>3. /\ call' \in [Calls -> CallRecord] /\ \A j \in Calls \ {k} : call'[j] = call[j]
      /\ call'[k].pc = pc /\ call'[k].depth = call[k].depth
      /\ call'[k].seen = call[k].seen
  BY <1>1, <1>2, GoesChanges DEF Steps
<1>4. paid' \in Nat /\ PaidIsCounted'
  BY <1>1 DEF Pay, PaidIsCounted, Spent, files
<1>5. Accounted(k)'
  BY <1>1, <1>3 DEF Accounted, At, files
<1> QED
  BY <1>1, <1>3, <1>4, <1>5, WorkKeeps DEF files, TypeOK

LEMMA MarkReturnedKeeps ==
  ASSUME IInv, NEW k \in Calls, MarkReturned(k)
  PROVE  IInv'
<1>1. Working(k) /\ UNCHANGED <<alive, lock, first, second, paid>> /\ TypeOK
      /\ Goes(k, "release") /\ returned' \in Markers
  BY DEF MarkReturned, Working, At, IInv, Markers
<1>2. /\ call' \in [Calls -> CallRecord] /\ \A j \in Calls \ {k} : call'[j] = call[j]
      /\ call'[k].pc = "release" /\ call'[k].depth = call[k].depth
      /\ call'[k].seen = call[k].seen
  BY <1>1, GoesChanges DEF Steps
<1>3. PaidIsCounted'
  BY <1>1 DEF IInv, PaidIsCounted, Spent
<1>4. Accounted(k)'
  BY <1>2 DEF Accounted, At
<1> QED
  BY <1>1, <1>2, <1>3, <1>4, WorkKeeps DEF TypeOK

-----------------------------------------------------------------------------
LEMMA CrashKeeps ==
  ASSUME IInv, NEW p \in Processes, Crash(p)
  PROVE  IInv'
<1>1. UNCHANGED paid /\ UNCHANGED files /\ alive' = alive \ {p}
  BY DEF Crash
<1>2. ASSUME NEW k \in Calls
      PROVE  /\ call'[k].depth = call[k].depth /\ call'[k].seen = call[k].seen
             /\ call'[k].pc \in {call[k].pc, "dead"}
             /\ ProcessOf[k] = p => call'[k].pc \in {"ready", "ended", "dead"}
             /\ call'[k] \in CallRecord
  BY DEF Crash, At, IInv, TypeOK, CallRecord, Steps
<1>3. call' \in [Calls -> CallRecord]
  <2>1. call' = [k \in Calls |-> call'[k]]
    BY DEF Crash
  <2> QED
    BY <1>2, <2>1
<1>4. TypeOK' /\ PaidIsCounted'
  BY <1>1, <1>3 DEF IInv, TypeOK, PaidIsCounted, Spent, files
<1>5. ASSUME NEW k \in Calls PROVE Placed(k)' /\ Guarded(k)' /\ Accounted(k)'
  <2>1. Placed(k) /\ Guarded(k) /\ Accounted(k)
    BY DEF IInv
  <2>2. Active(k)' => Active(k) /\ ProcessOf[k] # p
    BY <1>2 DEF Active
  <2>3. Placed(k)'
    BY <1>1, <1>2, <2>1, <2>2 DEF Placed, Active, Working, At, OwnerAlive, DepthOf
  <2>4. Guarded(k)'
    BY <1>1, <1>2, <2>1 DEF Guarded, Holds, Working, At, DepthOf, files
  <2>5. Accounted(k)'
    BY <1>1, <1>2, <2>1 DEF Accounted, At, Spent, files
  <2> QED
    BY <2>3, <2>4, <2>5
<1> QED
  BY <1>4, <1>5 DEF IInv

LEMMA NextKeeps == IInv /\ [Next]_vars => IInv'
<1> SUFFICES ASSUME IInv, [Next]_vars PROVE IInv'
  OBVIOUS
<1>1. ASSUME NEW k \in Calls, Begin(k) \/ Step(k) PROVE IInv'
  BY <1>1, PlainMoves, ReleaseKeeps, RecheckKeeps, CreateLockKeeps, WriteLockKeeps,
     RenameStaleKeeps, UnlinkKeeps, ReadOwnerKeeps, ReserveKeeps, PayKeeps,
     MarkReturnedKeeps DEF Step
<1>2. CASE UNCHANGED vars
  BY <1>2 DEF vars, IInv, TypeOK, PaidIsCounted, Placed, Guarded, Accounted, Active,
     Holds, Working, At, OwnerAlive, DepthOf, Spent
<1> QED
  BY <1>1, <1>2, CrashKeeps DEF Next

LEMMA Inductive == Spec => []IInv
BY InitIInv, NextKeeps, PTL DEF Spec

-----------------------------------------------------------------------------
\* withExclusiveFileLock excludes: however calls overlap, die and recover the locks
\* of the dead, at most one of them is between taking and releasing lock 0.
THEOREM Exclusion == Spec => []OneWorker
BY Inductive, OneAtWork, PTL

\* The two markers bound the paid calls of a work item over all processes, and recovery
\* is bounded: no lock is tried more than MaxTries times by one claim and no recovery
\* nests deeper than MaxDepth, whoever dies when.
THEOREM CallsCounted == Spec => []SpendingBounded
BY Inductive, PTL DEF IInv, SpendingBounded

\* Nobody pays once the supplier's answer is on record.
THEOREM AnswerEndsPaying == Spec => NoCallAfterAnswer
<1>1. IInv /\ [Next]_vars => [paid' # paid => returned = "absent"]_vars
  <2> SUFFICES ASSUME IInv, [Next]_vars, paid' # paid PROVE returned = "absent"
    OBVIOUS
  <2>1. PICK k \in Calls : Begin(k) \/ Step(k)
    BY DEF Next, vars, Crash
  <2>2. Pay(k)
    BY <2>1 DEF Step, Begin, CreateLock, LockTaken, WriteLock, WriteLockFails, ReadOwner,
       Recheck, RenameStale, Release, Unlink, CheckReturned, ReserveFirst, ReserveSecond,
       ReserveRefused, SupplierFails, SupplierAnswers, MarkReturned
  <2> QED
    BY <2>2 DEF IInv, Accounted, Pay, At
<1> QED
  BY <1>1, Inductive, PTL DEF Spec, NoCallAfterAnswer
=============================================================================
