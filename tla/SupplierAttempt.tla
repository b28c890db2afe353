--------------------------- MODULE SupplierAttempt ---------------------------
(***************************************************************************)
(* The paid supplier calls of one work item (seller-provider-attempt.mjs): *)
(* a chain of lock files guards them, two attempt markers count them, and  *)
(* a third marker says that the supplier has answered.                     *)
(*                                                                         *)
(* A call of callSellerProviderTwice is known by the token it writes into  *)
(* a lock and belongs to a process; processes die, with all their calls.   *)
(* lock[0] guards the work, lock[d+1] the removal of a dead lock[d].       *)
(***************************************************************************)
EXTENDS Naturals, FiniteSets

CONSTANTS
    Processes,
    Calls,
    ProcessOf,        \* the process of each call
    MaxDepth,         \* recoveryDepth beyond this is refused; 16 in the code
    MaxTries          \* attempts to create one lock; 3 in the code

ASSUME SupplierAssumption ==
    /\ ProcessOf \in [Calls -> Processes]
    /\ MaxDepth \in Nat /\ MaxTries \in Nat \ {0}
    /\ Calls \cap {"absent", "torn"} = {}

VARIABLES alive, lock, first, second, returned, call, paid

vars == <<alive, lock, first, second, returned, call, paid>>
files == <<lock, first, second, returned>>

Depths == 0 .. MaxDepth
\* A file may exist without its content: created, not yet or never written.
Markers == {"absent", "torn", "whole"}
Steps == {"ready", "claim", "occupied", "write", "recheck", "rename", "release", "unlink",
    "returned", "reserve", "before", "paying", "mark", "ended", "dead"}
\* depth: the lock the call is after or holds; tries, seen: per depth, how often
\* it was tried and whose token was found; fine: did the guarded work succeed?
CallRecord == [pc : Steps, depth : Depths, tries : [Depths -> 0 .. MaxTries - 1],
    seen : [Depths -> Calls \cup {"absent"}], attempt : 0 .. 2, fine : BOOLEAN]
Ready == [pc |-> "ready", depth |-> 0, tries |-> [d \in Depths |-> 0],
    seen |-> [d \in Depths |-> "absent"], attempt |-> 0, fine |-> TRUE]

TypeOK ==
    /\ alive \subseteq Processes
    /\ lock \in [Depths -> Calls \cup {"absent", "torn"}]
    /\ {first, second, returned} \subseteq Markers
    /\ call \in [Calls -> CallRecord]
    /\ paid \in Nat

Init ==
    /\ alive = Processes
    /\ lock = [d \in Depths |-> "absent"]
    /\ first = "absent" /\ second = "absent" /\ returned = "absent"
    /\ call = [k \in Calls |-> Ready]
    /\ paid = 0

At(k, pc) == call[k].pc = pc
Goes(k, pc) == call' = [call EXCEPT ![k].pc = pc]
DepthOf(k) == call[k].depth
OwnerAlive(k) == ProcessOf[k] \in alive
MarkersUnchanged == UNCHANGED <<first, second, returned>>

-----------------------------------------------------------------------------
(* withExclusiveFileLock. *)

Begin(k) ==
    /\ At(k, "ready") /\ OwnerAlive(k)
    /\ Goes(k, "claim")
    /\ UNCHANGED <<alive, paid>> /\ UNCHANGED files

\* Exclusive creation; the content follows.
CreateLock(k) ==
    /\ At(k, "claim") /\ lock[DepthOf(k)] = "absent"
    /\ lock' = [lock EXCEPT ![DepthOf(k)] = "torn"]
    /\ Goes(k, "write")
    /\ UNCHANGED <<alive, paid>> /\ MarkersUnchanged

LockTaken(k) ==
    /\ At(k, "claim") /\ lock[DepthOf(k)] # "absent"
    /\ Goes(k, "occupied")
    /\ UNCHANGED <<alive, paid>> /\ UNCHANGED files

\* Holding lock 0 the call turns to its work, holding another to the recovery.
WriteLock(k) ==
    /\ At(k, "write")
    /\ lock' = [lock EXCEPT ![DepthOf(k)] = k]
    /\ Goes(k, IF DepthOf(k) = 0 THEN "returned" ELSE "recheck")
    /\ UNCHANGED <<alive, paid>> /\ MarkersUnchanged

\* The disk is full: the file stays, empty.
WriteLockFails(k) ==
    /\ At(k, "write")
    /\ Goes(k, "ended")
    /\ UNCHANGED <<alive, paid>> /\ UNCHANGED files

\* Mutant: the lock of a dead recovery is for ever.
ReadOwnerShallow(k) ==
    LET d == DepthOf(k)
        owner == lock[d]
        gone == owner \in Calls /\ ~OwnerAlive(owner)
    IN /\ At(k, "occupied")
       /\ \/ /\ gone /\ d = 0
             /\ call' = [call EXCEPT ![k].pc = "claim", ![k].depth = 1, 
                 ![k].seen[0] = owner, ![k].tries[1] = 0]
          \/ /\ ~gone \/ d > 0
             /\ Goes(k, "ended")
       /\ UNCHANGED <<alive, paid>> /\ UNCHANGED files

\* The lock existed a moment ago.  Only a lock whose owner is known to be gone is
\* recovered, under the lock of the next depth.
ReadOwner(k) ==
    LET d == DepthOf(k)
        owner == lock[d]
        gone == owner \in Calls /\ ~OwnerAlive(owner)
    IN /\ At(k, "occupied")
       /\ \/ /\ gone /\ d < MaxDepth
             /\ call' = [call EXCEPT ![k].pc = "claim", ![k].depth = d + 1,
                 ![k].seen[d] = owner, ![k].tries[d + 1] = 0]
          \/ /\ ~gone \/ d = MaxDepth
             /\ Goes(k, "ended")
       /\ UNCHANGED <<alive, paid>> /\ UNCHANGED files

\* Mutant: a recovery renames what it finds, without looking again.
RecheckBlindly(k) ==
    /\ At(k, "recheck")
    /\ Goes(k, "rename")
    /\ UNCHANGED <<alive, paid>> /\ UNCHANGED files

\* Under the recovery lock: is it still the lock of the dead owner?
Recheck(k) ==
    LET d == DepthOf(k) - 1 IN
    /\ At(k, "recheck")
    /\ call' = [call EXCEPT
           ![k].pc = IF lock[d] = call[k].seen[d] THEN "rename" ELSE "release",
           ![k].fine = lock[d] # "torn"]
    /\ UNCHANGED <<alive, paid>> /\ UNCHANGED files

RenameStale(k) ==
    /\ At(k, "rename")
    /\ lock' = [lock EXCEPT ![DepthOf(k) - 1] = "absent"]
    /\ Goes(k, "release")
    /\ UNCHANGED <<alive, paid>> /\ MarkersUnchanged

\* Where a call goes on that has given up its lock: back to the lock it wants.
Released(k) ==
    LET d == DepthOf(k) - 1 IN
    IF DepthOf(k) = 0 \/ ~call[k].fine \/ call[k].tries[d] + 1 = MaxTries
    THEN [call[k] EXCEPT !.pc = "ended"]
    ELSE [call[k] EXCEPT !.pc = "claim", !.depth = d, !.tries[d] = @ + 1]

Release(k) ==
    /\ At(k, "release")
    /\ call' = [call EXCEPT ![k] = IF lock[DepthOf(k)] = k
           THEN [call[k] EXCEPT !.pc = "unlink"] ELSE Released(k)]
    /\ UNCHANGED <<alive, paid>> /\ UNCHANGED files

Unlink(k) ==
    /\ At(k, "unlink")
    /\ lock' = [lock EXCEPT ![DepthOf(k)] = "absent"]
    /\ call' = [call EXCEPT ![k] = Released(k)]
    /\ UNCHANGED <<alive, paid>> /\ MarkersUnchanged

-----------------------------------------------------------------------------
(* callSellerProviderTwice, under lock 0. *)

\* Mutant: the answer of an earlier call is not looked for.
IgnoreReturned(k) ==
    /\ At(k, "returned")
    /\ Goes(k, "reserve")
    /\ UNCHANGED <<alive, paid>> /\ UNCHANGED files

CheckReturned(k) ==
    /\ At(k, "returned")
    /\ Goes(k, IF returned = "absent" THEN "reserve" ELSE "release")
    /\ UNCHANGED <<alive, paid>> /\ UNCHANGED files

\* Mutant: a retry does not need a marker of its own.
ReserveUncounted(k) ==
    /\ At(k, "reserve") /\ first = "whole"
    /\ call' = [call EXCEPT ![k].pc = "before", ![k].attempt = 1]
    /\ UNCHANGED <<alive, paid>> /\ UNCHANGED files

\* reserveSellerProviderAttempt: the first marker, or the second if there is a
\* first.  A marker that cannot be written completely ends the call.
ReserveFirst(k) ==
    /\ At(k, "reserve") /\ first = "absent"
    /\ \/ /\ first' = "whole"
          /\ call' = [call EXCEPT ![k].pc = "before", ![k].attempt = 1]
       \/ first' = "torn" /\ Goes(k, "release")
    /\ UNCHANGED <<alive, lock, second, returned, paid>>

ReserveSecond(k) ==
    /\ At(k, "reserve") /\ first = "whole" /\ second = "absent"
    /\ \/ /\ second' = "whole"
          /\ call' = [call EXCEPT ![k].pc = "before", ![k].attempt = 2]
       \/ second' = "torn" /\ Goes(k, "release")
    /\ UNCHANGED <<alive, lock, first, returned, paid>>

ReserveRefused(k) ==
    /\ At(k, "reserve") /\ first # "absent" /\ (first = "torn" \/ second # "absent")
    /\ Goes(k, "release")
    /\ UNCHANGED <<alive, paid>> /\ UNCHANGED files

\* beforeCall may find the production cancelled; the marker stays spent.
Pay(k) ==
    /\ At(k, "before")
    /\ \/ paid' = paid + 1 /\ Goes(k, "paying")
       \/ UNCHANGED paid /\ Goes(k, "release")
    /\ UNCHANGED alive /\ UNCHANGED files

\* beforeCall or the supplier fails: once more, if a marker is left.
SupplierFails(k) ==
    /\ call[k].pc \in {"before", "paying"}
    /\ Goes(k, IF call[k].attempt = 2 THEN "release" ELSE "reserve")
    /\ UNCHANGED <<alive, paid>> /\ UNCHANGED files

SupplierAnswers(k) ==
    /\ At(k, "paying")
    /\ Goes(k, "mark")
    /\ UNCHANGED <<alive, paid>> /\ UNCHANGED files

\* finalize runs on the answer; whatever becomes of it, the lock is released.
MarkReturned(k) ==
    /\ At(k, "mark")
    /\ \/ returned' = "whole"
       \/ returned' = "torn"
    /\ Goes(k, "release")
    /\ UNCHANGED <<alive, lock, first, second, paid>>

-----------------------------------------------------------------------------
Crash(p) ==
    /\ p \in alive
    /\ alive' = alive \ {p}
    /\ call' = [k \in Calls |-> IF ProcessOf[k] = p /\ ~At(k, "ready") /\ ~At(k, "ended")
           THEN [call[k] EXCEPT !.pc = "dead"] ELSE call[k]]
    /\ UNCHANGED paid /\ UNCHANGED files

Step(k) ==
    \/ CreateLock(k) \/ LockTaken(k) \/ WriteLock(k) \/ WriteLockFails(k) \/ ReadOwner(k)
    \/ Recheck(k) \/ RenameStale(k) \/ Release(k) \/ Unlink(k)
    \/ CheckReturned(k) \/ ReserveFirst(k) \/ ReserveSecond(k) \/ ReserveRefused(k)
    \/ Pay(k) \/ SupplierFails(k) \/ SupplierAnswers(k) \/ MarkReturned(k)

Next ==
    \/ \E k \in Calls : Begin(k) \/ Step(k)
    \/ \E p \in Processes : Crash(p)

Spec == Init /\ [][Next]_vars

\* A started call runs on while its process lives, and supplier calls time out.
FairSpec == Spec /\ \A k \in Calls : WF_vars(Step(k))

-----------------------------------------------------------------------------
Working(k) == call[k].pc \in {"returned", "reserve", "before", "paying", "mark"}

\* However many workers find the lock of a dead owner at once, and whatever dies
\* while it recovers, one call at a time deals with the supplier (73-77: "two
\* reclaimers could otherwise remove each other's newly acquired lock").
OneWorker == \A j, k \in Calls : Working(j) /\ Working(k) => j = k

\* Every paid call has a marker that was on disk before it, so that crashes,
\* retries and new processes together pay for two calls at most (5-6).
Spent(marker) == IF marker = "absent" THEN 0 ELSE 1
PaidIsCounted == paid <= Spent(first) + Spent(second)

\* Calls are counted and, by the types, recovery keeps to its tries and its depth,
\* whoever dies when (5-56, 101).
SpendingBounded == TypeOK /\ PaidIsCounted

\* After a supplier's answer is on record nobody pays for another one, whatever
\* failed after it (142-143).
NoCallAfterAnswer == [][paid' # paid => returned = "absent"]_vars

\* docs/SECURITY.md:32 "Supplier-operation recovery locks can themselves be
\* recovered after their owner exits": a call that meets only dead owners, at
\* however many depths, gets to work unless it dies, others interfere or the disk is full.
Quiet(k) == \A j \in Calls \ {k} : call[j].pc \in {"ready", "ended", "dead"}
MeetsDeadOwners(k) ==
    /\ At(k, "claim") /\ DepthOf(k) = 0 /\ call[k].tries[0] = 0 /\ Quiet(k)
    /\ \A d \in Depths : lock[d] # "torn"
    /\ \E d \in Depths : lock[d] = "absent"
DeadOwnersRecovered == \A k \in Calls : MeetsDeadOwners(k) ~>
    \/ Working(k) \/ At(k, "dead") \/ ~Quiet(k)
    \/ At(k, "ended") /\ \E d \in Depths : lock[d] = "torn"
=============================================================================
