----------------------------- MODULE JsonStore ------------------------------
(***************************************************************************)
(* The JSON file each process keeps its state in (json-store.mjs): the     *)
(* lock file that lets one process work at it, the queue of transactions,  *)
(* the temporary file that is renamed over it, and what a crash or a power *)
(* failure leaves.                                                         *)
(*                                                                         *)
(* The content of the file is the set of transactions whose effect is in   *)
(* it.  A process is one run of index.mjs or buyer-index.mjs; it starts    *)
(* once.                                                                   *)
(***************************************************************************)
EXTENDS Naturals, Sequences, FiniteSets

CONSTANTS
    Procs,            \* the processes that are ever started
    Txns,             \* the transactions they are ever asked for
    Overlap,          \* whether one is started while another still starts or leaves
    MaxPowerLosses    \* bound on power failures

ASSUME StoreAssumption ==
    /\ "none" \notin Procs /\ "absent" \notin Txns
    /\ Overlap \in BOOLEAN
    /\ MaxPowerLosses \in Nat

VARIABLES lock, proc, disk, maybe, asked, sure, losses

vars == <<lock, proc, disk, maybe, asked, sure, losses>>

-----------------------------------------------------------------------------
\* acquireProcessLock; at "held" the lock file was found, at "unlink" it is judged stale.
Acquiring == {"lock", "held", "unlink", "write"}
\* At work on the file.
Persisting == {"temp", "renamed", "synced"}
Working == {"load", "idle"} \cup Persisting
\* No file.
Absent == {"absent"}
Content == SUBSET Txns

\* ready: initialize() is over.  released: release() removed the lock.
Process == [pc : {"new", "dead"} \cup Acquiring \cup Working, att : 0 .. 1,
    ready : BOOLEAN, released : BOOLEAN, mem : Content, draft : Content, queue : Seq(Txns)]
Fresh == [pc |-> "new", att |-> 0, ready |-> FALSE, released |-> FALSE,
    mem |-> {}, draft |-> {}, queue |-> <<>>]
Dead == [Fresh EXCEPT !.pc = "dead"]

\* written: the pid is in the file.
NoLock == [owner |-> "none", written |-> FALSE]

TypeOK ==
    /\ lock \in [owner : Procs \cup {"none"}, written : BOOLEAN]
    /\ proc \in [Procs -> Process]
    /\ disk \in Content \cup {Absent}
    /\ maybe \subseteq Content \cup {Absent}
    /\ asked \subseteq Txns /\ sure \subseteq Txns
    /\ losses \in Nat

Init ==
    /\ lock = NoLock
    /\ proc = [p \in Procs |-> Fresh]
    /\ disk = Absent /\ maybe = {Absent}    \* what a power failure may leave of the file
    /\ asked = {} /\ sure = {}              \* history: requested, and reported as done
    /\ losses = 0

At(p, pc) == proc[p].pc = pc
Goes(p, pc) == proc' = [proc EXCEPT ![p].pc = pc]
Dies(p) == proc' = [proc EXCEPT ![p] = Dead]
Alive(p) == proc[p].pc \notin {"new", "dead"}
\* No other process starts or leaves meanwhile.
Apart(p) == Overlap \/ \A q \in Procs \ {p} : proc[q].pc \notin Acquiring /\ ~proc[q].released
file == <<disk, maybe>>
history == <<asked, sure, losses>>

-----------------------------------------------------------------------------
(* Start, lock, load. *)

Start(p) ==
    /\ At(p, "new")
    /\ Apart(p)
    /\ Goes(p, "lock")
    /\ UNCHANGED <<lock, file, history>>

\* open(file, "wx").
TakeLock(p) ==
    /\ At(p, "lock")
    /\ IF lock = NoLock
       THEN lock' = [owner |-> p, written |-> FALSE] /\ Goes(p, "write")
       ELSE Goes(p, "held") /\ UNCHANGED lock
    /\ UNCHANGED <<file, history>>

\* A file that is gone, empty or names a dead process is nobody's.
OwnerLives == lock.written /\ Alive(lock.owner)

ReadOwner(p) ==
    /\ At(p, "held")
    /\ IF OwnerLives THEN Dies(p) ELSE Goes(p, "unlink")
    /\ UNCHANGED <<lock, file, history>>

\* The file goes by its name, whoever's it is by now; two attempts in all.
Unlink(p) ==
    /\ At(p, "unlink")
    /\ lock' = NoLock
    /\ IF proc[p].att = 0
       THEN proc' = [proc EXCEPT ![p].pc = "lock", ![p].att = 1]
       ELSE Dies(p)
    /\ UNCHANGED <<file, history>>

\* The pid goes into the file that was opened, even if its name is gone.
WriteLock(p) ==
    /\ At(p, "write")
    /\ Goes(p, "load")
    /\ lock' = IF lock.owner = p THEN [lock EXCEPT !.written = TRUE] ELSE lock
    /\ UNCHANGED <<file, history>>

\* initialize(): the file, or the initial state, which is persisted at once.
Load(p) ==
    /\ At(p, "load")
    /\ proc' = IF disk = Absent
               THEN [proc EXCEPT ![p].pc = "temp"]
               ELSE [proc EXCEPT ![p].pc = "idle", ![p].ready = TRUE, ![p].mem = disk]
    /\ UNCHANGED <<lock, file, history>>

-----------------------------------------------------------------------------
(* transaction() and #persist(). *)

Ask(p, t) ==
    /\ proc[p].ready /\ t \notin asked
    /\ proc' = [proc EXCEPT ![p].queue = Append(@, t)]
    /\ asked' = asked \cup {t}
    /\ UNCHANGED <<lock, file, sure, losses>>

\* The draft is a clone of the state as the transaction before left it.
DraftOf(p) == proc[p].mem \cup {Head(proc[p].queue)}

Begin(p) ==
    /\ At(p, "idle") /\ proc[p].queue # <<>>
    /\ proc' = [proc EXCEPT ![p].pc = "temp", ![p].draft = DraftOf(p)]
    /\ UNCHANGED <<lock, file, history>>

Rename(p) ==
    /\ At(p, "temp")
    /\ disk' = proc[p].draft /\ maybe' = maybe \cup {proc[p].draft}
    /\ Goes(p, "renamed")
    /\ UNCHANGED <<lock, history>>

\* Mutant: the directory is not synchronised.
SyncNothing(p) ==
    /\ At(p, "renamed")
    /\ Goes(p, "synced")
    /\ UNCHANGED <<lock, file, history>>

SyncDirectory(p) ==
    /\ At(p, "renamed")
    /\ maybe' = {disk}
    /\ Goes(p, "synced")
    /\ UNCHANGED <<lock, disk, history>>

\* The answer of the transaction at the head: the next one follows, whatever it was.
Answers(p, mem) ==
    /\ proc[p].ready
    /\ proc' = [proc EXCEPT ![p].pc = "idle", ![p].mem = mem, ![p].draft = {}, ![p].queue = Tail(@)]

\* Mutant: the state in memory is not replaced.
CommitForgets(p) ==
    /\ At(p, "synced")
    /\ \/ Answers(p, proc[p].mem) /\ sure' = sure \cup {Head(proc[p].queue)}
       \/ /\ ~proc[p].ready
          /\ proc' = [proc EXCEPT ![p].pc = "idle", ![p].ready = TRUE]
          /\ UNCHANGED sure
    /\ UNCHANGED <<lock, file, asked, losses>>

Commit(p) ==
    /\ At(p, "synced")
    /\ \/ Answers(p, proc[p].draft) /\ sure' = sure \cup {Head(proc[p].queue)}
       \/ /\ ~proc[p].ready
          /\ proc' = [proc EXCEPT ![p].pc = "idle", ![p].ready = TRUE]
          /\ UNCHANGED sure
    /\ UNCHANGED <<lock, file, asked, losses>>

\* The mutator throws.
Throws(p) ==
    /\ At(p, "idle") /\ proc[p].queue # <<>>
    /\ Answers(p, proc[p].mem)
    /\ UNCHANGED <<lock, file, history>>

\* Any call of #persist fails, before or after the rename; the memory stays as it was.
\* A start that fails is over.
Fails(p) ==
    /\ proc[p].pc \in Persisting
    /\ Answers(p, proc[p].mem) \/ (~proc[p].ready /\ Dies(p))
    /\ UNCHANGED <<lock, file, history>>

-----------------------------------------------------------------------------
(* Shutdown, crash, power failure. *)

\* release() unlinks by name; the process leaves, and does its work until then.
Release(p) ==
    /\ proc[p].ready /\ ~proc[p].released /\ Apart(p)
    /\ lock' = NoLock
    /\ proc' = [proc EXCEPT ![p].released = TRUE]
    /\ UNCHANGED <<file, history>>

Crash(p) == Alive(p) /\ Dies(p) /\ UNCHANGED <<lock, file, history>>

PowerLoss ==
    /\ losses < MaxPowerLosses /\ losses' = losses + 1
    /\ proc' = [p \in Procs |-> IF Alive(p) THEN Dead ELSE proc[p]]
    /\ disk' \in maybe /\ maybe' = {disk'}
    /\ lock' \in {lock, [lock EXCEPT !.written = FALSE], NoLock}
    /\ UNCHANGED <<asked, sure>>

Acquire(p) == TakeLock(p) \/ ReadOwner(p) \/ Unlink(p) \/ WriteLock(p) \/ Load(p)
Persist(p) == Begin(p) \/ Rename(p) \/ SyncDirectory(p) \/ Commit(p) \/ Throws(p) \/ Fails(p)

Next ==
    \/ \E p \in Procs : Start(p) \/ Acquire(p) \/ Persist(p) \/ Release(p) \/ Crash(p)
    \/ \E p \in Procs, t \in Txns : Ask(p, t)
    \/ PowerLoss

Spec == Init /\ [][Next]_vars

\* A process that is not killed runs on.
FairSpec == Spec /\ \A p \in Procs : WF_vars(Persist(p))

-----------------------------------------------------------------------------
Workers == {p \in Procs : proc[p].pc \in Working}

\* "Buyer and Seller process locks prevent two local instances from executing the same
\* state files" (docs/SECURITY.md), acquireProcessLock: whichever process crashed where,
\* and whatever it left of the lock file, two never work at the file.
OneOwner == Cardinality(Workers) <= 1

\* json-store.mjs 41-71: what was reported as done is in the file, in whatever a power
\* failure may make of the file, and in the memory the next transaction starts from.
NothingReportedIsLost ==
    sure # {} =>
        /\ \A d \in maybe \cup {disk} : sure \subseteq d
        /\ \A p \in Procs : proc[p].ready => sure \subseteq proc[p].mem

StoreSound == TypeOK /\ OneOwner /\ NothingReportedIsLost

-----------------------------------------------------------------------------
Atomic == INSTANCE AtomicStore WITH
    value <- IF disk = Absent THEN {} ELSE disk,
    open <- {t \in Txns : \E p \in Procs : \E i \in DOMAIN proc[p].queue : proc[p].queue[i] = t}

\* JsonStore.transaction: with the queue, the renames and failures at every call, the
\* file behaves as one atomic store whose reported transactions survive any crash, and
\* a failing transaction never keeps the later ones waiting.
ImplementsAtomicStore == Atomic!AtomicSpec
=============================================================================
