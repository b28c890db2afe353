----------------------------- MODULE HypitBuild ------------------------------
(***************************************************************************)
(* One order's Hypit Build in its container (docker-hypit-runner.mjs,      *)
(* start and resume of hypit-adapter.mjs), from the compiled commission to *)
(* the recorded result: the container and its volume, the Build inside it, *)
(* the marker files and the exported artifacts on the host.                *)
(*                                                                         *)
(* The Docker daemon outlives the Seller.  Paid orders are only produced   *)
(* in containers.  Stopping an order is the matter of SellerOrders.        *)
(***************************************************************************)
EXTENDS Naturals

CONSTANTS
    MaxFaults,      \* bound on crashes of the Seller, failing commands, stopping containers
    MaxRetries      \* bound on the operator's retries

ASSUME BuildAssumption == {MaxFaults, MaxRetries} \subseteq Nat

VARIABLES container, volume, build, marker, export, prod, run, bound, builds

vars == <<container, volume, build, marker, export, prod, run, bound, builds>>
docker == <<container, volume, build>>

-----------------------------------------------------------------------------
\* The deliverable, which is hashed as it is, and the commission receipt, which is parsed.
Items == {"video", "receipt"}
\* unfit: whole, and not what was ordered.
FileStates == {"none", "torn", "unfit", "whole"}

\* start() and resume(), up to the transaction that records the result.
Commands == {"check", "build", "status", "get"}
Steps == {"idle", "start", "mark", "receipt", "record", "discard", "copy", "read",
    "cleanup", "complete"} \cup Commands
\* #ensureContainer before a command; undo and scrap remove the container, the volume.
Worker == {"inspect", "volume", "launch", "copy", "ready", "undo", "scrap"}
\* production.error.code by what retryProduction makes of it.
Errors == {"none", "command", "uncertain", "incomplete", "other"}

\* fresh: newVolume.  start: the claim was of a queued order.  again: the one free retry
\* is used up.  blind, history: what #ensureContainer did not find, though it may be there.
Run == [pc : Steps, worker : Worker, fresh : BOOLEAN, blind : SUBSET {"container", "volume"},
    item : Items, start : BOOLEAN, again : BOOLEAN, digest : FileStates]
Idle == [pc |-> "idle", worker |-> "inspect", fresh |-> FALSE, blind |-> {}, item |-> "video",
    start |-> FALSE, again |-> FALSE, digest |-> "none"]

\* digest, result: what the deliverable was when it was hashed.
Production == [st : {"queued", "producing", "failed", "completed"}, id : BOOLEAN,
    err : Errors, result : FileStates]

TypeOK ==
    /\ container \in {"none", "running", "stopped"}
    /\ volume \in {"none", "empty", "torn", "job"}    \* torn: a part of the job directory
    \* killed: its container went while it worked.  lost: its volume is gone.
    /\ build \in {"none", "running", "killed", "complete", "failed", "lost"}
    /\ marker \in [{"attempt", "receipt"} -> BOOLEAN]
    /\ export \in [Items -> FileStates]
    /\ prod \in Production
    /\ run \in Run
    /\ bound \in [{"faults", "retries"} -> Nat]
    /\ builds \in Nat                          \* history: Builds begun

Init ==
    /\ container = "none" /\ volume = "none" /\ build = "none"
    /\ marker = [m \in {"attempt", "receipt"} |-> FALSE]
    /\ export = [i \in Items |-> "none"]
    /\ prod = [st |-> "queued", id |-> FALSE, err |-> "none", result |-> "none"]
    /\ run = Idle
    /\ bound = [b \in {"faults", "retries"} |-> 0]
    /\ builds = 0

At(pc) == run.pc = pc
Goes(pc) == run' = [run EXCEPT !.pc = pc, !.worker = "inspect", !.fresh = FALSE, !.blind = {}]
Counts(b, max) == bound[b] < max /\ bound' = [bound EXCEPT ![b] = @ + 1]
files == <<marker, export>>

\* The production task ends with an error.
Ends(err) == run' = Idle /\ prod' = [prod EXCEPT !.st = "failed", !.err = err]

\* A failed command is tried once more when no Build can have been begun, or when one
\* is only watched.
FreeRetry == IF prod.id THEN TRUE ELSE run.start /\ marker = [m \in DOMAIN marker |-> FALSE]
CommandFails ==
    IF FreeRetry /\ ~run.again
    THEN /\ run' = [Idle EXCEPT !.pc = IF prod.id THEN "status" ELSE "start",
                        !.start = run.start, !.again = TRUE]
         /\ UNCHANGED prod
    ELSE Ends("command")

-----------------------------------------------------------------------------
(* SellerService: claim, retry. *)

Claim ==
    /\ At("idle") /\ prod.st \in {"queued", "producing"}
    /\ run' = [Idle EXCEPT !.pc = IF prod.id THEN "status" ELSE "start",
                   !.start = prod.st = "queued"]
    /\ prod' = [prod EXCEPT !.st = "producing"]
    /\ UNCHANGED <<docker, files, bound, builds>>

RetryAllowed ==
    \/ prod.id
    \/ prod.err \notin {"command", "uncertain"}
    \/ prod.err = "command" /\ ~marker["attempt"] /\ ~marker["receipt"]

RetryProduction ==
    /\ At("idle") /\ prod.st = "failed" /\ RetryAllowed
    /\ Counts("retries", MaxRetries)
    /\ prod' = [prod EXCEPT !.st = "queued", !.err = "none",
                    !.id = prod.id /\ prod.err # "incomplete"]
    /\ UNCHANGED <<docker, files, run, builds>>

-----------------------------------------------------------------------------
(* #ensureContainer.  Whatever goes wrong in an inspect is taken for "there is none". *)

\* An artifact that is there needs no command.
Fetched == At("get") /\ export[run.item] # "none"
Ensuring(step) == run.pc \in Commands /\ ~Fetched /\ run.worker = step
Worked(step) == run' = [run EXCEPT !.worker = step]

\* The runtime profile in the job directory cannot be read, written or is another.
PrepareFails ==
    /\ Ensuring("inspect")
    /\ Counts("faults", MaxFaults)
    /\ Ends("other")
    /\ UNCHANGED <<docker, files, builds>>

Inspect ==
    /\ Ensuring("inspect")
    /\ IF container = "running"
       THEN Worked("ready") /\ UNCHANGED container
       ELSE Worked("volume") /\ container' = "none"
    /\ UNCHANGED <<volume, build, files, prod, bound, builds>>

\* The inspect of a container that is there, or its removal, fails and is ignored.
InspectFails ==
    /\ Ensuring("inspect") /\ container # "none"
    /\ Counts("faults", MaxFaults)
    /\ run' = [run EXCEPT !.worker = "volume", !.blind = @ \cup {"container"}]
    /\ UNCHANGED <<docker, files, prod, builds>>

FindVolume ==
    /\ Ensuring("volume") /\ volume # "none"
    /\ run' = [run EXCEPT !.worker = "launch", !.fresh = FALSE]
    /\ UNCHANGED <<docker, files, prod, bound, builds>>

\* Creating what is there succeeds and changes nothing; it counts as made here.
CreateVolume ==
    /\ Ensuring("volume")
    /\ \/ volume = "none" /\ volume' = "empty" /\ UNCHANGED bound
       \/ volume # "none" /\ Counts("faults", MaxFaults) /\ UNCHANGED volume
    /\ run' = [run EXCEPT !.worker = "launch", !.fresh = TRUE,
                   !.blind = IF volume = "none" THEN @ ELSE @ \cup {"volume"}]
    /\ UNCHANGED <<container, build, files, prod, builds>>

\* Nothing is undone, should the volume have been made.
CreateFails ==
    /\ Ensuring("volume")
    /\ Counts("faults", MaxFaults)
    /\ volume' \in {volume} \cup {v \in {"empty"} : volume = "none"}
    /\ Ends("other")
    /\ UNCHANGED <<container, build, files, builds>>

Launch ==
    /\ Ensuring("launch") /\ container = "none"
    /\ container' = "running"
    /\ Worked(IF run.fresh THEN "copy" ELSE "ready")
    /\ UNCHANGED <<volume, build, files, prod, bound, builds>>

\* The name is taken.
RunRefused ==
    /\ Ensuring("launch") /\ container # "none"
    /\ Worked("undo")
    /\ UNCHANGED <<docker, files, prod, bound, builds>>

\* The run fails, perhaps after the container has been made or has come up.
RunFails ==
    /\ Ensuring("launch") /\ container = "none"
    /\ Counts("faults", MaxFaults)
    /\ container' \in {"none", "running", "stopped"}
    /\ Worked("undo")
    /\ UNCHANGED <<volume, build, files, prod, builds>>

\* Into a directory that is there already, docker cp puts the copy inside it.
CopyJob ==
    /\ Ensuring("copy")
    /\ volume' = IF volume = "empty" THEN "job" ELSE volume
    /\ Worked("ready")
    /\ UNCHANGED <<container, build, files, prod, bound, builds>>

\* How a copy that is cut off leaves the volume.
CutOff == volume' \in {volume} \cup {v \in {"torn"} : volume = "empty" /\ Ensuring("copy")}

CopyFails ==
    /\ Ensuring("copy")
    /\ Counts("faults", MaxFaults)
    /\ CutOff
    /\ Worked("undo")
    /\ UNCHANGED <<container, build, files, prod, builds>>

-----------------------------------------------------------------------------
(* The catch of #ensureContainer, and cleanup().  Failures are ignored. *)

Cleaning == run.pc \in {"discard", "cleanup"}

\* docker rm --force: a Build that works in the container is killed.
RemoveContainer ==
    /\ run.worker = "undo" \/ (Cleaning /\ run.worker = "inspect")
    /\ \/ container' = "none" /\ build' = IF build = "running" THEN "killed" ELSE build
       \/ UNCHANGED <<container, build>>
    /\ Worked("scrap")
    /\ UNCHANGED <<volume, files, prod, bound, builds>>

Removed ==
    /\ CASE At("cleanup") -> Goes("complete") /\ UNCHANGED prod
         [] At("discard") -> Ends("incomplete")
         [] OTHER -> Ends("other")
    /\ UNCHANGED <<container, files, bound, builds>>

\* docker volume rm, which leaves a volume that a container uses.
Scrapped ==
    \/ container = "none" /\ volume' = "none" /\ build' = IF build = "none" THEN "none" ELSE "lost"
    \/ UNCHANGED <<volume, build>>

\* Mutant: whatever is there goes, not only what was made here.
RemoveAnyVolume == run.worker = "scrap" /\ Scrapped /\ Removed

RemoveVolume ==
    /\ run.worker = "scrap"
    /\ IF run.fresh \/ Cleaning THEN Scrapped ELSE UNCHANGED <<volume, build>>
    /\ Removed

-----------------------------------------------------------------------------
(* start(). *)

\* By the markers: a Build that is known is taken up, one that may exist is not begun again.
Start ==
    /\ At("start")
    /\ IF marker["receipt"] THEN Goes("record") /\ UNCHANGED prod
       ELSE IF marker["attempt"] THEN Ends("uncertain")
       ELSE Goes("check") /\ UNCHANGED prod
    /\ UNCHANGED <<docker, files, bound, builds>>

Ready(command) == At(command) /\ run.worker = "ready"
Usable == container = "running" /\ volume = "job"

\* check and plan.
Check ==
    /\ Ready("check")
    /\ IF Usable THEN Goes("mark") /\ UNCHANGED prod ELSE CommandFails
    /\ UNCHANGED <<docker, files, bound, builds>>

WriteAttempt ==
    /\ At("mark")
    /\ marker' = [marker EXCEPT !["attempt"] = TRUE]
    /\ Goes("build")
    /\ UNCHANGED <<docker, export, prod, bound, builds>>

Build ==
    /\ Ready("build")
    /\ IF Usable
       THEN build' = "running" /\ builds' = builds + 1 /\ Goes("receipt") /\ UNCHANGED prod
       ELSE CommandFails /\ UNCHANGED <<build, builds>>
    /\ UNCHANGED <<container, volume, files, bound>>

\* The Build was begun and its answer is lost.
BuildUnanswered ==
    /\ Ready("build") /\ Usable
    /\ Counts("faults", MaxFaults)
    /\ build' = "running" /\ builds' = builds + 1
    /\ CommandFails
    /\ UNCHANGED <<container, volume, files>>

WriteReceipt ==
    /\ At("receipt")
    /\ marker' = [marker EXCEPT !["receipt"] = TRUE]
    /\ Goes("record")
    /\ UNCHANGED <<docker, export, prod, bound, builds>>

RecordBuildId ==
    /\ At("record")
    /\ prod' = [prod EXCEPT !.id = TRUE]
    /\ run' = [run EXCEPT !.pc = "status", !.worker = "inspect", !.again = FALSE]
    /\ UNCHANGED <<docker, files, bound, builds>>

-----------------------------------------------------------------------------
(* resume(). *)

\* status --watch, which knows only what is in the volume.
Status ==
    /\ Ready("status")
    /\ \/ /\ Usable /\ build = "complete"
          /\ Goes("get") /\ UNCHANGED prod
       \/ /\ Usable /\ build = "failed"
          /\ Goes("discard") /\ UNCHANGED prod
       \/ /\ Usable /\ build \in {"running", "killed"}    \* no outcome: the poll comes back
          /\ run' = Idle /\ UNCHANGED prod
       \/ /\ ~Usable \/ build \in {"none", "lost"}
          /\ CommandFails
    /\ UNCHANGED <<docker, files, bound, builds>>

\* A command ends without its effect.
AnyCommandFails ==
    /\ \E c \in Commands : Ready(c)
    /\ Counts("faults", MaxFaults)
    /\ CommandFails
    /\ UNCHANGED <<docker, files, builds>>

Get ==
    /\ At("get")
    /\ \/ Fetched /\ Goes("read") /\ UNCHANGED <<prod, export>>
       \/ /\ ~Fetched /\ Ready("get")
          /\ IF Usable /\ build = "complete"
             THEN Goes("copy") /\ export' = [export EXCEPT ![run.item] = "torn"] /\ UNCHANGED prod
             ELSE CommandFails /\ UNCHANGED export
    /\ UNCHANGED <<docker, marker, bound, builds>>

\* docker cp, into the artifact's own name, of whatever the Build has made.
CopyOut ==
    /\ At("copy")
    /\ \E made \in {"whole", "unfit"} : export' = [export EXCEPT ![run.item] = made]
    /\ Goes("read")
    /\ UNCHANGED <<docker, marker, prod, bound, builds>>

CopyOutFails ==
    /\ At("copy")
    /\ Counts("faults", MaxFaults)
    /\ CommandFails
    /\ UNCHANGED <<docker, files, builds>>

Read ==
    /\ At("read")
    /\ IF run.item = "video"
       THEN /\ run' = [run EXCEPT !.pc = "get", !.worker = "inspect", !.item = "receipt",
                          !.digest = export["video"]]
            /\ UNCHANGED prod
       ELSE IF export["receipt"] = "whole" THEN Goes("cleanup") /\ UNCHANGED prod
       ELSE Ends("other")
    /\ UNCHANGED <<docker, files, bound, builds>>

Complete ==
    /\ At("complete")
    /\ run' = Idle
    /\ prod' = [prod EXCEPT !.st = "completed", !.id = TRUE, !.err = "none",
                    !.result = run.digest]
    /\ UNCHANGED <<docker, files, bound, builds>>

-----------------------------------------------------------------------------
(* The Build inside the container, the daemon, the crash. *)

BuildEnds ==
    /\ build = "running" /\ container = "running"
    /\ build' \in {"complete", "failed"}
    /\ UNCHANGED <<container, volume, files, prod, run, bound, builds>>

\* A container runs only what is executed in it.  What a status command makes of a killed
\* Build is Hypit's affair: it may never take it up.
BuildTaken ==
    /\ build = "killed" /\ Ready("status") /\ Usable
    /\ build' \in {"running", "failed"}
    /\ UNCHANGED <<container, volume, files, prod, run, bound, builds>>

ContainerStops ==
    /\ container = "running"
    /\ Counts("faults", MaxFaults)
    /\ container' = "stopped"
    /\ build' = IF build = "running" THEN "killed" ELSE build
    /\ UNCHANGED <<volume, files, prod, run, builds>>

\* A copy that is under way stays as far as it came.
Crash ==
    /\ Counts("faults", MaxFaults)
    /\ run' = Idle
    /\ CutOff
    /\ UNCHANGED <<container, build, files, prod, builds>>

Find == PrepareFails \/ Inspect \/ InspectFails \/ FindVolume \/ CreateVolume \/ CreateFails
Bring == Launch \/ RunRefused \/ RunFails \/ CopyJob \/ CopyFails
Ensure == Find \/ Bring \/ RemoveContainer \/ RemoveVolume
Submit == Start \/ Check \/ WriteAttempt \/ Build \/ BuildUnanswered \/ WriteReceipt \/ RecordBuildId
Resume == Status \/ Get \/ CopyOut \/ CopyOutFails \/ Read \/ Complete
Task == Claim \/ Ensure \/ Submit \/ Resume \/ AnyCommandFails

Next == Task \/ RetryProduction \/ BuildEnds \/ BuildTaken \/ ContainerStops \/ Crash

Spec == Init /\ [][Next]_vars
-----------------------------------------------------------------------------
\* start() with its markers (hypit-adapter.mjs 609-634): over crashes, lost answers, free
\* and operator retries one order never begins two Builds.
OneBuild == builds <= 1

\* A completed order has its receipt whole, and the recorded digest is that of the file
\* the Buyer will be given, which nothing touches any more (hypit-adapter.mjs 783-866).
ResultStands ==
    prod.st = "completed" =>
        export["receipt"] = "whole" /\ prod.result = export["video"] /\ prod.result # "none"

BuildSound == TypeOK /\ OneBuild /\ ResultStands

\* A Build is lost only when it has failed or when what it made is on the host, the video
\* perhaps torn, the receipt whole; and it is killed only by its container.  The exception
\* is what the code knows nothing of: a volume or a container of this order that an
\* inspect has just failed to find (docker-hypit-runner.mjs 198-206 and 222-268).
BuildKept == [][
    /\ build' = "lost" =>
        \/ build \in {"failed", "lost"} \/ "volume" \in run.blind
        \/ build = "complete" /\ export["video"] # "none" /\ export["receipt"] = "whole"
    /\ build = "running" /\ build' = "killed" =>
        container' = "stopped" \/ "container" \in run.blind]_vars
=============================================================================
