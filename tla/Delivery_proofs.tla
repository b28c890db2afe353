--------------------------- MODULE Delivery_proofs ----------------------------
(***************************************************************************)
(* Proofs about HypitBuild, for any bounds on crashes, faults and retries, *)
(* and about Delivery, for any clients: one Build per order, the recorded  *)
(* result, and when a paid Build may be lost; the same beside a Buyer, and *)
(* a package on record that stands for the Seller's delivery.              *)
(***************************************************************************)
EXTENDS Delivery, TLAPS

-----------------------------------------------------------------------------
(* The Build alone. *)

\* What the markers and the record say of the Build, by where the task stands.
Submitting == {"start", "check", "mark", "build", "receipt", "record"}
Marked ==
    /\ builds <= 1
    /\ ~marker["attempt"] => builds = 0
    /\ run.pc # "idle" => prod.st = "producing"
    /\ run.pc \in Submitting => ~prod.id
    /\ run.pc \in {"check", "mark"} => ~marker["attempt"]
    /\ run.pc = "build" => marker["attempt"] /\ builds = 0
    /\ run.pc = "receipt" => marker["attempt"]

\* What is on the host, and what was hashed.
Hashed == run.digest = export["video"] /\ run.digest # "none"
Exported ==
    /\ ResultStands
    /\ run.item = "receipt" => run.pc \in {"get", "copy", "read", "cleanup", "complete"} /\ Hashed
    /\ run.pc \in {"copy", "read"} => export[run.item] # "none"
    /\ run.pc \in {"cleanup", "complete"} => run.item = "receipt" /\ export["receipt"] = "whole"

\* A Build lives in a volume with the whole job directory and works while its container
\* runs.  A volume that was missing and has been made since holds no Build; a container
\* that was missing is none in which a Build works.
Fresh ==
    /\ run.pc \in Commands /\ run.worker \in {"launch", "copy", "undo", "scrap"}
    /\ run.fresh /\ "volume" \notin run.blind
Unseen == run.worker \in {"volume", "launch", "copy", "undo", "scrap"} /\ "container" \notin run.blind
Kept ==
    /\ volume # "job" => build \in {"none", "lost"}
    /\ build = "running" => container = "running"
    /\ run.worker # "inspect" => run.pc \in Commands \cup {"discard", "cleanup"}
    /\ run.worker = "undo" => run.pc \in Commands
    /\ Fresh => volume # "job"
    /\ Unseen => build # "running"
    /\ run.pc = "discard" => build = "failed"
    /\ run.pc \in {"get", "copy", "read", "cleanup"} => build = "complete"

IInv == TypeOK /\ Marked /\ Exported /\ Kept

-----------------------------------------------------------------------------
(* Where the task goes. *)

LEMMA IdleTyped ==
    /\ Idle \in Run /\ Idle.pc = "idle" /\ Idle.item = "video" /\ Idle.digest = "none"
    /\ Idle.worker = "inspect"
  BY DEF Idle, Run, Steps, Worker, Items, FileStates

LEMMA GoesAt ==
    ASSUME TypeOK, NEW pc \in Steps, Goes(pc)
    PROVE  /\ run' \in Run /\ run'.pc = pc /\ run'.item = run.item /\ run'.digest = run.digest
           /\ run'.worker = "inspect"
  BY DEF TypeOK, Goes, Run, Worker

LEMMA WorkedAt ==
    ASSUME TypeOK, NEW step \in Worker, Worked(step)
    PROVE  /\ run' \in Run /\ run'.pc = run.pc /\ run'.item = run.item
           /\ run'.digest = run.digest /\ run'.worker = step
           /\ run'.fresh = run.fresh /\ run'.blind = run.blind
  BY DEF TypeOK, Worked, Run

LEMMA EndsAt ==
    ASSUME TypeOK, NEW err \in Errors, Ends(err)
    PROVE  run' = Idle /\ prod' \in Production /\ prod'.st = "failed" /\ prod'.id = prod.id
  BY DEF TypeOK, Ends, Production

LEMMA CountsTyped ==
    ASSUME TypeOK, NEW b \in {"faults", "retries"}, NEW max, Counts(b, max)
    PROVE  bound' \in [{"faults", "retries"} -> Nat]
  BY DEF TypeOK, Counts

Containers == {"none", "running", "stopped"}
Volumes == {"none", "empty", "torn", "job"}
Builds == {"none", "running", "killed", "complete", "failed", "lost"}
Bounds == [{"faults", "retries"} -> Nat]

\* A task that is over needs nothing of the files and the worker.
LEMMA IdleKeeps ==
    ASSUME IInv, run' = Idle, prod' \in Production, prod'.st # "completed",
           UNCHANGED <<marker, export, builds>>, container' \in Containers,
           volume' \in Volumes, build' \in Builds, bound' \in Bounds,
           volume' # "job" => build' \in {"none", "lost"},
           build' = "running" => container' = "running"
    PROVE  IInv'
<1>1. TypeOK'
  BY IdleTyped DEF IInv, TypeOK, Containers, Volumes, Builds, Bounds
<1>2. Marked'
  BY IdleTyped DEF IInv, Marked, Submitting
<1>3. Exported'
  BY IdleTyped DEF IInv, Exported, ResultStands
<1>4. Kept'
  BY IdleTyped DEF Kept, Fresh, Unseen
<1> QED
  BY <1>1, <1>2, <1>3, <1>4 DEF IInv

LEMMA EndsKeeps ==
    ASSUME IInv, NEW err \in Errors, Ends(err), UNCHANGED <<docker, files, builds>>,
           bound' \in Bounds
    PROVE  IInv'
<1>1. run' = Idle /\ prod' \in Production /\ prod'.st # "completed"
  BY EndsAt DEF IInv
<1> QED
  BY <1>1, IdleKeeps DEF IInv, TypeOK, Kept, docker, files, Containers, Volumes, Builds

LEMMA CommandFailsKeeps ==
    ASSUME IInv, CommandFails, UNCHANGED <<docker, files, builds>>,
           run.pc # "idle", bound' \in Bounds
    PROVE  IInv'
<1>1. CASE Ends("command")
  BY <1>1, EndsKeeps DEF Errors
<1>2. CASE /\ FreeRetry /\ UNCHANGED prod
           /\ run' = [Idle EXCEPT !.pc = IF prod.id THEN "status" ELSE "start",
                          !.start = run.start, !.again = TRUE]
  <2>1. /\ run' \in Run /\ run'.pc = IF prod.id THEN "status" ELSE "start"
        /\ run'.item = "video" /\ run'.worker = "inspect"
    BY <1>2, IdleTyped DEF IInv, TypeOK, Run, Steps, Commands
  <2>2. TypeOK'
    BY <1>2, <2>1 DEF IInv, TypeOK, docker, files, Bounds
  <2>3. Marked'
    BY <1>2, <2>1 DEF IInv, Marked, Submitting, files
  <2>4. Exported'
    BY <1>2, <2>1 DEF IInv, Exported, ResultStands, files
  <2>5. Kept'
    BY <1>2, <2>1 DEF IInv, Kept, Fresh, Unseen, docker
  <2> QED
    BY <2>2, <2>3, <2>4, <2>5 DEF IInv
<1> QED
  BY <1>1, <1>2 DEF CommandFails

\* A step on to another place that changes no file, container or record.
LEMMA GoesKeeps ==
    ASSUME IInv, NEW pc \in Steps, Goes(pc), UNCHANGED <<docker, files, builds, bound, prod>>,
           run.pc # "idle", pc \in Submitting => run.pc \in Submitting,
           pc \in {"check", "mark"} => ~marker["attempt"],
           pc = "build" => marker["attempt"] /\ builds = 0,
           pc = "receipt" => marker["attempt"],
           run.item = "receipt" => pc \in {"get", "copy", "read", "cleanup", "complete"},
           pc \in {"copy", "read"} => export[run.item] # "none",
           pc \in {"cleanup", "complete"} => run.item = "receipt" /\ export["receipt"] = "whole",
           pc = "discard" => build = "failed",
           pc \in {"get", "copy", "read", "cleanup"} => build = "complete"
    PROVE  IInv'
<1>1. /\ run' \in Run /\ run'.pc = pc /\ run'.item = run.item /\ run'.digest = run.digest
      /\ run'.worker = "inspect"
  BY GoesAt DEF IInv
<1>2. TypeOK'
  BY <1>1 DEF IInv, TypeOK, docker, files
<1>3. Marked'
  BY <1>1 DEF IInv, Marked, Submitting, files
<1>4. Exported'
  BY <1>1 DEF IInv, Exported, ResultStands, Hashed, files
<1>5. Kept'
  BY <1>1 DEF IInv, Kept, Fresh, Unseen, docker
<1> QED
  BY <1>2, <1>3, <1>4, <1>5 DEF IInv

-----------------------------------------------------------------------------
(* The claim, the retry and the container. *)

LEMMA ClaimKeeps == ASSUME IInv, Claim PROVE IInv'
<1>1. /\ run' = [Idle EXCEPT !.pc = IF prod.id THEN "status" ELSE "start",
                     !.start = prod.st = "queued"]
      /\ prod' = [prod EXCEPT !.st = "producing"] /\ prod \in Production
      /\ UNCHANGED <<container, volume, build, marker, export, bound, builds>>
  BY DEF Claim, IInv, TypeOK, docker, files
<1>2. /\ run' \in Run /\ run'.pc = (IF prod.id THEN "status" ELSE "start")
      /\ run'.item = "video" /\ run'.worker = "inspect"
  BY <1>1, IdleTyped DEF Run, Steps, Commands
<1>3. prod' \in Production /\ prod'.st = "producing" /\ prod'.id = prod.id
  BY <1>1 DEF Production
<1>4. TypeOK'
  BY <1>1, <1>2, <1>3 DEF IInv, TypeOK
<1>5. Marked'
  BY <1>1, <1>2, <1>3 DEF IInv, Marked, Submitting
<1>6. Exported'
  BY <1>1, <1>2, <1>3 DEF IInv, Exported, ResultStands
<1>7. Kept'
  BY <1>1, <1>2 DEF IInv, Kept, Fresh, Unseen
<1> QED
  BY <1>4, <1>5, <1>6, <1>7 DEF IInv

LEMMA RetryProductionKeeps == ASSUME IInv, RetryProduction PROVE IInv'
<1>1. /\ bound' \in Bounds /\ prod \in Production
      /\ prod' = [prod EXCEPT !.st = "queued", !.err = "none", !.id = prod.id /\ prod.err # "incomplete"]
  BY CountsTyped DEF Bounds, IInv, TypeOK, RetryProduction
<1>2. prod' \in Production /\ prod'.st = "queued"
  BY <1>1 DEF Production, Errors
<1>3. run.pc = "idle" /\ UNCHANGED <<container, volume, build, marker, export, run, builds>>
  BY DEF RetryProduction, At, docker, files
<1>4. TypeOK'
  BY <1>1, <1>2, <1>3 DEF IInv, TypeOK, Bounds
<1>5. Marked'
  BY <1>3 DEF IInv, Marked, Submitting
<1>6. Exported'
  BY <1>2, <1>3 DEF IInv, Exported, ResultStands, Hashed
<1>7. Kept'
  BY <1>3 DEF IInv, Kept, Fresh, Unseen
<1> QED
  BY <1>4, <1>5, <1>6, <1>7 DEF IInv

\* #ensureContainer, at whichever command it is asked for: what is left is how its step
\* leaves the container and the volume.
LEMMA WorkedKeeps ==
    ASSUME IInv, UNCHANGED <<marker, export, prod, builds>>, bound' \in Bounds,
           container' \in Containers, volume' \in Volumes, build' \in Builds,
           run' \in Run, run'.pc = run.pc, run'.item = run.item, run'.digest = run.digest,
           Kept'
    PROVE  IInv'
<1>1. TypeOK'
  BY DEF IInv, TypeOK, Containers, Volumes, Builds, Bounds
<1>2. Marked'
  BY DEF IInv, Marked, Submitting
<1>3. Exported'
  BY DEF IInv, Exported, ResultStands, Hashed
<1> QED
  BY <1>1, <1>2, <1>3 DEF IInv

LEMMA DockerTyped ==
    ASSUME IInv
    PROVE  container \in Containers /\ volume \in Volumes /\ build \in Builds /\ bound \in Bounds
  BY DEF IInv, TypeOK, Containers, Volumes, Builds, Bounds

LEMMA PrepareFailsKeeps == ASSUME IInv, PrepareFails PROVE IInv'
  BY EndsKeeps, CountsTyped DEF PrepareFails, Errors, Bounds, IInv

LEMMA InspectKeeps == ASSUME IInv, Inspect PROVE IInv'
<1>1. /\ UNCHANGED <<volume, build, marker, export, prod, bound, builds>>
      /\ run.pc \in Commands /\ run.worker = "inspect" /\ container' \in Containers
      /\ \/ container' = "running" /\ container = "running" /\ Worked("ready")
         \/ container # "running" /\ Worked("volume")
  BY DockerTyped DEF Inspect, Ensuring, files, Containers
<1>2. /\ run' \in Run /\ run'.pc = run.pc /\ run'.item = run.item /\ run'.digest = run.digest
      /\ \/ container' = "running" /\ run'.worker = "ready"
         \/ build # "running" /\ run'.worker = "volume"
  BY <1>1, WorkedAt DEF IInv, Kept, Worker
<1>3. Kept'
  BY <1>1, <1>2 DEF IInv, Kept, Fresh, Unseen
<1> QED
  BY <1>1, <1>2, <1>3, DockerTyped, WorkedKeeps

LEMMA InspectFailsKeeps == ASSUME IInv, InspectFails PROVE IInv'
<1>1. /\ UNCHANGED <<container, volume, build, marker, export, prod, builds>>
      /\ run.pc \in Commands /\ bound' \in Bounds
      /\ run' = [run EXCEPT !.worker = "volume", !.blind = @ \cup {"container"}]
  BY CountsTyped DEF Bounds, IInv, InspectFails, Ensuring, docker, files
<1>2. /\ run' \in Run /\ run'.pc = run.pc /\ run'.item = run.item /\ run'.digest = run.digest
      /\ run'.worker = "volume" /\ "container" \in run'.blind
  BY <1>1 DEF IInv, TypeOK, Run, Worker
<1>3. Kept'
  BY <1>1, <1>2 DEF IInv, Kept, Fresh, Unseen
<1> QED
  BY <1>1, <1>2, <1>3, DockerTyped, WorkedKeeps

LEMMA FindVolumeKeeps == ASSUME IInv, FindVolume PROVE IInv'
<1>1. /\ UNCHANGED <<container, volume, build, marker, export, prod, bound, builds>>
      /\ run.pc \in Commands /\ run.worker = "volume"
      /\ run' = [run EXCEPT !.worker = "launch", !.fresh = FALSE]
  BY DEF FindVolume, Ensuring, docker, files
<1>2. /\ run' \in Run /\ run'.pc = run.pc /\ run'.item = run.item /\ run'.digest = run.digest
      /\ run'.worker = "launch" /\ ~run'.fresh /\ run'.blind = run.blind
  BY <1>1 DEF IInv, TypeOK, Run, Worker
<1>3. Kept'
  BY <1>1, <1>2 DEF IInv, Kept, Fresh, Unseen
<1> QED
  BY <1>1, <1>2, <1>3, DockerTyped, WorkedKeeps

LEMMA CreateVolumeKeeps == ASSUME IInv, CreateVolume PROVE IInv'
<1>1. /\ UNCHANGED <<container, build, marker, export, prod, builds>>
      /\ run.pc \in Commands /\ run.worker = "volume" /\ bound' \in Bounds
      /\ volume' = (IF volume = "none" THEN "empty" ELSE volume)
      /\ run' = [run EXCEPT !.worker = "launch", !.fresh = TRUE,
                    !.blind = IF volume = "none" THEN @ ELSE @ \cup {"volume"}]
  BY CountsTyped, DockerTyped DEF Bounds, IInv, CreateVolume, Ensuring, files
<1>2. /\ run' \in Run /\ run'.pc = run.pc /\ run'.item = run.item /\ run'.digest = run.digest
      /\ run'.worker = "launch" /\ (volume # "none" => "volume" \in run'.blind)
      /\ "container" \in run.blind => "container" \in run'.blind
      /\ "container" \notin run.blind => "container" \notin run'.blind
  BY <1>1 DEF IInv, TypeOK, Run, Worker
<1>3. Kept'
  BY <1>1, <1>2 DEF IInv, Kept, Fresh, Unseen
<1>4. volume' \in Volumes
  BY <1>1, DockerTyped DEF Volumes
<1> QED
  BY <1>1, <1>2, <1>3, <1>4, DockerTyped, WorkedKeeps

LEMMA CreateFailsKeeps == ASSUME IInv, CreateFails PROVE IInv'
<1>1. /\ run' = Idle /\ prod' \in Production /\ prod'.st # "completed" /\ bound' \in Bounds
  BY EndsAt, CountsTyped DEF Bounds, IInv, CreateFails, Errors
<1>2. /\ UNCHANGED <<container, build, marker, export, builds>> /\ volume' \in Volumes
      /\ volume' = volume \/ volume = "none"
  BY DockerTyped DEF CreateFails, Volumes, files
<1> QED
  BY <1>1, <1>2, DockerTyped, IdleKeeps DEF IInv, Kept

\* From the run on, no step but the copy touches the volume, and none the Build.
LEMMA BroughtKeeps ==
    ASSUME IInv, NEW step \in {"copy", "ready", "undo"}, Worked(step), run.pc \in Commands,
           UNCHANGED <<build, marker, export, prod, builds>>, bound' \in Bounds,
           container' \in Containers, build = "running" => container' = "running",
           volume' \in Volumes, volume = "job" => volume' = "job",
           step # "ready" => run.worker \in {"launch", "copy"} /\ (volume' = "job" => volume = "job")
    PROVE  IInv'
<1>1. /\ run' \in Run /\ run'.pc = run.pc /\ run'.item = run.item /\ run'.digest = run.digest
      /\ run'.worker = step /\ run'.fresh = run.fresh /\ run'.blind = run.blind
  BY WorkedAt DEF IInv, Worker
<1>2. Kept'
  <2>1. CASE step = "ready"
    BY <1>1, <2>1 DEF IInv, Kept, Fresh, Unseen
  <2>2. CASE step # "ready"
    BY <1>1, <2>2 DEF IInv, Kept, Fresh, Unseen
  <2> QED
    BY <2>1, <2>2
<1> QED
  BY <1>1, <1>2, DockerTyped, WorkedKeeps

LEMMA BringKeeps == ASSUME IInv, Bring PROVE IInv'
<1>1. run.pc \in Commands /\ UNCHANGED <<build, marker, export, prod, builds>>
  BY DEF Bring, Launch, RunRefused, RunFails, CopyJob, CopyFails, Ensuring, docker, files
<1>2. build = "running" => container = "running"
  BY DEF IInv, Kept
<1>3. CASE Launch
  <2>1. /\ run.worker = "launch" /\ UNCHANGED <<volume, bound>> /\ container' = "running"
        /\ Worked("copy") \/ Worked("ready")
    BY <1>3 DEF Launch, Ensuring
  <2> QED
    BY <1>1, <2>1, DockerTyped, BroughtKeeps DEF Containers
<1>4. CASE RunRefused \/ RunFails
  <2>1. /\ run.worker = "launch" /\ UNCHANGED volume /\ Worked("undo") /\ bound' \in Bounds
        /\ container' \in Containers /\ (container' = container \/ container = "none")
    BY <1>4, CountsTyped, DockerTyped
    DEF RunRefused, RunFails, Ensuring, docker, Containers, Bounds, IInv
  <2> QED
    BY <1>1, <1>2, <2>1, DockerTyped, BroughtKeeps
<1>5. CASE CopyJob
  <2>1. /\ UNCHANGED <<container, bound>> /\ volume' \in Volumes /\ (volume = "job" => volume' = "job")
        /\ Worked("ready")
    BY <1>5, DockerTyped DEF CopyJob, Volumes
  <2> QED
    BY <1>1, <1>2, <2>1, DockerTyped, BroughtKeeps
<1>6. CASE CopyFails
  <2>1. /\ run.worker = "copy" /\ UNCHANGED container /\ Worked("undo") /\ bound' \in Bounds
        /\ volume' \in Volumes /\ (volume' = volume \/ (volume = "empty" /\ volume' = "torn"))
    BY <1>6, CountsTyped, DockerTyped DEF CopyFails, CutOff, Ensuring, Volumes, Bounds, IInv
  <2> QED
    BY <1>1, <1>2, <2>1, DockerTyped, BroughtKeeps
<1> QED
  BY <1>3, <1>4, <1>5, <1>6 DEF Bring

LEMMA RemoveContainerKeeps == ASSUME IInv, RemoveContainer PROVE IInv'
<1>1. /\ UNCHANGED <<volume, marker, export, prod, bound, builds>> /\ Worked("scrap")
      /\ \/ container' = "none" /\ build' = IF build = "running" THEN "killed" ELSE build
         \/ UNCHANGED <<container, build>>
      /\ run.worker = "undo" \/ (run.pc \in {"discard", "cleanup"} /\ run.worker = "inspect")
  BY DEF RemoveContainer, Cleaning, files
<1>2. container' \in Containers /\ build' \in Builds
  BY <1>1, DockerTyped DEF Containers, Builds
<1>3. /\ run' \in Run /\ run'.pc = run.pc /\ run'.item = run.item /\ run'.digest = run.digest
      /\ run'.worker = "scrap" /\ run'.fresh = run.fresh /\ run'.blind = run.blind
  BY <1>1, WorkedAt DEF IInv, Worker
<1>4. Kept'
  BY <1>1, <1>3 DEF IInv, Kept, Fresh, Unseen, Commands
<1> QED
  BY <1>1, <1>2, <1>3, <1>4, DockerTyped, WorkedKeeps

LEMMA ScrapTyped ==
    ASSUME IInv, RemoveVolume
    PROVE  /\ UNCHANGED <<container, marker, export, bound, builds>>
           /\ volume' \in Volumes /\ build' \in Builds
           /\ volume' # "job" => build' \in {"none", "lost"}
           /\ build' = "running" => container' = "running"
  BY DockerTyped DEF IInv, Kept, RemoveVolume, Scrapped, Removed, Volumes, Builds, files

LEMMA RemoveVolumeKeeps == ASSUME IInv, RemoveVolume PROVE IInv'
<1>1. CASE At("cleanup") /\ Goes("complete") /\ UNCHANGED prod
  <2>1. /\ run' \in Run /\ run'.pc = "complete" /\ run'.item = run.item
        /\ run'.digest = run.digest /\ run'.worker = "inspect" /\ run.pc = "cleanup"
    BY <1>1, GoesAt DEF IInv, Steps, At
  <2>2. TypeOK'
    BY <1>1, <2>1, ScrapTyped, DockerTyped DEF IInv, TypeOK, Containers, Volumes, Builds, Bounds
  <2>3. Marked'
    BY <1>1, <2>1, ScrapTyped DEF IInv, Marked, Submitting
  <2>4. Exported'
    BY <1>1, <2>1, ScrapTyped DEF IInv, Exported, ResultStands, Hashed
  <2>5. Kept'
    BY <2>1, ScrapTyped DEF Kept, Fresh, Unseen
  <2> QED
    BY <2>2, <2>3, <2>4, <2>5 DEF IInv
<1>2. CASE Ends("incomplete") \/ Ends("other")
  <2>1. run' = Idle /\ prod' \in Production /\ prod'.st # "completed"
    BY <1>2, EndsAt DEF IInv, Errors
  <2> QED
    BY <2>1, ScrapTyped, DockerTyped, IdleKeeps
<1> QED
  BY <1>1, <1>2 DEF RemoveVolume, Removed

-----------------------------------------------------------------------------
(* start(). *)

LEMMA StartKeeps == ASSUME IInv, Start PROVE IInv'
<1>1. run.pc = "start" /\ run.item # "receipt" /\ UNCHANGED <<docker, files, builds, bound>>
  BY DEF IInv, Exported, Start, At
<1>2. CASE Goes("record") /\ UNCHANGED prod
  BY <1>1, <1>2, GoesKeeps DEF Submitting, Steps
<1>3. CASE Ends("uncertain")
  BY <1>1, <1>3, EndsKeeps, DockerTyped DEF Errors
<1>4. CASE ~marker["attempt"] /\ Goes("check") /\ UNCHANGED prod
  BY <1>1, <1>4, GoesKeeps DEF Submitting, Steps, Commands
<1> QED
  BY <1>2, <1>3, <1>4 DEF Start

LEMMA CheckKeeps == ASSUME IInv, Check PROVE IInv'
<1>1. /\ run.pc = "check" /\ run.item # "receipt" /\ ~marker["attempt"]
      /\ UNCHANGED <<docker, files, builds, bound>>
  BY DEF IInv, Exported, Marked, Check, Ready, At
<1>2. CASE Goes("mark") /\ UNCHANGED prod
  BY <1>1, <1>2, GoesKeeps DEF Submitting, Steps
<1>3. CASE CommandFails
  BY <1>1, <1>3, CommandFailsKeeps, DockerTyped
<1> QED
  BY <1>2, <1>3 DEF Check

LEMMA WriteAttemptKeeps == ASSUME IInv, WriteAttempt PROVE IInv'
<1>1. /\ run.pc = "mark" /\ builds = 0 /\ run.item # "receipt" /\ marker'["attempt"]
      /\ UNCHANGED <<container, volume, build, export, prod, bound, builds>>
      /\ marker' \in [{"attempt", "receipt"} -> BOOLEAN] /\ Goes("build")
  BY DEF IInv, TypeOK, Marked, Exported, WriteAttempt, At, docker
<1>2. /\ run' \in Run /\ run'.pc = "build" /\ run'.item = run.item /\ run'.worker = "inspect"
  BY <1>1, GoesAt DEF IInv, Steps, Commands
<1>3. TypeOK'
  BY <1>1, <1>2 DEF IInv, TypeOK
<1>4. Marked'
  BY <1>1, <1>2 DEF IInv, Marked, Submitting
<1>5. Exported'
  BY <1>1, <1>2 DEF IInv, Exported, ResultStands
<1>6. Kept'
  BY <1>1, <1>2 DEF IInv, Kept, Fresh, Unseen
<1> QED
  BY <1>3, <1>4, <1>5, <1>6 DEF IInv

\* A Build is begun in a volume with the whole job directory, for the only time.
LEMMA BegunKeeps ==
    ASSUME IInv, run.pc = "build", Usable, build' = "running", builds' = builds + 1,
           UNCHANGED <<container, volume, files>>, run' \in Run, prod' \in Production,
           bound' \in Bounds,
           \/ run' = Idle /\ prod'.st = "failed"
           \/ /\ run'.pc = "receipt" /\ run'.item = run.item /\ run'.worker = "inspect"
              /\ prod' = prod
    PROVE  IInv'
<1>1. /\ builds = 0 /\ marker["attempt"] /\ run.item # "receipt" /\ volume = "job" /\ container = "running"
      /\ prod.st = "producing" /\ ~prod.id
  BY DEF IInv, Marked, Exported, Usable, Submitting
<1>2. TypeOK'
  BY <1>1 DEF IInv, TypeOK, files, Bounds
<1>3. Marked'
  BY <1>1, IdleTyped DEF IInv, Marked, Submitting, files
<1>4. Exported'
  BY <1>1, IdleTyped DEF IInv, Exported, ResultStands, files
<1>5. Kept'
  BY <1>1, IdleTyped DEF IInv, Kept, Fresh, Unseen
<1> QED
  BY <1>2, <1>3, <1>4, <1>5 DEF IInv

LEMMA BuildKeeps == ASSUME IInv, Build PROVE IInv'
<1>1. run.pc = "build" /\ UNCHANGED <<container, volume, files, bound>>
  BY DEF Build, Ready, At
<1>2. CASE Usable /\ build' = "running" /\ builds' = builds + 1 /\ Goes("receipt") /\ UNCHANGED prod
  <2>1. run' \in Run /\ run'.pc = "receipt" /\ run'.item = run.item /\ run'.worker = "inspect"
    BY <1>2, GoesAt DEF IInv, Steps
  <2> QED
    BY <1>1, <1>2, <2>1, BegunKeeps, DockerTyped DEF IInv, TypeOK
<1>3. CASE CommandFails /\ UNCHANGED <<build, builds>>
  BY <1>1, <1>3, CommandFailsKeeps, DockerTyped DEF docker
<1> QED
  BY <1>2, <1>3 DEF Build

LEMMA BuildUnansweredKeeps == ASSUME IInv, BuildUnanswered PROVE IInv'
<1>1. /\ run.pc = "build" /\ Usable /\ build' = "running" /\ builds' = builds + 1
      /\ UNCHANGED <<container, volume, files>>
      /\ bound' \in Bounds
  BY CountsTyped DEF Bounds, IInv, BuildUnanswered, Ready, At
<1>2. ~prod.id /\ marker["attempt"]
  BY <1>1 DEF IInv, Marked, Submitting
<1>3. ~FreeRetry
  BY <1>2 DEF FreeRetry, IInv, TypeOK
<1>4. Ends("command")
  BY <1>3 DEF BuildUnanswered, CommandFails
<1>5. run' = Idle /\ run' \in Run /\ prod' \in Production /\ prod'.st = "failed"
  BY <1>4, EndsAt, IdleTyped DEF IInv, Errors
<1> QED
  BY <1>1, <1>5, BegunKeeps

LEMMA WriteReceiptKeeps == ASSUME IInv, WriteReceipt PROVE IInv'
<1>1. /\ run.pc = "receipt" /\ run.item # "receipt" /\ marker["attempt"] /\ marker'["attempt"]
      /\ UNCHANGED <<container, volume, build, export, prod, bound, builds>>
      /\ marker' \in [{"attempt", "receipt"} -> BOOLEAN] /\ Goes("record")
  BY DEF IInv, TypeOK, Marked, Exported, WriteReceipt, At, docker
<1>2. /\ run' \in Run /\ run'.pc = "record" /\ run'.item = run.item /\ run'.worker = "inspect"
  BY <1>1, GoesAt DEF IInv, Steps
<1>3. TypeOK'
  BY <1>1, <1>2 DEF IInv, TypeOK
<1>4. Marked'
  BY <1>1, <1>2 DEF IInv, Marked, Submitting
<1>5. Exported'
  BY <1>1, <1>2 DEF IInv, Exported, ResultStands
<1>6. Kept'
  BY <1>1, <1>2 DEF IInv, Kept, Fresh, Unseen
<1> QED
  BY <1>3, <1>4, <1>5, <1>6 DEF IInv

LEMMA RecordBuildIdKeeps == ASSUME IInv, RecordBuildId PROVE IInv'
<1>1. /\ run.pc = "record" /\ run.item # "receipt" /\ prod.st = "producing"
      /\ UNCHANGED <<container, volume, build, marker, export, bound, builds>>
  BY DEF IInv, Marked, Exported, RecordBuildId, At, docker, files
<1>2. prod' \in Production /\ prod'.st = prod.st
  BY DEF IInv, TypeOK, RecordBuildId, Production
<1>3. /\ run' \in Run /\ run'.pc = "status" /\ run'.item = run.item /\ run'.worker = "inspect"
  BY DEF IInv, TypeOK, RecordBuildId, Run, Steps, Commands, Worker
<1>4. TypeOK'
  BY <1>1, <1>2, <1>3 DEF IInv, TypeOK
<1>5. Marked'
  BY <1>1, <1>2, <1>3 DEF IInv, Marked, Submitting
<1>6. Exported'
  BY <1>1, <1>2, <1>3 DEF IInv, Exported, ResultStands
<1>7. Kept'
  BY <1>1, <1>3 DEF IInv, Kept, Fresh, Unseen
<1> QED
  BY <1>4, <1>5, <1>6, <1>7 DEF IInv

-----------------------------------------------------------------------------
(* resume(). *)

LEMMA StatusKeeps == ASSUME IInv, Status PROVE IInv'
<1>1. /\ run.pc = "status" /\ run.item # "receipt" /\ TypeOK
      /\ UNCHANGED <<docker, files, builds, bound>>
      /\ bound' \in Bounds
  BY DockerTyped DEF IInv, TypeOK, Exported, Status, Ready, At
<1>2. CASE build = "complete" /\ Goes("get") /\ UNCHANGED prod
  BY <1>1, <1>2, GoesKeeps DEF Submitting, Steps, Commands
<1>3. CASE build = "failed" /\ Goes("discard") /\ UNCHANGED prod
  BY <1>1, <1>3, GoesKeeps DEF Submitting, Steps, Commands
<1>4. CASE run' = Idle /\ UNCHANGED prod
  <2>1. prod' \in Production /\ prod'.st # "completed"
    BY <1>1, <1>4 DEF IInv, TypeOK, Marked
  <2> QED
    BY <1>1, <1>4, <2>1, DockerTyped, IdleKeeps DEF IInv, Kept, docker, files
<1>5. CASE CommandFails
  BY <1>1, <1>5, CommandFailsKeeps
<1> QED
  BY <1>2, <1>3, <1>4, <1>5 DEF Status

LEMMA AnyCommandFailsKeeps == ASSUME IInv, AnyCommandFails PROVE IInv'
<1>1. run.pc # "idle" /\ bound' \in Bounds
  BY CountsTyped DEF Bounds, IInv, AnyCommandFails, Ready, At, Commands
<1> QED
  BY <1>1, CommandFailsKeeps DEF AnyCommandFails

\* An artifact that is written is the one the task is at, and not hashed yet.
LEMMA ArtifactKeeps ==
    ASSUME IInv, NEW state \in {"torn", "unfit", "whole"}, NEW pc \in {"copy", "read"}, Goes(pc),
           run.pc \in {"get", "copy"}, export' = [export EXCEPT ![run.item] = state],
           UNCHANGED <<docker, marker, prod, bound, builds>>
    PROVE  IInv'
<1>1. /\ run' \in Run /\ run'.pc = pc /\ run'.item = run.item /\ run'.digest = run.digest
      /\ run'.worker = "inspect"
  BY GoesAt DEF IInv, Steps
<1>2. run.item \in {"video", "receipt"} /\ export \in [{"video", "receipt"} -> FileStates]
  BY DEF IInv, TypeOK, Run, Items
<1>3. /\ export' \in [{"video", "receipt"} -> FileStates] /\ export'[run.item] = state
      /\ run.item = "receipt" => export'["video"] = export["video"]
  BY <1>2 DEF FileStates
<1>4. TypeOK'
  BY <1>1, <1>3 DEF IInv, TypeOK, docker, Items
<1>5. Marked'
  BY <1>1 DEF IInv, Marked, Submitting
<1>6. prod.st = "producing" /\ prod' = prod
  BY DEF IInv, Marked
<1>7. Exported'
  BY <1>1, <1>2, <1>3, <1>6 DEF IInv, Exported, ResultStands, Hashed
<1>8. Kept'
  BY <1>1 DEF IInv, Kept, Fresh, Unseen, docker
<1> QED
  BY <1>4, <1>5, <1>7, <1>8 DEF IInv

LEMMA GetKeeps == ASSUME IInv, Get PROVE IInv'
<1>1. /\ run.pc = "get" /\ build = "complete" /\ UNCHANGED <<docker, marker, bound, builds>>
      /\ bound' \in Bounds
  BY DockerTyped DEF IInv, TypeOK, Kept, Get, At
<1>2. CASE Fetched /\ Goes("read") /\ UNCHANGED <<prod, export>>
  <2>1. export[run.item] # "none"
    BY <1>2 DEF Fetched
  <2> QED
    BY <1>1, <1>2, <2>1, GoesKeeps DEF Submitting, Steps, files
<1>3. CASE Goes("copy") /\ export' = [export EXCEPT ![run.item] = "torn"] /\ UNCHANGED prod
  BY <1>1, <1>3, ArtifactKeeps
<1>4. CASE CommandFails /\ UNCHANGED export
  BY <1>1, <1>4, CommandFailsKeeps DEF files
<1> QED
  BY <1>2, <1>3, <1>4 DEF Get

LEMMA CopyOutKeeps == ASSUME IInv, CopyOut PROVE IInv'
  BY ArtifactKeeps DEF CopyOut, At

LEMMA CopyOutFailsKeeps == ASSUME IInv, CopyOutFails PROVE IInv'
<1>1. run.pc # "idle" /\ bound' \in Bounds
  BY CountsTyped DEF Bounds, IInv, CopyOutFails, At
<1> QED
  BY <1>1, CommandFailsKeeps DEF CopyOutFails

LEMMA ReadKeeps == ASSUME IInv, Read PROVE IInv'
<1>1. /\ run.pc = "read" /\ export[run.item] # "none" /\ build = "complete"
      /\ run.item \in {"video", "receipt"} /\ export["video"] \in FileStates
      /\ UNCHANGED <<docker, files, bound, builds>>
  BY DEF IInv, TypeOK, Exported, Kept, Read, At, Run, Items
<1>2. CASE /\ run.item = "video" /\ UNCHANGED prod
           /\ run' = [run EXCEPT !.pc = "get", !.worker = "inspect", !.item = "receipt",
                          !.digest = export["video"]]
  <2>1. /\ run' \in Run /\ run'.pc = "get" /\ run'.item = "receipt"
        /\ run'.digest = export["video"] /\ run'.worker = "inspect"
    BY <1>1, <1>2 DEF IInv, TypeOK, Run, Steps, Commands, Worker, Items
  <2>2. TypeOK'
    BY <1>1, <1>2, <2>1 DEF IInv, TypeOK, docker, files
  <2>3. Marked'
    BY <1>1, <1>2, <2>1 DEF IInv, Marked, Submitting, files
  <2>4. Exported'
    BY <1>1, <1>2, <2>1 DEF IInv, Exported, ResultStands, Hashed, files
  <2>5. Kept'
    BY <1>1, <2>1 DEF IInv, Kept, Fresh, Unseen, docker
  <2> QED
    BY <2>2, <2>3, <2>4, <2>5 DEF IInv
<1>3. CASE run.item # "video" /\ export["receipt"] = "whole" /\ Goes("cleanup") /\ UNCHANGED prod
  BY <1>1, <1>3, GoesKeeps DEF Submitting, Steps
<1>4. CASE Ends("other")
  BY <1>1, <1>4, EndsKeeps, DockerTyped DEF Errors
<1> QED
  BY <1>2, <1>3, <1>4 DEF Read

LEMMA CompleteKeeps == ASSUME IInv, Complete PROVE IInv'
<1>1. /\ run' = Idle /\ UNCHANGED <<container, volume, build, marker, export, bound, builds>>
      /\ export["receipt"] = "whole" /\ Hashed /\ run.digest \in FileStates
  BY DEF IInv, TypeOK, Exported, Complete, At, Run, docker, files
<1>2. /\ prod' \in Production /\ prod'.result = run.digest
  BY <1>1 DEF IInv, TypeOK, Complete, Production, Errors
<1>3. TypeOK'
  BY <1>1, <1>2, IdleTyped DEF IInv, TypeOK
<1>4. Marked'
  BY <1>1, IdleTyped DEF IInv, Marked, Submitting
<1>5. Exported'
  BY <1>1, <1>2, IdleTyped DEF Exported, ResultStands, Hashed
<1>6. Kept'
  BY <1>1, IdleTyped DEF IInv, Kept, Fresh, Unseen
<1> QED
  BY <1>3, <1>4, <1>5, <1>6 DEF IInv

-----------------------------------------------------------------------------
(* The Build, the container, the crash. *)

LEMMA OutsideKeeps ==
    ASSUME IInv, UNCHANGED <<volume, marker, export, prod, run, builds>>,
           container' \in Containers, build' \in Builds, bound' \in Bounds,
           \/ build' = build /\ (build = "running" => container' = "running")
           \/ build = "running" /\ build' \in {"killed", "complete", "failed"}
           \/ build = "killed" /\ run.pc = "status" /\ run.worker = "ready" /\ container' = "running"
    PROVE  IInv'
<1>1. TypeOK'
  BY DEF IInv, TypeOK, Containers, Builds, Bounds
<1>2. Marked'
  BY DEF IInv, Marked, Submitting
<1>3. Exported'
  BY DEF IInv, Exported, ResultStands, Hashed
<1>4. Kept'
  <2>1. CASE build' = build /\ (build = "running" => container' = "running")
    BY <2>1 DEF IInv, Kept, Fresh, Unseen
  <2>2. CASE build = "running" /\ build' \in {"killed", "complete", "failed"}
    BY <2>2 DEF IInv, Kept, Fresh, Unseen
  <2>3. CASE build = "killed" /\ run.pc = "status" /\ run.worker = "ready" /\ container' = "running"
    BY <2>3 DEF IInv, Kept, Fresh, Unseen
  <2> QED
    BY <2>1, <2>2, <2>3
<1> QED
  BY <1>1, <1>2, <1>3, <1>4 DEF IInv

LEMMA BuildTakenKeeps == ASSUME IInv, BuildTaken PROVE IInv'
<1>1. /\ build = "killed" /\ run.pc = "status" /\ run.worker = "ready" /\ build' \in Builds
      /\ UNCHANGED <<container, volume, marker, export, prod, run, bound, builds>>
      /\ container = "running" /\ volume = "job"
  BY DEF BuildTaken, Ready, At, Usable, Builds, files
<1> QED
  BY <1>1, DockerTyped, OutsideKeeps

LEMMA ContainerStopsKeeps == ASSUME IInv, ContainerStops PROVE IInv'
<1>1. /\ container' \in Containers /\ bound' \in Bounds
      /\ build' = (IF build = "running" THEN "killed" ELSE build)
      /\ UNCHANGED <<volume, marker, export, prod, run, builds>>
  BY CountsTyped DEF IInv, ContainerStops, Containers, Bounds, files
<1>2. build' \in Builds
  BY <1>1, DockerTyped DEF Builds
<1> QED
  BY <1>1, <1>2, OutsideKeeps

LEMMA CrashKeeps == ASSUME IInv, Crash PROVE IInv'
<1>1. /\ bound' \in Bounds /\ run' = Idle /\ UNCHANGED <<container, build, marker, export, prod, builds>>
      /\ volume' \in Volumes /\ (volume' = volume \/ (volume = "empty" /\ volume' = "torn"))
  BY CountsTyped, DockerTyped DEF IInv, Crash, CutOff, Volumes, Bounds, files
<1>2. TypeOK'
  BY <1>1, IdleTyped DEF IInv, TypeOK, Volumes, Bounds
<1>3. Marked'
  BY <1>1, IdleTyped DEF IInv, Marked, Submitting
<1>4. Exported'
  BY <1>1, IdleTyped DEF IInv, Exported, ResultStands
<1>5. Kept'
  BY <1>1, IdleTyped DEF IInv, Kept, Fresh, Unseen
<1> QED
  BY <1>2, <1>3, <1>4, <1>5 DEF IInv

-----------------------------------------------------------------------------
(* The theorems. *)

LEMMA InitIInv == Init => IInv
<1> SUFFICES ASSUME Init PROVE IInv
  OBVIOUS
<1>1. TypeOK
  BY IdleTyped DEF Init, TypeOK, Items, FileStates, Production, Errors
<1>2. Marked /\ Kept
  BY IdleTyped DEF Init, Marked, Kept, Fresh, Unseen, Submitting
<1>3. Exported
  BY IdleTyped DEF Init, Exported, ResultStands
<1> QED
  BY <1>1, <1>2, <1>3 DEF IInv

LEMMA StepIInv == IInv /\ [Next]_vars => IInv'
<1> SUFFICES ASSUME IInv, [Next]_vars PROVE IInv'
  OBVIOUS
<1>1. CASE Ensure
  BY <1>1, PrepareFailsKeeps, InspectKeeps, InspectFailsKeeps, FindVolumeKeeps, CreateVolumeKeeps,
    CreateFailsKeeps, BringKeeps, RemoveContainerKeeps, RemoveVolumeKeeps DEF Ensure, Find
<1>2. CASE Submit
  BY <1>2, StartKeeps, CheckKeeps, WriteAttemptKeeps, BuildKeeps, BuildUnansweredKeeps,
    WriteReceiptKeeps, RecordBuildIdKeeps DEF Submit
<1>3. CASE Resume
  BY <1>3, StatusKeeps, GetKeeps, CopyOutKeeps, CopyOutFailsKeeps, ReadKeeps, CompleteKeeps
  DEF Resume
<1>4. CASE BuildEnds
  BY <1>4, DockerTyped, OutsideKeeps DEF BuildEnds, Builds, files
<1>5. CASE UNCHANGED vars
  BY <1>5, DockerTyped, OutsideKeeps DEF vars, IInv, Kept
<1> QED
  BY <1>1, <1>2, <1>3, <1>4, <1>5, ClaimKeeps, RetryProductionKeeps, BuildTakenKeeps,
    ContainerStopsKeeps, AnyCommandFailsKeeps, CrashKeeps DEF Next, Task

LEMMA AlwaysIInv == Spec => []IInv
  BY InitIInv, StepIInv, PTL DEF Spec

LEMMA IInvSound == IInv => BuildSound
  BY DEF IInv, Marked, Exported, BuildSound, OneBuild

\* Over any crashes, lost answers, failing commands and retries an order never begins
\* two Builds, and a completed one has its receipt and the file it recorded (BuildSound).
THEOREM BuildStaysSound == Spec => []BuildSound
  BY AlwaysIInv, IInvSound, PTL

\* What BuildKept says of a step.
LostRightly == build' = "lost" =>
    \/ build \in {"failed", "lost"} \/ "volume" \in run.blind
    \/ build = "complete" /\ export["video"] # "none" /\ export["receipt"] = "whole"
KilledRightly == build = "running" /\ build' = "killed" =>
    container' = "stopped" \/ "container" \in run.blind

\* The steps that may end a Build otherwise than by its own end.
LEMMA BuildChanges ==
    ASSUME [Next]_vars
    PROVE  \/ build' \in {build, "running", "complete", "failed"}
           \/ RemoveContainer \/ RemoveVolume \/ ContainerStops
<1>1. CASE Submit
  BY <1>1 DEF Submit, Start, Check, WriteAttempt, Build, BuildUnanswered, WriteReceipt,
    RecordBuildId, docker
<1>2. CASE Ensure
  BY <1>2 DEF Ensure, Find, Bring, PrepareFails, Inspect, InspectFails, FindVolume, CreateVolume,
    CreateFails, Launch, RunRefused, RunFails, CopyJob, CopyFails, docker
<1>3. CASE Resume
  BY <1>3 DEF Resume, Status, Get, CopyOut, CopyOutFails, Read, Complete, docker
<1>4. CASE Claim \/ AnyCommandFails \/ RetryProduction \/ Crash \/ UNCHANGED vars
  BY <1>4 DEF Claim, AnyCommandFails, RetryProduction, Crash, vars, docker
<1> QED
  BY <1>1, <1>2, <1>3, <1>4 DEF Next, Task, BuildEnds, BuildTaken

LEMMA StepKeeps == ASSUME IInv, [Next]_vars PROVE LostRightly /\ KilledRightly
<1>1. CASE build' \in {build, "running", "complete", "failed"}
  BY <1>1 DEF LostRightly, KilledRightly
<1>2. CASE RemoveContainer
  <2>1. build' \in {build, "killed"} /\ (build = "running" => run.worker = "undo")
    BY <1>2 DEF RemoveContainer, Cleaning, IInv, Kept
  <2>2. build = "running" => "container" \in run.blind
    BY <2>1 DEF IInv, Kept, Unseen
  <2> QED
    BY <2>1, <2>2 DEF LostRightly, KilledRightly
<1>3. CASE RemoveVolume
  <2>1. CASE run.pc = "discard"
    BY <1>3, <2>1 DEF RemoveVolume, Scrapped, LostRightly, KilledRightly, IInv, Kept
  <2>2. CASE run.pc = "cleanup"
    BY <1>3, <2>2 DEF RemoveVolume, Scrapped, LostRightly, KilledRightly, IInv, Kept, Exported, Hashed
  <2>3. CASE ~Cleaning /\ run.fresh /\ "volume" \notin run.blind
    <3>1. build \in {"none", "lost"}
      BY <1>3, <2>3 DEF RemoveVolume, Cleaning, IInv, Kept, Fresh
    <3> QED
      BY <1>3, <3>1 DEF RemoveVolume, Scrapped, LostRightly, KilledRightly
  <2>4. CASE ~Cleaning /\ ~run.fresh
    BY <1>3, <2>4 DEF RemoveVolume, LostRightly, KilledRightly
  <2>5. CASE "volume" \in run.blind
    BY <1>3, <2>5 DEF RemoveVolume, Scrapped, LostRightly, KilledRightly
  <2> QED
    BY <2>1, <2>2, <2>3, <2>4, <2>5 DEF Cleaning
<1>4. CASE ContainerStops
  BY <1>4 DEF ContainerStops, LostRightly, KilledRightly
<1> QED
  BY <1>1, <1>2, <1>3, <1>4, BuildChanges

\* Whatever fails and whoever crashes, a Build is killed by its container only and lost
\* only once it is of no more use, but for a container or a volume that an inspect has
\* just failed to find (BuildKept).
THEOREM PaidBuildKept == Spec => BuildKept
<1>1. IInv /\ [Next]_vars => [LostRightly /\ KilledRightly]_vars
  BY StepKeeps
<1> QED
  BY <1>1, AlwaysIInv, PTL DEF Spec, BuildKept, LostRightly, KilledRightly

-----------------------------------------------------------------------------
(* The Build and the Buyer that fetches what it made. *)

Done == prod.st = "completed"

\* Who holds the news of the delivery has it from a completed order, and the packaging
\* leaves its files in their order.
Told == \A c \in Buyer!Callers :
    /\ sync[c].pc # "idle" /\ sync[c].done => Done
    /\ sync[c].pc \in {"write", "rename", "record"} => camp.pkg # Buyer!NoPackage
Packing ==
    /\ camp.st # "fulfillment" => Done
    /\ pack.pc # "idle" => Done
    /\ pack.pc \in {"check", "proof", "manifest", "record"} => disk.video = prod.result
    /\ pack.pc \in {"proof", "manifest", "record"} => prod.result = "whole"
    /\ pack.pc \in {"manifest", "record"} => disk.proof # "none"
    /\ pack.pc = "record" => disk.manifest # "none"

BInv == Buyer!PackageTypeOK /\ Told /\ Packing /\ PackageBacked

-----------------------------------------------------------------------------
\* What the Buyer relies on of the Seller is not taken back.
LEMMA AnswerStands ==
    ASSUME IInv, [Next]_vars, Done PROVE Done' /\ UNCHANGED <<prod, export>>
<1>1. run.pc = "idle" /\ run.worker = "inspect"
  BY DEF IInv, Marked, Kept, Done, Commands
<1>2. ~Ensure
  BY <1>1 DEF Ensure, Find, Bring, PrepareFails, Inspect, InspectFails, FindVolume, CreateVolume,
    CreateFails, Launch, RunRefused, RunFails, CopyJob, CopyFails, RemoveContainer, RemoveVolume,
    Ensuring, Cleaning, Commands
<1>3. ~Submit /\ ~Resume /\ ~AnyCommandFails
  BY <1>1 DEF Submit, Start, Check, WriteAttempt, Build, BuildUnanswered, WriteReceipt, RecordBuildId,
    Resume, Status, Get, CopyOut, CopyOutFails, Read, Complete, AnyCommandFails, Ready, At
<1> QED
  BY <1>2, <1>3 DEF Done, Next, Task, Claim, RetryProduction, BuildEnds, BuildTaken, ContainerStops,
    Crash, vars, files

LEMMA SellerKeeps ==
    ASSUME IInv, BInv, [Next]_vars, UNCHANGED buyerVars PROVE BInv'
<1>1. Done => Done' /\ prod' = prod
  BY AnswerStands
<1>2. Buyer!PackageTypeOK'
  BY DEF BInv, Buyer!PackageTypeOK, buyerVars
<1>3. Told'
  BY <1>1 DEF BInv, Told, buyerVars
<1>4. Packing'
  BY <1>1 DEF BInv, Packing, buyerVars
<1>5. PackageBacked'
  BY <1>1 DEF BInv, PackageBacked, buyerVars, Done
<1> QED
  BY <1>2, <1>3, <1>4, <1>5 DEF BInv

-----------------------------------------------------------------------------
(* syncCampaign. *)

LEMMA BuyerTyped ==
    ASSUME BInv
    PROVE  /\ settled \in BOOLEAN /\ camp \in Buyer!Campaign /\ disk \in Buyer!Package
           /\ temp \in [Buyer!Documents -> Buyer!Statuses]
           /\ sync \in [Buyer!Callers -> Buyer!Sync] /\ pack \in Buyer!Pack
           /\ spent \in Nat
  BY DEF BInv, Buyer!PackageTypeOK

LEMMA SpendsTyped ==
    ASSUME BInv, Buyer!Spends
    PROVE  spent' \in Nat
  BY BuyerTyped DEF Buyer!Spends

\* One synchronisation moves on.
LEMMA SyncMoves ==
    ASSUME BInv, NEW c \in Buyer!Callers, NEW s \in Buyer!Sync, sync' = [sync EXCEPT ![c] = s],
           UNCHANGED prod, s.pc # "idle" /\ s.done => Done,
           s.pc \in {"write", "rename", "record"} => camp'.pkg # Buyer!NoPackage,
           camp.pkg # Buyer!NoPackage => camp'.pkg # Buyer!NoPackage
    PROVE  Told' /\ sync' \in [Buyer!Callers -> Buyer!Sync]
<1>1. sync \in [Buyer!Callers -> Buyer!Sync]
  BY BuyerTyped
<1>2. sync' \in [Buyer!Callers -> Buyer!Sync]
  BY <1>1
<1>3. sync'[c] = s /\ \A d \in Buyer!Callers \ {c} : sync'[d] = sync[d]
  BY <1>1
<1>4. Told'
  BY <1>3 DEF BInv, Told, Done
<1> QED
  BY <1>2, <1>4

LEMMA FreeTyped ==
    /\ Buyer!NoSync \in Buyer!Sync /\ Buyer!NoSync.pc = "idle"
    /\ Buyer!NoPack \in Buyer!Pack /\ Buyer!NoPack.pc = "idle"
  BY DEF Buyer!NoSync, Buyer!Sync, Buyer!Documents, Buyer!NoPack, Buyer!Pack

\* What else there is, left alone.
LEMMA AloneKeeps ==
    ASSUME BInv, UNCHANGED <<prod, camp, disk, pack>> PROVE Packing' /\ PackageBacked'
  BY DEF BInv, Packing, PackageBacked, Done

LEMMA AskKeeps ==
    ASSUME BInv, NEW c \in Buyer!Callers, Buyer!Ask(c), UNCHANGED vars PROVE BInv'
<1> DEFINE s == [sync[c] EXCEPT !.pc = "commit", !.done = Done, !.settled = settled]
<1>1. sync' = [sync EXCEPT ![c] = s]
  BY DEF Buyer!Ask, SellerAnswer, Done
<1>2. sync[c] \in Buyer!Sync /\ settled \in BOOLEAN
  BY BuyerTyped
<1>3. s \in Buyer!Sync /\ s.pc = "commit" /\ s.done = Done
  BY <1>2 DEF Buyer!Sync, Done
<1>4. UNCHANGED <<settled, camp, disk, temp, pack, spent, prod>>
  BY DEF Buyer!Ask, vars
<1> HIDE DEF s
<1>5. Told' /\ sync' \in [Buyer!Callers -> Buyer!Sync]
  BY <1>1, <1>3, <1>4, SyncMoves
<1>6. Buyer!PackageTypeOK'
  BY <1>4, <1>5, BuyerTyped DEF Buyer!PackageTypeOK
<1> QED
  BY <1>4, <1>5, <1>6, AloneKeeps DEF BInv

LEMMA SyncFailsKeeps ==
    ASSUME BInv, NEW c \in Buyer!Callers, Buyer!SyncFails(c), UNCHANGED vars PROVE BInv'
<1>1. /\ UNCHANGED <<settled, camp, disk, temp, pack, prod>>
      /\ sync' = [sync EXCEPT ![c] = Buyer!NoSync]
      /\ spent' \in Nat
  BY SpendsTyped DEF Buyer!SyncFails, Buyer!Frees, vars
<1>2. Told' /\ sync' \in [Buyer!Callers -> Buyer!Sync]
  BY <1>1, SyncMoves, FreeTyped
<1>3. Buyer!PackageTypeOK'
  BY <1>1, <1>2, BuyerTyped DEF Buyer!PackageTypeOK
<1> QED
  BY <1>1, <1>2, <1>3, AloneKeeps DEF BInv

LEMMA CommitKeeps ==
    ASSUME BInv, NEW c \in Buyer!Callers, Buyer!Commit(c), UNCHANGED vars PROVE BInv'
<1>1. /\ camp \in Buyer!Campaign /\ sync[c] \in Buyer!Sync /\ pack \in Buyer!Pack
      /\ (sync[c].pc = "commit") /\ UNCHANGED <<settled, disk, temp, spent, prod>>
      /\ (sync[c].done => Done) /\ (camp.pkg # Buyer!NoPackage => Done)
  BY BuyerTyped DEF Buyer!Commit, BInv, Told, PackageBacked, Done, vars
<1>2. camp' = [camp EXCEPT !.settled = sync[c].settled,
                 !.st = IF camp.pkg # Buyer!NoPackage THEN "completed"
                        ELSE IF sync[c].done THEN "packaging" ELSE "fulfillment"]
  BY DEF Buyer!Commit, Buyer!Packaged
<1>3. /\ camp' \in Buyer!Campaign /\ camp'.pkg = camp.pkg
      /\ camp'.st # "fulfillment" => Done
      /\ camp'.st = "packaging" => sync[c].done
  BY <1>1, <1>2 DEF Buyer!Campaign, Buyer!Sync
<1>4. \/ UNCHANGED pack
      \/ pack' = [Buyer!NoPack EXCEPT !.pc = "claim"] /\ sync[c].done
  BY <1>2, <1>3 DEF Buyer!Commit, Buyer!Packaged
<1>5. pack' \in Buyer!Pack /\ (UNCHANGED pack \/ (pack'.pc = "claim" /\ Done))
  BY <1>1, <1>4 DEF Buyer!Pack, Buyer!NoPack
<1>6. \/ sync' = [sync EXCEPT ![c] = Buyer!NoSync]
      \/ /\ sync' = [sync EXCEPT ![c] = [sync[c] EXCEPT !.pc = "write"]]
         /\ camp'.pkg # Buyer!NoPackage
  BY <1>2, <1>3 DEF Buyer!Commit, Buyer!Packaged, Buyer!Frees
<1>7. /\ [sync[c] EXCEPT !.pc = "write"] \in Buyer!Sync
      /\ [sync[c] EXCEPT !.pc = "write"].done = sync[c].done
  BY <1>1 DEF Buyer!Sync
<1>8. Told' /\ sync' \in [Buyer!Callers -> Buyer!Sync]
  <2>1. CASE sync' = [sync EXCEPT ![c] = Buyer!NoSync]
    BY <1>1, <1>3, <2>1, SyncMoves, FreeTyped
  <2>2. CASE sync' = [sync EXCEPT ![c] = [sync[c] EXCEPT !.pc = "write"]] /\ camp'.pkg # Buyer!NoPackage
    <3> DEFINE s == [sync[c] EXCEPT !.pc = "write"]
    <3>1. s \in Buyer!Sync /\ (s.done => Done)
      BY <1>1, <1>7
    <3> HIDE DEF s
    <3>2. sync' = [sync EXCEPT ![c] = s]
      BY <2>2 DEF s
    <3> QED
      BY <1>1, <1>3, <2>2, <3>1, <3>2, SyncMoves
  <2> QED
    BY <1>6, <2>1, <2>2
<1>9. Buyer!PackageTypeOK'
  BY <1>1, <1>3, <1>5, <1>8, BuyerTyped DEF Buyer!PackageTypeOK
<1>10. Packing'
  BY <1>1, <1>3, <1>5 DEF BInv, Packing, Done
<1>11. PackageBacked'
  BY <1>1, <1>3 DEF BInv, PackageBacked
<1> QED
  BY <1>8, <1>9, <1>10, <1>11 DEF BInv

LEMMA StatusTyped == \A s \in BOOLEAN : Buyer!Status(s) \in {"pending", "settled"}
  BY DEF Buyer!Status

LEMMA WriteTemporaryKeeps ==
    ASSUME BInv, NEW c \in Buyer!Callers, Buyer!WriteTemporary(c), UNCHANGED vars PROVE BInv'
<1> DEFINE s == [sync[c] EXCEPT !.pc = "rename"]
<1>1. /\ UNCHANGED <<settled, camp, disk, pack, spent, prod>> /\ sync[c] \in Buyer!Sync
      /\ sync[c].pc = "write" /\ sync' = [sync EXCEPT ![c] = s]
  BY BuyerTyped DEF Buyer!WriteTemporary, vars
<1>2. /\ camp.pkg # Buyer!NoPackage /\ (sync[c].done => Done)
  BY <1>1 DEF BInv, Told
<1>3. s \in Buyer!Sync /\ s.done = sync[c].done
  BY <1>1 DEF Buyer!Sync
<1>4. temp' \in [Buyer!Documents -> Buyer!Statuses]
  <2>1. sync[c].settled \in BOOLEAN
    BY <1>1 DEF Buyer!Sync
  <2>2. Buyer!Status(sync[c].settled) \in Buyer!Statuses
    BY <2>1, StatusTyped DEF Buyer!Statuses
  <2> QED
    BY <2>2, BuyerTyped DEF Buyer!WriteTemporary
<1> HIDE DEF s
<1>5. Told' /\ sync' \in [Buyer!Callers -> Buyer!Sync]
  BY <1>1, <1>2, <1>3, SyncMoves
<1>6. Buyer!PackageTypeOK'
  BY <1>1, <1>4, <1>5, BuyerTyped DEF Buyer!PackageTypeOK
<1> QED
  BY <1>1, <1>5, <1>6, AloneKeeps DEF BInv

\* A document in the package directory is only replaced by another one.
LEMMA RenamedTyped ==
    ASSUME BInv, NEW doc \in {"proof", "manifest"}, NEW status \in Buyer!Statuses,
           status # "none", disk' = [disk EXCEPT ![doc] = status]
    PROVE  /\ disk' \in Buyer!Package /\ disk'.video = disk.video
           /\ disk.proof # "none" => disk'.proof # "none"
           /\ disk.manifest # "none" => disk'.manifest # "none"
           /\ disk'[doc] # "none"
<1>1. disk \in Buyer!Package
  BY BuyerTyped
<1>2. CASE doc = "proof"
  BY <1>1, <1>2 DEF Buyer!Package
<1>3. CASE doc = "manifest"
  BY <1>1, <1>3 DEF Buyer!Package
<1> QED
  BY <1>2, <1>3

LEMMA RenameKeeps ==
    ASSUME BInv, NEW c \in Buyer!Callers, Buyer!Rename(c), UNCHANGED vars PROVE BInv'
<1>1. /\ UNCHANGED <<settled, camp, pack, spent, prod>> /\ sync[c] \in Buyer!Sync
      /\ sync[c].pc = "rename" /\ sync[c].doc \in {"proof", "manifest"}
  BY BuyerTyped DEF Buyer!Rename, Buyer!Sync, Buyer!Documents, vars
<1>2. /\ camp.pkg # Buyer!NoPackage /\ (sync[c].done => Done)
  BY <1>1 DEF BInv, Told
<1>3. CASE Buyer!Frees(c) /\ UNCHANGED <<temp, disk>>
  <2>1. Told' /\ sync' \in [Buyer!Callers -> Buyer!Sync]
    BY <1>1, <1>3, SyncMoves, FreeTyped DEF Buyer!Frees
  <2>2. Buyer!PackageTypeOK'
    BY <1>1, <1>3, <2>1, BuyerTyped DEF Buyer!PackageTypeOK
  <2> QED
    BY <1>1, <1>3, <2>1, <2>2, AloneKeeps DEF BInv
<1>4. CASE /\ temp[sync[c].doc] # "none"
           /\ disk' = [disk EXCEPT ![sync[c].doc] = temp[sync[c].doc]]
           /\ temp' = [temp EXCEPT ![sync[c].doc] = "none"]
           /\ sync' = [sync EXCEPT ![c] = [sync[c] EXCEPT
                  !.pc = IF sync[c].doc = "proof" THEN "write" ELSE "record", !.doc = "manifest"]]
  <2> DEFINE s == [sync[c] EXCEPT
        !.pc = IF sync[c].doc = "proof" THEN "write" ELSE "record", !.doc = "manifest"]
  <2>1. s \in Buyer!Sync /\ s.done = sync[c].done
    BY <1>1 DEF Buyer!Sync, Buyer!Documents
  <2>2. sync' = [sync EXCEPT ![c] = s]
    BY <1>4
  <2> HIDE DEF s
  <2>3. Told' /\ sync' \in [Buyer!Callers -> Buyer!Sync]
    BY <1>1, <1>2, <2>1, <2>2, SyncMoves
  <2>4. temp[sync[c].doc] \in Buyer!Statuses /\ temp' \in [Buyer!Documents -> Buyer!Statuses]
    BY <1>1, <1>4, BuyerTyped DEF Buyer!Documents, Buyer!Statuses
  <2>5. /\ disk' \in Buyer!Package /\ disk'.video = disk.video
        /\ disk.proof # "none" => disk'.proof # "none"
        /\ disk.manifest # "none" => disk'.manifest # "none"
    BY <1>1, <1>4, <2>4, RenamedTyped
  <2>6. Buyer!PackageTypeOK'
    BY <1>1, <2>3, <2>4, <2>5, BuyerTyped DEF Buyer!PackageTypeOK
  <2>7. Packing'
    BY <1>1, <2>5 DEF BInv, Packing, Done
  <2>8. PackageBacked'
    BY <1>1, <2>5 DEF BInv, PackageBacked, Buyer!Documents
  <2> QED
    BY <2>3, <2>6, <2>7, <2>8 DEF BInv
<1> QED
  BY <1>3, <1>4 DEF Buyer!Rename

LEMMA RecordRefreshKeeps ==
    ASSUME IInv, BInv, NEW c \in Buyer!Callers, Buyer!RecordRefresh(c), UNCHANGED vars PROVE BInv'
<1>1. /\ UNCHANGED <<settled, disk, temp, pack, spent, prod, export>> /\ sync[c] \in Buyer!Sync
      /\ sync[c].pc = "record" /\ sync' = [sync EXCEPT ![c] = Buyer!NoSync]
      /\ camp \in Buyer!Campaign
  BY BuyerTyped DEF Buyer!RecordRefresh, Buyer!Frees, vars
<1>2. camp.pkg # Buyer!NoPackage /\ PackageBacked
  BY <1>1 DEF BInv, Told
<1>3. Buyer!Status(sync[c].settled) \in Buyer!Statuses
  BY <1>1, StatusTyped DEF Buyer!Sync, Buyer!Statuses
<1>4. /\ camp' \in Buyer!Campaign /\ camp'.st = camp.st /\ camp'.pkg.video = camp.pkg.video
  <2>1. camp' = [camp EXCEPT !.pkg.proof = Buyer!Status(sync[c].settled),
                   !.pkg.manifest = Buyer!Status(sync[c].settled)]
    BY DEF Buyer!RecordRefresh
  <2> QED
    BY <1>1, <1>3, <2>1 DEF Buyer!Campaign, Buyer!Package
<1>5. camp'.pkg # Buyer!NoPackage
  <2>1. camp.pkg.video = prod.result /\ prod.result # "none"
    BY <1>2 DEF PackageBacked, IInv, Exported, ResultStands
  <2> QED
    BY <1>4, <2>1 DEF Buyer!NoPackage
<1>6. Told' /\ sync' \in [Buyer!Callers -> Buyer!Sync]
  BY <1>1, <1>5, SyncMoves, FreeTyped
<1>7. Buyer!PackageTypeOK'
  BY <1>1, <1>4, <1>6, BuyerTyped DEF Buyer!PackageTypeOK
<1>8. Packing'
  BY <1>1, <1>4 DEF BInv, Packing, Done
<1>9. PackageBacked'
  BY <1>1, <1>2, <1>4 DEF PackageBacked
<1> QED
  BY <1>6, <1>7, <1>8, <1>9 DEF BInv

-----------------------------------------------------------------------------
(* The packaging. *)

\* What a step of the packaging owes; no synchronisation is touched.
LEMMA PackMoves ==
    ASSUME BInv, UNCHANGED <<settled, temp, sync, prod>>, camp' \in Buyer!Campaign,
           disk' \in Buyer!Package, pack' \in Buyer!Pack,
           spent' \in Nat,
           camp.pkg # Buyer!NoPackage => camp'.pkg # Buyer!NoPackage,
           Packing', PackageBacked'
    PROVE  BInv'
<1>1. Buyer!PackageTypeOK'
  BY BuyerTyped DEF Buyer!PackageTypeOK
<1>2. Told'
  BY DEF BInv, Told, Done
<1> QED
  BY <1>1, <1>2 DEF BInv

LEMMA ClaimPackagingKeeps ==
    ASSUME BInv, Buyer!ClaimPackaging, UNCHANGED vars PROVE BInv'
<1>1. /\ UNCHANGED <<settled, disk, temp, sync, spent, prod>> /\ camp \in Buyer!Campaign
      /\ disk \in Buyer!Package /\ spent \in Nat
  BY BuyerTyped DEF Buyer!ClaimPackaging, vars
<1>2. CASE /\ camp.st \in {"packaging", "packaging_failed"}
           /\ camp' = [camp EXCEPT !.st = "packaging"]
           /\ pack' = [pc |-> "download", settled |-> camp.settled]
  <2>1. /\ camp' \in Buyer!Campaign /\ camp'.pkg = camp.pkg
        /\ pack' \in Buyer!Pack /\ pack'.pc = "download"
    BY <1>1, <1>2 DEF Buyer!Campaign, Buyer!Pack
  <2>2. Done
    BY <1>2 DEF BInv, Packing
  <2>3. Packing' /\ PackageBacked'
    BY <1>1, <2>1, <2>2 DEF BInv, Packing, PackageBacked, Done
  <2> QED
    BY <1>1, <2>1, <2>3, PackMoves
<1>3. CASE pack' = Buyer!NoPack /\ UNCHANGED camp
  <2>1. Packing' /\ PackageBacked'
    BY <1>1, <1>3, FreeTyped DEF BInv, Packing, PackageBacked, Done
  <2> QED
    BY <1>1, <1>3, <2>1, PackMoves, FreeTyped
<1> QED
  BY <1>2, <1>3 DEF Buyer!ClaimPackaging

LEMMA DownloadKeeps ==
    ASSUME IInv, BInv, Buyer!Download, UNCHANGED vars PROVE BInv'
<1>1. /\ UNCHANGED <<settled, camp, temp, sync, spent, prod, export>> /\ camp \in Buyer!Campaign
      /\ disk \in Buyer!Package /\ pack \in Buyer!Pack /\ pack.pc = "download"
      /\ spent \in Nat
      /\ export["video"] = prod.result /\ export["video"] \in FileStates
      /\ disk' = [disk EXCEPT !.video = export["video"]]
      /\ pack' = [pack EXCEPT !.pc = "check"]
  BY BuyerTyped DEF Buyer!Download, Buyer!Verified, Buyer!Packs, SellerAnswer, vars, IInv, TypeOK, Items
<1>2. /\ disk' \in Buyer!Package /\ disk'.video = prod.result
      /\ disk'.proof = disk.proof /\ disk'.manifest = disk.manifest
  BY <1>1 DEF Buyer!Package, Buyer!Contents, FileStates
<1>3. pack' \in Buyer!Pack /\ pack'.pc = "check"
  BY <1>1 DEF Buyer!Pack
<1>4. Packing'
  BY <1>1, <1>2, <1>3 DEF BInv, Packing, Done
<1>5. PackageBacked'
  BY <1>1, <1>2 DEF BInv, PackageBacked, Buyer!Documents
<1> QED
  BY <1>1, <1>2, <1>3, <1>4, <1>5, PackMoves

LEMMA WriteDocumentKeeps ==
    ASSUME BInv, Buyer!WriteDocument, UNCHANGED vars PROVE BInv'
<1> DEFINE next == IF pack.pc = "proof" THEN "manifest" ELSE "record"
<1>1. /\ UNCHANGED <<settled, camp, temp, sync, spent, prod>> /\ camp \in Buyer!Campaign
      /\ disk \in Buyer!Package /\ pack \in Buyer!Pack /\ pack.pc \in {"proof", "manifest"}
      /\ spent \in Nat
      /\ disk' = [disk EXCEPT ![pack.pc] = Buyer!Status(pack.settled)]
      /\ pack' = [pack EXCEPT !.pc = next]
  BY BuyerTyped DEF Buyer!WriteDocument, Buyer!Packs, Buyer!Documents, vars
<1>2. Buyer!Status(pack.settled) \in {"pending", "settled"}
  BY <1>1, StatusTyped DEF Buyer!Pack
<1>3. /\ disk' \in Buyer!Package /\ disk'.video = disk.video
      /\ disk.proof # "none" => disk'.proof # "none"
      /\ disk.manifest # "none" => disk'.manifest # "none"
      /\ disk'[pack.pc] # "none"
  BY <1>1, <1>2, RenamedTyped DEF Buyer!Statuses
<1>4. pack' \in Buyer!Pack /\ pack'.pc = next
  BY <1>1 DEF Buyer!Pack
<1>5. Packing'
  <2>1. CASE pack.pc = "proof"
    BY <1>1, <1>3, <1>4, <2>1 DEF BInv, Packing, Done
  <2>2. CASE pack.pc = "manifest"
    BY <1>1, <1>3, <1>4, <2>2 DEF BInv, Packing, Done
  <2> QED
    BY <1>1, <2>1, <2>2
<1>6. PackageBacked'
  BY <1>1, <1>3 DEF BInv, PackageBacked, Buyer!Documents
<1> QED
  BY <1>1, <1>3, <1>4, <1>5, <1>6, PackMoves

LEMMA RecordPackageKeeps ==
    ASSUME IInv, BInv, Buyer!RecordPackage, UNCHANGED vars PROVE BInv'
<1>1. /\ UNCHANGED <<settled, disk, temp, sync, spent, prod, export>> /\ camp \in Buyer!Campaign
      /\ disk \in Buyer!Package /\ pack \in Buyer!Pack /\ pack.pc = "record"
      /\ spent \in Nat /\ pack' = Buyer!NoPack
      /\ camp' = [camp EXCEPT !.st = "completed",
                    !.pkg = [video |-> prod.result, proof |-> Buyer!Status(pack.settled),
                             manifest |-> Buyer!Status(pack.settled)]]
  BY BuyerTyped DEF Buyer!RecordPackage, SellerAnswer, vars
<1>2. /\ Done /\ disk.video = prod.result /\ disk.proof # "none" /\ disk.manifest # "none"
      /\ prod.result = "whole"
  BY <1>1 DEF BInv, Packing
<1>3. Buyer!Status(pack.settled) \in {"pending", "settled"}
  BY <1>1, StatusTyped DEF Buyer!Pack
<1>4. camp' \in Buyer!Campaign /\ camp'.pkg.video = prod.result
  BY <1>1, <1>2, <1>3 DEF Buyer!Campaign, Buyer!Package, Buyer!Statuses, Buyer!Contents, FileStates
<1>5. camp'.pkg # Buyer!NoPackage
  BY <1>2, <1>4 DEF Buyer!NoPackage
<1>6. Packing'
  BY <1>1, <1>2, FreeTyped DEF BInv, Packing, Done
<1>7. PackageBacked'
  BY <1>1, <1>2, <1>4 DEF PackageBacked, Buyer!Documents, Done
<1> QED
  BY <1>1, <1>4, <1>5, <1>6, <1>7, PackMoves, FreeTyped

LEMMA MediaPassesKeeps ==
    ASSUME BInv, Buyer!MediaPasses, UNCHANGED vars PROVE BInv'
<1>1. /\ UNCHANGED <<settled, camp, disk, temp, sync, spent, prod>> /\ camp \in Buyer!Campaign
      /\ disk \in Buyer!Package /\ pack \in Buyer!Pack /\ pack.pc = "check"
      /\ spent \in Nat /\ disk.video = "whole"
      /\ pack' = [pack EXCEPT !.pc = "proof"]
  BY BuyerTyped DEF Buyer!MediaPasses, Buyer!Packs, vars
<1>2. pack' \in Buyer!Pack /\ pack'.pc = "proof"
  BY <1>1 DEF Buyer!Pack
<1>3. Packing' /\ PackageBacked'
  BY <1>1, <1>2 DEF BInv, Packing, PackageBacked, Done
<1> QED
  BY <1>1, <1>2, <1>3, PackMoves

LEMMA PackagingFailsKeeps ==
    ASSUME BInv, Buyer!MediaRejected \/ Buyer!PackFails, UNCHANGED vars PROVE BInv'
<1>1. /\ UNCHANGED <<settled, disk, temp, sync, prod>> /\ camp \in Buyer!Campaign
      /\ disk \in Buyer!Package /\ pack.pc # "idle" /\ pack' = Buyer!NoPack
      /\ camp' = [camp EXCEPT !.st = "packaging_failed"]
      /\ spent' \in Nat
  BY BuyerTyped, SpendsTyped DEF Buyer!MediaRejected, Buyer!PackFails, Buyer!PackagingFails, vars
<1>2. camp' \in Buyer!Campaign /\ camp'.pkg = camp.pkg
  BY <1>1 DEF Buyer!Campaign
<1>3. Packing' /\ PackageBacked'
  BY <1>1, <1>2, FreeTyped DEF BInv, Packing, PackageBacked, Done
<1> QED
  BY <1>1, <1>2, <1>3, PackMoves, FreeTyped

LEMMA AroundKeeps ==
    ASSUME BInv, Buyer!Settle \/ Buyer!BuyerCrash, UNCHANGED vars PROVE BInv'
<1>1. CASE Buyer!Settle
  <2>1. UNCHANGED <<camp, disk, temp, sync, pack, spent, prod>> /\ settled' = TRUE
    BY <1>1 DEF Buyer!Settle, vars
  <2>2. Buyer!PackageTypeOK' /\ Told'
    BY <2>1, BuyerTyped DEF BInv, Buyer!PackageTypeOK, Told, Done
  <2> QED
    BY <2>1, <2>2, AloneKeeps DEF BInv
<1>2. CASE Buyer!BuyerCrash
  <2>1. /\ UNCHANGED <<settled, camp, disk, temp, prod>> /\ pack' = Buyer!NoPack
        /\ sync' = [c \in Buyer!Callers |-> Buyer!NoSync]
        /\ spent' \in Nat
    BY <1>2, SpendsTyped DEF Buyer!BuyerCrash, vars
  <2>2. Told'
    BY <2>1, FreeTyped DEF Told
  <2>3. Buyer!PackageTypeOK'
    BY <2>1, FreeTyped, BuyerTyped DEF Buyer!PackageTypeOK
  <2>4. Packing' /\ PackageBacked'
    BY <2>1, FreeTyped DEF BInv, Packing, PackageBacked, Done
  <2> QED
    BY <2>2, <2>3, <2>4 DEF BInv
<1> QED
  BY <1>1, <1>2

-----------------------------------------------------------------------------
(* The theorems. *)

LEMMA InitBInv == DeliveryInit => IInv /\ BInv
<1> SUFFICES ASSUME DeliveryInit PROVE IInv /\ BInv
  OBVIOUS
<1>1. IInv /\ Buyer!PackageInit
  BY InitIInv DEF DeliveryInit
<1>2. camp = [st |-> "fulfillment", settled |-> FALSE, pkg |-> Buyer!NoPackage] /\ pack = Buyer!NoPack
      /\ disk = Buyer!NoPackage /\ Buyer!NoPackage \in Buyer!Package
  BY <1>1 DEF Buyer!PackageInit, Buyer!NoPackage, Buyer!Package, Buyer!Contents, Buyer!Statuses
<1>3. Buyer!PackageTypeOK
  <2>1. camp \in Buyer!Campaign
    BY <1>2 DEF Buyer!Campaign
  <2>2. temp \in [Buyer!Documents -> Buyer!Statuses] /\ sync \in [Buyer!Callers -> Buyer!Sync]
    BY <1>1, FreeTyped DEF Buyer!PackageInit, Buyer!Statuses
  <2>3. settled \in BOOLEAN /\ spent \in Nat
    BY <1>1 DEF Buyer!PackageInit
  <2> QED
    BY <1>2, <2>1, <2>2, <2>3, FreeTyped DEF Buyer!PackageTypeOK
<1>4. Told /\ Packing /\ PackageBacked
  BY <1>1, <1>2, FreeTyped DEF Buyer!PackageInit, Told, Packing, PackageBacked
<1> QED
  BY <1>1, <1>3, <1>4 DEF BInv

LEMMA StepBInv ==
    IInv /\ BInv /\ [DeliveryNext]_<<vars, buyerVars>> => IInv' /\ BInv'
<1> SUFFICES ASSUME IInv, BInv, [DeliveryNext]_<<vars, buyerVars>> PROVE IInv' /\ BInv'
  OBVIOUS
<1>1. CASE [Next]_vars /\ UNCHANGED buyerVars
  BY <1>1, StepIInv, SellerKeeps
<1>2. CASE Buyer!PackageNext /\ UNCHANGED vars
  <2>1. IInv'
    BY <1>2, StepIInv
  <2>2. ASSUME NEW c \in Buyer!Callers, Buyer!SyncStep(c) PROVE BInv'
    BY <1>2, <2>2, AskKeeps, CommitKeeps, SyncFailsKeeps, WriteTemporaryKeeps, RenameKeeps,
      RecordRefreshKeeps DEF Buyer!SyncStep
  <2>3. CASE Buyer!PackStep
    <3>1. CASE Buyer!ClaimPackaging \/ Buyer!MediaPasses \/ Buyer!MediaRejected \/ Buyer!PackFails
      <4>1. CASE Buyer!ClaimPackaging
        BY <1>2, <2>1, <4>1, ClaimPackagingKeeps
      <4>2. CASE Buyer!MediaPasses
        BY <1>2, <2>1, <4>2, MediaPassesKeeps
      <4>3. CASE Buyer!MediaRejected \/ Buyer!PackFails
        BY <1>2, <2>1, <4>3, PackagingFailsKeeps
      <4> QED
        BY <3>1, <4>1, <4>2, <4>3
    <3>2. CASE Buyer!Download \/ Buyer!RecordPackage
      BY <1>2, <2>1, <3>2, DownloadKeeps, RecordPackageKeeps
    <3>3. CASE Buyer!WriteDocument
      BY <1>2, <2>1, <3>3, WriteDocumentKeeps
    <3> QED
      BY <2>3, <3>1, <3>2, <3>3 DEF Buyer!PackStep
  <2> QED
    BY <1>2, <2>1, <2>2, <2>3, AroundKeeps DEF Buyer!PackageNext
<1> QED
  BY <1>1, <1>2 DEF DeliveryNext

LEMMA AlwaysBInv == DeliverySpec => [](IInv /\ BInv)
<1>1. IInv /\ BInv /\ [DeliveryNext]_<<vars, buyerVars>> => (IInv /\ BInv)'
  BY StepBInv
<1> QED
  BY InitBInv, <1>1, PTL DEF DeliverySpec

\* Whatever crashes and overlaps on either side, a package on record is the file whose
\* digest the completed production recorded, whole, with every document it lists
\* (DeliverySound).
THEOREM PackageStandsForDelivery == DeliverySpec => []DeliverySound
<1>1. IInv /\ BInv => DeliverySound
  BY IInvSound DEF BInv, DeliverySound
<1> QED
  BY <1>1, AlwaysBInv, PTL

\* Beside a Buyer, too, a Build is killed and lost only so (BuildKept).
THEOREM PaidBuildKeptInDelivery == DeliverySpec => BuildKept
<1>1. IInv /\ BInv /\ [DeliveryNext]_<<vars, buyerVars>> => [LostRightly /\ KilledRightly]_vars
  <2>1. IInv /\ [Next]_vars => LostRightly /\ KilledRightly
    BY StepKeeps
  <2>2. [DeliveryNext]_<<vars, buyerVars>> => [Next]_vars
    BY DEF DeliveryNext
  <2> QED
    BY <2>1, <2>2
<1> QED
  BY <1>1, AlwaysBInv, PTL DEF DeliverySpec, BuildKept, LostRightly, KilledRightly
=============================================================================
