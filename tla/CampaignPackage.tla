--------------------------- MODULE CampaignPackage ---------------------------
(***************************************************************************)
(* The package the Buyer makes of a delivered order                        *)
(* (campaign-completion.mjs, and what buyer-service.mjs does around it):   *)
(* the download and its check, the files in the package directory, the     *)
(* record of their digests, and the payment proof that is rewritten when   *)
(* the money settles.                                                      *)
(*                                                                         *)
(* One paid campaign that nobody cancels.  The proof stands for the        *)
(* documents that follow the settlement; time stamps are left out.         *)
(***************************************************************************)
EXTENDS Naturals

CONSTANTS
    Clients,            \* who may call syncCampaign beside the poll timer
    MaxFailures         \* bound on crashes of the Buyer, failing requests, downloads and writes

VARIABLES
    order,      \* what the Seller answers: done, the recorded digest, the file it serves
    settled,    \* whether the Seller reports the settlement
    camp, disk, temp, sync, pack, spent

-----------------------------------------------------------------------------
Callers == Clients \cup {"poll"}
Contents == {"none", "torn", "unfit", "whole"}
Documents == {"proof", "manifest"}
Statuses == {"none", "pending", "settled"}

\* package: the files as recorded.
NoPackage == [video |-> "none", proof |-> "none", manifest |-> "none"]
Package == [video : Contents, proof : Statuses, manifest : Statuses]
Campaign == [st : {"fulfillment", "packaging", "packaging_failed", "completed"},
    settled : BOOLEAN, pkg : Package]
\* done, settled: the answer held; doc: the next file of a refresh.
Sync == [pc : {"idle", "commit", "write", "rename", "record"}, done : BOOLEAN,
    settled : BOOLEAN, doc : Documents]
Pack == [pc : {"idle", "claim", "download", "check", "proof", "manifest", "record"}, settled : BOOLEAN]
NoSync == [pc |-> "idle", done |-> FALSE, settled |-> FALSE, doc |-> "proof"]
NoPack == [pc |-> "idle", settled |-> FALSE]

PackageTypeOK ==
    /\ settled \in BOOLEAN
    /\ camp \in Campaign
    /\ disk \in Package
    /\ temp \in [Documents -> Statuses]
    /\ sync \in [Callers -> Sync]
    /\ pack \in Pack
    /\ spent \in Nat

PackageInit ==
    /\ settled = FALSE
    /\ camp = [st |-> "fulfillment", settled |-> FALSE, pkg |-> NoPackage]
    /\ disk = NoPackage                            \* the package directory
    /\ temp = [d \in Documents |-> "none"]         \* the temporary beside each document
    /\ sync = [c \in Callers |-> NoSync]           \* syncCampaign, per caller
    /\ pack = NoPack                               \* the entry in completionTasks
    /\ spent = 0

Packaged == camp.pkg # NoPackage
Status(s) == IF s THEN "settled" ELSE "pending"
Spends == spent < MaxFailures /\ spent' = spent + 1
Frees(c) == sync' = [sync EXCEPT ![c] = NoSync]

-----------------------------------------------------------------------------
(* syncCampaign. *)

\* Mutant: a settled campaign is left alone, packaged or not.
PolledUnsettled == ~camp.settled

\* pollOnce leaves a settled campaign alone once it is packaged.
Polled == ~camp.settled \/ camp.st \in {"fulfillment", "packaging", "packaging_failed"}

Ask(c) ==
    /\ sync[c].pc = "idle"
    /\ c = "poll" => Polled
    /\ sync' = [sync EXCEPT ![c] = [@ EXCEPT !.pc = "commit", !.done = order.done, !.settled = settled]]
    /\ UNCHANGED <<settled, camp, disk, temp, pack, spent>>

\* The transaction of a sync, and where the sync goes from there.
Commit(c) ==
    LET next == [camp EXCEPT !.settled = sync[c].settled,
                     !.st = IF Packaged THEN "completed"
                            ELSE IF sync[c].done THEN "packaging" ELSE "fulfillment"]
    IN  /\ sync[c].pc = "commit"
        /\ camp' = next
        /\ IF next.st = "packaging"
           THEN Frees(c) /\ pack' = IF pack = NoPack THEN [NoPack EXCEPT !.pc = "claim"] ELSE pack
           ELSE /\ UNCHANGED pack
                /\ IF Packaged /\ camp.pkg.proof # Status(next.settled)
                   THEN sync' = [sync EXCEPT ![c] = [@ EXCEPT !.pc = "write"]]
                   ELSE Frees(c)
        /\ UNCHANGED <<settled, disk, temp, spent>>

SyncFails(c) ==
    /\ sync[c].pc # "idle"
    /\ Spends
    /\ Frees(c)
    /\ UNCHANGED <<settled, camp, disk, temp, pack>>

-----------------------------------------------------------------------------
(* refreshPaymentProof: each document is written beside its name, under a name all *)
(* calls of the process share, and renamed. *)

WriteTemporary(c) ==
    /\ sync[c].pc = "write"
    /\ temp' = [temp EXCEPT ![sync[c].doc] = Status(sync[c].settled)]
    /\ sync' = [sync EXCEPT ![c] = [@ EXCEPT !.pc = "rename"]]
    /\ UNCHANGED <<settled, camp, disk, pack, spent>>

\* Whoever renames second finds nothing and fails.
Rename(c) ==
    LET doc == sync[c].doc IN
    /\ sync[c].pc = "rename"
    /\ IF temp[doc] = "none"
       THEN Frees(c) /\ UNCHANGED <<temp, disk>>
       ELSE /\ disk' = [disk EXCEPT ![doc] = temp[doc]]
            /\ temp' = [temp EXCEPT ![doc] = "none"]
            /\ sync' = [sync EXCEPT ![c] = [@ EXCEPT
                   !.pc = IF doc = "proof" THEN "write" ELSE "record", !.doc = "manifest"]]
    /\ UNCHANGED <<settled, camp, pack, spent>>

\* The record replaces the campaign's package by the one the refresh read, rewritten.
RecordRefresh(c) ==
    /\ sync[c].pc = "record"
    /\ camp' = [camp EXCEPT !.pkg.proof = Status(sync[c].settled), !.pkg.manifest = Status(sync[c].settled)]
    /\ Frees(c)
    /\ UNCHANGED <<settled, disk, temp, pack, spent>>

-----------------------------------------------------------------------------
(* #startCompletion and complete(). *)

Packs(pc) == pack' = [pack EXCEPT !.pc = pc]

ClaimPackaging ==
    /\ pack.pc = "claim"
    /\ IF camp.st \in {"packaging", "packaging_failed"}
       THEN /\ camp' = [camp EXCEPT !.st = "packaging"]
            /\ pack' = [pc |-> "download", settled |-> camp.settled]
       ELSE pack' = NoPack /\ UNCHANGED camp
    /\ UNCHANGED <<settled, disk, temp, sync, spent>>

\* The Seller serves the file if it still has the recorded digest; so does the Buyer keep it.
Verified(file) == file = order.digest

Download ==
    /\ pack.pc = "download"
    /\ Verified(order.file)
    /\ disk' = [disk EXCEPT !.video = order.file]
    /\ Packs("check")
    /\ UNCHANGED <<settled, camp, temp, sync, spent>>

PackagingFails ==
    /\ camp' = [camp EXCEPT !.st = "packaging_failed"]
    /\ pack' = NoPack
    /\ UNCHANGED <<settled, disk, temp, sync>>

\* The media check is a function of the file: one that is cut off or not as ordered is
\* rejected at every attempt.
MediaPasses ==
    /\ pack.pc = "check" /\ disk.video = "whole"
    /\ Packs("proof")
    /\ UNCHANGED <<settled, camp, disk, temp, sync, spent>>

MediaRejected ==
    /\ pack.pc = "check" /\ disk.video # "whole"
    /\ PackagingFails
    /\ UNCHANGED spent

\* Mutant: the manifest is left out.
WriteProofOnly ==
    /\ pack.pc = "proof"
    /\ disk' = [disk EXCEPT !.proof = Status(pack.settled)]
    /\ Packs("record")
    /\ UNCHANGED <<settled, camp, temp, sync, spent>>

WriteDocument ==
    /\ pack.pc \in Documents
    /\ disk' = [disk EXCEPT ![pack.pc] = Status(pack.settled)]
    /\ Packs(IF pack.pc = "proof" THEN "manifest" ELSE "record")
    /\ UNCHANGED <<settled, camp, temp, sync, spent>>

RecordPackage ==
    /\ pack.pc = "record"
    /\ camp' = [camp EXCEPT !.st = "completed",
                    !.pkg = [video |-> order.digest, proof |-> Status(pack.settled),
                             manifest |-> Status(pack.settled)]]
    /\ pack' = NoPack
    /\ UNCHANGED <<settled, disk, temp, sync, spent>>

\* A download, a tool of the check or a write fails.
PackFails ==
    /\ pack.pc \notin {"idle", "claim"}
    /\ Spends
    /\ PackagingFails

-----------------------------------------------------------------------------
Settle == ~settled /\ settled' = TRUE /\ UNCHANGED <<camp, disk, temp, sync, pack, spent>>

BuyerCrash ==
    /\ Spends
    /\ sync' = [c \in Callers |-> NoSync] /\ pack' = NoPack
    /\ UNCHANGED <<settled, camp, disk, temp>>

SyncStep(c) == Ask(c) \/ Commit(c) \/ SyncFails(c) \/ WriteTemporary(c) \/ Rename(c) \/ RecordRefresh(c)
PackStep ==
    \/ ClaimPackaging \/ Download \/ MediaPasses \/ MediaRejected
    \/ WriteDocument \/ RecordPackage \/ PackFails

PackageNext ==
    \/ \E c \in Callers : SyncStep(c)
    \/ PackStep
    \/ Settle \/ BuyerCrash
=============================================================================
