------------------------------ MODULE Delivery -------------------------------
(***************************************************************************)
(* From the Build to the package: HypitBuild produces an order,            *)
(* CampaignPackage asks for it, downloads it and keeps it.  They share what *)
(* the Seller answers.                                                     *)
(***************************************************************************)
EXTENDS HypitBuild

CONSTANTS Clients, MaxFailures      \* as in CampaignPackage

ASSUME PackageAssumption ==
    "poll" \notin Clients /\ MaxFailures \in Nat

VARIABLES settled, camp, disk, temp, sync, pack, spent

buyerVars == <<settled, camp, disk, temp, sync, pack, spent>>

\* GET /v1/orders/:id and its artifact.
SellerAnswer == [done |-> prod.st = "completed", digest |-> prod.result, file |-> export["video"]]

Buyer == INSTANCE CampaignPackage WITH order <- SellerAnswer

DeliveryInit == Init /\ Buyer!PackageInit

DeliveryNext ==
    \/ Next /\ UNCHANGED buyerVars
    \/ Buyer!PackageNext /\ UNCHANGED vars

DeliverySpec ==
    /\ DeliveryInit /\ [][DeliveryNext]_<<vars, buyerVars>>
    /\ WF_vars(Task) /\ WF_vars(BuildEnds)
    /\ WF_buyerVars(Buyer!SyncStep("poll") /\ UNCHANGED vars)
    /\ WF_buyerVars(Buyer!PackStep /\ UNCHANGED vars)

-----------------------------------------------------------------------------
\* A package on record is the Seller's delivery and is there: over crashes of either
\* side, renewed packaging and overlapping refreshes its creative is the file whose digest
\* the completed production recorded, whole and as ordered, and each document it lists is
\* in the directory (campaign-completion.mjs 146-306, buyer-service.mjs 594-633 and
\* 1056-1108).
PackageBacked ==
    camp.pkg # Buyer!NoPackage =>
        /\ prod.st = "completed" /\ prod.result = "whole"
        /\ camp.pkg.video = prod.result /\ disk.video = prod.result
        /\ \A d \in Buyer!Documents : disk[d] # "none"

DeliverySound == BuildSound /\ Buyer!PackageTypeOK /\ PackageBacked

\* How a paid order can end: the operator sees a failed production, the Buyer has the
\* package, or the completed production recorded a video that no packaging will accept.
Outcome ==
    \/ prod.st = "failed"
    \/ camp.pkg # Buyer!NoPackage
    \/ prod.st = "completed" /\ prod.result # "whole"

\* A production that is taken up comes to one of these, however its container fares and
\* whoever crashes on the way, unless its Build was killed with its container and Hypit
\* never takes it up (seller-service.mjs 560-714, buyer-service.mjs 661-690, 1056-1108).
DeliveryEnds ==
    prod.st \in {"queued", "producing"} ~> Outcome \/ [](build = "killed")
=============================================================================
