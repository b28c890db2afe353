-------------------------- MODULE MCSupplierAttempt --------------------------
(* An instance of SupplierAttempt for TLC: each call in a process of its own, as
many as it takes for two reclaimers of a dead owner or for a dead reclaimer. *)
EXTENDS SupplierAttempt, TLC

CONSTANTS p1, p2, p3, k1, k2, k3

OwnProcesses == k1 :> p1 @@ k2 :> p2 @@ k3 :> p3
=============================================================================
