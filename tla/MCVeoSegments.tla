---------------------------- MODULE MCVeoSegments ----------------------------
(* Instances of VeoSegments for TLC: an order with a reference video by itself, and
two orders without one that compete for the ledger.  An order that is stopped from
the start takes no part. *)
EXTENDS VeoSegments, TLC

CONSTANTS o1, o2, o3

FirstWithReference == o1 :> {1, 2} @@ o2 :> {1} @@ o3 :> {1}
OneOrTwo == stopped \in {{o1}, {o2, o3}} /\ Init
InstancesSpec == OneOrTwo /\ [][Next]_vars /\ Fairness
=============================================================================
