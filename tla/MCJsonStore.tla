---------------------------- MODULE MCJsonStore -----------------------------
(* Instances of JsonStore for TLC. *)
EXTENDS JsonStore
CONSTANTS p1, p2, p3, t1, t2
=============================================================================
