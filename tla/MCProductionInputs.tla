-------------------------- MODULE MCProductionInputs --------------------------
(* An instance of ProductionInputs for TLC. *)
EXTENDS ProductionInputs
=============================================================================
