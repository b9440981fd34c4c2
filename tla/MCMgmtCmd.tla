----------------------------- MODULE MCMgmtCmd ------------------------------
(* Instances of MgmtCmd for TLC. *)
EXTENDS MgmtCmd
=============================================================================
