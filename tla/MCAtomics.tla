----------------------------- MODULE MCAtomics ------------------------------
(* Instances of Atomics for TLC. *)
EXTENDS Atomics
=============================================================================
