------------------------------- MODULE MCVdq --------------------------------
(* Instances of Vdq for TLC. *)
EXTENDS Vdq
=============================================================================
