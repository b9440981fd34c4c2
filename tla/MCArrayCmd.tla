----------------------------- MODULE MCArrayCmd -----------------------------
(* Instances of ArrayCmd for TLC. *)
EXTENDS ArrayCmd
=============================================================================
