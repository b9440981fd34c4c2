------------------------------ MODULE MCPortal ------------------------------
(* Instances of Portal for TLC. *)
EXTENDS Portal

CONSTANTS p1, p2, p3

mc_Portals == {p1, p2, p3}
mc_MemBackPortals == {p2, p3}
=============================================================================
