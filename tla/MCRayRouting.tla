---------------------------- MODULE MCRayRouting ----------------------------
(* RayRouting for TLC. *)
EXTENDS RayRouting, TLC
=============================================================================
