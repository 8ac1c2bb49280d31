------------------------------ MODULE MCGateway ------------------------------
(***************************************************************************)
(* Two requests over one slot, a quota of one request per window, and a    *)
(* key that loses its expiry once.                                         *)
(***************************************************************************)
EXTENDS Gateway
=============================================================================
