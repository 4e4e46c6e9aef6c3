--------------------------- MODULE MCGatewayCalls ---------------------------
(***************************************************************************)
(* GatewayCalls for TLC: two requests at a time, one backend.              *)
(***************************************************************************)
EXTENDS GatewayCalls
=============================================================================
