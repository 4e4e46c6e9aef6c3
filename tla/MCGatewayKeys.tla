--------------------------- MODULE MCGatewayKeys ---------------------------
(***************************************************************************)
(* GatewayKeys for TLC: one account whose requests overlap.                *)
(***************************************************************************)
EXTENDS GatewayKeys, TLC

\* Requests and backend keys are interchangeable.
Interchangeable == Permutations(Requests) \cup Permutations(Backends)
=============================================================================
