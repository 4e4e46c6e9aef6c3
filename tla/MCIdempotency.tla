--------------------------- MODULE MCIdempotency ---------------------------
(***************************************************************************)
(* Idempotency for TLC: a request, its retries and one with another body.  *)
(***************************************************************************)
EXTENDS Idempotency
=============================================================================
