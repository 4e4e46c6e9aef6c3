------------------------------ MODULE MCOutbox ------------------------------
(***************************************************************************)
(* Outbox for TLC: two e-mails, two runs.                                  *)
(***************************************************************************)
EXTENDS Outbox, TLC
=============================================================================
