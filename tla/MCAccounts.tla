----------------------------- MODULE MCAccounts -----------------------------
(***************************************************************************)
(* Accounts for TLC: two requests at a time.                               *)
(***************************************************************************)
EXTENDS Accounts, TLC

Symmetry == Permutations(Requests)
=============================================================================
