--------------------------- MODULE MCMemberships ---------------------------
(***************************************************************************)
(* Memberships for TLC: drafts and requests are interchangeable.           *)
(***************************************************************************)
EXTENDS Memberships, TLC

Symmetry ==
    Permutations(Drafts) \cup Permutations(Requests)
=============================================================================
