--------------------------- MODULE MCOAuthGrants ---------------------------
(***************************************************************************)
(* OAuthGrants for TLC: two requests at a time.                            *)
(***************************************************************************)
EXTENDS OAuthGrants, TLC

Symmetry == Permutations(Requests) \cup Permutations(Uris) \cup Permutations(Scopes)
=============================================================================
