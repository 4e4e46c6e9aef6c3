------------------------ MODULE BackendCredentials ------------------------
(***************************************************************************)
(* What the gateway promises about the keys it has minted on the backends, *)
(* whatever its requests, sweeper and reconciler do: a backend key is      *)
(* issued once, may go into service once, leaves service for good, and is  *)
(* revoked only after that.  Nobody revokes a key that is in service or on *)
(* its way there, and a key given up on never comes into service.          *)
(***************************************************************************)
CONSTANT Ids

VARIABLE phase

Phases == {"none", "pending", "serving", "released", "revoked"}

Init == phase = [b \in Ids |-> "none"]

\* Every key of B leaves one of the phases `from` for `to`; the rest stay.
Move(B, from, to) ==
    /\ \A b \in B : phase[b] \in from
    /\ phase' = [b \in Ids |-> IF b \in B THEN to ELSE phase[b]]

\* A request mints a key and holds its id.
Issue(B) == Move(B, {"none"}, "pending")

\* The grants that name the keys are saved, under an active gateway key.
Serve(B) == Move(B, {"pending"}, "serving")

\* Nobody will use the keys any more (or ever learned of them).
Release(B) == Move(B, {"none", "pending", "serving"}, "released")

Revoke(B) == Move(B, {"released"}, "revoked")

Next == \E B \in SUBSET Ids : Issue(B) \/ Serve(B) \/ Release(B) \/ Revoke(B)

Spec == Init /\ [][Next]_phase
=============================================================================
