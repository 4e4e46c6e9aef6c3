---------------------------- MODULE MCBilling ----------------------------
(***************************************************************************)
(* Billing for TLC: one paid plan or two, months of three ticks or more.   *)
(***************************************************************************)
EXTENDS Billing, TLC

OnePrice == ("free" :> 0) @@ ("pro" :> 1)
MCPrice == ("free" :> 0) @@ ("pro" :> 1) @@ ("business" :> 2)

Symmetry == Permutations(Requests)
=============================================================================
