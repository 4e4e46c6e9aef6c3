--------------------------- MODULE EventDelivery ---------------------------
(***************************************************************************)
(* What a webhook delivery may go through, whoever works on it: it is      *)
(* queued, tried a bounded number of times, and then settled once.  One    *)
(* that was delivered is never touched again but to be forgotten; a failed *)
(* one starts over, with all its tries, only when its owner asks.          *)
(***************************************************************************)
EXTENDS Naturals

CONSTANTS Ids, MaxTries

VARIABLES status, tries

Init ==
    /\ status = [d \in Ids |-> "none"]
    /\ tries = [d \in Ids |-> 0]

Set(d, s, n) ==
    /\ status' = [status EXCEPT ![d] = s]
    /\ tries' = [tries EXCEPT ![d] = n]

Queue(d) == status[d] = "none" /\ Set(d, "pending", 0)

\* One more try, the last one settling it.
Try(d) ==
    /\ status[d] = "pending"
    /\ tries[d] < MaxTries
    /\ \/ \E s \in {"delivered", "failed"} : Set(d, s, tries[d] + 1)
       \/ tries[d] + 1 < MaxTries /\ Set(d, "pending", tries[d] + 1)

Reopen(d) == status[d] = "failed" /\ Set(d, "pending", 0)

\* Forgotten: old and settled, or together with its endpoint.
Forget(D) ==
    /\ status' = [d \in Ids |-> IF d \in D THEN "none" ELSE status[d]]
    /\ tries' = [d \in Ids |-> IF d \in D THEN 0 ELSE tries[d]]

Next ==
    \/ \E d \in Ids : Queue(d) \/ Try(d) \/ Reopen(d)
    \/ \E D \in SUBSET Ids : Forget(D)

Spec == Init /\ [][Next]_<<status, tries>>
=============================================================================
