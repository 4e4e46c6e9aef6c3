------------------------- MODULE MCWebhookDelivery -------------------------
(***************************************************************************)
(* WebhookDelivery for TLC: two workers, an owner and a failing receiver.  *)
(***************************************************************************)
EXTENDS WebhookDelivery, TLC

Interchangeable == Permutations(Workers) \cup Permutations(Deliveries)
=============================================================================
