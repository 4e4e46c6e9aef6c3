--------------------------- MODULE DeliveryProofs ---------------------------
(***************************************************************************)
(* Proofs about what goes out: WebhookDelivery, for any endpoints,         *)
(* deliveries, workers and requests, and Outbox, for any e-mails and any   *)
(* finite number of runs.                                                  *)
(*                                                                         *)
(* Webhooks: a delivery that a worker holds is pending, no other worker    *)
(* has it, and its endpoint is still there; then the failure limit holds,  *)
(* endpoints are switched off for a cause, and every delivery goes through *)
(* the life cycle of EventDelivery.                                        *)
(*                                                                         *)
(* E-mails: nobody locks a row, and two runs may have the same one.  What  *)
(* holds is a budget: the runs that may yet have an e-mail accepted, and   *)
(* the row while it is to be had, are no more than the acceptances left;   *)
(* and from no count of attempts that anybody has read can it be tried     *)
(* more often than there are tries left.                                   *)
(***************************************************************************)
EXTENDS WebhookDelivery, Outbox, FiniteSetTheorems, TLAPS

----------------------------------------------------------------------------
(* The invariant.                                                          *)

\* An endpoint that does not exist is off, with no failures counted.
EndpointsOK ==
    /\ endpoint \in [Endpoints -> EndpointState]
    /\ active \subseteq Endpoints
    /\ failures \in [Endpoints -> Nat]
    /\ \A e \in Endpoints : ~Exists(e) => e \notin active /\ failures[e] = 0
    /\ \A e \in active : failures[e] < DisableAfter

\* A row r fits: it has an endpoint that exists, and tries left when pending.
Fits(r) ==
    IF r.status = "none" THEN r = NoRow
    ELSE /\ r.endpoint \in Endpoints
         /\ Exists(r.endpoint)
         /\ r.status = "pending" => r.attempts < MaxAttempts

DeliveriesOK ==
    /\ delivery \in [Deliveries -> Delivery]
    /\ \A d \in Deliveries : Fits(delivery[d])

\* The due deliveries are pending, and ordered one after the other.
InOrder ==
    /\ \A d \in line : <<d, d>> \notin before
    /\ \A c, d \in line : c # d => (<<c, d>> \in before <=> <<d, c>> \notin before)
    /\ \A b, c, d \in line :
          <<b, c>> \in before /\ <<c, d>> \in before => <<b, d>> \in before

LineOK ==
    /\ line \subseteq {d \in Deliveries : delivery[d].status = "pending"}
    /\ before \subseteq line \X line
    /\ InOrder

\* Worker w holds a delivery that is due, and that no other worker holds.
HoldsOne(w) ==
    /\ worker[w].delivery \in line
    /\ \A v \in Workers : worker[v].delivery = worker[w].delivery => v = w

WorkersOK ==
    /\ worker \in [Workers -> Worker]
    /\ \A w \in Workers : worker[w] = Waiting \/ HoldsOne(w)

RequestsOK == req \in [Requests -> Request]

HooksInv == EndpointsOK /\ DeliveriesOK /\ LineOK /\ WorkersOK /\ RequestsOK

LEMMA InvIsTyped == HooksInv => TypeOK
  BY DEF HooksInv, TypeOK, EndpointsOK, DeliveriesOK, LineOK, WorkersOK, RequestsOK

LEMMA InitHooks == ASSUME Init PROVE HooksInv
<1>1. EndpointsOK
  BY DEF Init, EndpointsOK, EndpointState, Exists
<1>2. DeliveriesOK
  BY LimitsAssumption DEF Init, DeliveriesOK, Delivery, NoRow, Fits
<1>3. LineOK
  BY DEF Init, LineOK, InOrder
<1>4. WorkersOK
  BY DEF Init, WorkersOK, Worker, Waiting
<1>5. RequestsOK
  BY DEF Init, RequestsOK, Request, Idle
<1>6. QED
  BY <1>1, <1>2, <1>3, <1>4, <1>5 DEF HooksInv

----------------------------------------------------------------------------
(* The helpers.                                                            *)

LEMMA JoinKeeps ==
  ASSUME LineOK, NEW d, d \notin line, Join(d)
  PROVE  /\ before' \subseteq line' \X line'
         /\ InOrder'
  BY DEF LineOK, InOrder, Join

LEMMA LeaveKeeps ==
  ASSUME LineOK, NEW D, Leave(D)
  PROVE  /\ before' \subseteq line' \X line'
         /\ InOrder'
<1>1. \A c, d : <<c, d>> \in before' <=> <<c, d>> \in before /\ c \notin D /\ d \notin D
  BY DEF Leave
<1>2. before' \subseteq line' \X line'
  BY DEF LineOK, Leave
<1>3. InOrder'
  BY <1>1 DEF LineOK, InOrder, Leave
<1>4. QED
  BY <1>2, <1>3

\* Rows fit as long as their endpoints exist.
LEMMA FitsKeeps ==
  ASSUME NEW r \in Delivery, Fits(r), endpoint \in [Endpoints -> EndpointState],
         \A e \in Endpoints : Exists(e) => Exists(e)'
  PROVE  Fits(r)'
  BY DEF Fits

LEMMA BecomesKeeps ==
  ASSUME RequestsOK, NEW h \in Requests, NEW r \in Request, Becomes(h, r)
  PROVE  RequestsOK'
  BY DEF RequestsOK, Becomes

\* A worker that holds a delivery: the row is pending and its endpoint there.
LEMMA HeldRow ==
  ASSUME HooksInv, NEW w \in Workers, worker[w].delivery # None
  PROVE  /\ worker[w].delivery \in Deliveries
         /\ HoldsOne(w)
         /\ LET r == delivery[worker[w].delivery] IN
            /\ r \in Delivery
            /\ r.status = "pending"
            /\ r.endpoint \in Endpoints
            /\ Exists(r.endpoint)
            /\ r.attempts < MaxAttempts
<1>1. HoldsOne(w)
  BY DEF HooksInv, WorkersOK, Waiting
<1>2. worker[w].delivery \in Deliveries
  BY <1>1 DEF HooksInv, LineOK, HoldsOne
<1>3. delivery[worker[w].delivery].status = "pending"
  BY <1>1, <1>2 DEF HooksInv, LineOK, HoldsOne
<1>4. delivery[worker[w].delivery] \in Delivery /\ Fits(delivery[worker[w].delivery])
  BY <1>2 DEF HooksInv, DeliveriesOK
<1>5. QED
  BY <1>1, <1>2, <1>3, <1>4 DEF Fits

\* What it records: one try more, within the limit.
LEMMA TriedRow ==
  ASSUME HooksInv, NEW w \in Workers, worker[w].delivery # None
  PROVE  LET r == Tried(w) IN
         /\ r \in Delivery
         /\ r.status = "pending"
         /\ r.endpoint = delivery[worker[w].delivery].endpoint
         /\ r.attempts = delivery[worker[w].delivery].attempts + 1
         /\ \A s \in {"delivered", "failed"} :
              /\ [r EXCEPT !.status = s] \in Delivery
              /\ [r EXCEPT !.status = s].status = s
              /\ [r EXCEPT !.status = s].endpoint = r.endpoint
              /\ [r EXCEPT !.status = s].attempts = r.attempts
<1>1. PICK r \in Delivery : r = delivery[worker[w].delivery]
  BY HeldRow
<1>2. /\ r.status = "pending" /\ r.endpoint \in Endpoints
      /\ r.attempts \in Nat /\ r.attempts < MaxAttempts
  BY <1>1, HeldRow DEF Delivery
<1>3. Tried(w) = [r EXCEPT !.attempts = @ + 1]
  BY <1>1 DEF Tried
<1>4. r.attempts + 1 \in 0..MaxAttempts
  BY <1>2, LimitsAssumption
<1>5. QED
  BY <1>1, <1>2, <1>3, <1>4 DEF Delivery

----------------------------------------------------------------------------
(* The steps of requests.                                                  *)

\* Nothing but the request.
LEMMA RequestOnly ==
  ASSUME HooksInv, RequestsOK', UNCHANGED <<rows, worker>>
  PROVE  HooksInv'
<1>1. EndpointsOK' /\ DeliveriesOK'
  BY DEF HooksInv, EndpointsOK, DeliveriesOK, Fits, Exists, rows
<1>2. LineOK' /\ WorkersOK'
  BY DEF HooksInv, LineOK, InOrder, WorkersOK, HoldsOne, rows, queued
<1>3. QED
  BY <1>1, <1>2 DEF HooksInv

\* Only the endpoints' columns, and perhaps a request.
LEMMA EndpointsOnly ==
  ASSUME HooksInv, EndpointsOK', RequestsOK', UNCHANGED <<delivery, queued, worker>>,
         \A e \in Endpoints : Exists(e) => Exists(e)'
  PROVE  HooksInv'
<1>1. DeliveriesOK'
  BY FitsKeeps DEF HooksInv, EndpointsOK, DeliveriesOK
<1>2. LineOK' /\ WorkersOK'
  BY DEF HooksInv, LineOK, InOrder, WorkersOK, HoldsOne, queued
<1>3. QED
  BY <1>1, <1>2 DEF HooksInv

LEMMA RequestOnlySteps ==
  ASSUME HooksInv, NEW h \in Requests,
         CreateCount(h) \/ Emit(h) \/ RequestFails(h)
  PROVE  HooksInv'
<1>1. CASE CreateCount(h)
  <2>1. [Idle EXCEPT !.pc = "create"] \in Request
    BY DEF Idle, Request
  <2>2. RequestsOK'
    BY <1>1, <2>1, BecomesKeeps DEF CreateCount, HooksInv
  <2>3. QED
    BY <1>1, <2>2, RequestOnly DEF CreateCount
<1>2. CASE Emit(h)
  <2>1. PICK E \in SUBSET Endpoints : Becomes(h, [pc |-> "queue", endpoints |-> E])
    BY <1>2 DEF Emit, HooksInv, EndpointsOK
  <2>2. [pc |-> "queue", endpoints |-> E] \in Request
    BY DEF Request
  <2>3. RequestsOK'
    BY <2>1, <2>2, BecomesKeeps DEF HooksInv
  <2>4. QED
    BY <1>2, <2>3, RequestOnly DEF Emit
<1>3. CASE RequestFails(h)
  <2>1. Idle \in Request
    BY DEF Idle, Request
  <2>2. RequestsOK'
    BY <1>3, <2>1, BecomesKeeps DEF RequestFails, HooksInv
  <2>3. QED
    BY <1>3, <2>2, RequestOnly DEF RequestFails
<1>4. QED
  BY <1>1, <1>2, <1>3

LEMMA CreateInsertKeeps ==
  ASSUME HooksInv, NEW h \in Requests, CreateInsert(h)
  PROVE  HooksInv'
<1>1. PICK e \in Endpoints :
        /\ endpoint[e] = "unused"
        /\ endpoint' = [endpoint EXCEPT ![e] = "present"]
        /\ active' = active \cup {e}
  BY DEF CreateInsert
<1>2. failures' = failures /\ UNCHANGED <<delivery, queued, worker>>
  BY DEF CreateInsert, queued
<1>3. ~Exists(e) /\ failures[e] = 0
  BY <1>1 DEF HooksInv, EndpointsOK, Exists
<1>4. \A x \in Endpoints : Exists(x)' <=> Exists(x) \/ x = e
  BY <1>1 DEF HooksInv, EndpointsOK, Exists
<1>5. EndpointsOK'
  BY <1>1, <1>2, <1>3, <1>4, LimitsAssumption DEF HooksInv, EndpointsOK, EndpointState
<1>6. RequestsOK'
  BY BecomesKeeps DEF CreateInsert, HooksInv, Idle, Request
<1>7. QED
  BY <1>2, <1>4, <1>5, <1>6, EndpointsOnly

LEMMA RetryEndpointKeeps ==
  ASSUME HooksInv, NEW h \in Requests, RetryEndpoint(h)
  PROVE  HooksInv'
<1>1. PICK E \in SUBSET Endpoints :
        /\ \A e \in E : Exists(e)
        /\ active' = active \cup E
        /\ failures' = [e \in Endpoints |-> IF e \in E THEN 0 ELSE failures[e]]
  <2>1. {e \in req[h].endpoints : Exists(e)} \in SUBSET Endpoints
    BY DEF HooksInv, RequestsOK, Request
  <2>2. QED
    BY <2>1 DEF RetryEndpoint
<1>2. endpoint' = endpoint /\ UNCHANGED <<delivery, queued, worker>>
  BY DEF RetryEndpoint
<1>3. EndpointsOK'
  BY <1>1, <1>2, LimitsAssumption DEF HooksInv, EndpointsOK, Exists
<1>4. RequestsOK'
  BY BecomesKeeps DEF RetryEndpoint, HooksInv, Idle, Request
<1>5. QED
  BY <1>2, <1>3, <1>4, EndpointsOnly DEF Exists

----------------------------------------------------------------------------
(* The owner's switches.                                                   *)

LEMMA SwitchKeeps ==
  ASSUME HooksInv, NEW e \in Endpoints, SwitchOn(e) \/ SwitchOff(e)
  PROVE  HooksInv'
<1>1. /\ endpoint' = endpoint /\ endpoint[e] = "present"
      /\ UNCHANGED <<delivery, queued, worker>> /\ req' = req
  BY DEF SwitchOn, SwitchOff
<1>2. EndpointsOK'
  BY <1>1, LimitsAssumption DEF SwitchOn, SwitchOff, HooksInv, EndpointsOK, Exists
<1>3. RequestsOK'
  BY <1>1 DEF HooksInv, RequestsOK
<1>4. QED
  BY <1>1, <1>2, <1>3, EndpointsOnly DEF Exists

LEMMA RemoveWaitKeeps ==
  ASSUME HooksInv, NEW e \in Endpoints, RemoveStart(e) \/ RemoveFails(e)
  PROVE  HooksInv'
<1>1. /\ active' = active /\ failures' = failures
      /\ UNCHANGED <<delivery, queued, worker>> /\ req' = req
  BY DEF RemoveStart, RemoveFails
<1>2. endpoint' \in [Endpoints -> EndpointState]
  BY DEF RemoveStart, RemoveFails, HooksInv, EndpointsOK, EndpointState
<1>3. \A x \in Endpoints : Exists(x)' <=> Exists(x)
  BY DEF RemoveStart, RemoveFails, HooksInv, EndpointsOK, Exists
<1>4. EndpointsOK'
  BY <1>1, <1>2, <1>3 DEF HooksInv, EndpointsOK
<1>5. RequestsOK'
  BY <1>1 DEF HooksInv, RequestsOK
<1>6. QED
  BY <1>1, <1>3, <1>4, <1>5, EndpointsOnly

LEMMA RemoveEndKeeps ==
  ASSUME HooksInv, NEW e \in Endpoints, RemoveEnd(e)
  PROVE  HooksInv'
<1>1. PICK D \in SUBSET Deliveries :
        /\ \A d \in Deliveries : d \in D <=> delivery[d].endpoint = e
        /\ D \cap Claimed = {}
        /\ delivery' = [d \in Deliveries |-> IF d \in D THEN NoRow ELSE delivery[d]]
        /\ Leave(D)
  BY DEF RemoveEnd
<1>2. /\ endpoint' = [endpoint EXCEPT ![e] = "removed"]
      /\ active' = active \ {e}
      /\ failures' = [failures EXCEPT ![e] = 0]
      /\ worker' = worker /\ req' = req
  BY DEF RemoveEnd
<1>3. \A x \in Endpoints \ {e} : Exists(x)' <=> Exists(x)
  BY <1>2 DEF HooksInv, EndpointsOK, Exists
<1>4. EndpointsOK'
  BY <1>2, <1>3 DEF HooksInv, EndpointsOK, EndpointState
<1>5. DeliveriesOK'
  <2>1. NoRow \in Delivery
    BY LimitsAssumption DEF NoRow, Delivery
  <2>2. delivery' \in [Deliveries -> Delivery]
    BY <1>1, <2>1 DEF HooksInv, DeliveriesOK
  <2>3. ASSUME NEW d \in Deliveries PROVE Fits(delivery[d])'
    <3>1. CASE d \in D
      BY <1>1, <3>1 DEF Fits, NoRow
    <3>2. CASE d \notin D
      BY <1>1, <1>3, <3>2 DEF HooksInv, DeliveriesOK, Fits
    <3>3. QED
      BY <3>1, <3>2
  <2>4. QED
    BY <2>2, <2>3 DEF DeliveriesOK
<1>6. line' = line \ D
  BY <1>1 DEF Leave
<1>7. LineOK'
  <2>1. \A d \in line' : d \in Deliveries /\ delivery'[d].status = "pending"
    BY <1>1, <1>6 DEF HooksInv, LineOK
  <2>2. QED
    BY <1>1, <2>1, LeaveKeeps DEF HooksInv, LineOK
<1>8. WorkersOK'
  <2>1. ASSUME NEW w \in Workers, worker[w] # Waiting PROVE HoldsOne(w)'
    <3>1. HoldsOne(w)
      BY <2>1 DEF HooksInv, WorkersOK
    <3>2. worker[w].delivery # None
      BY <3>1, NoneAssumption DEF HoldsOne, HooksInv, LineOK
    <3>3. worker[w].delivery \notin D
      BY <1>1, <3>2 DEF Claimed
    <3>4. QED
      BY <1>2, <1>6, <3>1, <3>3 DEF HoldsOne
  <2>2. QED
    BY <1>2, <2>1 DEF HooksInv, WorkersOK
<1>9. RequestsOK'
  BY <1>2 DEF HooksInv, RequestsOK
<1>10. QED
  BY <1>4, <1>5, <1>7, <1>8, <1>9 DEF HooksInv

----------------------------------------------------------------------------
(* Deliveries are queued, retried and become due.                          *)

\* Workers keep what they hold as long as the line only grows.
LEMMA HoldsKeeps ==
  ASSUME HooksInv, worker' = worker, line \subseteq line'
  PROVE  WorkersOK'
  BY DEF HooksInv, WorkersOK, HoldsOne

LEMMA RowsOnly ==
  ASSUME HooksInv, UNCHANGED <<endpoint, active, failures>>
  PROVE  /\ EndpointsOK'
         /\ \A r : Fits(r)' <=> Fits(r)
  BY DEF HooksInv, EndpointsOK, Exists, Fits

\* A row that was not pending is queued, or queued again.
LEMMA JoinRow ==
  ASSUME HooksInv, NEW d \in Deliveries, delivery[d].status # "pending",
         NEW r \in Delivery, Fits(r), r.status = "pending",
         delivery' = [delivery EXCEPT ![d] = r], Join(d), RequestsOK',
         UNCHANGED <<endpoint, active, failures, worker>>
  PROVE  HooksInv'
<1>1. EndpointsOK' /\ \A x : Fits(x)' <=> Fits(x)
  BY RowsOnly
<1>2. DeliveriesOK'
  <2>1. delivery' \in [Deliveries -> Delivery]
    BY DEF HooksInv, DeliveriesOK
  <2>2. \A c \in Deliveries : delivery'[c] = IF c = d THEN r ELSE delivery[c]
    BY DEF HooksInv, DeliveriesOK
  <2>3. \A c \in Deliveries : Fits(delivery'[c])
    BY <2>2 DEF HooksInv, DeliveriesOK
  <2>4. \A c \in Deliveries : Fits(delivery[c])'
    BY <2>3 DEF Fits, Exists
  <2>5. QED
    BY <2>1, <2>4 DEF DeliveriesOK
<1>3. LineOK'
  <2>1. d \notin line
    BY DEF HooksInv, LineOK
  <2>2. \A c \in line' : c \in Deliveries /\ delivery'[c].status = "pending"
    BY DEF HooksInv, LineOK, DeliveriesOK, Join
  <2>3. QED
    BY <2>1, <2>2, JoinKeeps DEF HooksInv, LineOK
<1>4. WorkersOK'
  BY HoldsKeeps DEF Join
<1>5. QED
  BY <1>1, <1>2, <1>3, <1>4 DEF HooksInv

LEMMA RetryDeliveryKeeps ==
  ASSUME HooksInv, NEW h \in Requests, RetryDelivery(h)
  PROVE  HooksInv'
<1>1. PICK d \in Deliveries :
        /\ delivery[d].status = "failed"
        /\ delivery' = [delivery EXCEPT ![d].status = "pending",
                                        ![d].attempts = 0]
        /\ Join(d)
        /\ Becomes(h, [pc |-> "retry", endpoints |-> {delivery[d].endpoint}])
  BY DEF RetryDelivery
<1>2. UNCHANGED <<endpoint, active, failures, worker>>
  BY DEF RetryDelivery
<1>3. PICK o \in Delivery : o = delivery[d] /\ o.endpoint \in Endpoints /\ Exists(o.endpoint)
  BY <1>1 DEF HooksInv, DeliveriesOK, Fits
<1>4. PICK r : r = [o EXCEPT !.status = "pending", !.attempts = 0]
  OBVIOUS
<1>5. delivery' = [delivery EXCEPT ![d] = r]
  BY <1>1, <1>3, <1>4 DEF HooksInv, DeliveriesOK
<1>6. r \in Delivery /\ Fits(r) /\ r.status = "pending"
  <2>1. PICK s \in Delivery : s = [o EXCEPT !.status = "pending"]
    BY DEF Delivery
  <2>2. r = [s EXCEPT !.attempts = 0] /\ s.endpoint = o.endpoint /\ s.status = "pending"
    BY <1>4, <2>1 DEF Delivery
  <2>3. r \in Delivery
    BY <2>2, LimitsAssumption DEF Delivery
  <2>4. r.endpoint = o.endpoint /\ r.status = "pending" /\ r.attempts = 0
    BY <2>2 DEF Delivery
  <2>5. QED
    BY <1>3, <2>3, <2>4, LimitsAssumption DEF Fits
<1>7. RequestsOK'
  BY <1>1, <1>3, BecomesKeeps DEF HooksInv, Request
<1>8. QED
  BY <1>1, <1>2, <1>5, <1>6, <1>7, JoinRow

LEMMA QueueOneKeeps ==
  ASSUME HooksInv, NEW h \in Requests, QueueOne(h)
  PROVE  HooksInv'
<1>1. PICK e \in req[h].endpoints :
        IF Exists(e)
        THEN \E d \in Deliveries :
                /\ delivery[d] = NoRow
                /\ delivery' = [delivery EXCEPT ![d] =
                     [status |-> "pending", endpoint |-> e, attempts |-> 0]]
                /\ Join(d)
                /\ Becomes(h, IF req[h].endpoints = {e} THEN Idle
                              ELSE [req[h] EXCEPT !.endpoints = @ \ {e}])
        ELSE Becomes(h, Idle) /\ UNCHANGED <<delivery, queued>>
  BY DEF QueueOne
<1>2. UNCHANGED <<endpoint, active, failures, worker>>
  BY DEF QueueOne
<1>3. e \in Endpoints
  BY DEF HooksInv, RequestsOK, Request
<1>4. Idle \in Request /\ [req[h] EXCEPT !.endpoints = @ \ {e}] \in Request
  BY DEF HooksInv, RequestsOK, Request, Idle
<1>5. RequestsOK'
  <2>1. PICK r \in Request : Becomes(h, r)
    BY <1>1, <1>4
  <2>2. QED
    BY <2>1, BecomesKeeps DEF HooksInv
<1>6. CASE Exists(e)
  <2>1. PICK d \in Deliveries :
          /\ delivery[d] = NoRow
          /\ delivery' = [delivery EXCEPT ![d] =
               [status |-> "pending", endpoint |-> e, attempts |-> 0]]
          /\ Join(d)
    BY <1>1, <1>6
  <2>2. PICK r : r = [status |-> "pending", endpoint |-> e, attempts |-> 0]
    OBVIOUS
  <2>3. r \in Delivery /\ Fits(r) /\ r.status = "pending"
    BY <1>3, <1>6, <2>2, LimitsAssumption DEF Delivery, Fits
  <2>4. delivery[d].status # "pending"
    BY <2>1 DEF NoRow
  <2>5. QED
    BY <1>2, <1>5, <2>1, <2>2, <2>3, <2>4, JoinRow
<1>7. CASE ~Exists(e)
  BY <1>1, <1>2, <1>5, <1>7, RequestOnly DEF rows
<1>8. QED
  BY <1>6, <1>7

LEMMA ElapseKeeps ==
  ASSUME HooksInv, NEW d \in Deliveries, Elapse(d)
  PROVE  HooksInv'
<1>1. /\ delivery[d].status = "pending" /\ d \notin line /\ Join(d)
      /\ UNCHANGED <<endpoint, active, failures>>
      /\ delivery' = delivery /\ worker' = worker /\ req' = req
  BY DEF Elapse
<1>2. EndpointsOK'
  BY <1>1, RowsOnly
<1>3. DeliveriesOK'
  BY <1>1 DEF HooksInv, DeliveriesOK, Fits, Exists
<1>4. LineOK'
  <2>1. line' \subseteq {c \in Deliveries : delivery'[c].status = "pending"}
    BY <1>1 DEF HooksInv, LineOK, Join
  <2>2. QED
    BY <1>1, <2>1, JoinKeeps DEF HooksInv, LineOK
<1>5. WorkersOK'
  BY <1>1, HoldsKeeps DEF Join
<1>6. RequestsOK'
  BY <1>1 DEF HooksInv, RequestsOK
<1>7. QED
  BY <1>2, <1>3, <1>4, <1>5, <1>6 DEF HooksInv

LEMMA DeleteOldKeeps ==
  ASSUME HooksInv, DeleteOld
  PROVE  HooksInv'
<1>1. PICK D \in SUBSET {d \in Deliveries :
                           delivery[d].status \in {"delivered", "failed"}} :
        delivery' = [d \in Deliveries |-> IF d \in D THEN NoRow ELSE delivery[d]]
  BY DEF DeleteOld
<1>2. /\ UNCHANGED <<endpoint, active, failures>>
      /\ line' = line /\ before' = before /\ worker' = worker /\ req' = req
  BY DEF DeleteOld, queued
<1>3. EndpointsOK' /\ \A x : Fits(x)' <=> Fits(x)
  BY <1>2, RowsOnly
<1>4. DeliveriesOK'
  <2>1. NoRow \in Delivery /\ Fits(NoRow)
    BY LimitsAssumption DEF NoRow, Delivery, Fits
  <2>2. delivery' \in [Deliveries -> Delivery]
    BY <1>1, <2>1 DEF HooksInv, DeliveriesOK
  <2>3. \A c \in Deliveries : Fits(delivery'[c])
    BY <1>1, <2>1 DEF HooksInv, DeliveriesOK
  <2>4. \A c \in Deliveries : Fits(delivery[c])'
    BY <1>2, <2>3 DEF Fits, Exists
  <2>5. QED
    BY <2>2, <2>4 DEF DeliveriesOK
<1>5. LineOK'
  <2>1. line' \subseteq {c \in Deliveries : delivery'[c].status = "pending"}
    BY <1>1, <1>2 DEF HooksInv, LineOK
  <2>2. InOrder'
    BY <1>2 DEF HooksInv, LineOK, InOrder
  <2>3. QED
    BY <1>2, <2>1, <2>2 DEF HooksInv, LineOK
<1>6. WorkersOK'
  BY <1>2, HoldsKeeps
<1>7. RequestsOK'
  BY <1>2 DEF HooksInv, RequestsOK
<1>8. QED
  BY <1>3, <1>4, <1>5, <1>6, <1>7 DEF HooksInv

----------------------------------------------------------------------------
(* The workers.                                                            *)

\* Nothing but workers.
LEMMA WorkersOnly ==
  ASSUME HooksInv, UNCHANGED <<rows, req>>, WorkersOK'
  PROVE  HooksInv'
<1>1. EndpointsOK' /\ DeliveriesOK'
  BY DEF HooksInv, EndpointsOK, DeliveriesOK, Fits, Exists, rows
<1>2. LineOK' /\ RequestsOK'
  BY DEF HooksInv, LineOK, InOrder, RequestsOK, rows, queued
<1>3. QED
  BY <1>1, <1>2 DEF HooksInv

LEMMA ClaimNextKeeps ==
  ASSUME HooksInv, NEW w \in Workers, ClaimNext(w)
  PROVE  HooksInv'
<1>1. PICK d \in line \ Claimed : Claim(w, d)
  BY DEF ClaimNext
<1>2. PICK r \in Worker : r.delivery = d /\ worker' = [worker EXCEPT ![w] = r]
  <2>1. d \in Deliveries /\ (delivery[d].endpoint \in active) \in BOOLEAN
    BY DEF HooksInv, LineOK
  <2>2. PICK live \in BOOLEAN : live = (delivery[d].endpoint \in active)
    BY <2>1
  <2>3. [delivery |-> d, live |-> live, outcome |-> "none"] \in Worker
    BY <2>1 DEF Worker
  <2>4. worker' = [worker EXCEPT ![w] = [delivery |-> d, live |-> live, outcome |-> "none"]]
    BY <1>1, <2>2 DEF Claim
  <2>5. QED
    BY <2>3, <2>4
<1>3. line' = line /\ UNCHANGED <<rows, req>>
  BY <1>1 DEF Claim, rows, queued
<1>4. \A v \in Workers : worker[v].delivery # d
  BY NoneAssumption DEF Claimed, HooksInv, LineOK
<1>5. \A v \in Workers : worker'[v] = IF v = w THEN r ELSE worker[v]
  BY <1>2 DEF HooksInv, WorkersOK
<1>6. WorkersOK'
  <2>1. worker' \in [Workers -> Worker]
    BY <1>2 DEF HooksInv, WorkersOK
  <2>2. HoldsOne(w)'
    BY <1>2, <1>3, <1>4, <1>5 DEF HoldsOne
  <2>3. ASSUME NEW v \in Workers, v # w, worker'[v] # Waiting PROVE HoldsOne(v)'
    <3>1. HoldsOne(v) /\ worker'[v] = worker[v]
      BY <1>5, <2>3 DEF HooksInv, WorkersOK
    <3>2. QED
      BY <1>2, <1>3, <1>4, <1>5, <2>3, <3>1 DEF HoldsOne
  <2>4. QED
    BY <2>1, <2>2, <2>3 DEF WorkersOK
<1>7. QED
  BY <1>3, <1>6, WorkersOnly

\* The worker keeps its delivery, or lets it go.
LEMMA WorkerGoesOn ==
  ASSUME HooksInv, NEW w \in Workers, NEW r \in Worker,
         (r.delivery = worker[w].delivery /\ worker[w] # Waiting) \/ r = Waiting,
         worker' = [worker EXCEPT ![w] = r],
         NEW D \in SUBSET {worker[w].delivery}, D = {} \/ r = Waiting,
         line' = line \ D
  PROVE  WorkersOK'
<1>1. \A v \in Workers : worker'[v] = IF v = w THEN r ELSE worker[v]
  BY DEF HooksInv, WorkersOK
<1>2. worker' \in [Workers -> Worker]
  BY DEF HooksInv, WorkersOK
<1>3. ASSUME NEW v \in Workers, worker'[v] # Waiting PROVE HoldsOne(v)'
  <2>1. worker[v] # Waiting /\ worker'[v].delivery = worker[v].delivery
    BY <1>1, <1>3
  <2>2. HoldsOne(v)
    BY <2>1 DEF HooksInv, WorkersOK
  <2>3. worker[v].delivery \notin D
    <3>1. CASE v = w
      BY <1>1, <1>3, <3>1
    <3>2. CASE v # w
      BY <2>2, <3>2 DEF HoldsOne
    <3>3. QED
      BY <3>1, <3>2
  <2>4. \A u \in Workers : worker'[u].delivery = worker[u].delivery \/ worker'[u].delivery = None
    <3>1. Waiting.delivery = None
      BY DEF Waiting
    <3>2. r.delivery = worker[w].delivery \/ r.delivery = None
      BY <3>1
    <3>3. QED
      BY <1>1, <3>2
  <2>5. worker[v].delivery # None
    BY <2>2, NoneAssumption DEF HoldsOne, HooksInv, LineOK
  <2>6. QED
    BY <2>1, <2>2, <2>3, <2>4, <2>5 DEF HoldsOne
<1>4. QED
  BY <1>2, <1>3 DEF WorkersOK

LEMMA SendKeeps ==
  ASSUME HooksInv, NEW w \in Workers, Send(w)
  PROVE  HooksInv'
<1>1. PICK o \in {"ok", "error"} : worker' = [worker EXCEPT ![w].outcome = o]
  BY DEF Send
<1>2. PICK r \in Worker : r.delivery = worker[w].delivery /\ worker' = [worker EXCEPT ![w] = r]
  <2>1. [worker[w] EXCEPT !.outcome = o] \in Worker
    BY DEF HooksInv, WorkersOK, Worker
  <2>2. [worker[w] EXCEPT !.outcome = o].delivery = worker[w].delivery
    BY DEF HooksInv, WorkersOK, Worker
  <2>3. worker' = [worker EXCEPT ![w] = [worker[w] EXCEPT !.outcome = o]]
    BY <1>1 DEF HooksInv, WorkersOK
  <2>4. QED
    BY <2>1, <2>2, <2>3
<1>3. line' = line \ {} /\ UNCHANGED <<rows, req>> /\ worker[w] # Waiting
  BY DEF Send, rows, queued, Waiting
<1>4. WorkersOK'
  BY <1>2, <1>3, WorkerGoesOn
<1>5. QED
  BY <1>3, <1>4, WorkersOnly

LEMMA RollbackKeeps ==
  ASSUME HooksInv, NEW w \in Workers, Rollback(w)
  PROVE  HooksInv'
<1>1. Waiting \in Worker
  BY DEF Waiting, Worker
<1>2. line' = line \ {} /\ UNCHANGED <<rows, req>>
  BY DEF Rollback, rows, queued
<1>3. WorkersOK'
  BY <1>1, <1>2, WorkerGoesOn DEF Rollback
<1>4. QED
  BY <1>2, <1>3, WorkersOnly

\* A transaction ends: its delivery becomes r, and leaves the line.
LEMMA SettleKeeps ==
  ASSUME HooksInv, NEW w \in Workers, worker[w].delivery # None,
         NEW r \in Delivery, Settle(w, r),
         r.endpoint = delivery[worker[w].delivery].endpoint,
         r.status \in {"pending", "delivered", "failed"},
         r.status = "pending" => r.attempts < MaxAttempts
  PROVE  DeliveriesOK' /\ LineOK' /\ WorkersOK' /\ RequestsOK'
<1>1. PICK d \in Deliveries :
        /\ d = worker[w].delivery
        /\ delivery' = [delivery EXCEPT ![d] = r]
        /\ Leave({d})
  BY HeldRow DEF Settle
<1>2. endpoint' = endpoint /\ req' = req /\ worker' = [worker EXCEPT ![w] = Waiting]
  BY DEF Settle
<1>3. \A c \in Deliveries : delivery'[c] = IF c = d THEN r ELSE delivery[c]
  BY <1>1 DEF HooksInv, DeliveriesOK
<1>4. DeliveriesOK'
  <2>1. delivery' \in [Deliveries -> Delivery]
    BY <1>1 DEF HooksInv, DeliveriesOK
  <2>2. Fits(r)
    BY <1>1, HeldRow DEF Fits
  <2>3. \A c \in Deliveries : Fits(delivery'[c])
    BY <1>3, <2>2 DEF HooksInv, DeliveriesOK
  <2>4. \A c \in Deliveries : Fits(delivery[c])'
    BY <1>2, <2>3 DEF Fits, Exists
  <2>5. QED
    BY <2>1, <2>4 DEF DeliveriesOK
<1>5. line' = line \ {d}
  BY <1>1 DEF Leave
<1>6. LineOK'
  <2>1. line' \subseteq {c \in Deliveries : delivery'[c].status = "pending"}
    BY <1>3, <1>5 DEF HooksInv, LineOK
  <2>2. QED
    BY <1>1, <2>1, LeaveKeeps DEF HooksInv, LineOK
<1>7. WorkersOK'
  <2>1. Waiting \in Worker
    BY DEF Waiting, Worker
  <2>2. QED
    BY <1>1, <1>2, <1>5, <2>1, WorkerGoesOn
<1>8. RequestsOK'
  BY <1>2 DEF HooksInv, RequestsOK
<1>9. QED
  BY <1>4, <1>6, <1>7, <1>8

\* A worker with an outcome holds a delivery.
LEMMA OutcomeHolds ==
  ASSUME HooksInv, NEW w \in Workers, worker[w].outcome # "none"
  PROVE  worker[w].delivery # None
  BY NoneAssumption DEF HooksInv, WorkersOK, LineOK, Waiting, HoldsOne

LEMMA RecordDeliveredKeeps ==
  ASSUME HooksInv, NEW w \in Workers, RecordDelivered(w)
  PROVE  HooksInv'
<1>1. worker[w].delivery # None
  BY OutcomeHolds DEF RecordDelivered
<1>2. PICK r \in Delivery :
        /\ r.status = "delivered" /\ Settle(w, r)
        /\ r.endpoint = delivery[worker[w].delivery].endpoint
        /\ failures' = [failures EXCEPT ![r.endpoint] = 0]
  <2>1. /\ Settle(w, [Tried(w) EXCEPT !.status = "delivered"])
        /\ failures' = [failures EXCEPT ![Tried(w).endpoint] = 0]
    BY DEF RecordDelivered
  <2>2. QED
    BY <1>1, <2>1, TriedRow
<1>3. active' = active /\ endpoint' = endpoint
  BY DEF RecordDelivered, Settle
<1>4. EndpointsOK'
  <2>1. \A x \in Endpoints :
          failures'[x] = failures[x] \/ failures'[x] = 0
    BY <1>2 DEF HooksInv, EndpointsOK
  <2>2. failures' \in [Endpoints -> Nat] /\ 0 < DisableAfter
    <3>1. failures' \in [Endpoints -> Nat]
      BY <1>2 DEF HooksInv, EndpointsOK
    <3>2. QED
      BY <3>1, LimitsAssumption
  <2>3. \A x \in Endpoints : Exists(x)' <=> Exists(x)
    BY <1>3 DEF Exists
  <2>4. \A x \in active : failures'[x] < DisableAfter
    BY <2>1, <2>2 DEF HooksInv, EndpointsOK
  <2>5. QED
    BY <1>3, <2>1, <2>2, <2>3, <2>4 DEF HooksInv, EndpointsOK
<1>5. QED
  BY <1>1, <1>2, <1>4, SettleKeeps DEF HooksInv

\* What the last failed try of worker w writes.
LEMMA FailedWrites ==
  ASSUME HooksInv, NEW w \in Workers, RecordFailed(w)
  PROVE  /\ worker[w].delivery # None
         /\ Settle(w, [Tried(w) EXCEPT !.status = "failed"])
         /\ \E e \in Endpoints :
              /\ e = delivery[worker[w].delivery].endpoint
              /\ Exists(e)
              /\ failures' = [failures EXCEPT ![e] = failures[e] + 1]
              /\ active' = IF failures[e] + 1 < DisableAfter THEN active \cup {e}
                           ELSE active \ {e}
<1>1. worker[w].delivery # None
  BY OutcomeHolds DEF RecordFailed
<1>2. PICK e \in Endpoints : e = delivery[worker[w].delivery].endpoint /\ Exists(e)
  BY <1>1, HeldRow
<1>3. Tried(w).endpoint = e
  BY <1>1, <1>2, TriedRow
<1>4. QED
  BY <1>1, <1>2, <1>3 DEF RecordFailed

LEMMA RecordFailedKeeps ==
  ASSUME HooksInv, NEW w \in Workers, RecordFailed(w)
  PROVE  HooksInv'
<1>1. worker[w].delivery # None
  BY FailedWrites
<1>2. PICK e \in Endpoints :
        /\ Exists(e)
        /\ failures' = [failures EXCEPT ![e] = failures[e] + 1]
        /\ active' = IF failures[e] + 1 < DisableAfter THEN active \cup {e}
                     ELSE active \ {e}
  BY FailedWrites
<1>3. PICK r \in Delivery :
        /\ r.status = "failed" /\ Settle(w, r)
        /\ r.endpoint = delivery[worker[w].delivery].endpoint
  <2>1. [Tried(w) EXCEPT !.status = "failed"] \in Delivery
    BY <1>1, TriedRow
  <2>2. /\ [Tried(w) EXCEPT !.status = "failed"].status = "failed"
        /\ [Tried(w) EXCEPT !.status = "failed"].endpoint
             = delivery[worker[w].delivery].endpoint
    BY <1>1, TriedRow
  <2>3. QED
    BY <2>1, <2>2, FailedWrites
<1>4. endpoint' = endpoint
  BY <1>3 DEF Settle
<1>5. EndpointsOK'
  <2>1. \A x \in Endpoints : failures'[x] = IF x = e THEN failures[e] + 1 ELSE failures[x]
    BY <1>2 DEF HooksInv, EndpointsOK
  <2>2. failures' \in [Endpoints -> Nat] /\ active' \subseteq Endpoints
    BY <1>2 DEF HooksInv, EndpointsOK
  <2>3. \A x \in Endpoints : ~Exists(x)' => x \notin active' /\ failures'[x] = 0
    BY <1>2, <1>4, <2>1 DEF HooksInv, EndpointsOK, Exists
  <2>4. \A x \in active' : failures'[x] < DisableAfter
    BY <1>2, <2>1 DEF HooksInv, EndpointsOK
  <2>5. QED
    BY <1>4, <2>2, <2>3, <2>4 DEF HooksInv, EndpointsOK
<1>6. QED
  BY <1>1, <1>3, <1>5, SettleKeeps DEF HooksInv

LEMMA RecordOtherKeeps ==
  ASSUME HooksInv, NEW w \in Workers, RecordOff(w) \/ RecordPostponed(w)
  PROVE  HooksInv'
<1>1. worker[w].delivery # None
  BY OutcomeHolds DEF RecordOff, RecordPostponed
<1>2. PICK r \in Delivery :
        /\ Settle(w, r)
        /\ r.endpoint = delivery[worker[w].delivery].endpoint
        /\ r.status = "failed" \/ (r.status = "pending" /\ r.attempts < MaxAttempts)
  BY <1>1, TriedRow DEF RecordOff, RecordPostponed
<1>3. UNCHANGED <<endpoint, active, failures>>
  BY <1>2 DEF RecordOff, RecordPostponed, Settle
<1>4. EndpointsOK'
  BY <1>3, RowsOnly
<1>5. QED
  BY <1>1, <1>2, <1>4, SettleKeeps DEF HooksInv

----------------------------------------------------------------------------
(* Every step.                                                             *)

LEMMA StepKeeps ==
  ASSUME HooksInv, [Next]_vars
  PROVE  HooksInv'
<1>1. CASE UNCHANGED vars
  BY <1>1, RequestOnly DEF vars, HooksInv, RequestsOK
<1>2. ASSUME NEW e \in Endpoints, OwnerSteps(e) PROVE HooksInv'
  BY <1>2, SwitchKeeps, RemoveWaitKeeps, RemoveEndKeeps DEF OwnerSteps
<1>3. ASSUME NEW h \in Requests, RequestSteps(h) PROVE HooksInv'
  BY <1>3, RequestOnlySteps, CreateInsertKeeps, RetryEndpointKeeps,
     RetryDeliveryKeeps, QueueOneKeeps DEF RequestSteps
<1>4. ASSUME NEW w \in Workers, ClaimNext(w) \/ Send(w) \/ Record(w) \/ Rollback(w)
      PROVE  HooksInv'
  BY <1>4, ClaimNextKeeps, SendKeeps, RollbackKeeps, RecordDeliveredKeeps,
     RecordFailedKeeps, RecordOtherKeeps DEF Record
<1>5. QED
  BY <1>1, <1>2, <1>3, <1>4, ElapseKeeps, DeleteOldKeeps DEF Next

\* Whatever the owner, events, workers, lost transactions and the clean-up do,
\* rows, line, workers and requests stay well typed.
THEOREM HooksTypeCorrect == Spec => []TypeOK
<1>1. Init => HooksInv
  BY InitHooks
<1>2. HooksInv /\ [Next]_vars => HooksInv'
  BY StepKeeps
<1>3. HooksInv => TypeOK
  BY InvIsTyped
<1>4. QED
  BY <1>1, <1>2, <1>3, PTL DEF Spec

\* However retries, switches and the outcomes of any number of workers overlap,
\* an endpoint that has failed DisableAfter deliveries in a row is off.
THEOREM FailuresAlwaysSwitchOff == Spec => []RepeatedFailuresSwitchOff
<1>1. Init => HooksInv
  BY InitHooks
<1>2. HooksInv /\ [Next]_vars => HooksInv'
  BY StepKeeps
<1>3. HooksInv => RepeatedFailuresSwitchOff
  BY DEF HooksInv, EndpointsOK, RepeatedFailuresSwitchOff
<1>4. QED
  BY <1>1, <1>2, <1>3, PTL DEF Spec

\* Two workers never hold one delivery (FOR UPDATE ... SKIP LOCKED), and what a
\* worker holds stays pending, its endpoint not removed, until it lets it go.
HeldByOne ==
    \A w \in Workers :
        worker[w].delivery # None =>
            /\ delivery[worker[w].delivery].status = "pending"
            /\ Exists(delivery[worker[w].delivery].endpoint)
            /\ \A v \in Workers : worker[v].delivery = worker[w].delivery => v = w

\* The same, for every number of workers, endpoints and deliveries.
THEOREM DeliveriesAreHeldByOne == Spec => []HeldByOne
<1>1. Init => HooksInv
  BY InitHooks
<1>2. HooksInv /\ [Next]_vars => HooksInv'
  BY StepKeeps
<1>3. HooksInv => HeldByOne
  BY HeldRow DEF HeldByOne, HoldsOne
<1>4. QED
  BY <1>1, <1>2, <1>3, PTL DEF Spec

----------------------------------------------------------------------------
(* What switches an endpoint off.                                          *)

ForCause ==
    \A e \in active \ active' :
        SwitchOff(e) \/ RemoveEnd(e) \/ failures'[e] >= DisableAfter

LEMMA StepForCause ==
  ASSUME HooksInv, [Next]_vars
  PROVE  ForCause
<1>1. CASE active \subseteq active'
  BY <1>1 DEF ForCause
<1>2. ASSUME NEW e \in Endpoints, OwnerSteps(e) PROVE ForCause
  <2>1. CASE SwitchOff(e) \/ RemoveEnd(e)
    BY <2>1 DEF ForCause, SwitchOff, RemoveEnd
  <2>2. CASE SwitchOn(e) \/ RemoveStart(e) \/ RemoveFails(e)
    BY <2>2 DEF ForCause, SwitchOn, RemoveStart, RemoveFails
  <2>3. QED
    BY <1>2, <2>1, <2>2 DEF OwnerSteps
<1>3. ASSUME NEW h \in Requests, RequestSteps(h) PROVE active \subseteq active'
  BY <1>3 DEF RequestSteps, CreateCount, CreateInsert, RetryDelivery, RetryEndpoint,
     Emit, QueueOne, RequestFails, rows
<1>4. ASSUME NEW w \in Workers, RecordFailed(w) PROVE ForCause
  <2>1. PICK e \in Endpoints :
          /\ failures' = [failures EXCEPT ![e] = failures[e] + 1]
          /\ active' = IF failures[e] + 1 < DisableAfter THEN active \cup {e}
                       ELSE active \ {e}
    BY <1>4, FailedWrites
  <2>2. failures[e] \in Nat /\ failures'[e] = failures[e] + 1
    BY <2>1 DEF HooksInv, EndpointsOK
  <2>3. \A x \in active \ active' : x = e /\ failures[e] + 1 >= DisableAfter
    BY <2>1, <2>2, LimitsAssumption
  <2>4. QED
    BY <2>2, <2>3 DEF ForCause
<1>5. ASSUME NEW w \in Workers,
             ClaimNext(w) \/ Send(w) \/ Rollback(w) \/ RecordDelivered(w)
               \/ RecordOff(w) \/ RecordPostponed(w)
      PROVE  active' = active
  BY <1>5 DEF ClaimNext, Claim, Send, Rollback, RecordDelivered, RecordOff,
     RecordPostponed, rows
<1>6. ASSUME NEW d \in Deliveries, Elapse(d) PROVE active' = active
  BY <1>6 DEF Elapse
<1>7. DeleteOld \/ UNCHANGED vars => active' = active
  BY DEF DeleteOld, vars, rows
<1>8. QED
  BY <1>1, <1>2, <1>3, <1>4, <1>5, <1>6, <1>7 DEF Next, Record

\* No step but the owner's switch or DELETE, or a failure that reaches the
\* limit, switches an endpoint off.
THEOREM AlwaysSwitchedOffForCause == Spec => SwitchedOffForCause
<1>1. Init => HooksInv
  BY InitHooks
<1>2. HooksInv /\ [Next]_vars => HooksInv'
  BY StepKeeps
<1>3. HooksInv /\ [Next]_vars =>
        [\A e \in active \ active' :
            \/ SwitchOff(e) \/ RemoveEnd(e)
            \/ failures'[e] >= DisableAfter]_vars
  BY StepForCause DEF ForCause
<1>4. QED
  BY <1>1, <1>2, <1>3, PTL DEF Spec, SwitchedOffForCause

----------------------------------------------------------------------------
(* The refinement of EventDelivery.                                        *)

Stays == UNCHANGED <<[d \in Deliveries |-> delivery[d].status],
                     [d \in Deliveries |-> delivery[d].attempts]>>

LEMMA SameRows == delivery' = delivery => Stays
  BY DEF Stays

\* A row that becomes r, as EventDelivery sees it.
LEMMA OneRow ==
  ASSUME delivery \in [Deliveries -> Delivery],
         NEW d \in Deliveries, NEW r, delivery' = [delivery EXCEPT ![d] = r]
  PROVE  \A c \in Deliveries :
           /\ delivery'[c].status = IF c = d THEN r.status ELSE delivery[c].status
           /\ delivery'[c].attempts = IF c = d THEN r.attempts ELSE delivery[c].attempts
  OBVIOUS

LEMMA SomeRowsGo ==
  ASSUME NEW D \in SUBSET Deliveries,
         delivery' = [d \in Deliveries |-> IF d \in D THEN NoRow ELSE delivery[d]]
  PROVE  Deliver!Next
<1>1. Deliver!Forget(D)
  BY DEF Deliver!Forget, NoRow
<1>2. QED
  BY <1>1 DEF Deliver!Next

LEMMA RequestRefines ==
  ASSUME HooksInv, NEW h \in Requests, RequestSteps(h)
  PROVE  Deliver!Next \/ Stays
<1>1. CASE RetryDelivery(h)
  <2>1. PICK d \in Deliveries :
          /\ delivery[d].status = "failed"
          /\ delivery' = [delivery EXCEPT ![d].status = "pending",
                                          ![d].attempts = 0]
    BY <1>1 DEF RetryDelivery
  <2>2. \A c \in Deliveries :
          /\ delivery'[c].status = IF c = d THEN "pending" ELSE delivery[c].status
          /\ delivery'[c].attempts = IF c = d THEN 0 ELSE delivery[c].attempts
    BY <2>1 DEF HooksInv, DeliveriesOK, Delivery
  <2>3. Deliver!Set(d, "pending", 0)
    BY <2>2 DEF Deliver!Set
  <2>4. Deliver!Reopen(d)
    BY <2>1, <2>3 DEF Deliver!Reopen
  <2>5. QED
    BY <2>4 DEF Deliver!Next
<1>2. CASE QueueOne(h)
  <2>1. CASE delivery' = delivery
    BY <2>1, SameRows
  <2>2. CASE delivery' # delivery
    <3>1. PICK d \in Deliveries, e \in req[h].endpoints :
            /\ delivery[d] = NoRow
            /\ delivery' = [delivery EXCEPT ![d] =
                 [status |-> "pending", endpoint |-> e, attempts |-> 0]]
      BY <1>2, <2>2 DEF QueueOne
    <3>2. Deliver!Set(d, "pending", 0)
      <4>1. PICK r : r = [status |-> "pending", endpoint |-> e, attempts |-> 0]
        OBVIOUS
      <4>2. \A c \in Deliveries :
              /\ delivery'[c].status = IF c = d THEN r.status ELSE delivery[c].status
              /\ delivery'[c].attempts = IF c = d THEN r.attempts ELSE delivery[c].attempts
        BY <3>1, <4>1, OneRow DEF HooksInv, DeliveriesOK
      <4>3. r.status = "pending" /\ r.attempts = 0
        BY <4>1
      <4>4. QED
        BY <4>2, <4>3 DEF Deliver!Set
    <3>3. Deliver!Queue(d)
      BY <3>1, <3>2 DEF Deliver!Queue, NoRow
    <3>4. QED
      BY <3>3 DEF Deliver!Next
  <2>3. QED
    BY <2>1, <2>2
<1>3. CASE CreateCount(h) \/ CreateInsert(h) \/ RetryEndpoint(h) \/ Emit(h) \/ RequestFails(h)
  <2>1. delivery' = delivery
    BY <1>3 DEF CreateCount, CreateInsert, RetryEndpoint, Emit, RequestFails, rows
  <2>2. QED
    BY <2>1, SameRows
<1>4. QED
  BY <1>1, <1>2, <1>3 DEF RequestSteps

\* Every outcome that a worker records is one try of its delivery.
LEMMA RecordRefines ==
  ASSUME HooksInv, NEW w \in Workers, Record(w)
  PROVE  Deliver!Next
<1>1. worker[w].delivery # None
  BY OutcomeHolds DEF Record, RecordDelivered, RecordFailed, RecordOff, RecordPostponed
<1>2. PICK d \in Deliveries :
        /\ d = worker[w].delivery
        /\ delivery[d].status = "pending" /\ delivery[d].attempts < MaxAttempts
  BY <1>1, HeldRow
<1>3. PICK r \in Delivery :
        /\ Settle(w, r)
        /\ r.attempts = delivery[d].attempts + 1
        /\ \/ r.status \in {"delivered", "failed"}
           \/ r.status = "pending" /\ r.attempts < MaxAttempts
  <2>1. CASE RecordDelivered(w)
    <3>1. PICK r \in Delivery :
            r = [Tried(w) EXCEPT !.status = "delivered"] /\ r.status = "delivered"
              /\ r.attempts = delivery[d].attempts + 1
      BY <1>1, <1>2, TriedRow
    <3>2. QED
      BY <2>1, <3>1 DEF RecordDelivered
  <2>2. CASE RecordFailed(w) \/ RecordOff(w)
    <3>1. PICK r \in Delivery :
            r = [Tried(w) EXCEPT !.status = "failed"] /\ r.status = "failed"
              /\ r.attempts = delivery[d].attempts + 1
      BY <1>1, <1>2, TriedRow
    <3>2. QED
      BY <2>2, <3>1 DEF RecordFailed, RecordOff
  <2>3. CASE RecordPostponed(w)
    BY <1>1, <1>2, <2>3, TriedRow DEF RecordPostponed
  <2>4. QED
    BY <2>1, <2>2, <2>3 DEF Record
<1>4. \A c \in Deliveries :
        /\ delivery'[c].status = IF c = d THEN r.status ELSE delivery[c].status
        /\ delivery'[c].attempts = IF c = d THEN r.attempts ELSE delivery[c].attempts
  <2>1. delivery' = [delivery EXCEPT ![d] = r]
    BY <1>2, <1>3 DEF Settle
  <2>2. QED
    BY <2>1, OneRow DEF HooksInv, DeliveriesOK
<1>5. Deliver!Try(d)
  <2>1. CASE r.status \in {"delivered", "failed"}
    BY <1>2, <1>3, <1>4, <2>1 DEF Deliver!Try, Deliver!Set
  <2>2. CASE r.status = "pending" /\ r.attempts < MaxAttempts
    BY <1>2, <1>3, <1>4, <2>2 DEF Deliver!Try, Deliver!Set
  <2>3. QED
    BY <1>3, <2>1, <2>2
<1>6. QED
  BY <1>5 DEF Deliver!Next

LEMMA StepRefines ==
  ASSUME HooksInv, [Next]_vars
  PROVE  Deliver!Next \/ Stays
<1>1. CASE UNCHANGED vars
  BY <1>1, SameRows DEF vars, rows
<1>2. ASSUME NEW e \in Endpoints, OwnerSteps(e) PROVE Deliver!Next \/ Stays
  <2>1. CASE RemoveEnd(e)
    <3>1. PICK D \in SUBSET Deliveries :
            delivery' = [d \in Deliveries |-> IF d \in D THEN NoRow ELSE delivery[d]]
      BY <2>1 DEF RemoveEnd
    <3>2. QED
      BY <3>1, SomeRowsGo
  <2>2. CASE SwitchOn(e) \/ SwitchOff(e) \/ RemoveStart(e) \/ RemoveFails(e)
    BY <2>2, SameRows DEF SwitchOn, SwitchOff, RemoveStart, RemoveFails
  <2>3. QED
    BY <1>2, <2>1, <2>2 DEF OwnerSteps
<1>3. ASSUME NEW d \in Deliveries, Elapse(d) PROVE Stays
  BY <1>3, SameRows DEF Elapse
<1>4. ASSUME NEW w \in Workers, ClaimNext(w) \/ Send(w) \/ Rollback(w) PROVE Stays
  BY <1>4, SameRows DEF ClaimNext, Claim, Send, Rollback, rows
<1>5. CASE DeleteOld
  <2>1. PICK D \in SUBSET Deliveries :
          delivery' = [d \in Deliveries |-> IF d \in D THEN NoRow ELSE delivery[d]]
    BY <1>5 DEF DeleteOld
  <2>2. QED
    BY <2>1, SomeRowsGo
<1>6. QED
  BY <1>1, <1>2, <1>3, <1>4, <1>5, RequestRefines, RecordRefines DEF Next

\* WebhookDelivery implements EventDelivery: whatever workers, retries,
\* DELETEs, lost transactions and the clean-up do, each delivery is queued,
\* tried a bounded number of times and settled once, and starts over only when
\* its owner asks.
THEOREM DeliveryLifeCycleKept == Spec => DeliveryLifeCycle
<1>1. Init => HooksInv
  BY InitHooks
<1>2. HooksInv /\ [Next]_vars => HooksInv'
  BY StepKeeps
<1>3. Init => Deliver!Init
  BY DEF Init, Deliver!Init, NoRow
<1>4. HooksInv /\ [Next]_vars =>
        [Deliver!Next]_<<[d \in Deliveries |-> delivery[d].status],
                         [d \in Deliveries |-> delivery[d].attempts]>>
  BY StepRefines DEF Stays
<1>5. QED
  BY <1>1, <1>2, <1>3, <1>4, PTL DEF Spec, DeliveryLifeCycle, Deliver!Spec

----------------------------------------------------------------------------
(* The outbox.  What a run has of an e-mail: to be sent, or with an answer *)
(* to be written down that leaves it to be tried again.                    *)

LEMMA BoundsFit ==
    /\ LIMIT \in Nat \ {0} /\ MaxTries \in Nat \ {0} /\ MaxAborts \in Nat
    /\ OutrunsClaim \in BOOLEAN
BY BoundsAssumption DEF MaxTries

\* A run is at rest, or has rows that it read before their tries were used up.
RunFits(q) ==
    /\ q.pc = "idle" => q = Resting
    /\ q.pc = "record" <=> q.at # Nothing
    /\ \A x \in q.claimed : /\ x[2] < MaxTries
                            /\ \A y \in q.claimed : x[1] = y[1] => x = y
                            /\ q.at # Nothing => q.at[1] # x[1]
    /\ q.at # Nothing => q.at[2] < MaxTries

Unsent(m) == {r \in Runs : \E x \in run[r].claimed : x[1] = m}
Trying(m) == {r \in Runs : run[r].at # Nothing /\ run[r].at[1] = m /\ run[r].transient}
Offers(m) == Unsent(m) \cup Trying(m)

\* The row of m is to be had: it is due, or will be with nobody at work on it.
Waits(m) == m \in due \/ (row[m] # Nothing /\ \A r \in Runs : ~Holds(r, m))

One(b) == IF b THEN 1 ELSE 0

\* The counts of attempts that m may go on from: those of its row and of its claims.
Known(m) ==
    {n \in Nat : \/ row[m] = n
                 \/ \E r \in Runs : <<m, n>> \in run[r].claimed
                 \/ \E r \in Trying(m) : run[r].at[2] = n}

\* Whoever may yet have m accepted, or have it taken, has been allowed for.
Arrivals(m) == Cardinality(Offers(m)) + One(Waits(m)) <= mayArrive[m]

\* ... and there are tries left for each of them, from any count that is known.
Spent(m) == Cardinality(Unsent(m)) + One(Waits(m))

Tries(m) ==
    /\ Spent(m) <= mayTry[m]
    /\ \A n \in Known(m) : Spent(m) + (MaxTries - n - 1) <= mayTry[m]

\* An e-mail that was not tried yet is nowhere.
Unmade(m) ==
    /\ row[m] = Nothing /\ \A r \in Runs : ~Holds(r, m)
    /\ mayArrive[m] = 1 /\ mayTry[m] = MaxTries

RunsFit == \A r \in Runs : RunFits(run[r])

OutboxInv ==
    /\ OutboxTypeOK
    /\ RunsFit
    /\ \A m \in Mails : /\ Arrivals(m) /\ Tries(m)
                        /\ m \notin made => Unmade(m)

\* Subsets of Runs are finite, and a weight is a number.
LEMMA Weights ==
  /\ \A S \in SUBSET Runs : IsFiniteSet(S) /\ Cardinality(S) \in Nat
  /\ \A S \in SUBSET Runs : \A T \in SUBSET S : Cardinality(T) <= Cardinality(S)
  /\ \A S \in SUBSET Runs : \A r \in S : Cardinality(S \ {r}) = Cardinality(S) - 1
  /\ \A S \in SUBSET Runs : \A r \in Runs \ S : Cardinality(S \cup {r}) = Cardinality(S) + 1
  /\ \A b : One(b) \in {0, 1}
<1>1. \A S \in SUBSET Runs : IsFiniteSet(S) /\ Cardinality(S) \in Nat
  BY RunsAssumption, FS_Subset, FS_CardinalityType
<1>2. \A S \in SUBSET Runs : \A T \in SUBSET S : Cardinality(T) <= Cardinality(S)
  BY <1>1, FS_Subset
<1>3. ASSUME NEW S \in SUBSET Runs, NEW r \in S
      PROVE  Cardinality(S \ {r}) = Cardinality(S) - 1
  BY <1>1, FS_RemoveElement
<1>4. ASSUME NEW S \in SUBSET Runs, NEW r \in Runs \ S
      PROVE  Cardinality(S \cup {r}) = Cardinality(S) + 1
  BY <1>1, FS_AddElement
<1>5. \A b : One(b) \in {0, 1}
  BY DEF One
<1>6. QED
  BY <1>1, <1>2, <1>3, <1>4, <1>5

LEMMA OutboxInitHolds == ASSUME OutboxInit PROVE OutboxInv
<1>1. OutboxTypeOK
  BY BoundsFit DEF OutboxInit, OutboxTypeOK, Run, Resting
<1>2. RunsFit
  BY DEF OutboxInit, RunsFit, RunFits, Resting
<1>3. ASSUME NEW m \in Mails PROVE Arrivals(m) /\ Tries(m) /\ Unmade(m)
  <2>1. Unmade(m)
    BY <1>3 DEF OutboxInit, Unmade, Holds, Resting
  <2>2. Offers(m) = {} /\ Unsent(m) = {} /\ ~Waits(m)
    BY DEF OutboxInit, Offers, Unsent, Trying, Waits, Resting
  <2>3. Known(m) = {}
    BY NothingAssumption DEF OutboxInit, Known, Trying, Resting
  <2>4. Arrivals(m)
    BY <2>1, <2>2, FS_EmptySet DEF Arrivals, Unmade, One
  <2>5. Tries(m)
    BY <2>1, <2>2, <2>3, FS_EmptySet, BoundsFit DEF Tries, Spent, Unmade, One
  <2>6. QED
    BY <2>1, <2>4, <2>5
<1>4. QED
  BY <1>1, <1>2, <1>3 DEF OutboxInv

----------------------------------------------------------------------------
(* E-mails that a step leaves alone, or with less to come.                 *)

\* Nothing is added to what may come of m, or as much as is excused.
LEMMA LessToCome ==
  ASSUME OutboxInv, OutboxTypeOK', NEW m \in Mails, m \in made,
         NEW k \in {0, 1},
         mayArrive'[m] >= mayArrive[m] + k, mayTry'[m] >= mayTry[m] + k,
         Offers(m)' \subseteq Offers(m), Unsent(m)' \subseteq Unsent(m),
         Waits(m)' => Waits(m) \/ k = 1,
         Known(m)' \subseteq Known(m)
  PROVE  Arrivals(m)' /\ Tries(m)'
<1>1. /\ Cardinality(Offers(m)') <= Cardinality(Offers(m))
      /\ Cardinality(Unsent(m)') <= Cardinality(Unsent(m))
      /\ Cardinality(Offers(m)') \in Nat /\ Cardinality(Offers(m)) \in Nat
      /\ Cardinality(Unsent(m)') \in Nat /\ Cardinality(Unsent(m)) \in Nat
  <2>1. Offers(m) \subseteq Runs /\ Unsent(m) \subseteq Runs
    BY DEF Offers, Unsent, Trying
  <2>2. QED
    BY <2>1, Weights
<1>2. One(Waits(m)') <= One(Waits(m)) + k /\ One(Waits(m)) \in {0, 1} /\ One(Waits(m)') \in {0, 1}
  BY DEF One
<1>3. /\ mayArrive[m] \in Int /\ mayTry[m] \in Int
      /\ mayArrive'[m] \in Int /\ mayTry'[m] \in Int
  BY DEF OutboxInv, OutboxTypeOK
<1>4. Cardinality(Offers(m)) + One(Waits(m)) <= mayArrive[m]
  BY DEF OutboxInv, Arrivals
<1>5. Arrivals(m)'
  BY <1>1, <1>2, <1>3, <1>4 DEF Arrivals, One
<1>6. Spent(m)' <= Spent(m) + k /\ Spent(m) \in Nat /\ Spent(m)' \in Nat
  BY <1>1, <1>2 DEF Spent, One
<1>7. \A n \in Known(m)' : n \in Nat /\ Spent(m) + (MaxTries - n - 1) <= mayTry[m]
  BY DEF OutboxInv, Tries, Known
<1>8. Spent(m) <= mayTry[m] /\ MaxTries \in Nat
  BY BoundsFit DEF OutboxInv, Tries
<1>9. Tries(m)'
  BY <1>3, <1>6, <1>7, <1>8 DEF Tries
<1>10. QED
  BY <1>5, <1>9

\* Nobody has anything more, or less, of m.
Untouched(m) ==
    /\ row'[m] = row[m] /\ (m \in due' <=> m \in due)
    /\ mayArrive'[m] = mayArrive[m] /\ mayTry'[m] = mayTry[m]
    /\ \A r \in Runs :
        /\ \A n \in Nat : <<m, n>> \in run'[r].claimed <=> <<m, n>> \in run[r].claimed
        /\ (run'[r].at # Nothing /\ run'[r].at[1] = m) <=> (run[r].at # Nothing /\ run[r].at[1] = m)
        /\ run[r].at # Nothing /\ run[r].at[1] = m =>
              run'[r].at = run[r].at /\ run'[r].transient = run[r].transient

LEMMA Pairs ==
  ASSUME NEW q \in Run
  PROVE  /\ \A x \in q.claimed : x[1] \in Mails /\ x[2] \in Nat /\ x = <<x[1], x[2]>>
         /\ q.at # Nothing => q.at[1] \in Mails /\ q.at[2] \in Nat /\ q.at = <<q.at[1], q.at[2]>>
         /\ \A m \in Mails, n \in Nat : <<m, n>> # Nothing
<1>1. q.claimed \subseteq Mails \X Nat /\ q.at \in (Mails \X Nat) \cup {Nothing}
  BY DEF Run
<1>2. \A m \in Mails, n \in Nat : <<m, n>> # Nothing
  BY NothingAssumption
<1>3. QED
  BY <1>1, <1>2

LEMMA UntouchedKeeps ==
  ASSUME OutboxInv, OutboxTypeOK', NEW m \in Mails, Untouched(m)
  PROVE  /\ Arrivals(m)' /\ Tries(m)'
         /\ Unmade(m) => Unmade(m)'
<1>1. \A r \in Runs :
        /\ (\E x \in run'[r].claimed : x[1] = m) <=> (\E x \in run[r].claimed : x[1] = m)
        /\ Holds(r, m)' <=> Holds(r, m)
  <2>1. ASSUME NEW r \in Runs
        PROVE  (\E x \in run'[r].claimed : x[1] = m) <=> (\E x \in run[r].claimed : x[1] = m)
    <3>1. run[r] \in Run /\ run'[r] \in Run
      BY DEF OutboxInv, OutboxTypeOK
    <3>2. \A q \in {run[r], run'[r]} :
            (\E x \in q.claimed : x[1] = m) <=> \E n \in Nat : <<m, n>> \in q.claimed
      <4>1. ASSUME NEW q \in Run
            PROVE  (\E x \in q.claimed : x[1] = m) <=> \E n \in Nat : <<m, n>> \in q.claimed
        <5>1. \A x \in q.claimed : x[1] \in Mails /\ x[2] \in Nat /\ x = <<x[1], x[2]>>
          BY Pairs
        <5>2. QED
          BY <5>1
      <4>2. QED
        BY <3>1, <4>1
    <3>3. QED
      BY <3>1, <3>2 DEF Untouched
  <2>2. ASSUME NEW r \in Runs PROVE Holds(r, m)' <=> Holds(r, m)
    <3>1. run[r] \in Run /\ run'[r] \in Run
      BY DEF OutboxInv, OutboxTypeOK
    <3>2. \A q \in {run[r], run'[r]} : \A x \in q.claimed : x # Nothing
      BY <3>1, Pairs
    <3>3. \A q \in {run[r], run'[r]} :
            (\E x \in q.claimed \cup {q.at} : x # Nothing /\ x[1] = m)
            <=> (\E x \in q.claimed : x[1] = m) \/ (q.at # Nothing /\ q.at[1] = m)
      BY <3>2
    <3>4. QED
      BY <2>1, <3>3 DEF Holds, Untouched
  <2>3. QED
    BY <2>1, <2>2
<1>2. Unsent(m)' = Unsent(m) /\ Trying(m)' = Trying(m) /\ Offers(m)' = Offers(m)
  BY <1>1 DEF Unsent, Trying, Offers, Untouched
<1>3. Waits(m)' <=> Waits(m)
  BY <1>1 DEF Waits, Untouched
<1>4. Known(m)' = Known(m)
  BY <1>2 DEF Known, Trying, Untouched
<1>5. /\ mayArrive'[m] = mayArrive[m] /\ mayTry'[m] = mayTry[m]
      /\ mayArrive[m] \in Int /\ mayTry[m] \in Int
  BY DEF Untouched, OutboxInv, OutboxTypeOK
<1>6. Arrivals(m)'
  BY <1>2, <1>3, <1>5 DEF OutboxInv, Arrivals, One
<1>7. Tries(m)'
  BY <1>2, <1>3, <1>4, <1>5 DEF OutboxInv, Tries, Spent, One
<1>8. Unmade(m) => Unmade(m)'
  BY <1>1, <1>5 DEF Unmade, Untouched
<1>9. QED
  BY <1>6, <1>7, <1>8

\* A step of run r, to q, that has nothing to do with m.
LEMMA OthersUntouched ==
  ASSUME OutboxInv, NEW m \in Mails, NEW r \in Runs, NEW q \in Run,
         run' = [run EXCEPT ![r] = q],
         row'[m] = row[m], m \in due' <=> m \in due,
         mayArrive'[m] = mayArrive[m], mayTry'[m] = mayTry[m],
         \A n \in Nat : <<m, n>> \in q.claimed <=> <<m, n>> \in run[r].claimed,
         ~(q.at # Nothing /\ q.at[1] = m),
         ~(run[r].at # Nothing /\ run[r].at[1] = m)
  PROVE  Untouched(m)
<1>1. run'[r] = q /\ \A p \in Runs : p # r => run'[p] = run[p]
  BY DEF OutboxInv, OutboxTypeOK
<1>2. QED
  BY <1>1 DEF Untouched

\* Who holds an e-mail has it to be sent, or has its answer; and it was made.
LEMMA Holders ==
  ASSUME OutboxInv, NEW m \in Mails
  PROVE  /\ \A r \in Runs : Holds(r, m) <=> r \in Unsent(m) \/ (run[r].at # Nothing /\ run[r].at[1] = m)
         /\ \A r \in Runs : r \in Unsent(m) => ~(run[r].at # Nothing /\ run[r].at[1] = m)
         /\ Unsent(m) \subseteq Runs /\ Trying(m) \subseteq Runs /\ Offers(m) \subseteq Runs
         /\ Unsent(m) \cap Trying(m) = {}
         /\ row[m] # Nothing \/ (\E r \in Runs : Holds(r, m)) => m \in made
<1>1. ASSUME NEW r \in Runs
      PROVE  /\ Holds(r, m) <=> r \in Unsent(m) \/ (run[r].at # Nothing /\ run[r].at[1] = m)
             /\ r \in Unsent(m) => ~(run[r].at # Nothing /\ run[r].at[1] = m)
  <2>1. run[r] \in Run /\ RunFits(run[r])
    BY DEF OutboxInv, OutboxTypeOK, RunsFit
  <2>2. \A x \in run[r].claimed : x # Nothing
    BY <2>1, Pairs
  <2>3. Holds(r, m) <=> r \in Unsent(m) \/ (run[r].at # Nothing /\ run[r].at[1] = m)
    BY <2>2 DEF Holds, Unsent
  <2>4. r \in Unsent(m) => ~(run[r].at # Nothing /\ run[r].at[1] = m)
    BY <2>1 DEF Unsent, RunFits
  <2>5. QED
    BY <2>3, <2>4
<1>2. Unsent(m) \subseteq Runs /\ Trying(m) \subseteq Runs /\ Offers(m) \subseteq Runs
  BY DEF Unsent, Trying, Offers
<1>3. Unsent(m) \cap Trying(m) = {}
  BY <1>1, <1>2 DEF Trying
<1>4. row[m] # Nothing \/ (\E r \in Runs : Holds(r, m)) => m \in made
  BY DEF OutboxInv, Unmade
<1>5. QED
  BY <1>1, <1>2, <1>3, <1>4

\* What is to be shown of a step: of each e-mail, that it was left alone, or was made and
\* has what is left of it.
LEMMA EachKept ==
  ASSUME OutboxInv, OutboxTypeOK', RunsFit', made \subseteq made',
         \A m \in Mails : \/ Untouched(m) /\ (m \in made' => m \in made)
                          \/ m \in made' /\ Arrivals(m)' /\ Tries(m)'
  PROVE  OutboxInv'
<1>1. ASSUME NEW m \in Mails
      PROVE  Arrivals(m)' /\ Tries(m)' /\ (m \notin made' => Unmade(m)')
  <2>1. CASE Untouched(m) /\ (m \in made' => m \in made)
    <3>1. Arrivals(m)' /\ Tries(m)' /\ (Unmade(m) => Unmade(m)')
      BY <2>1, UntouchedKeeps
    <3>2. m \notin made' => Unmade(m)
      BY <2>1 DEF OutboxInv
    <3>3. QED
      BY <3>1, <3>2
  <2>2. CASE m \in made' /\ Arrivals(m)' /\ Tries(m)'
    BY <2>2
  <2>3. QED
    BY <2>1, <2>2
<1>2. QED
  BY <1>1 DEF OutboxInv

----------------------------------------------------------------------------
(* Each step of the outbox.                                                *)

LEMMA SendEmailKeeps ==
  ASSUME OutboxInv, NEW m \in Mails, SendEmail(m)
  PROVE  OutboxInv'
<1>1. PICK o \in Outcomes :
        /\ mayArrive' = [mayArrive EXCEPT ![m] = IF o = "ok" THEN 0 ELSE 1]
        /\ row' = row \/ (o = "transient" /\ row' = [row EXCEPT ![m] = 0])
  BY DEF SendEmail
<1>2. /\ m \notin made /\ made' = made \cup {m}
      /\ due' = due /\ ahead' = ahead /\ run' = run /\ aborts' = aborts /\ mayTry' = mayTry
  BY DEF SendEmail, dates
<1>3. Unmade(m) /\ OutboxTypeOK /\ RunsFit
  BY <1>2 DEF OutboxInv
<1>4. OutboxTypeOK'
  BY <1>1, <1>2, <1>3, BoundsFit, NothingAssumption DEF OutboxTypeOK
<1>5. RunsFit'
  BY <1>2, <1>3 DEF RunsFit
<1>6. ASSUME NEW n \in Mails, n # m PROVE Untouched(n)
  BY <1>1, <1>2, <1>3, <1>6 DEF OutboxTypeOK, Untouched
<1>7. /\ Unsent(m) = {} /\ Trying(m) = {} /\ m \notin due
  BY <1>3, Holders DEF Unmade, Trying, OutboxTypeOK
<1>8. Unsent(m)' = {} /\ Trying(m)' = {} /\ Offers(m)' = {}
  BY <1>2, <1>7 DEF Unsent, Trying, Offers
<1>9. /\ mayTry'[m] = MaxTries /\ mayArrive'[m] = IF o = "ok" THEN 0 ELSE 1
  BY <1>1, <1>2, <1>3 DEF Unmade, OutboxTypeOK
<1>10. Waits(m)' => o = "transient"
  BY <1>1, <1>2, <1>3, <1>7 DEF Waits, Unmade
<1>11. Known(m)' \subseteq {0}
  <2>1. \A n \in Nat : \A r \in Runs : <<m, n>> \notin run'[r].claimed
    BY <1>8 DEF Unsent
  <2>2. row'[m] \in {0, Nothing}
    BY <1>1, <1>3 DEF Unmade, OutboxTypeOK
  <2>3. QED
    BY <1>8, <2>1, <2>2, NothingAssumption DEF Known
<1>12. Arrivals(m)'
  BY <1>8, <1>9, <1>10, FS_EmptySet DEF Arrivals, One
<1>13. Tries(m)'
  <2>1. Spent(m)' \in {0, 1}
    BY <1>8, FS_EmptySet DEF Spent, One
  <2>2. QED
    BY <1>9, <1>11, <2>1, BoundsFit DEF Tries
<1>14. QED
  BY <1>2, <1>4, <1>5, <1>6, <1>12, <1>13, EachKept

LEMMA FallsDueKeeps ==
  ASSUME OutboxInv, NEW m \in Mails, FallsDue(m)
  PROVE  OutboxInv'
<1>1. /\ row[m] # Nothing /\ due' = due \cup {m} /\ ahead' = ahead \cup (due \X {m})
      /\ row' = row /\ made' = made /\ run' = run /\ aborts' = aborts
  BY DEF FallsDue, Dated
<1>2. PICK k \in {0, 1} :
        /\ mayArrive' = [mayArrive EXCEPT ![m] = @ + k]
        /\ mayTry' = [mayTry EXCEPT ![m] = @ + k]
        /\ k = 0 => \A r \in Runs : ~Holds(r, m)
  <2>1. CASE \E r \in Runs : Holds(r, m)
    <3>1. Excuse(m)
      BY <2>1 DEF FallsDue
    <3>2. QED
      BY <3>1 DEF Excuse
  <2>2. CASE ~\E r \in Runs : Holds(r, m)
    <3>1. mayArrive' = mayArrive /\ mayTry' = mayTry
      BY <2>2 DEF FallsDue, history
    <3>2. mayArrive[m] + 0 = mayArrive[m] /\ mayTry[m] + 0 = mayTry[m]
      BY DEF OutboxInv, OutboxTypeOK
    <3>3. /\ mayArrive' = [mayArrive EXCEPT ![m] = @ + 0]
          /\ mayTry' = [mayTry EXCEPT ![m] = @ + 0]
      BY <3>1, <3>2 DEF OutboxInv, OutboxTypeOK
    <3>4. QED
      BY <2>2, <3>3
  <2>3. QED
    BY <2>1, <2>2
<1>3. OutboxTypeOK /\ RunsFit
  BY DEF OutboxInv
<1>4. OutboxTypeOK'
  BY <1>1, <1>2, <1>3 DEF OutboxTypeOK
<1>5. RunsFit'
  BY <1>1, <1>3 DEF RunsFit
<1>6. ASSUME NEW n \in Mails, n # m PROVE Untouched(n)
  BY <1>1, <1>2, <1>3, <1>6 DEF OutboxTypeOK, Untouched
<1>7. m \in made
  BY <1>1, Holders
<1>8. mayArrive'[m] = mayArrive[m] + k /\ mayTry'[m] = mayTry[m] + k
  BY <1>2, <1>3 DEF OutboxTypeOK
<1>9. /\ Unsent(m)' = Unsent(m) /\ Offers(m)' = Offers(m) /\ Known(m)' = Known(m)
  BY <1>1 DEF Unsent, Trying, Offers, Known
<1>10. Waits(m)' => Waits(m) \/ k = 1
  BY <1>1, <1>2 DEF Waits
<1>11. mayArrive'[m] >= mayArrive[m] + k /\ mayTry'[m] >= mayTry[m] + k
  BY <1>4, <1>8 DEF OutboxTypeOK
<1>12. Arrivals(m)' /\ Tries(m)'
  BY <1>4, <1>7, <1>9, <1>10, <1>11, LessToCome
<1>13. QED
  BY <1>1, <1>4, <1>5, <1>6, <1>7, <1>12, EachKept

LEMMA TakeBatchKeeps ==
  ASSUME OutboxInv, NEW r \in Runs, TakeBatch(r)
  PROVE  OutboxInv'
<1>1. PICK S \in SUBSET due : /\ run' = [run EXCEPT ![r] = Sending({<<m, row[m]>> : m \in S})]
                              /\ PutOff(S)
  BY DEF TakeBatch, Taken
<1>2. PICK q : q = [pc |-> "send", claimed |-> {<<m, row[m]>> : m \in S}, at |-> Nothing,
                    transient |-> FALSE]
  OBVIOUS
<1>3. /\ run' = [run EXCEPT ![r] = q] /\ row' = row /\ made' = made /\ aborts' = aborts
      /\ mayArrive' = mayArrive /\ mayTry' = mayTry
      /\ due' = due \ S /\ ahead' \subseteq ahead
      /\ \A p \in ahead' : p[1] \notin S /\ p[2] \notin S
  BY <1>1, <1>2 DEF TakeBatch, Sending, PutOff, history
<1>4. OutboxTypeOK /\ RunsFit /\ run[r] = Resting
  BY DEF OutboxInv, RunsFit, RunFits, TakeBatch
<1>5. S \subseteq Mails /\ \A m \in S : row[m] \in Nat /\ row[m] < MaxTries
  BY <1>4, BoundsFit DEF OutboxTypeOK
<1>6. q \in Run
  <2>1. {<<m, row[m]>> : m \in S} \in SUBSET (Mails \X Nat)
    BY <1>5
  <2>2. QED
    BY <1>2, <2>1 DEF Run
<1>7. OutboxTypeOK'
  <2>1. run' \in [Runs -> Run]
    BY <1>3, <1>4, <1>6 DEF OutboxTypeOK
  <2>2. QED
    BY <1>3, <1>4, <2>1 DEF OutboxTypeOK
<1>8. RunsFit'
  <2>1. RunFits(q)
    BY <1>2, <1>5, NothingAssumption DEF RunFits
  <2>2. \A p \in Runs : run'[p] = IF p = r THEN q ELSE run[p]
    BY <1>3, <1>4 DEF OutboxTypeOK
  <2>3. QED
    BY <1>4, <2>1, <2>2 DEF RunsFit
<1>9. ASSUME NEW m \in Mails, m \notin S PROVE Untouched(m)
  <2>1. \A n \in Nat : <<m, n>> \notin q.claimed /\ <<m, n>> \notin run[r].claimed
    BY <1>2, <1>4, <1>9 DEF Resting
  <2>2. q.at = Nothing /\ run[r].at = Nothing
    BY <1>2, <1>4 DEF Resting
  <2>3. QED
    BY <1>3, <1>6, <1>9, <2>1, <2>2, OthersUntouched
<1>10. ASSUME NEW m \in S PROVE m \in made' /\ Arrivals(m)' /\ Tries(m)'
  <2>1. m \in Mails /\ m \in due /\ m \in made /\ row[m] \in Nat
    BY <1>4, <1>5, Holders DEF OutboxTypeOK
  <2>2. \A p \in Runs : run'[p] = IF p = r THEN q ELSE run[p]
    BY <1>3, <1>4 DEF OutboxTypeOK
  <2>3. <<m, row[m]>> \in q.claimed /\ q.at = Nothing
    BY <1>2
  <2>4. r \notin Unsent(m) /\ r \notin Trying(m)
    BY <1>4 DEF Unsent, Trying, Resting
  <2>5. Unsent(m)' = Unsent(m) \cup {r} /\ Trying(m)' = Trying(m)
    <3>1. \E x \in q.claimed : x[1] = m
      BY <2>3
    <3>2. Unsent(m)' = Unsent(m) \cup {r}
      BY <2>2, <3>1 DEF Unsent
    <3>3. Trying(m)' = Trying(m)
      BY <1>4, <2>2, <2>3 DEF Trying, Resting
    <3>4. QED
      BY <3>2, <3>3
  <2>6. Offers(m)' = Offers(m) \cup {r} /\ r \notin Offers(m)
    BY <2>4, <2>5 DEF Offers
  <2>7. /\ Cardinality(Offers(m)') = Cardinality(Offers(m)) + 1
        /\ Cardinality(Unsent(m)') = Cardinality(Unsent(m)) + 1
        /\ Cardinality(Offers(m)) \in Nat /\ Cardinality(Unsent(m)) \in Nat
    BY <2>1, <2>4, <2>5, <2>6, Holders, Weights
  <2>8. ~Waits(m)' /\ Waits(m)
    <3>1. Holds(r, m)'
      <4>1. <<m, row[m]>> # Nothing
        BY <1>6, <2>1, Pairs
      <4>2. QED
        BY <2>2, <2>3, <4>1 DEF Holds
    <3>2. m \notin due'
      BY <1>3
    <3>3. QED
      BY <2>1, <3>1, <3>2 DEF Waits
  <2>9. Known(m)' \subseteq Known(m)
    <3>1. \A n \in Nat : <<m, n>> \in q.claimed => n = row[m]
      BY <1>2
    <3>2. QED
      BY <1>3, <2>2, <2>3, <2>5, <3>1 DEF Known, Trying
  <2>10. mayArrive[m] \in Int /\ mayTry[m] \in Int
    BY <1>4, <2>1 DEF OutboxTypeOK
  <2>11. Arrivals(m)'
    BY <1>3, <2>1, <2>7, <2>8, <2>10 DEF OutboxInv, Arrivals, One
  <2>12. Spent(m)' = Spent(m)
    BY <2>7, <2>8 DEF Spent, One
  <2>13. Tries(m)'
    BY <1>3, <2>1, <2>9, <2>12 DEF OutboxInv, Tries
  <2>14. QED
    BY <1>3, <2>1, <2>11, <2>13
<1>11. QED
  BY <1>3, <1>7, <1>8, <1>9, <1>10, EachKept

LEMMA SendOneKeeps ==
  ASSUME OutboxInv, NEW r \in Runs, SendOne(r)
  PROVE  OutboxInv'
<1>1. PICK x \in run[r].claimed, o \in Outcomes :
        /\ run' = [run EXCEPT ![r] = [pc |-> "record", claimed |-> @.claimed \ {x},
                                      at |-> x, transient |-> (o = "transient")]]
        /\ mayTry' = [mayTry EXCEPT ![x[1]] = @ - 1]
        /\ mayArrive' = [mayArrive EXCEPT ![x[1]] = IF o = "ok" THEN @ - 1 ELSE @]
  BY DEF SendOne
<1>2. PICK q : q = [pc |-> "record", claimed |-> run[r].claimed \ {x}, at |-> x,
                    transient |-> (o = "transient")]
  OBVIOUS
<1>3. OutboxTypeOK /\ RunsFit /\ run[r] \in Run /\ RunFits(run[r]) /\ run[r].pc = "send"
  BY DEF OutboxInv, OutboxTypeOK, RunsFit, SendOne
<1>4. /\ run' = [run EXCEPT ![r] = q] /\ row' = row /\ due' = due /\ ahead' = ahead
      /\ made' = made /\ aborts' = aborts
  BY <1>1, <1>2 DEF SendOne, dates
<1>5. /\ x[1] \in Mails /\ x[2] \in Nat /\ x = <<x[1], x[2]>> /\ x # Nothing
      /\ x[2] < MaxTries /\ run[r].at = Nothing
  BY <1>3, Pairs DEF RunFits
<1>6. q \in Run
  <2>1. run[r].claimed \ {x} \in SUBSET (Mails \X Nat) /\ x \in Mails \X Nat
    BY <1>3 DEF Run
  <2>2. QED
    BY <1>2, <2>1 DEF Run
<1>7. \A p \in Runs : run'[p] = IF p = r THEN q ELSE run[p]
  BY <1>3, <1>4 DEF OutboxTypeOK
<1>8. OutboxTypeOK'
  <2>1. run' \in [Runs -> Run]
    BY <1>3, <1>4, <1>6 DEF OutboxTypeOK
  <2>2. mayArrive' \in [Mails -> Int] /\ mayTry' \in [Mails -> Int]
    BY <1>1, <1>3, <1>5 DEF OutboxTypeOK
  <2>3. QED
    BY <1>3, <1>4, <2>1, <2>2 DEF OutboxTypeOK
<1>9. RunsFit'
  <2>1. RunFits(q)
    BY <1>2, <1>3, <1>5 DEF RunFits
  <2>2. QED
    BY <1>3, <1>7, <2>1 DEF RunsFit
<1>10. ASSUME NEW m \in Mails, m # x[1] PROVE Untouched(m)
  <2>1. \A n \in Nat : <<m, n>> \in q.claimed <=> <<m, n>> \in run[r].claimed
    BY <1>2, <1>10
  <2>2. mayArrive'[m] = mayArrive[m] /\ mayTry'[m] = mayTry[m]
    BY <1>1, <1>3, <1>10 DEF OutboxTypeOK
  <2>3. q.at[1] # m /\ run[r].at = Nothing
    BY <1>2, <1>5, <1>10
  <2>4. QED
    BY <1>4, <1>6, <2>1, <2>2, <2>3, OthersUntouched
<1>11. ASSUME NEW m \in Mails, m = x[1] PROVE m \in made /\ Arrivals(m)' /\ Tries(m)'
  <2>1. r \in Unsent(m) /\ r \notin Trying(m)
    BY <1>5, <1>11 DEF Unsent, Trying
  <2>2. Holds(r, m) /\ Holds(r, m)' /\ m \in made
    <3>1. Holds(r, m)
      BY <2>1, Holders
    <3>2. Holds(r, m)'
      BY <1>2, <1>5, <1>7, <1>11 DEF Holds
    <3>3. QED
      BY <3>1, <3>2, Holders
  <2>3. Unsent(m)' = Unsent(m) \ {r}
    <3>1. ~\E y \in q.claimed : y[1] = m
      BY <1>2, <1>3, <1>11 DEF RunFits
    <3>2. QED
      BY <1>7, <3>1 DEF Unsent
  <2>4. Trying(m)' = IF o = "transient" THEN Trying(m) \cup {r} ELSE Trying(m)
    <3>1. q.at = x /\ q.transient = (o = "transient")
      BY <1>2
    <3>2. \A p \in Runs : p \in Trying(m)' <=> p \in Trying(m) \/ (p = r /\ o = "transient")
      BY <1>5, <1>7, <1>11, <2>1, <3>1 DEF Trying
    <3>3. QED
      BY <3>2 DEF Trying
  <2>5. Offers(m)' = IF o = "transient" THEN Offers(m) ELSE Offers(m) \ {r}
    BY <2>1, <2>3, <2>4 DEF Offers
  <2>6. Waits(m)' <=> Waits(m)
    BY <1>4, <2>2 DEF Waits
  <2>7. Known(m)' \subseteq Known(m)
    <3>1. \A p \in Runs : \A n \in Nat : <<m, n>> \in run'[p].claimed => <<m, n>> \in run[p].claimed
      BY <1>2, <1>7
    <3>2. \A p \in Trying(m)' : \A n \in Nat : run'[p].at[2] = n => n \in Known(m)
      <4>1. x[2] \in Known(m)
        BY <1>5, <1>11 DEF Known
      <4>2. ASSUME NEW p \in Trying(m)', NEW n \in Nat, run'[p].at[2] = n PROVE n \in Known(m)
        <5>1. CASE p = r
          BY <1>2, <1>7, <4>1, <4>2, <5>1 DEF Trying
        <5>2. CASE p # r
          BY <1>7, <2>4, <4>2, <5>2 DEF Known, Trying
        <5>3. QED
          BY <5>1, <5>2
      <4>3. QED
        BY <4>2
    <3>3. QED
      BY <1>4, <3>1, <3>2 DEF Known
  <2>8. /\ Cardinality(Unsent(m)') = Cardinality(Unsent(m)) - 1
        /\ Cardinality(Offers(m) \ {r}) = Cardinality(Offers(m)) - 1
        /\ Cardinality(Offers(m)) \in Nat /\ Cardinality(Unsent(m)) \in Nat
    BY <2>1, <2>3, Holders, Weights DEF Offers
  <2>9. /\ mayArrive[m] \in Int /\ mayTry[m] \in Int
        /\ mayTry'[m] = mayTry[m] - 1
        /\ mayArrive'[m] = IF o = "ok" THEN mayArrive[m] - 1 ELSE mayArrive[m]
    BY <1>1, <1>3, <1>11 DEF OutboxTypeOK
  <2>10. Arrivals(m)'
    BY <2>5, <2>6, <2>8, <2>9 DEF OutboxInv, Arrivals, One
  <2>11. Spent(m)' = Spent(m) - 1 /\ Spent(m) \in Int
    BY <2>6, <2>8 DEF Spent, One
  <2>12. Tries(m)'
    <3>1. \A n \in Known(m)' : n \in Nat /\ Spent(m) + (MaxTries - n - 1) <= mayTry[m]
      BY <2>7 DEF OutboxInv, Tries, Known
    <3>2. Spent(m) <= mayTry[m] /\ MaxTries \in Nat
      BY BoundsFit DEF OutboxInv, Tries
    <3>3. QED
      BY <2>9, <2>11, <3>1, <3>2 DEF Tries
  <2>13. QED
    BY <2>2, <2>10, <2>12
<1>12. QED
  BY <1>4, <1>8, <1>9, <1>10, <1>11, EachKept

\* What a run that is over with its row goes on to.
LEMMA OnwardsFits ==
  ASSUME OutboxTypeOK, RunsFit, NEW r \in Runs, Onwards(r)
  PROVE  \E q \in Run : /\ run' = [run EXCEPT ![r] = q] /\ RunFits(q)
                        /\ q.claimed = run[r].claimed /\ q.at = Nothing
<1>1. PICK c : c = run[r].claimed
  OBVIOUS
<1>2. run[r] \in Run /\ RunFits(run[r]) /\ c \in SUBSET (Mails \X Nat)
  BY <1>1 DEF OutboxTypeOK, RunsFit, Run
<1>3. PICK q : q = [pc |-> IF c = {} THEN "idle" ELSE "send", claimed |-> c, at |-> Nothing,
                    transient |-> FALSE]
  OBVIOUS
<1>4. run' = [run EXCEPT ![r] = q]
  <2>1. CASE c = {}
    BY <1>1, <1>3, <2>1 DEF Onwards, Resting
  <2>2. CASE c # {}
    <3>1. Sending(c) = q
      BY <1>3, <2>2 DEF Sending
    <3>2. QED
      BY <1>1, <2>2, <3>1 DEF Onwards
  <2>3. QED
    BY <2>1, <2>2
<1>5. q \in Run
  BY <1>2, <1>3 DEF Run
<1>6. RunFits(q)
  <2>1. c = {} => q = Resting
    BY <1>3 DEF Resting
  <2>2. \A x \in c : x[2] < MaxTries /\ \A y \in c : x[1] = y[1] => x = y
    BY <1>1, <1>2 DEF RunFits
  <2>3. QED
    BY <1>3, <2>1, <2>2 DEF RunFits
<1>7. QED
  BY <1>1, <1>3, <1>4, <1>5, <1>6

LEMMA WriteDownKeeps ==
  ASSUME OutboxInv, NEW r \in Runs, WriteDown(r)
  PROVE  OutboxInv'
<1>1. OutboxTypeOK /\ RunsFit /\ run[r] \in Run /\ RunFits(run[r]) /\ run[r].pc = "record"
  BY DEF OutboxInv, OutboxTypeOK, RunsFit, WriteDown
<1>2. PICK m, n : m = run[r].at[1] /\ n = run[r].at[2]
  OBVIOUS
<1>3. /\ m \in Mails /\ n \in Nat /\ n < MaxTries /\ run[r].at # Nothing
      /\ r \notin Unsent(m)
  BY <1>1, <1>2, Pairs DEF RunFits, Unsent
<1>4. PICK q \in Run : /\ run' = [run EXCEPT ![r] = q] /\ RunFits(q)
                       /\ q.claimed = run[r].claimed /\ q.at = Nothing
  BY <1>1, OnwardsFits DEF WriteDown
<1>5. /\ row' = [row EXCEPT ![m] = IF @ = Nothing \/ GivenUp(run[r]) THEN Nothing ELSE n + 1]
      /\ due' = due \ {m} /\ ahead' \subseteq ahead
      /\ \A p \in ahead' : p[1] \notin {m} /\ p[2] \notin {m}
      /\ made' = made /\ aborts' = aborts /\ mayArrive' = mayArrive /\ mayTry' = mayTry
  BY <1>2 DEF WriteDown, PutOff, OnceMore, history
<1>6. row'[m] # Nothing => row'[m] = n + 1 /\ run[r].transient /\ n + 1 < MaxTries
  BY <1>1, <1>2, <1>3, <1>5, BoundsFit DEF OutboxTypeOK, GivenUp, OnceMore
<1>7. \A p \in Mails : p # m => row'[p] = row[p]
  BY <1>1, <1>5 DEF OutboxTypeOK
<1>8. OutboxTypeOK'
  <2>1. run' \in [Runs -> Run]
    BY <1>1, <1>4 DEF OutboxTypeOK
  <2>2. row' \in [Mails -> (0 .. MaxTries - 1) \cup {Nothing}]
    <3>1. row'[m] \in (0 .. MaxTries - 1) \cup {Nothing}
      BY <1>3, <1>6, BoundsFit
    <3>2. \A p \in Mails : row'[p] \in (0 .. MaxTries - 1) \cup {Nothing}
      BY <1>1, <1>7, <3>1 DEF OutboxTypeOK
    <3>3. QED
      BY <1>1, <1>5, <3>2 DEF OutboxTypeOK
  <2>3. due' \subseteq {p \in Mails : row'[p] # Nothing}
    BY <1>1, <1>5, <1>7 DEF OutboxTypeOK
  <2>4. ahead' \subseteq due' \X due'
    <3>1. ahead \subseteq due \X due
      BY <1>1 DEF OutboxTypeOK
    <3>2. QED
      BY <1>5, <3>1
  <2>5. QED
    BY <1>1, <1>5, <2>1, <2>2, <2>3, <2>4 DEF OutboxTypeOK
<1>9. \A p \in Runs : run'[p] = IF p = r THEN q ELSE run[p]
  BY <1>1, <1>4 DEF OutboxTypeOK
<1>10. RunsFit'
  BY <1>1, <1>4, <1>9 DEF RunsFit
<1>11. ASSUME NEW p \in Mails, p # m PROVE Untouched(p)
  BY <1>2, <1>4, <1>5, <1>7, <1>11, OthersUntouched
<1>12. m \in made /\ Holds(r, m)
  BY <1>2, <1>3, Holders
<1>13. Unsent(m)' = Unsent(m) /\ Trying(m)' = Trying(m) \ {r}
  <2>1. Unsent(m)' = Unsent(m)
    BY <1>4, <1>9 DEF Unsent
  <2>2. Trying(m)' = Trying(m) \ {r}
    BY <1>4, <1>9 DEF Trying
  <2>3. QED
    BY <2>1, <2>2
<1>14. Offers(m)' = Offers(m) \ {r}
  BY <1>3, <1>13 DEF Offers
<1>15. Known(m)' \subseteq Known(m) \cup {row'[m]}
  <2>1. \A p \in Runs : run'[p].claimed = run[p].claimed
    BY <1>4, <1>9
  <2>2. \A p \in Trying(m)' : p \in Trying(m) /\ run'[p].at = run[p].at
    BY <1>9, <1>13 DEF Trying
  <2>3. QED
    BY <2>1, <2>2 DEF Known
<1>16. CASE row'[m] = Nothing
  <2>1. ~Waits(m)'
    BY <1>5, <1>16 DEF Waits
  <2>2. Known(m)' \subseteq Known(m)
    <3>1. \A k \in Nat : k # Nothing
      BY NothingAssumption
    <3>2. QED
      BY <1>15, <1>16, <3>1 DEF Known
  <2>3. mayArrive'[m] >= mayArrive[m] + 0 /\ mayTry'[m] >= mayTry[m] + 0
    BY <1>1, <1>3, <1>5 DEF OutboxTypeOK
  <2>4. Arrivals(m)' /\ Tries(m)'
    BY <1>3, <1>8, <1>12, <1>13, <1>14, <2>1, <2>2, <2>3, LessToCome
  <2>5. QED
    BY <1>5, <1>8, <1>10, <1>11, <1>12, <2>4, EachKept
<1>17. CASE row'[m] # Nothing
  <2>1. r \in Trying(m) /\ r \in Offers(m) /\ n \in Known(m)
    BY <1>2, <1>3, <1>6, <1>17 DEF Trying, Offers, Known
  <2>2. /\ Cardinality(Offers(m)') = Cardinality(Offers(m)) - 1
        /\ Cardinality(Offers(m)) \in Nat /\ Cardinality(Unsent(m)) \in Nat
    BY <1>3, <1>14, <2>1, Holders, Weights
  <2>3. mayArrive[m] \in Int /\ mayTry[m] \in Int /\ MaxTries \in Nat
    BY <1>1, <1>3, BoundsFit DEF OutboxTypeOK
  <2>4. Arrivals(m)'
    BY <1>3, <1>5, <2>2, <2>3 DEF OutboxInv, Arrivals, One
  <2>5. Spent(m) + (MaxTries - n - 1) <= mayTry[m] /\ Spent(m) <= mayTry[m] /\ Spent(m) \in Nat
    BY <1>3, <2>1, <2>2 DEF OutboxInv, Tries, Spent, One
  <2>6. CASE Waits(m)'
    <3>1. \A p \in Runs : ~Holds(p, m)'
      BY <1>5, <2>6 DEF Waits
    <3>2. Unsent(m)' = {} /\ Trying(m)' = {}
      <4>1. ASSUME NEW p \in Runs
            PROVE  /\ ~\E x \in run'[p].claimed : x[1] = m
                   /\ ~(run'[p].at # Nothing /\ run'[p].at[1] = m)
        <5>1. run'[p] \in Run
          BY <1>8 DEF OutboxTypeOK
        <5>2. \A x \in run'[p].claimed : x # Nothing
          BY <5>1, Pairs
        <5>3. QED
          BY <3>1, <5>2 DEF Holds
      <4>2. QED
        BY <4>1 DEF Unsent, Trying
    <3>3. Known(m)' \subseteq {n + 1}
      <4>1. \A k \in Nat : \A p \in Runs : <<m, k>> \notin run'[p].claimed
        BY <3>2 DEF Unsent
      <4>2. QED
        BY <1>6, <1>17, <3>2, <4>1 DEF Known
    <3>4. Spent(m)' = 1
      BY <2>6, <3>2, FS_EmptySet DEF Spent, One
    <3>5. Tries(m)'
      BY <1>3, <1>5, <1>6, <1>17, <2>3, <2>5, <3>3, <3>4 DEF Tries
    <3>6. QED
      BY <1>5, <1>8, <1>10, <1>11, <1>12, <2>4, <3>5, EachKept
  <2>7. CASE ~Waits(m)'
    <3>1. Spent(m)' <= Spent(m) /\ Spent(m)' \in Nat
      BY <1>13, <2>2, <2>7 DEF Spent, One
    <3>2. \A k \in Known(m) : k \in Nat /\ Spent(m) + (MaxTries - k - 1) <= mayTry[m]
      BY <1>3 DEF OutboxInv, Tries, Known
    <3>3. \A k \in Known(m)' : k \in Known(m) \/ k = n + 1
      BY <1>6, <1>15, <1>17
    <3>4. Tries(m)'
      BY <1>3, <1>5, <2>3, <2>5, <3>1, <3>2, <3>3 DEF Tries
    <3>5. QED
      BY <1>5, <1>8, <1>10, <1>11, <1>12, <2>4, <3>4, EachKept
  <2>8. QED
    BY <2>6, <2>7
<1>18. QED
  BY <1>16, <1>17

LEMMA AbortsKeeps ==
  ASSUME OutboxInv, NEW r \in Runs, Aborts(r)
  PROVE  OutboxInv'
<1>1. /\ run' = [run EXCEPT ![r] = Resting] /\ row' = row /\ due' = due /\ ahead' = ahead
      /\ made' = made /\ aborts' = aborts + 1 /\ aborts < MaxAborts
  BY DEF Aborts, dates
<1>2. OutboxTypeOK /\ RunsFit /\ run[r] \in Run /\ RunFits(run[r])
  BY DEF OutboxInv, OutboxTypeOK, RunsFit
<1>3. Resting \in Run /\ RunFits(Resting)
  BY DEF Resting, Run, RunFits
<1>4. \A p \in Runs : run'[p] = IF p = r THEN Resting ELSE run[p]
  BY <1>1, <1>2 DEF OutboxTypeOK
<1>5. /\ mayArrive' \in [Mails -> Int] /\ mayTry' \in [Mails -> Int]
      /\ \A m \in Mails :
          IF run[r].at # Nothing /\ run[r].at[1] = m
          THEN mayArrive'[m] = mayArrive[m] + 1 /\ mayTry'[m] = mayTry[m] + 1
          ELSE mayArrive'[m] = mayArrive[m] /\ mayTry'[m] = mayTry[m]
  <2>1. CASE run[r].at = Nothing
    BY <1>2, <2>1 DEF Aborts, history, OutboxTypeOK
  <2>2. CASE run[r].at # Nothing
    <3>1. Excuse(run[r].at[1])
      BY <2>2 DEF Aborts
    <3>2. run[r].at[1] \in Mails
      BY <1>2, <2>2, Pairs
    <3>3. QED
      BY <1>2, <2>2, <3>1, <3>2 DEF Excuse, OutboxTypeOK
  <2>3. QED
    BY <2>1, <2>2
<1>6. OutboxTypeOK'
  <2>1. run' \in [Runs -> Run]
    BY <1>1, <1>2, <1>3 DEF OutboxTypeOK
  <2>2. aborts' \in 0 .. MaxAborts
    BY <1>1, <1>2, BoundsFit DEF OutboxTypeOK
  <2>3. QED
    BY <1>1, <1>2, <1>5, <2>1, <2>2 DEF OutboxTypeOK
<1>7. RunsFit'
  BY <1>2, <1>3, <1>4 DEF RunsFit
<1>8. ASSUME NEW m \in Mails
      PROVE  Untouched(m) \/ (m \in made' /\ Arrivals(m)' /\ Tries(m)')
  <2>1. /\ Unsent(m)' = Unsent(m) \ {r} /\ Trying(m)' = Trying(m) \ {r}
        /\ Offers(m)' = Offers(m) \ {r}
    <3>1. Unsent(m)' = Unsent(m) \ {r}
      BY <1>4 DEF Unsent, Resting
    <3>2. Trying(m)' = Trying(m) \ {r}
      BY <1>4 DEF Trying, Resting
    <3>3. QED
      BY <3>1, <3>2 DEF Offers
  <2>2. Known(m)' \subseteq Known(m)
    <3>1. \A p \in Runs : \A k \in Nat : <<m, k>> \in run'[p].claimed => <<m, k>> \in run[p].claimed
      BY <1>4 DEF Resting
    <3>2. \A p \in Trying(m)' : p \in Trying(m) /\ run'[p].at = run[p].at
      BY <1>4, <2>1 DEF Trying
    <3>3. QED
      BY <1>1, <3>1, <3>2 DEF Known
  <2>3. CASE run[r].at # Nothing /\ run[r].at[1] = m
    <3>1. m \in made
      BY <2>3, Holders
    <3>2. Waits(m)' => Waits(m) \/ 1 = 1
      OBVIOUS
    <3>3. mayArrive'[m] >= mayArrive[m] + 1 /\ mayTry'[m] >= mayTry[m] + 1
      BY <1>2, <1>5, <2>3 DEF OutboxTypeOK
    <3>4. Arrivals(m)' /\ Tries(m)'
      BY <1>6, <2>1, <2>2, <3>1, <3>3, LessToCome
    <3>5. QED
      BY <1>1, <3>1, <3>4
  <2>4. CASE ~(run[r].at # Nothing /\ run[r].at[1] = m) /\ r \in Unsent(m)
    <3>1. m \in made
      BY <2>4, Holders
    <3>2. /\ Cardinality(Offers(m)') = Cardinality(Offers(m)) - 1
          /\ Cardinality(Unsent(m)') = Cardinality(Unsent(m)) - 1
          /\ Cardinality(Offers(m)) \in Nat /\ Cardinality(Unsent(m)) \in Nat
      BY <2>1, <2>4, Holders, Weights DEF Offers
    <3>3. /\ mayArrive'[m] = mayArrive[m] /\ mayTry'[m] = mayTry[m]
          /\ mayArrive[m] \in Int /\ mayTry[m] \in Int
      BY <1>2, <1>5, <2>4 DEF OutboxTypeOK
    <3>4. Arrivals(m)'
      BY <3>2, <3>3 DEF OutboxInv, Arrivals, One
    <3>5. Spent(m)' <= Spent(m) /\ Spent(m)' \in Nat /\ Spent(m) \in Nat
      <4>1. One(Waits(m)') \in {0, 1} /\ One(Waits(m)) \in {0, 1}
        BY DEF One
      <4>2. Cardinality(Unsent(m)') \in Nat
        BY <2>1, Holders, Weights
      <4>3. /\ Spent(m)' = Cardinality(Unsent(m)') + One(Waits(m)')
            /\ Spent(m) = Cardinality(Unsent(m)) + One(Waits(m))
        BY DEF Spent, One
      <4>4. QED
        BY <3>2, <4>1, <4>2, <4>3
    <3>6. \A k \in Known(m)' : k \in Nat /\ Spent(m) + (MaxTries - k - 1) <= mayTry[m]
      BY <2>2 DEF OutboxInv, Tries, Known
    <3>7. Spent(m) <= mayTry[m] /\ MaxTries \in Nat
      BY BoundsFit DEF OutboxInv, Tries
    <3>8. Tries(m)'
      BY <3>3, <3>5, <3>6, <3>7 DEF Tries
    <3>9. QED
      BY <1>1, <3>1, <3>4, <3>8
  <2>5. CASE ~(run[r].at # Nothing /\ run[r].at[1] = m) /\ r \notin Unsent(m)
    <3>1. \A n \in Nat : <<m, n>> \in Resting.claimed <=> <<m, n>> \in run[r].claimed
      BY <2>5 DEF Unsent, Resting
    <3>2. ~(Resting.at # Nothing /\ Resting.at[1] = m)
      BY DEF Resting
    <3>3. QED
      BY <1>1, <1>3, <1>5, <2>5, <3>1, <3>2, OthersUntouched
  <2>6. QED
    BY <2>3, <2>4, <2>5
<1>9. QED
  BY <1>1, <1>6, <1>7, <1>8, EachKept

----------------------------------------------------------------------------
(* The theorems of the outbox.                                             *)

THEOREM OutboxInvariant == OutboxSpec => []OutboxInv
<1>1. ASSUME OutboxInv, OutboxNext PROVE OutboxInv'
  BY <1>1, SendEmailKeeps, FallsDueKeeps, TakeBatchKeeps, SendOneKeeps, WriteDownKeeps,
     AbortsKeeps DEF OutboxNext
<1>2. ASSUME OutboxInv, UNCHANGED outboxVars PROVE OutboxInv'
  <2>1. /\ OutboxTypeOK' /\ RunsFit' /\ made' = made
    BY <1>2 DEF OutboxInv, OutboxTypeOK, RunsFit, outboxVars
  <2>2. \A m \in Mails : Untouched(m)
    BY <1>2 DEF Untouched, outboxVars
  <2>3. QED
    BY <1>2, <2>1, <2>2, EachKept
<1>3. QED
  BY OutboxInitHolds, <1>1, <1>2, PTL DEF OutboxSpec

\* The rows, the runs and what is known of both have the shapes that outbox.ts gives them.
THEOREM OutboxTypeCorrect == OutboxSpec => []OutboxTypeOK
<1>1. OutboxInv => OutboxTypeOK
  BY DEF OutboxInv
<1>2. QED
  BY <1>1, OutboxInvariant, PTL

\* However many runs overlap, in however many processes, and wherever they die: an e-mail
\* is accepted once, and once more only for each try nobody wrote down and each claim that
\* was over before its run (processOutbox of outbox.ts).
THEOREM ArrivesAlwaysOnce == OutboxSpec => []ArrivesOnce
<1>1. OutboxInv => ArrivesOnce
  <2>1. ASSUME OutboxInv, NEW m \in Mails PROVE mayArrive[m] >= 0
    <3>1. Cardinality(Offers(m)) \in Nat
      BY <2>1, Holders, Weights
    <3>2. mayArrive[m] \in Int /\ Cardinality(Offers(m)) + One(Waits(m)) <= mayArrive[m]
      BY <2>1 DEF OutboxInv, OutboxTypeOK, Arrivals
    <3>3. QED
      BY <3>1, <3>2 DEF One
  <2>2. QED
    BY <2>1 DEF ArrivesOnce
<1>2. QED
  BY <1>1, OutboxInvariant, PTL

\* ... and it is tried from there once more than there are backoffs at most, with the same
\* exceptions: the counts that two runs have read and write one after the other never add
\* tries (outbox.ts:83).
THEOREM TriesAlwaysBounded == OutboxSpec => []TriesAreBounded
<1>1. OutboxInv => TriesAreBounded
  <2>1. ASSUME OutboxInv, NEW m \in Mails PROVE mayTry[m] >= 0
    <3>1. Cardinality(Unsent(m)) \in Nat
      BY <2>1, Holders, Weights
    <3>2. mayTry[m] \in Int /\ Spent(m) <= mayTry[m]
      BY <2>1 DEF OutboxInv, OutboxTypeOK, Tries
    <3>3. QED
      BY <3>1, <3>2 DEF Spent, One
  <2>2. QED
    BY <2>1 DEF TriesAreBounded
<1>2. QED
  BY <1>1, OutboxInvariant, PTL

=============================================================================
