-------------------------- MODULE WebhookDelivery --------------------------
(***************************************************************************)
(* Outbound webhooks: endpoints their owner creates, switches and removes, *)
(* events queued for them, and the workers that deliver what is due.       *)
(*                                                                         *)
(* A worker holds one database transaction from the claim of a delivery to *)
(* the record of its outcome, with the receiver called in between.  The    *)
(* delivery row is locked meanwhile and others skip it; the endpoint row   *)
(* is read with the claim and not locked, so that its owner, a retry and   *)
(* the other workers write it during the call.                             *)
(***************************************************************************)
EXTENDS Naturals, FiniteSets

CONSTANTS
    Endpoints,     \* ids of webhook_endpoints rows
    Deliveries,    \* ids of webhook_deliveries rows, free again once deleted
    Workers,       \* concurrent deliverOne() calls, over all instances
    Requests,      \* requests and event emissions in flight at a time
    MaxEndpoints,  \* the plan's cap
    MaxAttempts,   \* MAX_DELIVERY_ATTEMPTS
    DisableAfter,  \* DISABLE_AFTER_FAILED_DELIVERIES
    None

ASSUME LimitsAssumption ==
    /\ MaxEndpoints \in Nat
    /\ MaxAttempts \in Nat \ {0} /\ DisableAfter \in Nat \ {0}
ASSUME NoneAssumption == None \notin Endpoints \cup Deliveries

VARIABLES
    endpoint,  \* [Endpoints -> state of the row]
    active,    \* the endpoints whose active column is TRUE
    failures,  \* [Endpoints -> consecutive_failures]
    delivery,  \* [Deliveries -> the row]
    line,      \* the pending deliveries that are due
    before,    \* <<c, d>>: c has been due for longer than d (next_attempt_at)
    worker,    \* [Workers -> a deliverOne() call]
    req        \* [Requests -> a request or emission in flight]

queued == <<line, before>>
rows == <<endpoint, active, failures, delivery, queued>>
vars == <<rows, worker, req>>

----------------------------------------------------------------------------
(* State.                                                                  *)

\* "removing": a DELETE holds the row's lock and waits for the deliveries'.
EndpointState == {"unused", "present", "removing", "removed"}

Exists(e) == endpoint[e] \in {"present", "removing"}

\* A statement on the endpoint's row waits for a DELETE that holds its lock.
Unlocked(e) == endpoint[e] # "removing"

Delivery == [status : {"none", "pending", "delivered", "failed"},
             endpoint : Endpoints \cup {None}, attempts : 0..MaxAttempts]

NoRow == [status |-> "none", endpoint |-> None, attempts |-> 0]

\* live: the endpoint's active column as the claim read it.
Worker == [delivery : Deliveries \cup {None}, live : BOOLEAN,
           outcome : {"none", "ok", "error"}]

Waiting == [delivery |-> None, live |-> FALSE, outcome |-> "none"]

Request == [pc : {"idle", "create", "queue", "retry"},
            endpoints : SUBSET Endpoints]

Idle == [pc |-> "idle", endpoints |-> {}]

Claimed == {worker[w].delivery : w \in Workers} \ {None}

Init ==
    /\ endpoint = [e \in Endpoints |-> "unused"]
    /\ active = {}
    /\ failures = [e \in Endpoints |-> 0]
    /\ delivery = [d \in Deliveries |-> NoRow]
    /\ line = {}
    /\ before = {}
    /\ worker = [w \in Workers |-> Waiting]
    /\ req = [h \in Requests |-> Idle]

Becomes(h, r) == req' = [req EXCEPT ![h] = r]

\* Delivery d is due from now on; the deliveries of D are not due any more.
Join(d) ==
    /\ line' = line \cup {d}
    /\ before' = before \cup (line \X {d})

Leave(D) ==
    /\ line' = line \ D
    /\ before' = {p \in before : p[1] \notin D /\ p[2] \notin D}

----------------------------------------------------------------------------
(* The owner.                                                              *)

\* create() counts the endpoints, then inserts one.
CreateCount(h) ==
    /\ req[h].pc = "idle"
    /\ Cardinality({e \in Endpoints : Exists(e)}) < MaxEndpoints
    /\ Becomes(h, [Idle EXCEPT !.pc = "create"])
    /\ UNCHANGED <<rows, worker>>

CreateInsert(h) ==
    /\ req[h].pc = "create"
    /\ \E e \in Endpoints :
        /\ endpoint[e] = "unused"
        /\ endpoint' = [endpoint EXCEPT ![e] = "present"]
        /\ active' = active \cup {e}
    /\ Becomes(h, Idle)
    /\ UNCHANGED <<failures, delivery, queued, worker>>

SwitchOn(e) ==
    /\ endpoint[e] = "present"
    /\ active' = active \cup {e}
    /\ failures' = [failures EXCEPT ![e] = 0]
    /\ UNCHANGED <<endpoint, delivery, queued, worker, req>>

SwitchOff(e) ==
    /\ endpoint[e] = "present"
    /\ active' = active \ {e}
    /\ UNCHANGED <<endpoint, failures, delivery, queued, worker, req>>

\* DELETE of the endpoint: the cascade waits for the deliveries that workers
\* hold.  A worker that then wants the endpoint row waits for the DELETE: the
\* database breaks the deadlock and one of the two fails.
RemoveStart(e) ==
    /\ endpoint[e] = "present"
    /\ endpoint' = [endpoint EXCEPT ![e] = "removing"]
    /\ UNCHANGED <<active, failures, delivery, queued, worker, req>>

RemoveFails(e) ==
    /\ endpoint[e] = "removing"
    /\ endpoint' = [endpoint EXCEPT ![e] = "present"]
    /\ UNCHANGED <<active, failures, delivery, queued, worker, req>>

RemoveEnd(e) ==
    LET D == {d \in Deliveries : delivery[d].endpoint = e} IN
    /\ endpoint[e] = "removing"
    /\ D \cap Claimed = {}
    /\ endpoint' = [endpoint EXCEPT ![e] = "removed"]
    /\ active' = active \ {e}
    /\ failures' = [failures EXCEPT ![e] = 0]
    /\ delivery' = [d \in Deliveries |-> IF d \in D THEN NoRow ELSE delivery[d]]
    /\ Leave(D)
    /\ UNCHANGED <<worker, req>>

\* retryDelivery(): the failed delivery goes back in line, then (a second
\* statement) its endpoint is switched on.
RetryDelivery(h) ==
    /\ req[h].pc = "idle"
    /\ \E d \in Deliveries :
        /\ delivery[d].status = "failed"
        /\ delivery' = [delivery EXCEPT ![d].status = "pending",
                                        ![d].attempts = 0]
        /\ Join(d)
        /\ Becomes(h, [pc |-> "retry", endpoints |-> {delivery[d].endpoint}])
    /\ UNCHANGED <<endpoint, active, failures, worker>>

RetryEndpoint(h) ==
    LET E == {e \in req[h].endpoints : Exists(e)} IN
    /\ req[h].pc = "retry"
    /\ \A e \in E : Unlocked(e)
    /\ active' = active \cup E
    /\ failures' = [e \in Endpoints |-> IF e \in E THEN 0 ELSE failures[e]]
    /\ Becomes(h, Idle)
    /\ UNCHANGED <<endpoint, delivery, queued, worker>>

----------------------------------------------------------------------------
(* Events.                                                                 *)

\* emitWebhookEvent() picks the active endpoints that listen; sendTest()
\* picks one, active or not.
Emit(h) ==
    /\ req[h].pc = "idle"
    /\ \E E \in (SUBSET {e \in active : Exists(e)} \ {{}})
              \cup {{e} : e \in {x \in Endpoints : Exists(x)}} :
        Becomes(h, [pc |-> "queue", endpoints |-> E])
    /\ UNCHANGED <<rows, worker>>

\* One INSERT per endpoint.  Its foreign key waits for a DELETE of the
\* endpoint, and fails when the endpoint is gone: the rest is not queued.
QueueOne(h) ==
    LET r == req[h] IN
    /\ r.pc = "queue"
    /\ \E e \in r.endpoints :
        /\ Unlocked(e)
        /\ IF Exists(e)
           THEN \E d \in Deliveries :
                /\ delivery[d] = NoRow
                /\ delivery' = [delivery EXCEPT ![d] =
                     [status |-> "pending", endpoint |-> e, attempts |-> 0]]
                /\ Join(d)
                /\ Becomes(h, IF r.endpoints = {e} THEN Idle
                              ELSE [r EXCEPT !.endpoints = @ \ {e}])
           ELSE Becomes(h, Idle) /\ UNCHANGED <<delivery, queued>>
    /\ UNCHANGED <<endpoint, active, failures, worker>>

\* A query fails, or the process dies: what is left of the request is lost.
RequestFails(h) ==
    /\ req[h].pc # "idle"
    /\ Becomes(h, Idle)
    /\ UNCHANGED <<rows, worker>>

----------------------------------------------------------------------------
(* Delivery.                                                               *)

\* A backoff has passed.
Elapse(d) ==
    /\ delivery[d].status = "pending"
    /\ d \notin line
    /\ Join(d)
    /\ UNCHANGED <<endpoint, active, failures, delivery, worker, req>>

Claim(w, d) ==
    /\ worker[w] = Waiting
    /\ worker' = [worker EXCEPT ![w] =
                    [delivery |-> d, live |-> delivery[d].endpoint \in active,
                     outcome |-> "none"]]
    /\ UNCHANGED <<rows, req>>

\* Variant: without SKIP LOCKED, or the lock.
ClaimFirst(w) ==
    \E d \in line :
        /\ \A c \in line : <<c, d>> \notin before
        /\ Claim(w, d)

\* The first due delivery that nobody has locked.
ClaimNext(w) ==
    \E d \in line \ Claimed :
        /\ \A c \in line \ Claimed : <<c, d>> \notin before
        /\ Claim(w, d)

\* The receiver answers 2xx; or it does not, or the answer is lost.
Send(w) ==
    /\ worker[w].delivery # None
    /\ worker[w].live
    /\ worker[w].outcome = "none"
    /\ \E o \in {"ok", "error"} : worker' = [worker EXCEPT ![w].outcome = o]
    /\ UNCHANGED <<rows, req>>

\* The last step of a transaction: the delivery becomes r and is due no more.
Settle(w, r) ==
    /\ delivery' = [delivery EXCEPT ![worker[w].delivery] = r]
    /\ Leave({worker[w].delivery})
    /\ worker' = [worker EXCEPT ![w] = Waiting]
    /\ UNCHANGED <<endpoint, req>>

\* Variant: the try is not counted.
TriedUncounted(w) == delivery[worker[w].delivery]

Tried(w) == [delivery[worker[w].delivery] EXCEPT !.attempts = @ + 1]

RecordDelivered(w) ==
    LET r == Tried(w) IN
    /\ worker[w].outcome = "ok"
    /\ Unlocked(r.endpoint)
    /\ Settle(w, [r EXCEPT !.status = "delivered"])
    /\ failures' = [failures EXCEPT ![r.endpoint] = 0]
    /\ UNCHANGED active

\* Variant: one failed delivery more before the endpoint is switched off.
RecordFailedLate(w) ==
    LET r == Tried(w)
        count == failures[r.endpoint] + 1 IN
    /\ worker[w].outcome = "error"
    /\ r.attempts >= MaxAttempts
    /\ Unlocked(r.endpoint)
    /\ Settle(w, [r EXCEPT !.status = "failed"])
    /\ failures' = [failures EXCEPT ![r.endpoint] = count]
    /\ active' = IF count > DisableAfter THEN active \ {r.endpoint} ELSE active

\* Variant: the count is not looked at.
RecordFailedOff(w) ==
    LET r == Tried(w) IN
    /\ worker[w].outcome = "error"
    /\ r.attempts >= MaxAttempts
    /\ Unlocked(r.endpoint)
    /\ Settle(w, [r EXCEPT !.status = "failed"])
    /\ failures' = [failures EXCEPT ![r.endpoint] = @ + 1]
    /\ active' = active \ {r.endpoint}

\* The last try failed: one more failed delivery in a row for the endpoint,
\* which is written active or not by that count alone.
RecordFailed(w) ==
    LET r == Tried(w)
        count == failures[r.endpoint] + 1 IN
    /\ worker[w].outcome = "error"
    /\ r.attempts >= MaxAttempts
    /\ Unlocked(r.endpoint)
    /\ Settle(w, [r EXCEPT !.status = "failed"])
    /\ failures' = [failures EXCEPT ![r.endpoint] = count]
    /\ active' = IF count < DisableAfter THEN active \cup {r.endpoint}
                 ELSE active \ {r.endpoint}

\* The claim read the endpoint as switched off: nothing is sent.
RecordOff(w) ==
    /\ worker[w].delivery # None
    /\ ~worker[w].live
    /\ Settle(w, [Tried(w) EXCEPT !.status = "failed"])
    /\ UNCHANGED <<active, failures>>

\* Variant: one try too many.
RecordPostponedOnceMore(w) ==
    /\ worker[w].outcome = "error"
    /\ Tried(w).attempts <= MaxAttempts
    /\ Settle(w, Tried(w))
    /\ UNCHANGED <<active, failures>>

RecordPostponed(w) ==
    /\ worker[w].outcome = "error"
    /\ Tried(w).attempts < MaxAttempts
    /\ Settle(w, Tried(w))
    /\ UNCHANGED <<active, failures>>

Record(w) ==
    RecordDelivered(w) \/ RecordFailed(w) \/ RecordOff(w) \/ RecordPostponed(w)

\* The transaction is lost (an error, a timeout, a deadlock, a crash): the
\* delivery is due as before, whether or not the receiver has it.
Rollback(w) ==
    /\ worker[w].delivery # None
    /\ worker' = [worker EXCEPT ![w] = Waiting]
    /\ UNCHANGED <<rows, req>>

\* deleteOldDeliveries(): settled 30 days ago.
DeleteOld ==
    /\ \E D \in SUBSET {d \in Deliveries :
                          delivery[d].status \in {"delivered", "failed"}} :
        /\ D # {}
        /\ delivery' = [d \in Deliveries |-> IF d \in D THEN NoRow ELSE delivery[d]]
    /\ UNCHANGED <<endpoint, active, failures, queued, worker, req>>

----------------------------------------------------------------------------
OwnerSteps(e) ==
    SwitchOn(e) \/ SwitchOff(e) \/ RemoveStart(e) \/ RemoveFails(e) \/ RemoveEnd(e)

RequestSteps(h) ==
    \/ CreateCount(h) \/ CreateInsert(h) \/ RetryDelivery(h) \/ RetryEndpoint(h)
    \/ Emit(h) \/ QueueOne(h) \/ RequestFails(h)

Next ==
    \/ \E e \in Endpoints : OwnerSteps(e)
    \/ \E h \in Requests : RequestSteps(h)
    \/ \E d \in Deliveries : Elapse(d)
    \/ \E w \in Workers : ClaimNext(w) \/ Send(w) \/ Record(w) \/ Rollback(w)
    \/ DeleteOld

Spec == Init /\ [][Next]_vars

\* A run starts every ten seconds and has workers for what is due; a receiver
\* answers or times out; time passes; a DELETE ends or is cancelled.  Not every
\* attempt at one delivery is lost before its outcome is recorded, and an owner
\* does not try for ever to DELETE an endpoint and fail.
Fairness ==
    /\ \A d \in Deliveries :
        /\ WF_vars(Elapse(d))
        /\ SF_vars(\E w \in Workers : worker[w].delivery = d /\ Send(w))
        /\ SF_vars(\E w \in Workers : worker[w].delivery = d /\ Record(w))
    /\ \A w \in Workers : WF_vars(ClaimNext(w))
    /\ \A e \in Endpoints :
        WF_vars(RemoveEnd(e) \/ RemoveFails(e)) /\ <>[][~RemoveFails(e)]_vars

FairSpec == Spec /\ Fairness

----------------------------------------------------------------------------
(* Properties.                                                             *)

TypeOK ==
    /\ endpoint \in [Endpoints -> EndpointState]
    /\ active \subseteq Endpoints
    /\ failures \in [Endpoints -> Nat]
    /\ delivery \in [Deliveries -> Delivery]
    /\ line \subseteq {d \in Deliveries : delivery[d].status = "pending"}
    /\ before \subseteq line \X line
    /\ worker \in [Workers -> Worker]
    /\ req \in [Requests -> Request]

\* An endpoint with ten failed deliveries in a row is off, whatever retries,
\* switches and other workers' outcomes are applied in between
\* (DISABLE_AFTER_FAILED_DELIVERIES).
RepeatedFailuresSwitchOff ==
    \A e \in active : failures[e] < DisableAfter

\* Nothing but its owner, or the failure limit, switches an endpoint off.
SwitchedOffForCause ==
    [][\A e \in active \ active' :
          \/ SwitchOff(e) \/ RemoveEnd(e)
          \/ failures'[e] >= DisableAfter]_vars

\* An endpoint that is off stays off until its owner switches it on or asks for
\* a retry (setActive(): "Switches an endpoint off (nothing is sent to it ...)").
OnlyTheOwnerSwitchesOn ==
    [][\A e \in active' \ active :
          \/ SwitchOn(e)
          \/ \E h \in Requests : CreateInsert(h) \/ RetryEndpoint(h)]_vars

\* Each delivery goes through the life cycle of EventDelivery.
Deliver == INSTANCE EventDelivery WITH
    Ids <- Deliveries, MaxTries <- MaxAttempts,
    status <- [d \in Deliveries |-> delivery[d].status],
    tries <- [d \in Deliveries |-> delivery[d].attempts]

DeliveryLifeCycle == Deliver!Spec

\* What is queued is delivered, given up after its tries, or forgotten with its
\* endpoint; nothing waits for ever behind newer events or a lock.
DeliveriesSettle ==
    \A d \in Deliveries :
        delivery[d].status = "pending" ~> delivery[d].status # "pending"
=============================================================================
