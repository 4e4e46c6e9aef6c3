---------------------------- MODULE GatewayKeys ----------------------------
(***************************************************************************)
(* The API keys of one account and the backend keys behind them.           *)
(*                                                                         *)
(* A gateway key carries one grant per API.  The grant of a brokered API   *)
(* holds a key of its own, minted on that API's backend, whose secret is   *)
(* stored encrypted with the grant.  Backend keys outlive the rows that    *)
(* name them: whatever deletes or revokes a gateway key has to get them    *)
(* revoked upstream.  Four parties do so, with no transaction that spans   *)
(* the database and a backend:                                             *)
(*   - the request that failed or removed the grant (best effort, once);   *)
(*   - the sweeper (every 5 minutes): a queue filled by the database when  *)
(*     a grant row is deleted, and the grants of revoked keys;             *)
(*   - the reconciler (hourly): whatever a backend still lists under one   *)
(*     of our labels and nobody here refers to.                            *)
(*                                                                         *)
(* Every request runs one await at a time, so an action is the code        *)
(* between two awaits.  Any call to a backend may fail, or succeed with    *)
(* its answer lost; the process may die between any two steps.             *)
(***************************************************************************)
EXTENDS Naturals, FiniteSets

CONSTANTS
    Keys,             \* ids of gateway keys
    Services,         \* the APIs a key may carry
    Brokered,         \* those whose grants need a backend key
    Backends,         \* ids of backend keys, over all backends
    Requests,         \* requests (and nightly jobs) in flight at a time
    MaxKeys,          \* the plan's cap on active keys
    Batch,            \* LIMIT of the sweeper's two queries
    CommitReplyLost,  \* may a COMMIT succeed with its answer lost?
    None

ASSUME BrokeredAssumption == Brokered \subseteq Services
ASSUME LimitsAssumption ==
    MaxKeys \in Nat /\ Batch \in Nat
ASSUME CommitAssumption == CommitReplyLost \in BOOLEAN
ASSUME NoneAssumption == None \notin Keys \cup Services \cup Backends

VARIABLES
    account,   \* TRUE while the owner's users row exists
    key,       \* [Keys -> state of the gateway_api_keys row]
    grants,    \* rows of gateway_api_key_grants
    queue,     \* backend keys in gateway_backend_key_revocations
    upstream,  \* [Backends -> what the backend holds]
    label,     \* [Backends -> the gateway key named in the backend's label]
    at,        \* [Backends -> the API the backend key belongs to]
    req,       \* [Requests -> a request in flight]
    sweep,     \* the sweeper's run
    recon      \* the reconciler's run

upstreamVars == <<upstream, label, at>>
rows == <<account, key, grants, queue>>
jobs == <<sweep, recon>>
vars == <<rows, upstreamVars, req, jobs>>

----------------------------------------------------------------------------
(* State.                                                                  *)

\* "reserved": create() has drawn the id and has no row yet.
KeyState == {"unused", "reserved", "active", "revoked", "deleted"}

Grant == [key : Keys, service : Services, backend : Backends \cup {None}]

RequestPc == {"idle", "create", "addRead", "add", "discard", "removeRead",
              "remove", "revokeRead", "revokeMark", "revokeList",
              "revokeUpstream", "delete"}

\* services: what the key is to get or lose; ids: backend keys minted, or to
\* be revoked; rest: keys still to revoke; then: what follows the revoking.
Request == [pc : RequestPc, key : Keys \cup {None},
            services : SUBSET Services, ids : SUBSET Backends,
            rest : SUBSET Keys, then : {"return", "deleteKey", "deleteAccount"}]

\* A request at the step pc, about APIs of the key k.
Work(pc, k, S) == [pc |-> pc, key |-> k, services |-> S, ids |-> {},
                   rest |-> {}, then |-> "return"]

Idle == Work("idle", None, {})

SweepRun == [pc : {"idle", "queue", "grants"}, ids : SUBSET Backends]
ReconRun == [pc : {"idle", "list", "held", "known", "revoke"},
             todo : SUBSET Brokered, service : Brokered \cup {None},
             ids : SUBSET Backends]

SweepIdle == [pc |-> "idle", ids |-> {}]
ReconIdle == [pc |-> "idle", todo |-> {}, service |-> None, ids |-> {}]

Active == {k \in Keys : key[k] = "active"}
HasRow(k) == key[k] \in {"active", "revoked"}
GrantsOf(k) == {g \in grants : g.key = k}
BackendsOf(G) == {g.backend : g \in G} \ {None}

Init ==
    /\ account = TRUE
    /\ key = [k \in Keys |-> "unused"]
    /\ grants = {} /\ queue = {}
    /\ upstream = [b \in Backends |-> "unminted"]
    /\ label = [b \in Backends |-> None]
    /\ at = [b \in Backends |-> None]
    /\ req = [h \in Requests |-> Idle]
    /\ sweep = SweepIdle /\ recon = ReconIdle

\* Request h becomes r.
Becomes(h, r) == req' = [req EXCEPT ![h] = r]

\* A request left with nothing to do but to revoke these keys upstream.
Discarding(ids) == IF ids = {} THEN Idle
                   ELSE [Work("discard", None, {}) EXCEPT !.ids = ids]

\* The backends' side of revoking the keys in B: gone or revoked already is
\* as good (revokeBrokerKey takes 404 and 409 for success).
RevokeUpstream(B) ==
    /\ upstream' = [b \in Backends |->
                      IF b \in B THEN "revoked" ELSE upstream[b]]
    /\ UNCHANGED <<label, at>>

\* UPDATE gateway_api_key_grants SET backend_key_id = NULL for the rows in G.
ForgetBackend(G) ==
    grants' = {IF g \in G THEN [g EXCEPT !.backend = None] ELSE g : g \in grants}

\* Variant: the trigger is not there.
DeleteGrantsUnqueued(G) ==
    /\ grants' = grants \ G
    /\ queue' = queue

\* Deleting grant rows: the trigger queues their backend keys in the same
\* transaction.
DeleteGrants(G) ==
    /\ grants' = grants \ G
    /\ queue' = queue \cup BackendsOf({g \in G : g.service \in Brokered})

----------------------------------------------------------------------------
(* Minting: create() and addService().                                     *)

\* create() up to its first call to a backend: the cap is counted here, and
\* nothing holds it until the row is inserted.
CreateStart(h) ==
    /\ req[h].pc = "idle"
    /\ account
    /\ Cardinality(Active) < MaxKeys
    /\ \E k \in Keys, S \in SUBSET Services :
        /\ key[k] = "unused"
        /\ S # {}
        /\ key' = [key EXCEPT ![k] = "reserved"]
        /\ Becomes(h, Work("create", k, S))
    /\ UNCHANGED <<account, grants, queue, upstreamVars, jobs>>

\* addService() reads the key, then (a second query) its grants.
AddStart(h) ==
    /\ req[h].pc = "idle"
    /\ \E k \in Active, s \in Services :
        Becomes(h, Work("addRead", k, {s}))
    /\ UNCHANGED <<rows, upstreamVars, jobs>>

AddRead(h) ==
    LET r == req[h] IN
    /\ r.pc = "addRead"
    /\ Becomes(h, IF \E g \in GrantsOf(r.key) : g.service \in r.services
                  THEN Idle ELSE [r EXCEPT !.pc = "add"])
    /\ UNCHANGED <<rows, upstreamVars, jobs>>

\* Services of a request that still wait for their backend key.
Unminted(r) == {s \in r.services \cap Brokered : \A b \in r.ids : at[b] # s}

\* Variant: label and service swapped.
IssueSwapped(b, s, k) ==
    /\ upstream[b] = "unminted"
    /\ upstream' = [upstream EXCEPT ![b] = "live"]
    /\ label' = [label EXCEPT ![b] = s]
    /\ at' = [at EXCEPT ![b] = k]

\* The backend issues key b for service s under the label gateway:<owner>:<k>.
Issue(b, s, k) ==
    /\ upstream[b] = "unminted"
    /\ upstream' = [upstream EXCEPT ![b] = "live"]
    /\ label' = [label EXCEPT ![b] = k]
    /\ at' = [at EXCEPT ![b] = s]

Mint(h) ==
    LET r == req[h] IN
    /\ r.pc \in {"create", "add"}
    /\ \E s \in Unminted(r), b \in Backends :
        /\ Issue(b, s, r.key)
        /\ Becomes(h, [r EXCEPT !.ids = @ \cup {b}])
    /\ UNCHANGED <<rows, jobs>>

\* The backend refuses or cannot be reached: what was minted is undone.
MintFails(h) ==
    LET r == req[h] IN
    /\ r.pc \in {"create", "add"}
    /\ Unminted(r) # {}
    /\ Becomes(h, Discarding(r.ids))
    /\ UNCHANGED <<rows, upstreamVars, jobs>>

\* The backend issues the key and the answer is lost or comes after 10 s:
\* nobody here learns its id.
MintReplyLost(h) ==
    LET r == req[h] IN
    /\ r.pc \in {"create", "add"}
    /\ \E s \in Unminted(r), b \in Backends : Issue(b, s, r.key)
    /\ Becomes(h, Discarding(r.ids))
    /\ UNCHANGED <<rows, jobs>>

NewGrants(r) ==
    {[key |-> r.key, service |-> at[b], backend |-> b] : b \in r.ids}
    \cup
    {[key |-> r.key, service |-> s, backend |-> None] :
        s \in r.services \ Brokered}

\* What the constraints let an INSERT of the request's rows do: the foreign
\* keys need the account (create) or the key's row (add), and a key has one
\* grant for an API.
Insertable(r) ==
    IF r.pc = "create"
    THEN account
    ELSE /\ HasRow(r.key)
         /\ \A g \in GrantsOf(r.key) : g.service \notin r.services

\* create()'s transaction, or addService()'s single INSERT; after is what
\* the caller goes on with.
InsertThen(h, after) ==
    LET r == req[h] IN
    /\ r.pc \in {"create", "add"}
    /\ Unminted(r) = {}
    /\ Insertable(r)
    /\ grants' = grants \cup NewGrants(r)
    /\ key' = IF r.pc = "create" THEN [key EXCEPT ![r.key] = "active"] ELSE key
    /\ Becomes(h, after)
    /\ UNCHANGED <<account, queue, upstreamVars, jobs>>

Insert(h) == InsertThen(h, Idle)

\* The rows are committed, the connection breaks before the answer, and the
\* handler takes it for a failure.
InsertReplyLost(h) ==
    /\ CommitReplyLost
    /\ InsertThen(h, Discarding(req[h].ids))

InsertFails(h) ==
    LET r == req[h] IN
    /\ r.pc \in {"create", "add"}
    /\ Unminted(r) = {}
    /\ Becomes(h, Discarding(r.ids))
    /\ UNCHANGED <<rows, upstreamVars, jobs>>

\* undoMinted(), addService()'s catch and the end of removeService(): each
\* key is revoked upstream once, and a failure is swallowed.
Discard(h) ==
    LET r == req[h] IN
    /\ r.pc = "discard"
    /\ \E B \in SUBSET r.ids : RevokeUpstream(B)
    /\ Becomes(h, Idle)
    /\ UNCHANGED <<rows, jobs>>

----------------------------------------------------------------------------
(* removeService().                                                        *)

RemoveStart(h) ==
    /\ req[h].pc = "idle"
    /\ \E k \in Active, s \in Services :
        Becomes(h, Work("removeRead", k, {s}))
    /\ UNCHANGED <<rows, upstreamVars, jobs>>

\* At least one API must stay: counted here, in a query of its own.
MayRemove(r) ==
    /\ \E g \in GrantsOf(r.key) : g.service \in r.services
    /\ Cardinality(GrantsOf(r.key)) > 1

RemoveRead(h) ==
    LET r == req[h] IN
    /\ r.pc = "removeRead"
    /\ Becomes(h, IF MayRemove(r) THEN [r EXCEPT !.pc = "remove"] ELSE Idle)
    /\ UNCHANGED <<rows, upstreamVars, jobs>>

Remove(h) ==
    LET r == req[h]
        G == {g \in GrantsOf(r.key) : g.service \in r.services} IN
    /\ r.pc = "remove"
    /\ DeleteGrants(G)
    /\ Becomes(h, Discarding(BackendsOf(G)))
    /\ UNCHANGED <<account, key, upstreamVars, jobs>>

----------------------------------------------------------------------------
(* revoke(), revokeAllForOwner(), revokeExpiredKeys() and the deletions     *)
(* that revoke first.                                                      *)

\* Revoke the keys in K one after the other, then do what `then` says (to k).
RevokeEach(K, then, k) ==
    IF K # {}
    THEN LET next == CHOOSE x \in K : TRUE IN
         [Work("revokeRead", next, {}) EXCEPT !.rest = K \ {next}, !.then = then]
    ELSE IF then = "return" THEN Idle
    ELSE [Work("delete", k, {}) EXCEPT !.then = then]

\* One key by its owner, the keys found expired or idle by the nightly job,
\* one key or the whole account before it is deleted.
RevokeStart(h) ==
    /\ req[h].pc = "idle"
    /\ \/ \E K \in (SUBSET Active) \ {{}} : Becomes(h, RevokeEach(K, "return", None))
       \/ \E k \in Keys :
            /\ HasRow(k)
            /\ Becomes(h, RevokeEach({k}, "deleteKey", k))
       \/ account /\ Becomes(h, RevokeEach(Active, "deleteAccount", None))
    /\ UNCHANGED <<rows, upstreamVars, jobs>>

\* What follows one key's revocation, failed or done.
AfterRevoke(r) == RevokeEach(r.rest, r.then, r.key)

RevokeRead(h) ==
    LET r == req[h] IN
    /\ r.pc = "revokeRead"
    /\ Becomes(h, IF key[r.key] = "active"
                  THEN [r EXCEPT !.pc = "revokeMark"] ELSE AfterRevoke(r))
    /\ UNCHANGED <<rows, upstreamVars, jobs>>

RevokeMark(h) ==
    LET r == req[h] IN
    /\ r.pc = "revokeMark"
    /\ key' = [key EXCEPT ![r.key] = IF HasRow(r.key) THEN "revoked" ELSE @]
    /\ Becomes(h, [r EXCEPT !.pc = "revokeList"])
    /\ UNCHANGED <<account, grants, queue, upstreamVars, jobs>>

RevokeList(h) ==
    LET r == req[h] IN
    /\ r.pc = "revokeList"
    /\ Becomes(h, [r EXCEPT !.pc = "revokeUpstream",
                            !.ids = BackendsOf({g \in GrantsOf(r.key) :
                                                  g.service \in Brokered})])
    /\ UNCHANGED <<rows, upstreamVars, jobs>>

\* One backend key: revoked upstream and forgotten (by key and API, not by
\* row); or the backend fails; or only the second half fails.
RevokeOneDone(h) ==
    LET r == req[h] IN
    /\ r.pc = "revokeUpstream"
    /\ \E b \in r.ids :
        /\ RevokeUpstream({b})
        /\ ForgetBackend({g \in GrantsOf(r.key) : g.service = at[b]})
        /\ Becomes(h, [r EXCEPT !.ids = @ \ {b}])
    /\ UNCHANGED <<account, key, queue, jobs>>

RevokeOneFails(h) ==
    LET r == req[h] IN
    /\ r.pc = "revokeUpstream"
    /\ \E b \in r.ids :
        /\ RevokeUpstream({}) \/ RevokeUpstream({b})
        /\ Becomes(h, [r EXCEPT !.ids = @ \ {b}])
    /\ UNCHANGED <<rows, jobs>>

\* A query fails: the request ends, or goes on after the key it could not
\* revoke.
QueryFails(h) ==
    LET r == req[h] IN
    /\ \/ /\ r.pc \in {"addRead", "removeRead", "remove", "delete"}
          /\ Becomes(h, Idle)
       \/ /\ r.pc \in {"revokeRead", "revokeMark", "revokeList"}
          /\ Becomes(h, AfterRevoke(r))
    /\ UNCHANGED <<rows, upstreamVars, jobs>>

RevokeEnd(h) ==
    LET r == req[h] IN
    /\ r.pc = "revokeUpstream"
    /\ r.ids = {}
    /\ Becomes(h, AfterRevoke(r))
    /\ UNCHANGED <<rows, upstreamVars, jobs>>

\* DELETE of the key's row, or of the account's, with all that cascades.
Delete(h) ==
    LET r == req[h]
        K == {k \in Keys : HasRow(k) /\ (r.then = "deleteAccount" \/ k = r.key)} IN
    /\ r.pc = "delete"
    /\ account' = (account /\ r.then # "deleteAccount")
    /\ key' = [k \in Keys |-> IF k \in K THEN "deleted" ELSE key[k]]
    /\ DeleteGrants({g \in grants : g.key \in K})
    /\ Becomes(h, Idle)
    /\ UNCHANGED <<upstreamVars, jobs>>

----------------------------------------------------------------------------
(* sweepBackendKeys().                                                     *)

\* What a SELECT ... LIMIT of Batch rows may return out of the set S.  Rows
\* come in the order they were queued; any choice of a full batch is allowed.
Limited(S) ==
    IF Cardinality(S) <= Batch THEN {S}
    ELSE {B \in SUBSET S : Cardinality(B) = Batch}

SweepStart ==
    /\ sweep.pc = "idle"
    /\ \E B \in Limited(queue) : sweep' = [pc |-> "queue", ids |-> B]
    /\ UNCHANGED <<rows, upstreamVars, req, recon>>

SweepQueuedDone ==
    /\ sweep.pc = "queue"
    /\ \E b \in sweep.ids :
        /\ RevokeUpstream({b})
        /\ queue' = queue \ {b}
        /\ sweep' = [sweep EXCEPT !.ids = @ \ {b}]
    /\ UNCHANGED <<account, key, grants, req, recon>>

Leftovers == {g \in grants : key[g.key] = "revoked" /\ g.backend # None}

SweepLeftovers ==
    /\ sweep.pc = "queue"
    /\ sweep.ids = {}
    /\ \E B \in Limited(BackendsOf(Leftovers)) :
        sweep' = [pc |-> "grants", ids |-> B]
    /\ UNCHANGED <<rows, upstreamVars, req, recon>>

SweepGrantDone ==
    /\ sweep.pc = "grants"
    /\ \E b \in sweep.ids :
        /\ RevokeUpstream({b})
        /\ ForgetBackend({g \in grants : g.backend = b})
        /\ sweep' = [sweep EXCEPT !.ids = @ \ {b}]
    /\ UNCHANGED <<account, key, queue, req, recon>>

\* The backend fails, or the row's own update does; the row stays.
SweepFails ==
    /\ sweep.pc \in {"queue", "grants"}
    /\ \E b \in sweep.ids :
        /\ RevokeUpstream({}) \/ RevokeUpstream({b})
        /\ sweep' = [sweep EXCEPT !.ids = @ \ {b}]
    /\ UNCHANGED <<rows, req, recon>>

SweepEnd ==
    /\ sweep.pc = "grants"
    /\ sweep.ids = {}
    /\ sweep' = SweepIdle
    /\ UNCHANGED <<rows, upstreamVars, req, recon>>

----------------------------------------------------------------------------
(* reconcileBackendKeys().                                                 *)

ReconStart ==
    /\ recon.pc = "idle"
    /\ recon' = [ReconIdle EXCEPT !.pc = "list", !.todo = Brokered]
    /\ UNCHANGED <<rows, upstreamVars, req, sweep>>

\* Keys younger than YOUNG_MS are left alone.  A create() holds its keys for
\* much less than those ten minutes (two mints of at most 10 s each and one
\* transaction of bounded statements), so that the rule spares at least them;
\* any other key may be taken for old.
Young(b) == \E h \in Requests : req[h].pc = "create" /\ b \in req[h].ids

\* Variant: no minimum age.
ListedAtAnyAge(s) == {b \in Backends : upstream[b] = "live" /\ at[b] = s}

\* What the backend lists that can become a candidate.
Listed(s) == {b \in Backends : upstream[b] = "live" /\ at[b] = s /\ ~Young(b)}

ReconList ==
    /\ recon.pc = "list"
    /\ \E s \in recon.todo :
        recon' = [pc |-> "held", todo |-> recon.todo \ {s}, service |-> s,
                  ids |-> Listed(s)]
    /\ UNCHANGED <<rows, upstreamVars, req, sweep>>

\* A backend that cannot be reached is skipped.
ReconSkip ==
    /\ recon.pc = "list"
    /\ \E s \in recon.todo : recon' = [recon EXCEPT !.todo = @ \ {s}]
    /\ UNCHANGED <<rows, upstreamVars, req, sweep>>

\* The backend keys of active keys' grants, read after the backend's list.
HeldAt(s) == BackendsOf({g \in grants : g.service = s /\ key[g.key] = "active"})

ReconHeld ==
    LET orphans == recon.ids \ HeldAt(recon.service) IN
    /\ recon.pc = "held"
    /\ recon' = IF orphans = {}
                THEN [recon EXCEPT !.pc = "list", !.service = None, !.ids = {}]
                ELSE [recon EXCEPT !.pc = "known", !.ids = orphans]
    /\ UNCHANGED <<rows, upstreamVars, req, sweep>>

\* Variant: the second look at the gateway keys is left out.
ReconKnownSkipped ==
    /\ recon.pc = "known"
    /\ recon' = [recon EXCEPT !.pc = "revoke"]
    /\ UNCHANGED <<rows, upstreamVars, req, sweep>>

\* Variant: a label whose gateway key has no row counts as somebody else's.
ReconKnownRowsOnly ==
    /\ recon.pc = "known"
    /\ recon' = [recon EXCEPT !.pc = "revoke",
                              !.ids = {b \in @ : key[label[b]] = "revoked"}]
    /\ UNCHANGED <<rows, upstreamVars, req, sweep>>

ReconKnown ==
    /\ recon.pc = "known"
    /\ recon' = [recon EXCEPT !.pc = "revoke",
                              !.ids = {b \in @ : label[b] \notin Active}]
    /\ UNCHANGED <<rows, upstreamVars, req, sweep>>

\* Revoke one orphan; a failure only counts.
ReconRevoke ==
    /\ recon.pc = "revoke"
    /\ \E b \in recon.ids :
        /\ RevokeUpstream({b})
        /\ recon' = [recon EXCEPT !.ids = @ \ {b}]
    /\ UNCHANGED <<rows, req, sweep>>

ReconFails ==
    /\ recon.pc = "revoke"
    /\ \E b \in recon.ids : recon' = [recon EXCEPT !.ids = @ \ {b}]
    /\ UNCHANGED <<rows, upstreamVars, req, sweep>>

ReconNext ==
    /\ recon.pc = "revoke"
    /\ recon.ids = {}
    /\ recon' = [recon EXCEPT !.pc = "list", !.service = None]
    /\ UNCHANGED <<rows, upstreamVars, req, sweep>>

ReconEnd ==
    /\ recon.pc = "list"
    /\ recon.todo = {}
    /\ recon' = ReconIdle
    /\ UNCHANGED <<rows, upstreamVars, req, sweep>>

----------------------------------------------------------------------------
(* Failed runs, crashes, and everything together.                          *)

\* One of the job's own queries fails: the run is given up.
SweepAborts ==
    /\ sweep.pc # "idle"
    /\ sweep' = SweepIdle
    /\ UNCHANGED <<rows, upstreamVars, req, recon>>

ReconAborts ==
    /\ recon.pc # "idle"
    /\ recon' = ReconIdle
    /\ UNCHANGED <<rows, upstreamVars, req, sweep>>

\* The process dies: every request and job in flight goes with it.
Crash ==
    /\ req' = [h \in Requests |-> Idle]
    /\ sweep' = SweepIdle
    /\ recon' = ReconIdle
    /\ UNCHANGED <<rows, upstreamVars>>

RequestStarts(h) ==
    CreateStart(h) \/ AddStart(h) \/ RemoveStart(h) \/ RevokeStart(h)

RequestSteps(h) ==
    \/ AddRead(h) \/ Mint(h) \/ MintFails(h) \/ MintReplyLost(h)
    \/ Insert(h) \/ InsertReplyLost(h) \/ InsertFails(h) \/ Discard(h)
    \/ RemoveRead(h) \/ Remove(h)
    \/ RevokeRead(h) \/ RevokeMark(h) \/ RevokeList(h)
    \/ RevokeOneDone(h) \/ RevokeOneFails(h) \/ RevokeEnd(h) \/ Delete(h)
    \/ QueryFails(h)

SweepSteps ==
    \/ SweepStart \/ SweepQueuedDone \/ SweepLeftovers \/ SweepGrantDone
    \/ SweepFails \/ SweepEnd

ReconSteps ==
    \/ ReconStart \/ ReconList \/ ReconSkip \/ ReconHeld \/ ReconKnown
    \/ ReconRevoke \/ ReconFails \/ ReconNext \/ ReconEnd

Next ==
    \/ \E h \in Requests : RequestStarts(h) \/ RequestSteps(h)
    \/ SweepSteps \/ ReconSteps
    \/ SweepAborts \/ ReconAborts \/ Crash

Spec == Init /\ [][Next]_vars

----------------------------------------------------------------------------
(* Fairness.  A request that has begun goes on (every call has a timeout), *)
(* and cron starts the jobs again and again.  A step a job reaches again   *)
(* and again succeeds sometimes: the backends are not down, and the        *)
(* process does not die, every time just then.                             *)

Fairness ==
    /\ \A h \in Requests : WF_vars(RequestSteps(h))
    /\ WF_vars(SweepSteps) /\ WF_vars(ReconSteps)
    /\ SF_vars(SweepQueuedDone) /\ SF_vars(SweepLeftovers)
    /\ SF_vars(SweepGrantDone)
    /\ SF_vars(ReconList) /\ SF_vars(ReconHeld) /\ SF_vars(ReconKnown)
    /\ SF_vars(ReconRevoke)

FairSpec == Spec /\ Fairness

----------------------------------------------------------------------------
(* Properties.                                                             *)

\* Types of the rows, of the backends' state and of what is in flight.
TypeOK ==
    /\ account \in BOOLEAN
    /\ key \in [Keys -> KeyState]
    /\ grants \subseteq Grant
    /\ queue \subseteq Backends
    /\ upstream \in [Backends -> {"unminted", "live", "revoked"}]
    /\ label \in [Backends -> Keys \cup {None}]
    /\ at \in [Backends -> Brokered \cup {None}]
    /\ req \in [Requests -> Request]
    /\ sweep \in SweepRun
    /\ recon \in ReconRun

Granted(b) == \E g \in grants : g.backend = b
Serving(b) == \E g \in grants : g.backend = b /\ key[g.key] = "active"

\* A developer's key works: the backend key behind a grant of an active
\* gateway key is live, whatever the requests that failed, the sweeper and
\* the reconciler are revoking meanwhile.  (No sweep or reconcile pass, and no
\* request's clean-up, cuts off a key in use.)
GrantedKeysWork == \A b \in Backends : Serving(b) => upstream[b] = "live"

\* No grant of an active key names b, and no request can still make one do so.
OutOfService(b) ==
    /\ upstream[b] # "unminted"
    /\ \A g \in grants : g.backend = b => key[g.key] # "active"
    /\ \A h \in Requests :
        req[h].pc \in {"create", "add"} /\ b \in req[h].ids =>
            key[req[h].key] \in {"revoked", "deleted"}

\* Backend keys somebody has made up their mind to revoke, for what they read
\* of the database some steps ago.
ToBeRevoked ==
    queue \cup sweep.ids
    \cup (IF recon.pc = "revoke" THEN recon.ids ELSE {})
    \cup UNION {req[h].ids : h \in {x \in Requests :
                               req[x].pc \in {"discard", "revokeUpstream"}}}

\* Whatever was read is still true when it is acted on: a backend key that the
\* queue, the sweeper, the reconciler or a request is to revoke is out of service
\* and stays so, whatever is created, added or removed in between.
OnlyTheDeadAreRevoked == \A b \in ToBeRevoked : OutOfService(b)

\* At least one API stays on a key (removeService's comment and its refusal).
KeyKeepsAnApi == \A k \in Active : GrantsOf(k) # {}

\* A request holds b and may still put it into service.
Awaited(b) ==
    \E h \in Requests : /\ req[h].pc \in {"create", "add"}
                        /\ b \in req[h].ids
                        /\ key[req[h].key] \in {"reserved", "active"}

\* The life of each backend key, as the abstract specification has it.
Phase == [b \in Backends |->
    IF upstream[b] = "unminted" THEN "none"
    ELSE IF upstream[b] = "revoked" THEN "revoked"
    ELSE IF Serving(b) THEN "serving"
    ELSE IF Awaited(b) THEN "pending" ELSE "released"]

Credentials == INSTANCE BackendCredentials WITH Ids <- Backends, phase <- Phase

\* Requests, sweeper, reconciler and crashes together keep to the life cycle of
\* BackendCredentials.
CredentialLifeCycle == Credentials!Spec

\* No request works on creating the key any more, and no row of it is active.
Ended(k) ==
    \/ key[k] \in {"revoked", "deleted"}
    \/ key[k] = "reserved" /\ \A h \in Requests : req[h].key # k

\* No backend key outlives its gateway key: whether its id was lost with an
\* answer, with a process, with a row or with a failed clean-up, it is revoked.
EndedKeysLoseTheirCredentials ==
    \A b \in Backends :
        (upstream[b] = "live" /\ Ended(label[b])) ~> upstream[b] = "revoked"

\* A backend key that was granted is revoked once its grant is gone, even while
\* its gateway key lives on (an API taken off a key).
RemovedGrantsLoseTheirCredentials ==
    \A b \in Backends :
        [](Granted(b) => (~Granted(b) ~> upstream[b] = "revoked"))
=============================================================================
