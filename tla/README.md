# desk-api: specifications, model checks and proofs

desk-api is the HTTP API behind Desk: accounts and businesses, a library of APIs that developers call with one
"gateway" key, outbound webhooks, plans and invoices, sign-in for third-party apps. It is a Fastify application in
TypeScript on PostgreSQL (plain `pg` queries, no ORM), with `node-cron` jobs inside each process and a small
supervisor that swaps versions without downtime. This directory holds TLA+ models of its stateful core, translated
from the code, with the runs of TLC and the TLAPS proofs that check them.

Paths below are relative to the repository's root (`src/domain/...` is `src/src/domain/...` in `PROJECT.json`).

## 1. What the system is made of

| Component | State it keeps | Operations | What is hard |
|---|---|---|---|
| API keys and backend keys (`src/domain/gateway`, migrations 0008 and 0010) | `gateway_api_keys`, `gateway_api_key_grants`, the revocation queue; keys on two other services | create, add/remove an API, revoke, revoke all, expire, delete; sweeper (5 min), reconciler (1 h) | no transaction spans the database and a backend; lost answers, crashes, three parties revoking |
| Outbound webhooks (`src/domain/webhooks/webhooks.ts`) | endpoints, deliveries | create, remove, switch on/off, test, retry, emit; workers every 10 s | workers on several instances, rows read before a call of 5 s and written after it, retries, a DELETE that cascades |
| Idempotency keys (`src/middleware/idempotency.ts`) | `idempotency_keys` | claim, inspect, clear, record | every step is a statement of its own; crashes and expiry |
| Supervisor (`src/supervisor.ts`) | sets of workers, three flags | start, reload, stop, restart after a crash | deaths, timers and control requests in any order |
| Businesses, drafts, members, invitations (`src/routes/setup.ts`) | drafts with versions, memberships, invitations | create/patch/complete drafts, invite, accept, remove | the last-owner rule; double completion |
| Plans and invoices (`src/domain/billing/plans.ts`) | subscriptions with a waiting change, invoices | look up, change now or at the month's end, apply what is due, invoice | jobs against requests at the turn of a month; a change dated before the transaction that makes it |
| Calls through the gateway (`src/routes/gatewayProxy.ts`, `src/domain/billing/allowance.ts`) | counts of calls by minute and month, analyses | check, forward, count, give notice | checked before, counted after the answer, by tasks nobody waits for |
| OAuth (`src/domain/oauth`) | apps, codes, tokens | register, change and remove apps, authorise, exchange, refresh, revoke | a code or a refresh token presented twice, while apps change |
| Accounts, sessions, 2FA (`src/infrastructure/auth`, `src/domain/auth`) | users, sessions, reset links, pending sign-ins, backup codes, suspensions | sign up/in/out, change and reset passwords, second factor, suspend, delete | steps that are not in one transaction, with slow hashing between them |
| Upstream client (`src/domain/upstream/client.ts`) | breaker per backend, counts of running calls (in memory) | call with one retry, give up | every way out returns its place; one trial call among overlapping ones |
| E-mail outbox (`src/domain/email/outbox.ts`) | `email_outbox` | try, queue, claim, send, back off | claims of 5 min and a run as long, on several servers |
| Rate limits, sign-in throttles (`src/middleware`) | counters in memory or Redis | count, refuse | wall-clock windows |
| Key sharing, suspensions, status, administration, GraphQL, proxy, sandbox, classification tables | rows written by single statements, or data | | little that steps share |

Interaction. Requests and jobs meet in the database only: there is no queue or bus. A request handler is a sequence of
`await`s (queries, calls to a backend, to a receiver), and between two of them anything else may run, in this process or
another. Revoking a key, deleting an account and the nightly job all end in `gatewayApiKeys.revoke`; key, member and plan
changes call `emitWebhookEvent`; every gateway call goes through the allowance and the upstream client; two creations and the analysis endpoint run behind the idempotency hooks; all of it runs
in workers that the supervisor starts and ends.

What makes each component correct, and is hard to test, is listed under "hazards" in `PROJECT.json`, each at its line.

## 2. Modules

| Module | What it is |
|---|---|
| `GatewayKeys` | requests on one account's keys, the sweeper, the reconciler, lost answers and crashes |
| `BackendCredentials` | what it implements: the life of a backend key |
| `GatewayKeysProofs` | theorems about `GatewayKeys`: types, safety, the refinement |
| `WebhookDelivery` | one account's endpoints, events, workers and retries |
| `EventDelivery` | what it implements: the life of a delivery |
| `Idempotency` | one Idempotency-Key at one endpoint and the requests that carry it |
| `Supervisor` | the supervisor, its workers' deaths, timers and control requests |
| `Memberships` | businesses, drafts, members, invitations, and deletions of accounts |
| `MembershipsProofs` | theorems about it: types, owners, places that are kept, who loses a business, the limit on drafts |
| `Billing` | one person's plan over time: subscriptions, the requests and jobs that change them, invoices |
| `BillingProofs` | theorems about it: types, the date of a change, what is charged, invoices that stay true |
| `OAuthGrants`, `OAuthGrantsProofs` | apps, codes and grants of one person, and the theorems about them |
| `Accounts` | one person's password, reset links, sessions, suspension and second factor |
| `AccountsProofs` | theorems about it: types, sessions after a change of password or a suspension, what is good once |
| `UpstreamClient` | how one process calls the backends: ceilings, retry, breaker |
| `GatewayCalls` | one person's calls through the gateway, on top of `UpstreamClient`: allowance, forwarding, counting, notices |
| `GatewayCallsProofs` | theorems about both: places, trials, that `GatewayCalls` implements `UpstreamSpec`, overshoot and notices |
| `Outbox` | the e-mail outbox and the runs that work it off |
| `DeliveryProofs` | theorems about `WebhookDelivery`, `EventDelivery` and `Outbox`: types, the failure limit, who switches an endpoint off, the refinement, how often an e-mail arrives and is tried |
| `ServerProofs` | theorems about `Idempotency` and `Supervisor` |
| `MC*` | each of them for TLC: symmetry, a price list, and nothing else |

Each models the code between two awaits as one action. A request is a record: its step (`pc`) and the local copies it
made of what it read. Statements that can fail have a failing alternative; a backend's or a receiver's answer can be
lost; `Crash`, `Die`, `Rollback` and `RequestFails` are the death of a process or a broken connection.

### GatewayKeys

`key[k]` is the row of `gateway_api_keys` (unused, reserved while `create()` holds an id with no row yet, active, revoked,
deleted); `grants` the rows of `gateway_api_key_grants`; `queue` the table filled by the trigger of migration 0010;
`upstream`, `label` and `at` are what the backends hold. The actions follow `keys.ts` from top to bottom: `CreateStart`,
`Mint`, `Insert` and their failures are `create()` and `addService()`; `RemoveStart`/`RemoveRead`/`Remove` are
`removeService()`; `RevokeStart`...`RevokeEnd` are `revoke()` under its three callers (one key, a list of keys, a list
before the account's or the key's row is deleted); `Delete` is the row's deletion with the cascade and the trigger.
`Sweep*` are `sweepBackendKeys()`, one action per awaited step; `Recon*` are `reconcileBackendKeys()`.

Abstracted: which plan gives the cap; labels and secrets (the encrypted secret is wiped and never read again on a revoked
key); the sandbox flag (a sandbox key has no backend keys: here an API that is not brokered); who asks, as every
operation is by the owner or a job; the order of APIs in a loop (any order).
`Limited` stands for `ORDER BY ... LIMIT 50`: any full batch.
Time: the reconciler spares backend keys younger than ten minutes (`YOUNG_MS`). The model has no clock; `Young` spares exactly
those that a `create()` in flight holds, which the ten minutes cover (two mints of at most 10 s, and statements of at
most 20 s), and takes any other for old. That is the weakest reading of the rule the code relies on.

### WebhookDelivery

`endpoint`, `active`, `failures` and `delivery` are columns; `line` the pending deliveries that are due, and `before` which of
them has been due for longer than which, the order of `next_attempt_at`; a worker is one `deliverOne()` with what its claim read. `ClaimNext` is the claim with SKIP LOCKED,
`Send` the call, `Record*` the outcome and COMMIT, `Rollback` its loss. `RemoveStart`/`RemoveEnd` are the two halves of
the DELETE whose cascade waits for rows that workers hold.
Abstracted: payloads, signatures, event filters, secrets; the lengths of the backoffs (`Elapse` whenever).

### Idempotency

One key; `kind` is which of the three sorts of endpoint it is for. A row ages from fresh to stale (the 30 s or 3 min of an
abandoned claim) to expired (24 h). With `LongDelays` a request may take longer than that; without, a row ages past a
window only when its request is gone. History for the properties: `disturbed` holds the requests whose claim could not hold (it
was made while another execution or the clearing of an earlier row was under way, or its row was judged too old since), `settled`
says that an execution whose claim did hold has settled the key, and a row remembers who claimed it (`by`) and whether
nobody else was executed then (`alone`).

### Supervisor

One event loop: an action is a callback with the promise continuations after it. `proc` is the process, `start` who
awaits its start, `serving` and `retiring` the sets of the code, `doomed` the workers told to end. Worker objects are
used again when nothing refers to them; `MaxTimers` bounds the pending restart timers.

### Memberships

`member[b][p]` is the row of `business_memberships`, `emailed[b][p]` an invitation of the address `p` without an account,
`business[b].creator` the column `user_id`. The handlers of `setup.ts` are cut at their statements where another handler
can come in between: `CreateDraft`/`InsertDraft`, `Complete`/`Found`, `Invite`/`Offer` or `WriteDown`,
`Remove`/`LockBusiness`/`Delete` (or `DeleteInvitation`); `Accept`, `Decline` and `DeleteDraft` are one statement each.
`Confirm`...`ClaimEnd` are `confirmEmail()` with `claimEmailInvites()`. `Leave`, `Visit`, `HandOver`, `Leaves` are the
`DELETE FROM users` with the trigger of migration 0019: what it writes is collected in `fate` and becomes visible with
`Leaves`, its COMMIT. Row locks are not state of their own: they follow from who is where (`PersonFree`, `PersonUnused`,
`Held`, `BusinessFree`), `FOR UPDATE` and DELETE against each other and against the `FOR KEY SHARE` of foreign keys.
The deadlock of two deletions that need each other's rows is there, and `LeaveFails` is PostgreSQL ending it.
Abstracted: names, addresses and the contents of drafts (so `patchDraftHandler()` is left out); the role "accountant", which
counts as "member" everywhere; ages (`Expire` whenever); membership ids (`Forgetting` is that a later row has another id);
the limit of fifty invitations by e-mail; two identical invitations within a minute; and the administrator's table edits.

### Billing

`subs` are the rows of `subscriptions` in the order of their insertion (`Row`: plan, status, from, to, and the change that
waits with its date), `invoice[m]` what the month's invoice charges: the paid stretches, one line each. A request is a
lookup (`subscriptionFor`), a change of plan, one of the two monthly jobs or the administrator's invoice run; all four
apply what has come due, and go through the same statements: `Read`, `SelectDue`, `Claim`, `Update`,
`Commit`, `Decide`, `Schedule` or `Clear`, `Bill`, `Post`. Transactions run at READ COMMITTED: `Wait` is an UPDATE that
meets a row another has locked, `Conflicts` the unique index on the current row, `CommitReplyLost` an answer that does not
come. Time passes in ticks, and no request outlasts the next one; `held` records the row and plan that were in force all
through a tick, which is what charges are compared with. A month has three ticks at least, as a request may span two: in shorter ones
a claim made before a month could meet the bill of that same month, which takes a request as long as a month.
An invoice run may be asked for any month, as the administrator's may: one that is over (`asked` does not count those), the one that
runs, or a later one. `early` are the months that a run has invoiced which began before their end, and `ahead` the ticks for which such a run has
ended a plan ahead of the change's date; `late` are the months in which a change is dated that was committed after them.
Abstracted: amounts of a line (pro rata and rounding), payment methods, invoice status, notices. `blind` records that a
change was decided on a lookup that had failed: `subscriptionFor` answers "Free" then, and a request may take a
downgrade for an upgrade.

### OAuthGrants

`apps`, `codes` and `grants` are the three tables; a grant has one pair of tokens, made together, and remembers the pair it
replaced (`previous_refresh_hash`). A request reads the app first (`Present`: is it there, is the address listed, which
scopes has it) and acts on that later, one statement per action: `Claim` takes a code, `Grant` inserts the row, `Swap`
exchanges a refresh token, `End` is what a token that was used before causes. `Count`/`Register`, `SetScopes`,
`SetRedirectUris`, `Remove`/`RemoveEnds` are the developer's; `Revoke*`, `CleanUp` and `Tick` the rest. Others' apps are there
and do not change.
Abstracted: secrets, PKCE and error texts (a request that does not fit is not there); hashes are the tokens.

### Accounts

Each of sign-in, the second step, change and reset of a password, suspension, set-up, confirmation, removal of the second
factor and new backup codes is cut at its statements. A session records which password it rests on and which change of
password was settled when its sign-in began and when it was written (history). `Lapses` expires whatever may expire.
Abstracted: wrong passwords and codes (they change nothing that is modelled), attempt counters, names and addresses.

### UpstreamClient and GatewayCalls

What `callUpstream` does up to its first await is `Starts` or, refused, nothing; `Succeeds`, `Fails`, `Leaves` (the caller
hangs up) and `Retries` are what it does from an answer to its next await. `openUntil` is never, ahead or passed, for only
that is compared. `GatewayCalls` EXTENDS it and adds the rest of `forward()`: `Arrive` (`callRefusal`), `CheckAnalyses`,
`AnswerHere`, `Forward` with `Starts`, `Answer` with `Succeeds`, `Failure` with `Fails` or `Leaves`, and the tasks that run
after the answer, `Tally` and `Look` (`recordCall`), `Meter` (`meterAnalysis`), any of which may fail. `NewMinute` ends the
minute; the month does not end, and begins with what it has already (`CountedBefore`).
Abstracted: bodies, headers, caching, lengths of timeouts; paid plans, which the month does not stop.

### Outbox

`row[m]` are the attempts in the row of e-mail `m`, from 0, and `Backoffs` how many `BACKOFF_MINUTES` there are; an e-mail is given up on at
`attempts >= BACKOFF_MINUTES.length + 1`, hence `MaxTries`; `due` the rows whose date has come, `ahead` the order of their dates. A run claims a batch
(`TakeBatch`, with SKIP LOCKED and the date moved ahead), then sends (`SendOne`) and writes down (`WriteDown`) one by one, or dies
(`Aborts`). `OutrunsClaim` lets a claimed row fall due again while its run is at work: twenty e-mails of up to fifteen
seconds take as long as the claim. `mayArrive` and `mayTry` are what is still allowed, each excused by an outcome that was
not written down or a claim outrun.

## 3. Runs

| Run | Checks | Bounds | States |
|---|---|---|---|
| `keys` | `TypeOK`, `GrantedKeysWork`, `OnlyTheDeadAreRevoked`, `CredentialLifeCycle` (refinement of `BackendCredentials`) | 1 gateway key, 2 APIs (1 brokered), 2 backend keys, 2 requests, batches of 1 | 1.1 million |
| `keys_live` | `EndedKeysLoseTheirCredentials`, `RemovedGrantsLoseTheirCredentials` | 1 backend key, 1 request, COMMIT answers may be lost | 7.6 thousand |
| `hooks` | `TypeOK`, `RepeatedFailuresSwitchOff`, `SwitchedOffForCause`, `DeliveryLifeCycle` (refinement of `EventDelivery`), `DeliveriesSettle` | 1 endpoint, 2 deliveries, 2 workers, 2 requests, 2 tries, limit 2 | 82 thousand |
| `idem` | `OnlyOneExecutes`, `ReplaysFit`, `KeysAreNotWedged` | 2 requests, 2 payloads, any delays | 86 thousand |
| `supervisor` | `NoGap`, `CrashesAreMended`, `ControlEnds` | 3 workers, 2 timers | 13 thousand |
| `members` | `TypeOK`, `OwnerRemains`, `DraftsAreLimited`, `MembersAreNotReset`, `OnlyLatecomersLoseIt` | 3 people, one of them without an account; 1 business; 2 drafts, limit 1; 2 requests, claims or deletions at a time; invitations as owner or admin | 1.0 million |
| `members_lost` | violates `BusinessesSurvive` | 2 people | |
| `billing` | `TypeOK` (one current row among it), `ChargedForWhatWasHeld`, `InvoicesStayTrue`, `OnlyEarlyInvoicesEndPlansEarly` | 2 requests or jobs at a time, Free and 1 paid plan, months of 3 ticks, ticks 2 to 6, 2 changes or invoice runs of months not over, any number of those of months that are | 0.70 million |
| `oauth` | `EachWorksOnce`, `ReuseEndsGrant`, `AccessWasConsentedTo` | 2 apps (1 of another developer), 1 address, 2 scopes, 2 requests, 1 code, 3 pairs of tokens, 2 ticks | 0.57 million |
| `accounts` | `OldPasswordsLapse`, `SuspensionLeavesNone`, `EachUsedOnce` | 2 requests at a time, 4 begun, 2 changes of password, 2 of each sort of id | 2.5 million |
| `calls` | `PlacesAreReturned`, `FlaggedTrialRuns`, `OvershootIsBounded`, `MarksFireOnce`, `BreakerLetsThrough` | 2 calls at a time, 1 backend and the desk API, 2 keys; 2 failures open the breaker, ceilings 2 and 1; limits of 1 and 2 a minute, 5 and 9 a month (one API, all of them), 5 analyses; 3 of each counted before | 0.58 million |
| `outbox` | `ArrivesOnce`, `TriesAreBounded`, `OutboxEmpties` | 2 e-mails, 2 runs, batches of 2, 1 backoff (2 tries), 1 run that dies | 1.15 million |

`TypeOK` of the modules whose types are proved (section 4) is not checked again by their runs, but it was while the models
were written.

Why the bounds are enough. *keys*: every hazard is between two parties over one gateway key and one or two of its
backend keys; two requests, the sweeper, the reconciler and crashes are four parties, and a batch of one with two
backend keys makes the sweeper leave work behind. Two backend keys let an API be removed and added again under the
feet of a slower request. *hooks*: two workers over two deliveries of one endpoint overlap on the endpoint's row, and
two tries and a limit of two reach "one more try", "last try", "below the limit" and "at the limit". *idem*: two requests
give each statement of one between any two of the other. The two payloads tell a fitting replay from another's.
*supervisor*: one worker serves, one starts, one retires. *members*: a business matters to the others only
through people and locks of its own, so one is enough; of three people one leaves or is removed, one takes over and one
joins; the hazards are between two transactions (`MaxBusy`), with single statements (`Accept`, `Decline`, `Expire`)
in between at any time. An admin ranks below an owner and above nothing that a third role would show.
*billing*: ticks 2 to 6 hold the end of one month, a whole month and the beginning of the next, so a change that waits comes due within
the run, is applied on time or late, and is billed in both months; two requests give each statement between any two of the other's, with a
third and fourth one after the other; two askings are a change that waits and one that takes it back or overtakes it, or one that waits and an invoice run of the running month
that applies it too early. The theorems cover any number of plans and askings.
*oauth*: three pairs are an exchange and two
refreshes, which is what it takes for a token two generations old; two apps present each other's codes; with one address no
list of addresses differs from another, and a request that names a wrong one is left to `Claim`; lifetimes of zero and one tick let what expires do so before, between and after. *accounts*: four requests, two at a time, are as many as
the longest story told in the hazards (a sign-in, a change, a reset and a suspension); of every sort of id there is one
that is used and one that is not. *calls*: with two calls at a time a count is one past its limit at most, and one call is
older than the breaker's opening when another one is the trial; limits of five and nine put 80% and 100% on different
counts, and a month that has three calls of each API already (`CountedBefore`) comes to both within a few calls. *outbox*: two runs, each e-mail with one retry before it is given up on, batches as large as the queue.

Deadlock is checked in `hooks` and `idem`. The others do stop: `keys` when every id is used up and the account is gone,
`supervisor` after its exit, `members`, `billing`, `oauth` and `accounts` when ids, ticks or requests are used up, `calls` when
the month's allowance is, `outbox` when every e-mail has gone.

### Where code and documents disagree

The run **members_lost** reproduces one disagreement on every check. The trigger chooses the heir once, when it has the
business's row, and accepting an invitation takes no lock on that row. Who accepts after the choice "nobody else" and before the
cascade loses the business and the place they were just told they have, against "A business that other people still belong to
must survive its creator leaving" (`migrations/0011_keep_shared_businesses_on_user_delete.sql:2`). `OnlyLatecomersLoseIt` says
that nobody else can.

Eleven more have a configuration beside it, `tlc -config <name>.cfg <module>`, that ends in a counterexample:

| Configuration | Module | Violates | What happens |
|---|---|---|---|
| `keys_last_api` | `MCGatewayKeys` | `KeyKeepsAnApi` | `removeService()` counts the grants and deletes one in two queries. Two overlapping removals of two APIs leave the key with none, against "At least one API must stay" (`src/domain/gateway/keys.ts:466`). |
| `hooks_off` | `MCWebhookDelivery` | `OnlyTheOwnerSwitchesOn` | The last failed try writes `active = (consecutive_failures + 1) < limit`. An owner who switched the endpoint off while that call was under way finds it on again (`src/domain/webhooks/webhooks.ts:163`, `:342`). |
| `idem_twice` | `MCIdempotency` | `NeverTwoAtATime` | The DELETE of a stale row names the key only. Of two retries that both saw the dead row, the second deletes the first one's new claim, and both execute (`src/middleware/idempotency.ts:13`, `:159`). |
| `supervisor_dead` | `MCSupervisor` | `DeadWorkersAreReplaced` | A restart timer that fires during a reload is dropped, and a reload that fails starts nothing (`src/supervisor.ts:13`, `:182`). |
| `idem_replay` | `MCIdempotency` | `ReplaysOwnAnswer` | The answer is recorded by key only. Of two retries that executed together (as in `idem_twice`) with different bodies, the first one's answer lands in the row of the second, and is replayed to whoever sends the second body again, against "completed key + same request body hash -> replays the cached response" (`src/middleware/idempotency.ts:223`). |
| `billing_early` | `MCBilling` | `PlansStayUntilTheirDate` | Invoices may be generated for the month that still runs (`src/routes/adminAccounts.ts:114`, `:140`; a test does, `src/__tests__/e2e/platform.e2e.test.ts:117`). A downgrade that waits for the month's end is then applied at once (`src/domain/billing/plans.ts:379`), against "the current plan, and everything it allows, stays until then" (`:201`). |
| `billing_early_charge` | `MCBilling` | `ChargedAlways` | The same downgrade is dated the 1st all the same: the person is on the cheaper plan at once and is charged for the dearer one until then, against "so the invoices are exact". |
| `billing_early_invoice` | `MCBilling` | `EarlyInvoicesStayTrue` | An invoice of the running month is kept as it is (`ON CONFLICT DO NOTHING`, `plans.ts:403`). An upgrade later in the month is then on no invoice, against "charging each plan for its own part of the month". |
| `oauth_reuse` | `MCOAuthGrants` | `UsedTokensEndTheGrant` | One previous token is remembered. A token two exchanges old that comes back, or one whose successor is exchanged between the refused swap and the look for it, leaves the grant alone, against "presenting a used one again ends the grant" (`src/domain/oauth/oauth.ts:3`). |
| `outbox_tries` | `MCOutbox` | `DroppedAfterTheBackoffs` | Attempts count from 0 and an e-mail is dropped at `BACKOFF_MINUTES.length + 1` of them (`src/domain/email/outbox.ts:83`): it is tried four times from the outbox, the last backoff twice, against "tried again after 1, 5 and 15 minutes, then dropped" (`:4`). A test knows it ("the fourth is the last", `src/__tests__/round3Units.test.ts:80`). |
| `accounts_links` | `MCAccounts` | `LinksAreSingleUse` | A reset link is marked used after the password is stored (`src/infrastructure/auth/auth-service.ts:171`). Two requests with it both reset, against "The reset and confirmation links are single-use" (`docs/AUTHENTICATION.md:32`). |

Two more properties are stated, and refuted when put into `calls.cfg`: `OneTrial` (a call begun before the breaker opened lowers
the flag of the one trial call, and a second trial starts) and `EachMarkOnce` (two calls counted at once both read the second
count: the notice of the first is not sent; one of them read twice is sent twice). `FlaggedTrialRuns` and `MarksFireOnce` say what holds.

What these refute is excused in the properties that pass, as narrowly as the model can name it, and "hazards" in `PROJECT.json` credits no
property with what it excuses: `SwitchedOffForCause` says nothing of switching on (`hooks_off`); `DeliveryLifeCycle` lets a delivery fail
for good and arrive twice; `OnlyOneExecutes` and `ReplaysFit` except the single claims that were made in somebody else's way (`idem_twice`,
`idem_replay`), and hold for every other claim, later ones on the same key included; `CrashesAreMended` and `ControlEnds` leave out deaths and timers
during a reload (`clash`, `supervisor_dead`), and a worker that is ready after it was given up on is nobody's; the Billing properties
except the ticks and months that an invoice run of a month not over has spoilt; `ReuseEndsGrant` a token that is no longer remembered;
`FlaggedTrialRuns` a second trial; `MarksFireOnce` counts of calls looked at two at a time; `ArrivesOnce` and `TriesAreBounded` one sending for
each outcome not written down and each claim outrun.

### Fairness

*GatewayKeys*: a request that has begun goes on, as every call has a timeout; cron starts the jobs again and again; and a
step of a job that comes up again and again succeeds sometimes (strong fairness: backends are not down for ever, and the
process does not die every time at that point). Requests need never succeed. *WebhookDelivery*: a run starts every ten
seconds; a claim is tried again and again and recorded some time; an owner does not try for ever to delete an endpoint and
fail. *Idempotency*: requests go on, clients retry, half a minute passes, and not every retry dies before it clears the
way. *Supervisor*: timers fire, a start ends in one of its ways within 45 s, a worker told to end ends (it is killed after
30 s), and a replacement tried again and again starts some time. *GatewayCalls*: every call of a backend ends, by its answer or
its timeout (weak fairness of `Ending`), and the fifteen seconds of an open breaker pass; no call need ever be made, and no
task after an answer need run. *Outbox*: cron starts a run every minute, a send ends by its timeout, what is sent is written down or its run
dies (at most `MaxAborts` do), and dates come. The properties of *Billing*, *OAuthGrants*, *Accounts* and *Memberships* are safety; their
specifications assume no fairness.

## 4. Proofs

All theorems hold for every value of the constants that the modules' assumptions admit.

**GatewayKeys** (`GatewayKeysProofs`): any number of keys, APIs, backend keys and requests, any cap and batch. The theorems rest on
`BrokeredAssumption` and `NoneAssumption`, and the last three on `CommitReplyLost = FALSE`: a handler that takes a committed
transaction for a failed one revokes keys in use, so the two properties are false without it (`keys_live` runs with
the lost answers and checks what still holds: nothing stays live for ever).

- **TypeCorrect**, `Spec => []TypeOK`. `TypeOK` is not inductive: the rows a request inserts take
  their key and their APIs from the request's local copies. `TypeInv` adds what those copies satisfy (`Keyed`): a request at
  work has a key, and the backend keys it is to grant belong to a brokered API, which no step changes (`AtKept`).
- **OnlyTheDeadAreRevokedAlways** and **GrantedKeysWorkAlways**. Neither is inductive: that a key on
  its way to being revoked is out of service depends on what every other request may still do with it. `SafeInv` follows
  a backend key from mint to grant: what a request knows of its gateway key while it waits (`RequestsFit`), a minted key
  is one request's until it is one grant's (`PendingFit`, `GrantsFit`), and the reconciler's list holds nothing of a
  `create()` (`ListedFit`; that is what the minimum age is for). Most steps are *calm*: keys only end, grants only go,
  only what is out of service is revoked, and no request gets anything to grant. A calm step keeps "out of service"
  (`CalmStable`) and `SafeInv` (`CalmStep`, `CalmJob`); the three that are not calm, `CreateStart`, `Mint` and
  `Insert`, are proved one by one.
- **LifeCycleKept**, `Spec => CredentialLifeCycle`: `GatewayKeys` implements
  `BackendCredentials` under the mapping `Phase`. A step that revokes leaves what is in service alone
  (`RevokeStep`), any other calm step only releases (`ReleaseStep`), `Mint` issues or, with its answer lost, releases,
  and `Insert` puts a request's keys into service together.

**WebhookDelivery** (`DeliveryProofs`): any number of endpoints, deliveries, workers and requests, any limits of tries and of
failures. The theorems rest on `LimitsAssumption` and `NoneAssumption`.

- **HooksTypeCorrect**, **FailuresAlwaysSwitchOff**, **DeliveriesAreHeldByOne**. `TypeOK` is not inductive: the count of tries stays
  within its limit only because a pending delivery has a try left (`Fits`), and a worker writes to the row it claimed some
  time ago. `HooksInv` therefore says that what a worker holds is pending and held by it alone (`HoldsOne`), which SKIP LOCKED, the
  waiting cascade of a DELETE and a clean-up of settled rows only keep together; and that a row's endpoint exists, so that
  the outcome is written to one, while an endpoint that is gone, or not made yet, has no failures to be created with. The limit on failures
  (`EndpointsOK`) is then kept by each single statement: only `RecordFailed` counts up, and it writes `active` from the same count.
- **AlwaysSwitchedOffForCause**: of all steps, the three named take an endpoint out of `active` (`StepForCause`).
- **DeliveryLifeCycleKept**: `Record` is one `Try`, `RetryDelivery` a `Reopen`, `QueueOne` a `Queue`, the DELETE with its cascade and the
  clean-up are `Forget`, and every other step stutters. That a `Try` finds its delivery pending with a try left is `HoldsOne` again.

**Outbox** (`DeliveryProofs`): any e-mails, any batch size, number of tries and runs that die, any finite number of runs at a time, with or
without claims that are outrun. The theorems rest on `BoundsAssumption`, `RunsAssumption` and `NothingAssumption`.

- **OutboxTypeCorrect**: the rows that are due are there, and their dates are ordered among themselves only.
- **ArrivesAlwaysOnce**. Nothing keeps two runs from having the same e-mail, so no invariant can say that one run has it. What holds is
  a budget (`Arrivals`): the runs that have it yet to send or to give back (`Offers`), and the row itself while it is to be had
  (`Waits`), together are no more than the times it may still arrive. A claim moves one from the row to a run, an answer that may be
  tried again moves it back, an acceptance takes one of both, and a claim that is outrun or a run that dies with an answer adds one of both.
- **TriesAlwaysBounded**, by one more try from the outbox than there are backoffs, as the code counts. A run writes back the count it read with its claim, which another run may have raised or lowered since. `Tries` therefore
  bounds what could still be tried from every count that is in the row or that a run has read (`Known`), not from the row's alone.

**Memberships** (`MembershipsProofs`): any number of people, businesses, drafts and requests, any limit of drafts, any bound
on what is under way. The theorems rest on `NoneAssumption`, `FoundersAssumption`, `OfferedAssumption` and `MaxDraftsAssumption`, and on
inductive invariants that the run's instance also satisfies.

- **TypeCorrect**, `Spec => []TypeOK`. `TypeInv` adds that a request at work names rows of the right sort (`RequestFit`),
  that who leaves has an account and, when about to hand over, an heir (`LeaversFit`), and that an open draft is somebody's.
- **OwnerRemainsAlways**. A removal checks for a second owner in one statement and deletes in another; a deletion of an
  account chooses heirs one business at a time and shows its work at the end. `OwnersInv` says what holds in between: the
  row of a business is locked by one of them at a time (`LocksHold`); while a removal has it, another owner is there
  (`RemovalsFit`); who leaves has locked, or is still to lock, each of their businesses (`VisitFit`); the heir is a
  member still, and a business that is kept has an owner or an heir who becomes one (`HeirFit`). Most steps are *calm*:
  they take no lock and touch no accepted place (`CalmKeeps`); `Found`, `LockBusiness`, `Delete` and the steps of a
  deletion are proved one by one.
- **MembersAreNotResetAlways**. Calm steps leave accepted places alone; `Found` fills a business without members, which is
  where `Unused` is needed, and only `Leaves` changes a role.
- **OnlyLatecomersLoseItAlways**. `LateFit` is added: while a business is being ended, whoever else belongs to it is in
  `late`. The deletion that ends it alone has its lock, so a second one that fails resets nothing (`LocksHold`).
- **DraftsAreAlwaysLimited**. A creation counts in one statement and inserts in another, with the person's row locked from the first to the
  COMMIT. `DraftsInv` says that whoever is about to insert is alone with that person and counted fewer than the limit, and
  that nothing but an insert adds a draft (`QuietStep`).

**GatewayCalls** (`GatewayCallsProofs`): any number of backends, keys and calls at a time, any ceilings and limits. The
theorems rest on `CeilingsAssumption` and `CallsAssumption`; those about the allowance also on `MeteredAssumption` (finitely many
backends, as sums are taken over them), `LimitsAssumption` (limits are positive) and `BeforeAssumption`.

- **UpstreamTypeCorrect**, **PlacesAreAlwaysReturned**: the count of a backend, and of a backend and a key, is the cardinality of the
  set of calls under way there. A call that starts adds itself to exactly the two sets of its slots, one that ends leaves
  them; the ceilings follow from the check before. `PlacesAreReturned` with `UpstreamTypeOK` is inductive; the lemmas about
  `Of` under one changed call carry it.
- **FlaggedTrialAlwaysRuns**: the calls of a backend whose trial is "ours" are none while its flag is down, and one while it is
  up; whoever lowers the flag makes another call's trial "lost".
- **GatewayImplementsClient**: each step of `GatewayCalls` is a step of `UpstreamNext` or leaves its variables alone.
  **GatewayReturnsPlaces** follows: what is proved of the client holds of the gateway.
- **GatewayTypeCorrect**: a call is under way upstream as long as its request waits for it (`InStep`), and only a request that has answered has
  tasks left (`AfterFit`).
- **OvershootIsAlwaysBounded**. A limit bounds the count together with the set of requests that may still be counted (`Within`), never the count
  alone: counting moves one request from the set to the count, and only a check below the limit lets one more in (`Follows`). Most steps only
  take requests out of those sets (`Lighter`). The total over all backends is the cardinality of the set of counted calls (`Counted`),
  so one more count adds one element and no sum is unfolded.
- **MarksAlwaysFireOnce**. What was told is a function of the last count that was looked at: the count itself, or one less while a request has
  counted and not looked (`Seen`, `Due`); while no two counts of calls overlap there is one such request at most.

**Accounts** (`AccountsProofs`): any number of requests, and any bound on passwords, ids and requests begun. The theorems rest on
`BoundsAssumption` and `NoneAssumption`.

- **AccountTypeCorrect**: a request carries along what its later statements need, and has checked a password no older than the one settled
  when it began and no newer than the present one (`WellFormed`, `PasswordsFit`).
- **OldPasswordsAlwaysLapse** follows from those bounds: a session keeps the password its request checked, and a change deletes the others
  when it settles.
- **SuspensionAlwaysLeavesNone**. Not inductive: a sign-in writes its session, looks for a suspension and hands the session out in three
  statements. `SuspensionInv` adds that no sign-in which has found no suspension still has a session from before the clearing.
- **EachIsUsedOnce**. A pending sign-in is a row, or a request that has claimed it, and never both nor two of them (`PendingInv`); a
  backup code is a row or was used (`CodesInv`); ids beyond `made` were never used.

**Billing** (`BillingProofs`): any plans and prices, any number of requests and jobs and of changes asked for, months of any length from three
ticks on, and invoice runs of any month. The theorems rest on the three assumptions of the module and on one invariant, `BillingInv`:

- a change that is decided starts from a row on which nothing was due when the request began (`Knows`, `NoneOverdue`), since every
  lookup applies what is due first;
- a change that was taken back or replaced after it had been selected may still be applied, as the lock on the row asks for a waiting change and not
  for which one; but then it was given up within a tick of its date, no plan was held all through those ticks, and what waits now is no
  older (`StaleSoon`), so that neither a charge nor a billed month comes to depend on it;
- once a run has come to bill a month, no change waits or is claimed that would be dated in that month (`Settled`, `BillFits`), so the invoice
  is what the rows say for good (`InvoicesFit`), save for what `late` records; a run that began before its month was over gives none of this, and its
  month is in `early`;
- a row begins or ends ahead of the clock only as far as `ahead` covers every tick until then (`Foreseen`), as all that such a run does to others is to
  date a switch in the future;
- the row and plan held all through a tick are what is charged for that tick, and nothing else is (`HeldFits`, `OnlyCharged`).

Most steps are quiet: they touch no row, and what they learn is what the rows say (`QuietKeeps`). `Schedule` and `Clear` change what waits
(`WaitingKeeps`); a `Commit` ends one row and opens the next (`SwitchKeeps`, with what it does to months already billed in `SwitchedMonths`
and to ticks already charged in `SwitchedCharges`); a tick makes changes due (`TickKeeps`).

- **BillingTypeCorrect**, with one current row at most; **OnlyEarlyInvoicesEverEndPlansEarly**; **InvoicesAlwaysStayTrue**;
  **AlwaysChargedForWhatWasHeld**. A change decided on a failed lookup (`blind`) is excused in the last one only, as in the property.

**OAuthGrants** (`OAuthGrantsProofs`): any apps, addresses, scopes, lifetimes and bounds, and any number of requests.

- **TypeCorrect**, `Spec => []TypeOK`.
- **CodesAndTokensWorkOnce**: a code is claimed by one statement, a refresh token swapped by one; the invariant says that who has
  claimed a code is alone with it until the grant is written (`Granting`), that an exchanged code is used (`Redeemed`), and that
  the pair a grant has now was never exchanged, for pairs are new when made (`Spent`).
- **ReuseAlwaysEndsGrant**: a token that is refused was exchanged, so no grant has it now; the grants that remember it were
  ended by the same statement, and no later grant comes to remember it.
- **AccessIsAlwaysConsentedTo**: consent travels from the code to the request that claimed it and to the grant, and what is read is
  cut down to what the app has now.

**Idempotency** (`ServerProofs`): any number of requests and payloads, with and without long delays.

- **TypeCorrect**, **OneExecutesAtATime**, **ReplaysAlwaysFit**. A request whose claim is not disturbed has written the row there is, nobody
  else is executed, and nobody is about to clear that row (`OwnerInv`): a clearing that is under way when the claim is made disturbs it, and one that
  begins later has judged the row, which disturbs it too. Once such an execution has settled the key, its row stays
  until it is judged (`SettledInv`); so no claim succeeds (`NothingBegins`). A row that was claimed with nobody else executed has an answer of
  its own claimer only, as another could begin only after the row had gone (`AloneInv`). All three hold claim by claim: what disturbed one
  does not weaken what is said of the next.

**Supervisor** (`ServerProofs`): any workers, any number of timers.

- **SupervisorTypeCorrect**, **ReloadsLeaveNoGap**. A worker whose start is awaited is neither retiring nor of those from before the reload, and the
  fresh worker of a reload was not told to end (`FreshFit`); who serves is ready and does not retire (`ServingFit`); nothing is restarted before a
  worker has died by itself (`AgainFit`). So what a failed reload kills does not serve, and a successful one puts the fresh
  worker into place in the step that retires the others.

Only model-checked: liveness under fairness (with ENABLED, out of the prover's reach), and what the runs with a violation refute. Of
the safety invariants the runs check, every one is the statement of a theorem.

## 5. Not modelled

`rotate()`, `setRestrictions()`, `verify()` and the stored secrets of keys; `setEvents()` and `rotateSecret()` of webhooks; the contents of
drafts; sign-up and the confirmation of addresses (but for the invitations they claim); amounts on invoices; paid plans'
metering and the turn of a month in `GatewayCalls`; and the Redis locks of the jobs, which fail open and only save work.

Whole components:

- *Key sharing*, *status page*, *health*, *metrics*: single statements that share no state over time.
- *Rate limits and sign-in throttling*: counters in windows of the wall clock, in one process or in Redis by a pipeline of counters.
  What they promise is about durations, which these models leave open.
- *Business structure, classification rules, analysis of a set-up* (over 7,000 lines): tables and rules over free text. What could be checked
  is whether the table says what its author meant, and there is no second definition to compare it with.
- *Administration, audit, GraphQL, OpenAPI texts, the pages*: read models, texts and presentation over the tables of the
  other components. What administration changes (accounts, keys, plans, invoices, suspensions) is in the models of those.

These are most of the repository's lines, which is why the mapped share of the whole is small while the components with
state that is shared over time are mapped nearly whole.
