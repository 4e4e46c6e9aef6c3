---------------------------- MODULE Idempotency ----------------------------
(***************************************************************************)
(* One Idempotency-Key, at one endpoint, and the requests that carry it.   *)
(*                                                                         *)
(* A request claims the key by inserting its row, runs the handler and     *)
(* writes the answer into the row; one that finds the row taken is refused *)
(* or given the stored answer, and clears a row that has expired or whose  *)
(* request is taken for dead.  Each statement is an await of its own, and  *)
(* any of them may fail; a request may die at any point.                   *)
(***************************************************************************)
EXTENDS Naturals, FiniteSets

CONSTANTS
    Requests,      \* requests in flight at a time
    Payloads,      \* request bodies, by hash
    LongDelays,    \* may a request outlive the in-flight window, or a night?
    None

ASSUME DelaysAssumption == LongDelays \in BOOLEAN
ASSUME NoneAssumption == None \notin Payloads \cup Requests

VARIABLES
    kind,      \* what the endpoint does with failures and answers
    row,       \* the row of idempotency_keys, or NoRow
    req,       \* [Requests -> a request in flight]
    disturbed, \* history: requests whose claim could not hold: made while another
               \* execution, or the clearing of an earlier row, was under way, or
               \* on a row since judged too old
    settled    \* history: an undisturbed execution settled the key, and nobody
               \* has judged its row too old since

claimHistory == <<disturbed, settled>>
vars == <<kind, row, req, claimHistory>>

----------------------------------------------------------------------------
(* State.                                                                  *)

\* "draft": POST /setup/drafts and .../complete; "secret": a new API key;
\* "analysis": a market analysis.
Kinds == {"draft", "secret", "analysis"}

\* answer: the payload whose execution answered, None while in flight.  History:
\* by, the request that claimed the key; alone, whether no other was executed then.
Row == [hash : Payloads, answer : Payloads \cup {None},
        age : {"fresh", "stale", "expired"}, by : Requests, alone : BOOLEAN]

NoRow == [hash |-> None, answer |-> None, age |-> "fresh", by |-> None, alone |-> TRUE]

Request == [pc : {"idle", "claim", "inspect", "clear", "run", "record", "replayed"},
            payload : Payloads \cup {None}, attempt : 1..2,
            claimed : BOOLEAN, ok : BOOLEAN, answer : Payloads \cup {None},
            alone : BOOLEAN]

\* alone (history): with a replayed answer, that of its row.
Idle == [pc |-> "idle", payload |-> None, attempt |-> 1, claimed |-> FALSE,
         ok |-> FALSE, answer |-> None, alone |-> TRUE]

Init ==
    /\ kind \in Kinds
    /\ row = NoRow
    /\ req = [r \in Requests |-> Idle]
    /\ disturbed = {} /\ settled = FALSE

Becomes(r, q) == req' = [req EXCEPT ![r] = q]

Running(r) == req[r].claimed /\ req[r].pc \in {"run", "record"}

Runners == {r \in Requests : Running(r)}

\* Failures of these endpoints leave the key unused.
ForgetsFailures == kind \in {"secret", "analysis"}

----------------------------------------------------------------------------
(* preHandler.                                                             *)

\* A client sends its request, for the first time or again.
Send(r) ==
    /\ req[r].pc \in {"idle", "replayed"}
    /\ \E p \in Payloads :
        Becomes(r, [Idle EXCEPT !.pc = "claim", !.payload = p])
    /\ UNCHANGED <<kind, row, claimHistory>>

\* On to the handler, with the key or (failing open) without.
Claimed(q) == [Idle EXCEPT !.pc = "run", !.payload = q.payload, !.claimed = TRUE]
Unclaimed(q) == [Idle EXCEPT !.pc = "run", !.payload = q.payload]

\* What a claim of r meets: an execution, or a row's clearing, under way.
Crowded(r) == \E s \in Requests \ {r} : Running(s) \/ req[s].pc = "clear"

\* History: r claims the key.
Claims(r) == disturbed' = IF Crowded(r) THEN disturbed \cup {r} ELSE disturbed \ {r}

\* Variant: the row is written when there is an answer, not claimed at once.
ClaimLate(r) ==
    LET q == req[r] IN
    /\ q.pc = "claim"
    /\ IF row = NoRow
       THEN Becomes(r, Claimed(q)) /\ Claims(r)
       ELSE Becomes(r, [q EXCEPT !.pc = "inspect"]) /\ UNCHANGED disturbed
    /\ UNCHANGED <<kind, row, settled>>

\* INSERT ... ON CONFLICT DO NOTHING.
Claim(r) ==
    LET q == req[r] IN
    /\ q.pc = "claim"
    /\ IF row = NoRow
       THEN /\ row' = [hash |-> q.payload, answer |-> None, age |-> "fresh", by |-> r,
                       alone |-> Runners = {}]
            /\ Becomes(r, Claimed(q))
            /\ Claims(r)
       ELSE Becomes(r, [q EXCEPT !.pc = "inspect"]) /\ UNCHANGED <<row, disturbed>>
    /\ UNCHANGED <<kind, settled>>

\* `continue`: claim again once, then run without the key.
Again(q) == IF q.attempt = 1 THEN [q EXCEPT !.pc = "claim", !.attempt = 2]
            ELSE Unclaimed(q)

\* Variant: only the 24 hours count.
NeverAbandoned == FALSE

Abandoned == row.answer = None /\ row.age = "stale"

\* The request given the stored answer.
Replayed(q) == [Idle EXCEPT !.pc = "replayed", !.payload = q.payload,
                            !.answer = row.answer, !.alone = row.alone]

TooOld == row # NoRow /\ (row.age = "expired" \/ Abandoned)

\* History: the row is judged too old.
Judged == disturbed' = disturbed \cup {row.by} /\ settled' = FALSE

\* Variant: the request's hash is not compared.
InspectAnyPayload(r) ==
    LET q == req[r] IN
    /\ q.pc = "inspect"
    /\ Becomes(r, CASE row = NoRow -> Again(q)
                    [] TooOld -> [q EXCEPT !.pc = "clear"]
                    [] OTHER -> IF row.answer = None \/ kind = "secret"
                                THEN Idle ELSE Replayed(q))
    /\ IF TooOld THEN Judged ELSE UNCHANGED claimHistory
    /\ UNCHANGED <<kind, row>>

\* SELECT of the row, and what it leads to.
Inspect(r) ==
    LET q == req[r] IN
    /\ q.pc = "inspect"
    /\ Becomes(r, CASE row = NoRow -> Again(q)
                    [] TooOld -> [q EXCEPT !.pc = "clear"]
                    [] OTHER ->
                         IF \/ row.hash # q.payload
                            \/ row.answer = None
                            \/ kind = "secret"
                         THEN Idle ELSE Replayed(q))
    /\ IF TooOld THEN Judged ELSE UNCHANGED claimHistory
    /\ UNCHANGED <<kind, row>>

\* DELETE of the row that was too old when it was read, by key alone.
Clear(r) ==
    /\ req[r].pc = "clear"
    /\ row' = NoRow
    /\ Becomes(r, Again(req[r]))
    /\ UNCHANGED <<kind, claimHistory>>

\* A statement fails.  The claim and the look fail open; a failed DELETE goes
\* unnoticed.
StatementFails(r) ==
    LET q == req[r] IN
    /\ \/ q.pc \in {"claim", "inspect"} /\ Becomes(r, Unclaimed(q))
       \/ q.pc = "clear" /\ Becomes(r, Again(q))
       \/ q.pc = "record" /\ Becomes(r, Idle)
    /\ UNCHANGED <<kind, row, claimHistory>>

----------------------------------------------------------------------------
(* The handler, and onSend.                                                *)

\* An execution settles the key unless it failed and may be run again.
Settles(ok) == ok \/ ~ForgetsFailures

Run(r) ==
    LET q == req[r] IN
    /\ q.pc = "run"
    /\ \E ok \in BOOLEAN :
        /\ Becomes(r, IF q.claimed THEN [q EXCEPT !.pc = "record", !.ok = ok]
                      ELSE Idle)
        /\ settled' = (settled \/ (r \in Runners \ disturbed /\ Settles(ok)))
    /\ UNCHANGED <<kind, row, disturbed>>

\* The answer is written into the row of the key, or the row deleted; either
\* way by key alone.
RecordAnswer(r) ==
    LET q == req[r] IN
    /\ q.pc = "record"
    /\ row' = IF ~Settles(q.ok) THEN NoRow
              ELSE IF row = NoRow THEN NoRow
              ELSE [row EXCEPT !.answer = q.payload]
    /\ Becomes(r, Idle)
    /\ UNCHANGED <<kind, claimHistory>>

----------------------------------------------------------------------------
(* Time and crashes.                                                       *)

\* Half a minute (three for an analysis) after the claim, which its request has
\* not survived unless delays may be that long.
GrowStale ==
    /\ row # NoRow /\ row.age = "fresh"
    /\ LongDelays \/ ~Running(row.by)
    /\ row' = [row EXCEPT !.age = "stale"]
    /\ UNCHANGED <<kind, req, claimHistory>>

AtRest == \A r \in Requests : req[r].pc \in {"idle", "replayed"}

\* A day after the claim.
Expire ==
    /\ row.age = "stale"
    /\ LongDelays \/ AtRest
    /\ row' = [row EXCEPT !.age = "expired"]
    /\ UNCHANGED <<kind, req, claimHistory>>

\* deleteExpiredIdempotencyKeys().
DeleteExpired ==
    /\ row.age = "expired"
    /\ LongDelays \/ AtRest
    /\ row' = NoRow
    /\ Judged
    /\ UNCHANGED <<kind, req>>

\* The process of a request dies, or its client gives up on an answer.
Die(r) ==
    /\ req[r] # Idle
    /\ Becomes(r, Idle)
    /\ UNCHANGED <<kind, row, claimHistory>>

----------------------------------------------------------------------------
RequestSteps(r) ==
    Claim(r) \/ Inspect(r) \/ Clear(r) \/ Run(r) \/ RecordAnswer(r)

Next ==
    \/ \E r \in Requests : Send(r) \/ RequestSteps(r) \/ StatementFails(r) \/ Die(r)
    \/ GrowStale \/ Expire \/ DeleteExpired

Spec == Init /\ [][Next]_vars

\* Requests in flight go on and clients try again; half a minute passes.  Not
\* every retry dies, or loses a statement, before it clears the way.
Fairness ==
    /\ \A r \in Requests : WF_vars(RequestSteps(r))
    /\ WF_vars(\E r \in Requests : Send(r))
    /\ SF_vars(\E r \in Requests : Claim(r))
    /\ SF_vars(\E r \in Requests : Inspect(r))
    /\ SF_vars(\E r \in Requests : Clear(r))
    /\ WF_vars(GrowStale)

FairSpec == Spec /\ Fairness

----------------------------------------------------------------------------
(* Properties.                                                             *)

TypeOK ==
    /\ kind \in Kinds
    /\ row \in Row \cup {NoRow}
    /\ req \in [Requests -> Request]
    /\ disturbed \subseteq Requests
    /\ settled \in BOOLEAN

\* A claim keeps every other request from being executed with the key for as long as
\* its own execution lasts, and once that settled the key nobody is executed with it
\* until the row is judged too old: through concurrent retries, failed statements,
\* failed creations that free the key, and crashes.  Only two things break a claim:
\* that it was made while another execution or the clearing of an earlier row was
\* under way, or that its own row was judged too old.
OnlyOneExecutes ==
    /\ \A r \in Runners \ disturbed : Runners = {r}
    /\ settled => \A r \in Runners : req[r].pc # "run"

\* A stored answer that carries a secret is replayed to nobody, and any other only
\* to a request with the payload it answers, unless its row was claimed while
\* another request was still being executed.
ReplaysFit ==
    \A r \in Requests :
        req[r].pc = "replayed" =>
            /\ kind # "secret"
            /\ req[r].alone => req[r].answer = req[r].payload

\* Two concurrent requests with the key never both pass (the file's head:
\* "two genuinely concurrent requests with the same key can no longer both pass").
NeverTwoAtATime == Cardinality(Runners) <= 1

\* A replayed answer is always that of a request with the same payload
\* (registerIdempotency: "completed key + same request body hash -> replays the
\* cached response").
ReplaysOwnAnswer ==
    \A r \in Requests : req[r].pc = "replayed" => req[r].answer = req[r].payload

\* A crash between claim and answer does not wedge the key: it is answered or
\* free again without waiting for its 24 hours.
KeysAreNotWedged ==
    (row # NoRow /\ row.answer = None) ~> (row = NoRow \/ row.answer # None)
=============================================================================
