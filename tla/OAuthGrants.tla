---------------------------- MODULE OAuthGrants ----------------------------
(***************************************************************************)
(* Third-party apps and what one person lets them read: authorization      *)
(* codes, and the grants they become.                                      *)
(*                                                                         *)
(* A grant has one pair of tokens at a time, an access and a refresh token *)
(* made together; a refresh replaces both and remembers the pair replaced. *)
(* A request begins by reading the app and then writes, one statement at   *)
(* a time, so that the app may change, and other requests run, between.    *)
(***************************************************************************)
EXTENDS Integers, FiniteSets

CONSTANTS
    Apps,          \* client ids: one developer's apps, and
    Others,        \* apps of other developers, there from the start and left as they are
    Uris,          \* redirect addresses
    Scopes,        \* granular scopes
    Requests,      \* requests and jobs in flight at a time
    Cap,           \* apps the developer's plan allows
    CodeLife, AccessLife, RefreshLife,   \* ticks a code, an access, a refresh token lives
    Keep,          \* ticks a dead row is kept
    MaxTime, MaxCodes, MaxPairs,         \* bounds
    None

ASSUME AppsAssumption == Others \subseteq Apps
ASSUME UrisAssumption == Uris # {} /\ Scopes # {}
ASSUME NumbersAssumption ==
    \A n \in {Cap, CodeLife, AccessLife, RefreshLife, Keep, MaxTime, MaxCodes, MaxPairs} : n \in Nat
VARIABLES
    now,      \* the clock
    apps,     \* oauth_clients: [Apps -> an app, or None]
    codes,    \* oauth_codes: [CodeIds -> a code, or None]
    grants,   \* oauth_tokens: the rows
    issued,   \* codes made so far
    made,     \* pairs of tokens made so far
    req,      \* [Requests -> a request in flight]
    got,      \* history: <<code or refresh token, the pair it was exchanged for>>
    refused,  \* history: <<app, refresh token>> used, and refused when it came again
    consent   \* history: [CodeIds -> <<app, scopes>> the person agreed to]

vars == <<now, apps, codes, grants, issued, made, req, got, refused, consent>>

CodeIds == 1 .. MaxCodes
Pairs == 1 .. MaxPairs
Times == 0 .. MaxTime + CodeLife + AccessLife + RefreshLife

App == [live : BOOLEAN, uris : (SUBSET Uris) \ {{}}, scopes : (SUBSET Scopes) \ {{}}]
Code == [app : Apps, uri : Uris, scopes : SUBSET Scopes, until : Times, used : BOOLEAN]
Grant == [app : Apps, scopes : SUBSET Scopes, pair : Pairs, prev : Pairs \cup {None},
          access : Times, refresh : Times, ended : Times \cup {None},
          code : CodeIds]          \* history: the code it began with
ASSUME NoneAssumption ==
    /\ None \notin Int \cup Apps \cup Uris
    /\ None \notin App /\ None \notin Code /\ None \notin Apps \X SUBSET Scopes

Request ==
    [pc : {"idle", "register", "consent", "claim", "grant", "swap", "end", "revoke",
           "endAll"},
     app : Apps \cup {None},
     code : CodeIds \cup {None},    \* the code presented
     pair : Pairs \cup {None},      \* the pair whose token is presented
     uri : Uris \cup {None},
     listed : BOOLEAN,              \* was the code's address the app's when the app was read?
     uris : SUBSET Uris,
     scopes : SUBSET Scopes]

Idle == [pc |-> "idle", app |-> None, code |-> None, pair |-> None,
         uri |-> None, listed |-> FALSE, uris |-> {}, scopes |-> {}]

Live(a) == apps[a] # None /\ apps[a].live
Becomes(r, q) == req' = [req EXCEPT ![r] = q]
Starts(r, q) == req[r].pc = "idle" /\ Becomes(r, q)

Init ==
    /\ now = 0
    /\ apps = [a \in Apps |-> IF a \in Others
                   THEN [live |-> TRUE, uris |-> Uris, scopes |-> Scopes] ELSE None]
    /\ codes = [k \in CodeIds |-> None]
    /\ grants = {}
    /\ issued = 0 /\ made = 0
    /\ req = [r \in Requests |-> Idle]
    /\ got = {} /\ refused = {}
    /\ consent = [k \in CodeIds |-> None]

----------------------------------------------------------------------------
(* The developer's apps.                                                   *)

Own == Apps \ Others

UnderLimit == Cardinality({a \in Own : Live(a)}) < Cap

\* The apps are counted; the new one is written in a statement of its own.
Count(r) ==
    /\ UnderLimit
    /\ \E a \in Own, us \in (SUBSET Uris) \ {{}}, ss \in (SUBSET Scopes) \ {{}} :
        /\ apps[a] = None
        /\ \A o \in Requests : req[o].pc = "register" => req[o].app # a
        /\ Starts(r, [Idle EXCEPT !.pc = "register", !.app = a, !.uris = us, !.scopes = ss])
    /\ UNCHANGED <<now, apps, codes, grants, issued, made, got, refused, consent>>

Register(r) ==
    LET q == req[r] IN
    /\ q.pc = "register"
    /\ apps' = [apps EXCEPT ![q.app] = [live |-> TRUE, uris |-> q.uris, scopes |-> q.scopes]]
    /\ Becomes(r, Idle)
    /\ UNCHANGED <<now, codes, grants, issued, made, got, refused, consent>>

SetRedirectUris(a) ==
    /\ Live(a)
    /\ \E us \in (SUBSET Uris) \ {{}} : apps' = [apps EXCEPT ![a].uris = us]
    /\ UNCHANGED <<now, codes, grants, issued, made, req, got, refused, consent>>

SetScopes(a) ==
    /\ Live(a)
    /\ \E ss \in (SUBSET Scopes) \ {{}} : apps' = [apps EXCEPT ![a].scopes = ss]
    /\ UNCHANGED <<now, codes, grants, issued, made, req, got, refused, consent>>

Remove(r) ==
    /\ \E a \in Own :
        /\ Live(a)
        /\ apps' = [apps EXCEPT ![a].live = FALSE]
        /\ Starts(r, [Idle EXCEPT !.pc = "endAll", !.app = a])
    /\ UNCHANGED <<now, codes, grants, issued, made, got, refused, consent>>

\* The grants of S that are not over yet are now.
Ends(S) == grants' = (grants \ S) \cup
    {[g EXCEPT !.ended = IF @ = None THEN now ELSE @] : g \in S}

Of(a) == {g \in grants : g.app = a}

RemoveEnds(r) ==
    /\ req[r].pc = "endAll"
    /\ Ends(Of(req[r].app))
    /\ Becomes(r, Idle)
    /\ UNCHANGED <<now, apps, codes, issued, made, got, refused, consent>>

----------------------------------------------------------------------------
(* The person's consent.                                                   *)

\* validateAuthorizeRequest, and the person's Approve.
Approve(r) ==
    /\ \E a \in Own, u \in Uris, ss \in (SUBSET Scopes) \ {{}} :
        /\ Live(a) /\ u \in apps[a].uris /\ ss \subseteq apps[a].scopes
        /\ Starts(r, [Idle EXCEPT !.pc = "consent", !.app = a, !.uri = u, !.scopes = ss])
    /\ UNCHANGED <<now, apps, codes, grants, issued, made, got, refused, consent>>

issueCode(r) ==
    LET q == req[r] IN
    /\ q.pc = "consent" /\ issued < MaxCodes
    /\ issued' = issued + 1
    /\ codes' = [codes EXCEPT ![issued'] =
                    [app |-> q.app, uri |-> q.uri, scopes |-> q.scopes,
                     until |-> now + CodeLife, used |-> FALSE]]
    /\ consent' = [consent EXCEPT ![issued'] = <<q.app, q.scopes>>]
    /\ Becomes(r, Idle)
    /\ UNCHANGED <<now, apps, grants, made, got, refused>>

\* The person ends what the app has.
revokeAuthorization(a) ==
    /\ Ends(Of(a))
    /\ UNCHANGED <<now, apps, codes, issued, made, req, got, refused, consent>>

----------------------------------------------------------------------------
(* The token endpoint.                                                     *)

\* An app presents a code or a token, its own or not, that was given out at some
\* time (a token to be refreshed or revoked), and authenticateClient has read the app.
Present(r) ==
    /\ \E a \in Apps :
        /\ Live(a)
        /\ \/ \E k \in CodeIds :
                /\ k <= issued
                /\ Starts(r, [Idle EXCEPT !.pc = "claim", !.app = a, !.code = k,
                                         !.listed = codes[k] # None /\ codes[k].uri \in apps[a].uris])
           \/ \E p \in Pairs, pc \in {"swap", "revoke"} :
                /\ p <= made
                /\ Starts(r, [Idle EXCEPT !.pc = pc, !.app = a, !.pair = p])
    /\ UNCHANGED <<now, apps, codes, grants, issued, made, got, refused, consent>>

\* Variant: any code found may be exchanged.
ClaimableAgain(k) == codes[k] # None

Claimable(k) == codes[k] # None /\ ~codes[k].used

\* Variant: a code is good for any app.
FitsAnyApp(q, c) == now <= c.until /\ q.listed

Fits(q, c) == c.app = q.app /\ now <= c.until /\ q.listed

\* The code is claimed, and only then checked, against the app as it was read.
Claim(r) ==
    LET q == req[r]
        c == codes[q.code] IN
    /\ q.pc = "claim"
    /\ IF ~Claimable(q.code) THEN Becomes(r, Idle) /\ UNCHANGED codes
       ELSE /\ codes' = [codes EXCEPT ![q.code].used = TRUE]
            /\ \E right \in BOOLEAN :   \* the redirect address and the verifier
                 Becomes(r, IF right /\ Fits(q, c)
                            THEN [q EXCEPT !.pc = "grant", !.scopes = c.scopes, !.listed = FALSE]
                            ELSE Idle)
    /\ UNCHANGED <<now, apps, grants, issued, made, got, refused, consent>>

NewPair == made < MaxPairs /\ made' = made + 1

issueTokens(r) ==
    LET q == req[r] IN
    /\ q.pc = "grant" /\ NewPair
    /\ grants' = grants \cup
        {[app |-> q.app, scopes |-> q.scopes, pair |-> made', prev |-> None,
          access |-> now + AccessLife, refresh |-> now + RefreshLife, ended |-> None,
          code |-> q.code]}
    /\ got' = got \cup {<<"code", q.code, made'>>}
    /\ Becomes(r, Idle)
    /\ UNCHANGED <<now, apps, codes, issued, refused, consent>>

\* The grants whose refresh token may be exchanged.
Refreshable(q) ==
    {g \in Of(q.app) : g.pair = q.pair /\ g.ended = None /\ g.refresh > now}

\* Both tokens are swapped in one statement, or nothing is.
Swap(r) ==
    LET q == req[r] IN
    /\ q.pc = "swap"
    /\ IF Refreshable(q) = {}
       THEN Becomes(r, [q EXCEPT !.pc = "end"]) /\ UNCHANGED <<grants, made, got>>
       ELSE /\ NewPair
            /\ grants' = (grants \ Refreshable(q)) \cup
                 {[g EXCEPT !.prev = g.pair, !.pair = made', !.access = now + AccessLife,
                            !.refresh = now + RefreshLife] : g \in Refreshable(q)}
            /\ got' = got \cup {<<"refresh", q.pair, made'>>}
            /\ Becomes(r, Idle)
    /\ UNCHANGED <<now, apps, codes, issued, refused, consent>>

\* Variant: a token that was replaced is not remembered.
Unremembered(q) == {g \in Of(q.app) : g.pair = q.pair}

Replaced(q) == {g \in Of(q.app) : g.prev = q.pair}

\* A refused token that was replaced last ends the grant.
End(r) ==
    LET q == req[r] IN
    /\ q.pc = "end"
    /\ Ends(Replaced(q))
    /\ refused' = refused \cup {<<q.app, x[2]>> : x \in {y \in got : y[1] = "refresh" /\ y[2] = q.pair}}
    /\ Becomes(r, Idle)
    /\ UNCHANGED <<now, apps, codes, issued, made, got, consent>>

revokeToken(r) ==
    LET q == req[r] IN
    /\ q.pc = "revoke"
    /\ Ends({g \in Of(q.app) : g.pair = q.pair})
    /\ Becomes(r, Idle)
    /\ UNCHANGED <<now, apps, codes, issued, made, got, refused, consent>>

----------------------------------------------------------------------------
(* Failures, the daily job, and the specification.                         *)

\* A statement fails, or the server dies: what was done so far stays.
Fails(r) ==
    /\ req[r].pc # "idle"
    /\ Becomes(r, Idle)
    /\ UNCHANGED <<now, apps, codes, grants, issued, made, got, refused, consent>>

\* The job deletes codes, then grants that are long dead; no request that may come
\* between the two statements looks at both tables.
deleteExpiredOAuthRows ==
    /\ codes' = [k \in CodeIds |-> IF codes[k] # None /\ codes[k].until + Keep < now
                                   THEN None ELSE codes[k]]
    /\ grants' = {g \in grants : /\ g.refresh + Keep >= now
                                 /\ g.ended # None => g.ended + Keep >= now}
    /\ UNCHANGED <<now, apps, issued, made, req, got, refused, consent>>

Tick ==
    /\ now < MaxTime
    /\ now' = now + 1
    /\ UNCHANGED <<apps, codes, grants, issued, made, req, got, refused, consent>>

Developer(r) == Count(r) \/ Register(r) \/ Remove(r) \/ RemoveEnds(r)
Consent(r) == Approve(r) \/ issueCode(r)
TokenEndpoint(r) ==
    \/ Present(r) \/ Claim(r) \/ issueTokens(r)
    \/ Swap(r) \/ End(r) \/ revokeToken(r)

Next ==
    \/ \E r \in Requests : \/ Developer(r) \/ Consent(r) \/ TokenEndpoint(r)
                           \/ Fails(r)
    \/ \E a \in Own : SetRedirectUris(a) \/ SetScopes(a) \/ revokeAuthorization(a)
    \/ deleteExpiredOAuthRows
    \/ Tick

Spec == Init /\ [][Next]_vars

----------------------------------------------------------------------------
(* What works.                                                             *)

\* verifyAccessToken: what an access token opens; nothing when it does not verify.
Opens(g) ==
    IF g.ended = None /\ now < g.access /\ Live(g.app)
    THEN g.scopes \cap apps[g.app].scopes ELSE {}

----------------------------------------------------------------------------
(* Properties.                                                             *)

\* Rows and requests are well formed (oauth.ts, migrations 0022 and 0025).
TypeOK ==
    /\ now \in 0 .. MaxTime
    /\ apps \in [Apps -> App \cup {None}]
    /\ codes \in [CodeIds -> Code \cup {None}]
    /\ grants \subseteq Grant
    /\ issued \in 0 .. MaxCodes /\ made \in 0 .. MaxPairs
    /\ req \in [Requests -> Request]
    /\ got \subseteq {"code", "refresh"} \X (CodeIds \cup Pairs) \X Pairs
    /\ refused \subseteq Apps \X Pairs
    /\ consent \in [CodeIds -> (Apps \X SUBSET Scopes) \cup {None}]

\* A code, and a refresh token, is exchanged once at most, by whomever and however
\* often it is presented, and no code or pair of tokens has two grants ("two
\* simultaneous exchanges cannot both succeed", oauth.ts).
EachWorksOnce ==
    /\ \A x, y \in got : (x[1] = y[1] /\ x[2] = y[2]) => x = y
    /\ \A g, h \in grants : g.pair = h.pair \/ g.code = h.code => g = h

\* A refresh token that was used and then refused leaves no grant that grew out of
\* it: the one it was last exchanged in is over, unless that one was refreshed again
\* since, for only one token back is remembered (previous_refresh_hash, oauth.ts).
ReuseEndsGrant ==
    \A g \in grants : g.ended = None => <<g.app, g.prev>> \notin refused

\* The pair that the refreshes which led to pair p began with.
FirstPair[p \in Pairs] ==
    LET from == {x[2] : x \in {y \in got : y[1] = "refresh" /\ y[3] = p}} IN
    IF from = {} THEN p ELSE FirstPair[CHOOSE q \in from : TRUE]

\* ... and the same of every used token, however long ago it was exchanged and whatever
\* is under way ("a refresh token works once; presenting a used one again ends the
\* grant", oauth.ts).
UsedTokensEndTheGrant ==
    \A g \in grants, x \in refused :
        (g.ended = None /\ x[1] = g.app) => FirstPair[g.pair] # FirstPair[x[2]]

\* An app reads of a person what that person agreed to give that app and no more,
\* and of that only what the app is registered for now, through every exchange and
\* refresh and however its registration changes meanwhile (oauth.ts, "What the person
\* approved, cut down to what the app is still registered for").
AccessWasConsentedTo ==
    \A g \in grants : Opens(g) # {} =>
        /\ consent[g.code] # None /\ consent[g.code][1] = g.app
        /\ Opens(g) \subseteq consent[g.code][2] \cap apps[g.app].scopes

=============================================================================
