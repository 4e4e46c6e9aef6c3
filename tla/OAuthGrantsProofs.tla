------------------------- MODULE OAuthGrantsProofs -------------------------
(***************************************************************************)
(* Proofs about OAuthGrants, for any apps, scopes, requests and bounds.    *)
(***************************************************************************)
EXTENDS OAuthGrants, TLAPS

----------------------------------------------------------------------------
(* The inductive invariant.                                                *)

\* What a request at work knows.
RequestFit(q) ==
    /\ q.pc # "idle" => q.app \in Apps
    /\ q.pc = "register" => q.uris # {} /\ q.scopes # {}
    /\ q.pc = "consent" => q.uri \in Uris
    /\ q.pc \in {"claim", "grant"} => q.code \in CodeIds
    /\ q.pc \in {"swap", "end", "revoke"} => q.pair \in Pairs

TypeInv == TypeOK /\ \A r \in Requests : RequestFit(req[r])

\* A code that nobody can exchange any more.
Spent(k) == k \in 1 .. issued /\ (codes[k] = None \/ codes[k].used)
Redeemed(k) == \E x \in got : x[1] = "code" /\ x[2] = k
Granting(r, k) == req[r].pc = "grant" /\ req[r].code = k

\* Who has claimed a code is alone with it until it is exchanged.
CodesInv ==
    /\ \A k \in CodeIds : codes[k] # None => k <= issued
    /\ \A k \in CodeIds : Redeemed(k) => Spent(k)
    /\ \A r \in Requests, k \in CodeIds : Granting(r, k) => Spent(k) /\ ~Redeemed(k)
    /\ \A r, s \in Requests, k \in CodeIds : Granting(r, k) /\ Granting(s, k) => r = s
    /\ \A g \in grants : Redeemed(g.code)

\* The pair of a grant was never exchanged.
Refreshed(p) == \E x \in got : x[1] = "refresh" /\ x[2] = p

PairsInv ==
    /\ \A x \in got : x[1] = "refresh" => x[2] \in 1 .. made
    /\ \A g \in grants : g.pair \in 1 .. made /\ ~Refreshed(g.pair)
    /\ \A y \in refused : Refreshed(y[2])

\* What the person agreed to goes with the code, and with the grant.
ConsentInv ==
    /\ \A k \in CodeIds : codes[k] # None => consent[k] = <<codes[k].app, codes[k].scopes>>
    /\ \A r \in Requests : req[r].pc = "grant" =>
         consent[req[r].code] = <<req[r].app, req[r].scopes>>
    /\ \A g \in grants : consent[g.code] = <<g.app, g.scopes>>

IInv == TypeInv /\ CodesInv /\ PairsInv /\ ConsentInv /\ EachWorksOnce /\ ReuseEndsGrant

----------------------------------------------------------------------------
(* Type correctness.                                                       *)

LEMMA Numbers ==
    /\ MaxTime \in Nat /\ CodeLife \in Nat /\ AccessLife \in Nat /\ RefreshLife \in Nat
    /\ MaxCodes \in Nat /\ MaxPairs \in Nat
BY NumbersAssumption

LEMMA TimesAhead ==
    ASSUME now \in 0 .. MaxTime
    PROVE  /\ now \in Times /\ now # None
           /\ now + CodeLife \in Times
           /\ now + AccessLife \in Times /\ now + RefreshLife \in Times
BY Numbers, NoneAssumption DEF Times

\* The tables, the clock and the counters.
RowsOK ==
    /\ now \in 0 .. MaxTime
    /\ apps \in [Apps -> App \cup {None}]
    /\ codes \in [CodeIds -> Code \cup {None}]
    /\ grants \subseteq Grant
    /\ issued \in 0 .. MaxCodes /\ made \in 0 .. MaxPairs
    /\ got \subseteq {"code", "refresh"} \X (CodeIds \cup Pairs) \X Pairs
    /\ refused \subseteq Apps \X Pairs
    /\ consent \in [CodeIds -> (Apps \X SUBSET Scopes) \cup {None}]

RequestsOK == req \in [Requests -> Request] /\ \A r \in Requests : RequestFit(req[r])

LEMMA TypeInvInParts == TypeInv <=> RowsOK /\ RequestsOK
BY DEF TypeInv, TypeOK, RowsOK, RequestsOK

LEMMA Becoming ==
    ASSUME RequestsOK, NEW r \in Requests, NEW q \in Request, RequestFit(q), Becomes(r, q)
    PROVE  RequestsOK'
BY DEF RequestsOK, Becomes

LEMMA IdleFits == Idle \in Request /\ RequestFit(Idle)
BY DEF Idle, Request, RequestFit

LEMMA RequestAt ==
    ASSUME RequestsOK, NEW r \in Requests
    PROVE  req[r] \in Request /\ RequestFit(req[r])
BY DEF RequestsOK

\* What Ends leaves of a grant.
Ended(g) == [g EXCEPT !.ended = IF @ = None THEN now ELSE @]

LEMMA EndedGrant ==
    ASSUME NEW g \in Grant, now \in 0 .. MaxTime
    PROVE  /\ Ended(g) \in Grant /\ Ended(g).ended # None
           /\ Ended(g).app = g.app /\ Ended(g).scopes = g.scopes
           /\ Ended(g).pair = g.pair /\ Ended(g).prev = g.prev /\ Ended(g).code = g.code
<1>1. now \in Times /\ now # None
    BY TimesAhead
<1>2. QED
    BY <1>1 DEF Ended, Grant

LEMMA RequestsKept ==
    ASSUME TypeInv, NEW r \in Requests, Developer(r) \/ Consent(r) \/ TokenEndpoint(r) \/ Fails(r)
    PROVE  RequestsOK'
<1> DEFINE q == req[r]
<1>1. RowsOK /\ RequestsOK /\ req[r] \in Request /\ RequestFit(req[r])
    BY TypeInvInParts, RequestAt
<1>2. CASE Becomes(r, Idle)
    BY <1>1, <1>2, IdleFits, Becoming
<1>3. CASE Count(r)
    <2>1. PICK a \in Own, us \in (SUBSET Uris) \ {{}}, ss \in (SUBSET Scopes) \ {{}} :
            Becomes(r, [Idle EXCEPT !.pc = "register", !.app = a, !.uris = us, !.scopes = ss])
        BY <1>3 DEF Count, Starts
    <2>2. PICK p : p = [Idle EXCEPT !.pc = "register", !.app = a, !.uris = us, !.scopes = ss]
        OBVIOUS
    <2>3. a \in Apps
        BY DEF Own
    <2>4. p \in Request
        BY <2>2, <2>3 DEF Idle, Request
    <2>5. RequestFit(p)
        <3>1. us # {} /\ ss # {}
            OBVIOUS
        <3>2. p.pc = "register" /\ p.app = a /\ p.uris = us /\ p.scopes = ss
            BY <2>2 DEF Idle
        <3>3. QED
            BY <2>3, <3>1, <3>2 DEF RequestFit
    <2>6. QED
        BY <1>1, <2>1, <2>2, <2>4, <2>5, Becoming
<1>4. CASE Remove(r)
    <2>1. PICK a \in Own : Becomes(r, [Idle EXCEPT !.pc = "endAll", !.app = a])
        BY <1>4 DEF Remove, Starts
    <2>2. PICK p : p = [Idle EXCEPT !.pc = "endAll", !.app = a]
        OBVIOUS
    <2>3. p \in Request /\ RequestFit(p)
        BY <2>2 DEF Idle, Request, RequestFit, Own
    <2>4. QED
        BY <1>1, <2>1, <2>2, <2>3, Becoming
<1>5. CASE Approve(r)
    <2>1. PICK a \in Own, u \in Uris, ss \in (SUBSET Scopes) \ {{}} :
            Becomes(r, [Idle EXCEPT !.pc = "consent", !.app = a, !.uri = u, !.scopes = ss])
        BY <1>5 DEF Approve, Starts
    <2>2. PICK p : p = [Idle EXCEPT !.pc = "consent", !.app = a, !.uri = u, !.scopes = ss]
        OBVIOUS
    <2>3. p \in Request /\ RequestFit(p)
        BY <2>2 DEF Idle, Request, RequestFit, Own
    <2>4. QED
        BY <1>1, <2>1, <2>2, <2>3, Becoming
<1>6. CASE Present(r)
    <2>1. PICK a \in Apps :
            \/ \E k \in CodeIds :
                 Becomes(r, [Idle EXCEPT !.pc = "claim", !.app = a, !.code = k,
                                 !.listed = codes[k] # None /\ codes[k].uri \in apps[a].uris])
            \/ \E p \in Pairs, pc \in {"swap", "revoke"} :
                 Becomes(r, [Idle EXCEPT !.pc = pc, !.app = a, !.pair = p])
        BY <1>6 DEF Present, Starts
    <2>2. CASE \E k \in CodeIds :
                 Becomes(r, [Idle EXCEPT !.pc = "claim", !.app = a, !.code = k,
                                 !.listed = codes[k] # None /\ codes[k].uri \in apps[a].uris])
        <3>1. PICK k \in CodeIds :
                 Becomes(r, [Idle EXCEPT !.pc = "claim", !.app = a, !.code = k,
                                 !.listed = codes[k] # None /\ codes[k].uri \in apps[a].uris])
            BY <2>2
        <3>2. PICK listed \in BOOLEAN :
                 listed = (codes[k] # None /\ codes[k].uri \in apps[a].uris)
            OBVIOUS
        <3>3. PICK p : p = [Idle EXCEPT !.pc = "claim", !.app = a, !.code = k, !.listed = listed]
            OBVIOUS
        <3>4. p \in Request /\ RequestFit(p)
            BY <3>3 DEF Idle, Request, RequestFit
        <3>5. QED
            BY <1>1, <3>1, <3>2, <3>3, <3>4, Becoming
    <2>3. CASE \E p \in Pairs, pc \in {"swap", "revoke"} :
                 Becomes(r, [Idle EXCEPT !.pc = pc, !.app = a, !.pair = p])
        <3>1. PICK p \in Pairs, pc \in {"swap", "revoke"} :
                 Becomes(r, [Idle EXCEPT !.pc = pc, !.app = a, !.pair = p])
            BY <2>3
        <3>2. PICK o : o = [Idle EXCEPT !.pc = pc, !.app = a, !.pair = p]
            OBVIOUS
        <3>3. o \in Request /\ RequestFit(o)
            BY <3>2 DEF Idle, Request, RequestFit
        <3>4. QED
            BY <1>1, <3>1, <3>2, <3>3, Becoming
    <2>4. QED
        BY <2>1, <2>2, <2>3
<1>7. CASE Claim(r) /\ ~Becomes(r, Idle)
    <2>1. /\ q.pc = "claim" /\ codes[q.code] # None
          /\ Becomes(r, [q EXCEPT !.pc = "grant", !.scopes = codes[q.code].scopes, !.listed = FALSE])
        BY <1>7 DEF Claim, Claimable
    <2>2. codes[q.code] \in Code
        BY <1>1, <2>1 DEF RowsOK, RequestFit
    <2>3. PICK ss \in SUBSET Scopes : ss = codes[q.code].scopes
        BY <2>2 DEF Code
    <2>4. PICK p : p = [q EXCEPT !.pc = "grant", !.scopes = ss, !.listed = FALSE]
        OBVIOUS
    <2>5. p \in Request /\ RequestFit(p)
        BY <1>1, <2>1, <2>4 DEF Request, RequestFit
    <2>6. QED
        BY <1>1, <2>1, <2>3, <2>4, <2>5, Becoming
<1>8. CASE Swap(r) /\ ~Becomes(r, Idle)
    <2>1. q.pc = "swap" /\ Becomes(r, [q EXCEPT !.pc = "end"])
        BY <1>8 DEF Swap
    <2>2. PICK p : p = [q EXCEPT !.pc = "end"]
        OBVIOUS
    <2>3. p \in Request /\ RequestFit(p)
        BY <1>1, <2>1, <2>2 DEF Request, RequestFit
    <2>4. QED
        BY <1>1, <2>1, <2>2, <2>3, Becoming
<1>9. CASE Register(r) \/ RemoveEnds(r) \/ issueCode(r) \/ issueTokens(r) \/ End(r)
           \/ revokeToken(r) \/ Fails(r)
    <2>1. Becomes(r, Idle)
        BY <1>9 DEF Register, RemoveEnds, issueCode, issueTokens, End, revokeToken, Fails
    <2>2. QED
        BY <1>2, <2>1
<1>10. QED
    BY <1>2, <1>3, <1>4, <1>5, <1>6, <1>7, <1>8, <1>9 DEF Developer, Consent, TokenEndpoint


LEMMA GrantsAfterEnds ==
    ASSUME RowsOK, NEW S \in SUBSET grants, Ends(S)
    PROVE  /\ grants' \subseteq Grant
           /\ grants' = (grants \ S) \cup {Ended(g) : g \in S}
<1>1. grants' = (grants \ S) \cup {Ended(g) : g \in S}
    BY DEF Ends, Ended
<1>2. \A g \in S : g \in Grant /\ Ended(g) \in Grant
    BY EndedGrant DEF RowsOK
<1>3. QED
    BY <1>1, <1>2 DEF RowsOK

\* The sets of grants that a step ends.
LEMMA EndedSets ==
    ASSUME NEW r \in Requests
    PROVE  /\ RemoveEnds(r) => Ends(Of(req[r].app))
           /\ revokeToken(r) => Ends({g \in Of(req[r].app) : g.pair = req[r].pair})
           /\ End(r) => Ends(Replaced(req[r]))
           /\ Of(req[r].app) \in SUBSET grants
           /\ {g \in Of(req[r].app) : g.pair = req[r].pair} \in SUBSET grants
           /\ Replaced(req[r]) \in SUBSET grants
BY DEF RemoveEnds, revokeToken, End, Of, Replaced

\* The grant that a code becomes.
NewGrant(q, p) ==
    [app |-> q.app, scopes |-> q.scopes, pair |-> p, prev |-> None,
     access |-> now + AccessLife, refresh |-> now + RefreshLife, ended |-> None,
     code |-> q.code]

LEMMA NewGrantFits ==
    ASSUME TypeInv, NEW r \in Requests, issueTokens(r)
    PROVE  /\ made < MaxPairs /\ made' = made + 1 /\ made' \in Pairs
           /\ req[r].code \in CodeIds /\ req[r].app \in Apps
           /\ NewGrant(req[r], made') \in Grant
           /\ grants' = grants \cup {NewGrant(req[r], made')}
           /\ got' = got \cup {<<"code", req[r].code, made'>>}
<1>1. RowsOK /\ req[r] \in Request /\ RequestFit(req[r])
    BY TypeInvInParts, RequestAt
<1>2. /\ req[r].pc = "grant" /\ made < MaxPairs /\ made' = made + 1
      /\ grants' = grants \cup {NewGrant(req[r], made')}
      /\ got' = got \cup {<<"code", req[r].code, made'>>}
    BY DEF issueTokens, NewPair, NewGrant
<1>3. req[r].code \in CodeIds /\ req[r].app \in Apps /\ req[r].scopes \in SUBSET Scopes
    BY <1>1, <1>2 DEF RequestFit, Request
<1>4. made' \in Pairs
    BY <1>1, <1>2, Numbers DEF RowsOK, Pairs
<1>5. NewGrant(req[r], made') \in Grant
    BY <1>1, <1>3, <1>4, TimesAhead DEF NewGrant, Grant, RowsOK
<1>6. QED
    BY <1>2, <1>3, <1>4, <1>5

\* A grant with its tokens swapped for a new pair.
Swapped(g, p) ==
    [g EXCEPT !.prev = g.pair, !.pair = p, !.access = now + AccessLife,
              !.refresh = now + RefreshLife]

LEMMA SwappedGrant ==
    ASSUME NEW g \in Grant, NEW p \in Pairs, now \in 0 .. MaxTime
    PROVE  /\ Swapped(g, p) \in Grant
           /\ Swapped(g, p).pair = p /\ Swapped(g, p).prev = g.pair
           /\ Swapped(g, p).app = g.app /\ Swapped(g, p).scopes = g.scopes
           /\ Swapped(g, p).code = g.code /\ Swapped(g, p).ended = g.ended
BY TimesAhead DEF Swapped, Grant

LEMMA SwapOfTokens ==
    ASSUME TypeInv, NEW r \in Requests, Swap(r), Refreshable(req[r]) # {}
    PROVE  /\ made < MaxPairs /\ made' = made + 1 /\ made' \in Pairs
           /\ grants' = (grants \ Refreshable(req[r])) \cup
                        {Swapped(g, made') : g \in Refreshable(req[r])}
           /\ got' = got \cup {<<"refresh", req[r].pair, made'>>}
           /\ req[r].pair \in Pairs
           /\ Becomes(r, Idle)
<1>1. RowsOK /\ req[r] \in Request /\ RequestFit(req[r])
    BY TypeInvInParts, RequestAt
<1>2. /\ req[r].pc = "swap" /\ made < MaxPairs /\ made' = made + 1
      /\ grants' = (grants \ Refreshable(req[r])) \cup
                   {Swapped(g, made') : g \in Refreshable(req[r])}
      /\ got' = got \cup {<<"refresh", req[r].pair, made'>>}
      /\ Becomes(r, Idle)
    BY DEF Swap, NewPair, Swapped
<1>3. made' \in Pairs
    BY <1>1, <1>2, Numbers DEF RowsOK, Pairs
<1>4. QED
    BY <1>1, <1>2, <1>3 DEF RequestFit

LEMMA RowsKept ==
    ASSUME TypeInv, NEW r \in Requests, Developer(r) \/ Consent(r) \/ TokenEndpoint(r) \/ Fails(r)
    PROVE  RowsOK'
<1>1. RowsOK /\ RequestsOK /\ req[r] \in Request /\ RequestFit(req[r])
    BY TypeInvInParts, RequestAt
<1>2. CASE Count(r) \/ Approve(r) \/ Present(r) \/ Fails(r)
    BY <1>1, <1>2 DEF Count, Approve, Present, Fails, RowsOK
<1>3. CASE Register(r)
    <2>1. [live |-> TRUE, uris |-> req[r].uris, scopes |-> req[r].scopes] \in App
        <3>1. /\ req[r].uris \in SUBSET Uris /\ req[r].scopes \in SUBSET Scopes
              /\ req[r].uris # {} /\ req[r].scopes # {}
            BY <1>1, <1>3 DEF Register, Request, RequestFit
        <3>2. PICK us \in (SUBSET Uris) \ {{}} : us = req[r].uris
            BY <3>1
        <3>3. PICK ss \in (SUBSET Scopes) \ {{}} : ss = req[r].scopes
            BY <3>1
        <3>4. QED
            BY <3>2, <3>3 DEF App
    <2>2. apps' \in [Apps -> App \cup {None}]
        BY <1>1, <1>3, <2>1 DEF Register, RowsOK
    <2>3. QED
        BY <1>1, <1>3, <2>2 DEF Register, RowsOK
<1>4. CASE Remove(r)
    <2>1. PICK a \in Own : Live(a) /\ apps' = [apps EXCEPT ![a] = [apps[a] EXCEPT !.live = FALSE]]
        BY <1>4 DEF Remove
    <2>2. a \in Apps /\ apps[a] \in App
        BY <1>1, <2>1 DEF Own, Live, RowsOK
    <2>3. [apps[a] EXCEPT !.live = FALSE] \in App
        BY <2>2 DEF App
    <2>4. apps' \in [Apps -> App \cup {None}]
        BY <1>1, <2>1, <2>3 DEF RowsOK
    <2>5. QED
        BY <1>1, <1>4, <2>4 DEF Remove, RowsOK
<1>5. CASE RemoveEnds(r) \/ revokeToken(r)
    <2>1. grants' \subseteq Grant
        BY <1>1, <1>5, EndedSets, GrantsAfterEnds
    <2>2. QED
        BY <1>1, <1>5, <2>1 DEF RemoveEnds, revokeToken, RowsOK
<1>6. CASE End(r)
    <2>1. grants' \subseteq Grant
        BY <1>1, <1>6, EndedSets, GrantsAfterEnds
    <2>2. refused' = refused \cup
            {<<req[r].app, x[2]>> : x \in {y \in got : y[1] = "refresh" /\ y[2] = req[r].pair}}
        BY <1>6 DEF End
    <2>3. req[r].app \in Apps /\ req[r].pair \in Pairs
        BY <1>1, <1>6 DEF End, RequestFit
    <2>4. refused' \subseteq Apps \X Pairs
        BY <1>1, <2>2, <2>3 DEF RowsOK
    <2>5. QED
        BY <1>1, <1>6, <2>1, <2>4 DEF End, RowsOK
<1>7. CASE issueCode(r)
    <2>1. issued' = issued + 1 /\ issued' \in 0 .. MaxCodes /\ issued' \in CodeIds
        BY <1>1, <1>7, Numbers DEF issueCode, RowsOK, CodeIds
    <2>2. [app |-> req[r].app, uri |-> req[r].uri, scopes |-> req[r].scopes,
           until |-> now + CodeLife, used |-> FALSE] \in Code
        BY <1>1, <1>7, TimesAhead DEF issueCode, RequestFit, Request, Code, RowsOK
    <2>3. codes' \in [CodeIds -> Code \cup {None}]
        BY <1>1, <1>7, <2>2 DEF issueCode, RowsOK
    <2>4. <<req[r].app, req[r].scopes>> \in Apps \X SUBSET Scopes
        BY <1>1, <1>7 DEF issueCode, RequestFit, Request
    <2>5. consent' \in [CodeIds -> (Apps \X SUBSET Scopes) \cup {None}]
        BY <1>1, <1>7, <2>4 DEF issueCode, RowsOK
    <2>6. QED
        BY <1>1, <1>7, <2>1, <2>3, <2>5 DEF issueCode, RowsOK
<1>8. CASE Claim(r)
    <2>1. CASE codes' = codes
        BY <1>1, <1>8, <2>1 DEF Claim, RowsOK
    <2>2. CASE codes' # codes
        <3>1. /\ req[r].pc = "claim" /\ codes[req[r].code] # None
              /\ codes' = [codes EXCEPT ![req[r].code] = [codes[req[r].code] EXCEPT !.used = TRUE]]
            BY <1>8, <2>2 DEF Claim, Claimable
        <3>2. codes[req[r].code] \in Code
            BY <1>1, <3>1 DEF RequestFit, RowsOK
        <3>3. [codes[req[r].code] EXCEPT !.used = TRUE] \in Code
            BY <3>2 DEF Code
        <3>4. codes' \in [CodeIds -> Code \cup {None}]
            BY <1>1, <3>1, <3>3 DEF RowsOK
        <3>5. QED
            BY <1>1, <1>8, <3>4 DEF Claim, RowsOK
    <2>3. QED
        BY <2>1, <2>2
<1>9. CASE issueTokens(r)
    <2>1. grants' \subseteq Grant /\ made' \in 0 .. MaxPairs
        BY <1>1, <1>9, NewGrantFits, Numbers DEF RowsOK, Pairs
    <2>2. got' \subseteq {"code", "refresh"} \X (CodeIds \cup Pairs) \X Pairs
        BY <1>1, <1>9, NewGrantFits DEF RowsOK
    <2>3. QED
        BY <1>1, <1>9, <2>1, <2>2 DEF issueTokens, RowsOK
<1>10. CASE Swap(r)
    <2>1. CASE Refreshable(req[r]) = {}
        BY <1>1, <1>10, <2>1 DEF Swap, RowsOK
    <2>2. CASE Refreshable(req[r]) # {}
        <3>1. /\ made' \in Pairs
              /\ grants' = (grants \ Refreshable(req[r])) \cup
                           {Swapped(g, made') : g \in Refreshable(req[r])}
              /\ got' = got \cup {<<"refresh", req[r].pair, made'>>}
              /\ req[r].pair \in Pairs
            BY <1>10, <2>2, SwapOfTokens
        <3>2. \A g \in Refreshable(req[r]) : Swapped(g, made') \in Grant
            BY <1>1, <3>1, SwappedGrant DEF RowsOK, Refreshable, Of
        <3>3. grants' \subseteq Grant
            BY <1>1, <3>1, <3>2 DEF RowsOK
        <3>4. got' \subseteq {"code", "refresh"} \X (CodeIds \cup Pairs) \X Pairs
            BY <1>1, <3>1 DEF RowsOK
        <3>5. made' \in 0 .. MaxPairs
            BY <3>1 DEF Pairs
        <3>6. QED
            BY <1>1, <1>10, <3>3, <3>4, <3>5 DEF Swap, RowsOK
    <2>3. QED
        BY <2>1, <2>2
<1>11. QED
    BY <1>2, <1>3, <1>4, <1>5, <1>6, <1>7, <1>8, <1>9, <1>10
       DEF Developer, Consent, TokenEndpoint


Elsewhere ==
    \/ \E a \in Own : SetRedirectUris(a) \/ SetScopes(a) \/ revokeAuthorization(a)
    \/ deleteExpiredOAuthRows \/ Tick

LEMMA TypeInvElsewhere ==
    ASSUME TypeInv, Elsewhere \/ UNCHANGED vars
    PROVE  TypeInv'
<1>1. RowsOK /\ RequestsOK
    BY TypeInvInParts
<1>2. CASE \E a \in Own : SetRedirectUris(a) \/ SetScopes(a)
    <2>1. PICK a \in Own, us \in (SUBSET Uris) \ {{}}, ss \in (SUBSET Scopes) \ {{}} :
            /\ Live(a)
            /\ \/ apps' = [apps EXCEPT ![a] = [apps[a] EXCEPT !.uris = us]]
               \/ apps' = [apps EXCEPT ![a] = [apps[a] EXCEPT !.scopes = ss]]
        <3>1. CASE \E a \in Own : SetRedirectUris(a)
            <4>1. {s : s \in Scopes} \in (SUBSET Scopes) \ {{}}
                BY UrisAssumption
            <4>2. QED
                BY <3>1, <4>1 DEF SetRedirectUris
        <3>2. CASE \E a \in Own : SetScopes(a)
            <4>1. {u : u \in Uris} \in (SUBSET Uris) \ {{}}
                BY UrisAssumption
            <4>2. QED
                BY <3>2, <4>1 DEF SetScopes
        <3>3. QED
            BY <1>2, <3>1, <3>2
    <2>2. a \in Apps /\ apps[a] \in App
        BY <1>1, <2>1 DEF Own, Live, RowsOK
    <2>3. [apps[a] EXCEPT !.uris = us] \in App /\ [apps[a] EXCEPT !.scopes = ss] \in App
        BY <2>2 DEF App
    <2>4. apps' \in [Apps -> App \cup {None}]
        BY <1>1, <2>1, <2>3 DEF RowsOK
    <2>5. UNCHANGED <<now, codes, grants, issued, made, req, got, refused, consent>>
        BY <1>2 DEF SetRedirectUris, SetScopes
    <2>6. RowsOK' /\ RequestsOK'
        BY <1>1, <2>4, <2>5 DEF RowsOK, RequestsOK
    <2>7. QED
        BY <2>6 DEF TypeInv, TypeOK, RowsOK, RequestsOK
<1>3. CASE \E a \in Own : revokeAuthorization(a)
    <2>1. PICK a \in Own : revokeAuthorization(a)
        BY <1>3
    <2>2. Ends(Of(a)) /\ Of(a) \in SUBSET grants
        BY <2>1 DEF revokeAuthorization, Of
    <2>3. grants' \subseteq Grant
        BY <1>1, <2>2, GrantsAfterEnds
    <2>4. RowsOK' /\ RequestsOK'
        BY <1>1, <2>1, <2>3 DEF revokeAuthorization, RowsOK, RequestsOK
    <2>5. QED
        BY <2>4 DEF TypeInv, TypeOK, RowsOK, RequestsOK
<1>4. CASE deleteExpiredOAuthRows
    <2>1. codes' \in [CodeIds -> Code \cup {None}] /\ grants' \subseteq Grant
        BY <1>1, <1>4 DEF deleteExpiredOAuthRows, RowsOK
    <2>2. RowsOK' /\ RequestsOK'
        BY <1>1, <1>4, <2>1 DEF deleteExpiredOAuthRows, RowsOK, RequestsOK
    <2>3. QED
        BY <2>2 DEF TypeInv, TypeOK, RowsOK, RequestsOK
<1>5. CASE Tick
    <2>1. now' \in 0 .. MaxTime
        BY <1>1, <1>5, Numbers DEF Tick, RowsOK
    <2>2. RowsOK' /\ RequestsOK'
        BY <1>1, <1>5, <2>1 DEF Tick, RowsOK, RequestsOK
    <2>3. QED
        BY <2>2 DEF TypeInv, TypeOK, RowsOK, RequestsOK
<1>6. CASE UNCHANGED vars
    <2>1. RowsOK' /\ RequestsOK'
        BY <1>1, <1>6 DEF vars, RowsOK, RequestsOK
    <2>2. QED
        BY <2>1 DEF TypeInv, TypeOK, RowsOK, RequestsOK
<1>7. QED
    BY <1>2, <1>3, <1>4, <1>5, <1>6 DEF Elsewhere

----------------------------------------------------------------------------
(* What each kind of step does to the codes, the grants and the consent.   *)

OtherInv == CodesInv /\ PairsInv /\ ConsentInv /\ EachWorksOnce /\ ReuseEndsGrant

\* No request claims a code in this step.
NoNewClaims == \A s \in Requests : req'[s].pc = "grant" => req'[s] = req[s]

LEMMA OnlyClaimsClaim ==
    ASSUME TypeInv, NEW r \in Requests, Developer(r) \/ Consent(r) \/ TokenEndpoint(r) \/ Fails(r),
           ~Claim(r)
    PROVE  NoNewClaims
<1>1. req \in [Requests -> Request]
    BY DEF TypeInv, TypeOK
<1>2. ASSUME NEW q, q.pc # "grant", Becomes(r, q)
      PROVE  NoNewClaims
    BY <1>1, <1>2 DEF Becomes, NoNewClaims
<1>3. CASE Becomes(r, Idle)
    <2>1. Idle.pc # "grant"
        BY DEF Idle
    <2>2. QED
        BY <1>2, <1>3, <2>1
<1>4. CASE Count(r)
    <2>1. PICK a, us, ss :
            Becomes(r, [Idle EXCEPT !.pc = "register", !.app = a, !.uris = us, !.scopes = ss])
        BY <1>4 DEF Count, Starts
    <2>2. [Idle EXCEPT !.pc = "register", !.app = a, !.uris = us, !.scopes = ss].pc # "grant"
        BY DEF Idle
    <2>3. QED
        BY <1>2, <2>1, <2>2
<1>5. CASE Remove(r)
    <2>1. PICK a : Becomes(r, [Idle EXCEPT !.pc = "endAll", !.app = a])
        BY <1>5 DEF Remove, Starts
    <2>2. [Idle EXCEPT !.pc = "endAll", !.app = a].pc # "grant"
        BY DEF Idle
    <2>3. QED
        BY <1>2, <2>1, <2>2
<1>6. CASE Approve(r)
    <2>1. PICK a, u, ss :
            Becomes(r, [Idle EXCEPT !.pc = "consent", !.app = a, !.uri = u, !.scopes = ss])
        BY <1>6 DEF Approve, Starts
    <2>2. [Idle EXCEPT !.pc = "consent", !.app = a, !.uri = u, !.scopes = ss].pc # "grant"
        BY DEF Idle
    <2>3. QED
        BY <1>2, <2>1, <2>2
<1>7. CASE Present(r)
    <2>1. CASE \E a, k, listed :
                 Becomes(r, [Idle EXCEPT !.pc = "claim", !.app = a, !.code = k, !.listed = listed])
        <3>1. PICK a, k, listed :
                 Becomes(r, [Idle EXCEPT !.pc = "claim", !.app = a, !.code = k, !.listed = listed])
            BY <2>1
        <3>2. [Idle EXCEPT !.pc = "claim", !.app = a, !.code = k, !.listed = listed].pc # "grant"
            BY DEF Idle
        <3>3. QED
            BY <1>2, <3>1, <3>2
    <2>2. CASE \E a, p : \E pc \in {"swap", "revoke"} :
                 Becomes(r, [Idle EXCEPT !.pc = pc, !.app = a, !.pair = p])
        <3>1. PICK a, p : \E pc \in {"swap", "revoke"} :
                 Becomes(r, [Idle EXCEPT !.pc = pc, !.app = a, !.pair = p])
            BY <2>2
        <3>2. PICK pc \in {"swap", "revoke"} :
                 Becomes(r, [Idle EXCEPT !.pc = pc, !.app = a, !.pair = p])
            BY <3>1
        <3>3. [Idle EXCEPT !.pc = pc, !.app = a, !.pair = p].pc # "grant"
            BY DEF Idle
        <3>4. QED
            BY <1>2, <3>2, <3>3
    <2>3. QED
        BY <1>7, <2>1, <2>2 DEF Present, Starts
<1>8. CASE Swap(r) /\ ~Becomes(r, Idle)
    <2>1. Becomes(r, [req[r] EXCEPT !.pc = "end"])
        BY <1>8 DEF Swap
    <2>2. [req[r] EXCEPT !.pc = "end"].pc # "grant"
        BY <1>1 DEF Request
    <2>3. QED
        BY <1>2, <2>1, <2>2
<1>9. CASE Register(r) \/ RemoveEnds(r) \/ issueCode(r) \/ issueTokens(r) \/ End(r)
           \/ revokeToken(r) \/ Fails(r)
    <2>1. Becomes(r, Idle)
        BY <1>9 DEF Register, RemoveEnds, issueCode, issueTokens, End, revokeToken, Fails
    <2>2. QED
        BY <1>3, <2>1
<1>10. QED
    BY <1>3, <1>4, <1>5, <1>6, <1>7, <1>8, <1>9 DEF Developer, Consent, TokenEndpoint

LEMMA QuietStep ==
    ASSUME OtherInv, NoNewClaims,
           UNCHANGED <<codes, grants, issued, made, got, refused, consent>>
    PROVE  OtherInv'
<1>1. CodesInv'
    BY DEF OtherInv, CodesInv, NoNewClaims, Spent, Redeemed, Granting
<1>2. PairsInv'
    BY DEF OtherInv, PairsInv, Refreshed
<1>3. ConsentInv'
    BY DEF OtherInv, ConsentInv, NoNewClaims
<1>4. EachWorksOnce' /\ ReuseEndsGrant'
    BY DEF OtherInv, EachWorksOnce, ReuseEndsGrant
<1>5. QED
    BY <1>1, <1>2, <1>3, <1>4 DEF OtherInv

LEMMA EndingStep ==
    ASSUME RowsOK, OtherInv, NoNewClaims, NEW S \in SUBSET grants, Ends(S),
           UNCHANGED <<codes, issued, made, got, consent>>,
           \A y \in refused' : y \in refused \/
               (Refreshed(y[2]) /\ \A g \in grants \ S : <<g.app, g.prev>> # y)
    PROVE  OtherInv'
<1>1. grants' = (grants \ S) \cup {Ended(g) : g \in S}
    BY GrantsAfterEnds
<1>2. \A g \in S : /\ Ended(g).ended # None /\ Ended(g).app = g.app
                   /\ Ended(g).scopes = g.scopes
                   /\ Ended(g).pair = g.pair /\ Ended(g).code = g.code
    BY EndedGrant DEF RowsOK
<1>3. \A h \in grants' : \E g \in grants :
        /\ h.app = g.app /\ h.scopes = g.scopes /\ h.pair = g.pair /\ h.code = g.code
        /\ h = IF g \in S THEN Ended(g) ELSE g
    BY <1>1, <1>2
<1>4. CodesInv'
    <2>1. \A k : Redeemed(k)' <=> Redeemed(k)
        BY DEF Redeemed
    <2>2. \A k : Spent(k)' <=> Spent(k)
        BY DEF Spent
    <2>3. \A r \in Requests, k \in CodeIds : Granting(r, k)' => Granting(r, k)
        BY DEF Granting, NoNewClaims
    <2>4. \A g \in grants' : Redeemed(g.code)
        BY <1>3 DEF OtherInv, CodesInv
    <2>5. QED
        BY <2>1, <2>2, <2>3, <2>4 DEF OtherInv, CodesInv
<1>5. PairsInv'
    <2>1. \A p : Refreshed(p)' <=> Refreshed(p)
        BY DEF Refreshed
    <2>2. \A g \in grants' : g.pair \in 1 .. made /\ ~Refreshed(g.pair)
        BY <1>3 DEF OtherInv, PairsInv
    <2>3. \A y \in refused' : Refreshed(y[2])
        BY DEF OtherInv, PairsInv
    <2>4. QED
        BY <2>1, <2>2, <2>3 DEF OtherInv, PairsInv
<1>6. ConsentInv'
    <2>1. \A g \in grants' : consent[g.code] = <<g.app, g.scopes>>
        <3>1. \A g \in grants : consent[g.code] = <<g.app, g.scopes>>
            BY DEF OtherInv, ConsentInv
        <3>2. QED
            BY <1>3, <3>1
    <2>2. QED
        BY <2>1 DEF OtherInv, ConsentInv, NoNewClaims
<1>7. EachWorksOnce'
    <2>1. \A g, h \in grants' : g.pair = h.pair \/ g.code = h.code => g = h
        BY <1>3 DEF OtherInv, EachWorksOnce
    <2>2. QED
        BY <2>1 DEF OtherInv, EachWorksOnce
<1>8. ReuseEndsGrant'
    <2>1. ASSUME NEW g \in grants', g.ended = None
          PROVE  g \in grants \ S
        BY <1>1, <1>2, <2>1
    <2>2. QED
        BY <2>1 DEF OtherInv, ReuseEndsGrant
<1>9. QED
    BY <1>4, <1>5, <1>6, <1>7, <1>8 DEF OtherInv


LEMMA CodeStep ==
    ASSUME TypeInv, OtherInv, NEW r \in Requests, issueCode(r)
    PROVE  OtherInv'
<1> DEFINE k == issued + 1
           c == [app |-> req[r].app, uri |-> req[r].uri, scopes |-> req[r].scopes,
                 until |-> now + CodeLife, used |-> FALSE]
<1>1. RowsOK /\ req \in [Requests -> Request]
    BY TypeInvInParts DEF TypeInv, TypeOK
<1>2. NoNewClaims
    BY OnlyClaimsClaim DEF Consent, Claim, issueCode
<1>3. /\ issued \in Nat /\ k \in CodeIds /\ issued' = k
      /\ codes' = [codes EXCEPT ![k] = c]
      /\ consent' = [consent EXCEPT ![k] = <<req[r].app, req[r].scopes>>]
      /\ UNCHANGED <<now, apps, grants, made, got, refused>>
    BY <1>1, Numbers DEF issueCode, RowsOK, CodeIds
<1>4. /\ codes'[k] = c /\ \A l \in CodeIds \ {k} : codes'[l] = codes[l]
      /\ consent'[k] = <<req[r].app, req[r].scopes>>
      /\ \A l \in CodeIds \ {k} : consent'[l] = consent[l]
    BY <1>1, <1>3 DEF RowsOK
<1>5. \A l \in CodeIds : Spent(l) => l # k /\ Spent(l)'
    BY <1>3, <1>4 DEF Spent
<1>6. \A l : Redeemed(l)' <=> Redeemed(l)
    BY <1>3 DEF Redeemed
<1>7. \A s \in Requests, l \in CodeIds : Granting(s, l)' => Granting(s, l)
    BY <1>2 DEF Granting, NoNewClaims
<1>8. \A g \in grants : g.code \in CodeIds /\ Redeemed(g.code) /\ g.code # k
    BY <1>1, <1>5 DEF RowsOK, Grant, OtherInv, CodesInv
<1>9. CodesInv'
    <2>1. \A l \in CodeIds : codes'[l] # None => l <= issued'
        BY <1>3, <1>4 DEF OtherInv, CodesInv, CodeIds
    <2>2. QED
        BY <1>3, <1>5, <1>6, <1>7, <2>1 DEF OtherInv, CodesInv
<1>10. PairsInv'
    BY <1>3 DEF OtherInv, PairsInv, Refreshed
<1>11. ConsentInv'
    <2>1. \A l \in CodeIds : codes'[l] # None => consent'[l] = <<codes'[l].app, codes'[l].scopes>>
        BY <1>4 DEF OtherInv, ConsentInv
    <2>2. ASSUME NEW s \in Requests, req'[s].pc = "grant"
          PROVE  consent'[req'[s].code] = <<req'[s].app, req'[s].scopes>>
        <3>1. req'[s] = req[s] /\ RequestFit(req[s])
            BY <1>2, <2>2 DEF NoNewClaims, TypeInv
        <3>2. Granting(s, req[s].code) /\ req[s].code \in CodeIds
            BY <2>2, <3>1 DEF Granting, RequestFit
        <3>3. req[s].code # k
            BY <1>5, <3>2 DEF OtherInv, CodesInv
        <3>4. QED
            BY <1>4, <2>2, <3>1, <3>2, <3>3 DEF OtherInv, ConsentInv
    <2>3. \A g \in grants' : consent'[g.code] = <<g.app, g.scopes>>
        BY <1>3, <1>4, <1>8 DEF OtherInv, ConsentInv
    <2>4. QED
        BY <2>1, <2>2, <2>3 DEF ConsentInv
<1>12. EachWorksOnce' /\ ReuseEndsGrant'
    BY <1>3 DEF OtherInv, EachWorksOnce, ReuseEndsGrant
<1>13. QED
    BY <1>9, <1>10, <1>11, <1>12 DEF OtherInv

LEMMA ClaimStep ==
    ASSUME TypeInv, OtherInv, NEW r \in Requests, Claim(r)
    PROVE  OtherInv'
<1>0. PICK k, c : k = req[r].code /\ c = codes[k]
    OBVIOUS
<1>1. RowsOK /\ req \in [Requests -> Request] /\ RequestFit(req[r]) /\ req[r].pc = "claim"
    BY TypeInvInParts DEF TypeInv, TypeOK, Claim
<1>2. UNCHANGED <<grants, issued, made, got, refused, consent>>
    BY DEF Claim
<1>3. CASE Becomes(r, Idle) /\ codes' = codes
    <2>1. NoNewClaims
        BY <1>1, <1>3 DEF NoNewClaims, Becomes, Idle
    <2>2. QED
        BY <1>2, <1>3, <2>1, QuietStep
<1>4. CASE ~(Becomes(r, Idle) /\ codes' = codes)
    <2>1. /\ c # None /\ ~c.used
          /\ codes' = [codes EXCEPT ![k] = [c EXCEPT !.used = TRUE]]
          /\ \/ Becomes(r, Idle)
             \/ /\ c.app = req[r].app
                /\ Becomes(r, [req[r] EXCEPT !.pc = "grant", !.scopes = c.scopes, !.listed = FALSE])
        BY <1>0, <1>4 DEF Claim, Claimable, Fits
    <2>2. k \in CodeIds /\ c \in Code /\ c = codes[k] /\ k = req[r].code
        BY <1>0, <1>1, <2>1 DEF RowsOK, RequestFit
    <2>3. /\ [c EXCEPT !.used = TRUE].used /\ [c EXCEPT !.used = TRUE].app = c.app
          /\ [c EXCEPT !.used = TRUE].scopes = c.scopes
        BY <2>2 DEF Code
    <2>4. /\ codes'[k].used /\ codes'[k].app = c.app /\ codes'[k].scopes = c.scopes
          /\ \A l \in CodeIds \ {k} : codes'[l] = codes[l]
        BY <1>1, <2>1, <2>2, <2>3 DEF RowsOK
    <2>5. k \in 1 .. issued /\ ~Spent(k)
        BY <1>1, <2>1, <2>2 DEF OtherInv, CodesInv, Spent, CodeIds, RowsOK
    <2>6. Spent(k)' /\ \A l \in CodeIds : Spent(l) => Spent(l)'
        <3>1. Spent(k)'
            BY <1>2, <2>4, <2>5 DEF Spent
        <3>2. \A l \in CodeIds \ {k} : Spent(l) => Spent(l)'
            BY <1>2, <2>4 DEF Spent
        <3>3. QED
            BY <3>1, <3>2
    <2>7. \A l : Redeemed(l)' <=> Redeemed(l)
        BY <1>2 DEF Redeemed
    <2>8. /\ \A s \in Requests \ {r} : req'[s] = req[s]
          /\ req'[r].pc = "grant" => /\ req'[r].code = k /\ c.app = req'[r].app
                                     /\ req'[r].scopes = c.scopes
        <3>1. \A s \in Requests \ {r} : req'[s] = req[s]
            BY <1>1, <2>1 DEF Becomes
        <3>2. CASE Becomes(r, Idle)
            BY <1>1, <3>1, <3>2 DEF Becomes, Idle
        <3>3. CASE /\ c.app = req[r].app
                   /\ Becomes(r, [req[r] EXCEPT !.pc = "grant", !.scopes = c.scopes, !.listed = FALSE])
            <4>1. req'[r] = [req[r] EXCEPT !.pc = "grant", !.scopes = c.scopes, !.listed = FALSE]
                BY <1>1, <3>3 DEF Becomes
            <4>2. req[r] \in Request /\ req[r].code = k
                BY <1>1, <2>2
            <4>3. req'[r].code = k /\ req'[r].app = req[r].app /\ req'[r].scopes = c.scopes
                BY <4>1, <4>2 DEF Request
            <4>4. QED
                BY <3>1, <3>3, <4>3
        <3>4. QED
            BY <2>1, <3>2, <3>3
    <2>9. ~Redeemed(k) /\ \A s \in Requests : ~Granting(s, k)
        BY <2>2, <2>5 DEF OtherInv, CodesInv
    <2>10. CodesInv'
        <3>1. \A l \in CodeIds : codes'[l] # None => l <= issued'
            BY <1>2, <2>1, <2>2, <2>4 DEF OtherInv, CodesInv
        <3>2. \A s \in Requests, l \in CodeIds : Granting(s, l)' =>
                (s = r /\ l = k) \/ (s # r /\ l # k /\ Granting(s, l))
            <4>1. ASSUME NEW s \in Requests, NEW l \in CodeIds, Granting(s, l)'
                  PROVE  (s = r /\ l = k) \/ (s # r /\ l # k /\ Granting(s, l))
                <5>1. req'[s].pc = "grant" /\ req'[s].code = l
                    BY <4>1 DEF Granting
                <5>2. CASE s = r
                    BY <2>8, <5>1, <5>2
                <5>3. CASE s # r
                    BY <2>8, <2>9, <5>1, <5>3 DEF Granting
                <5>4. QED
                    BY <5>2, <5>3
            <4>2. QED
                BY <4>1
        <3>3. \A s \in Requests, l \in CodeIds : Granting(s, l)' => Spent(l)' /\ ~Redeemed(l)'
            BY <2>6, <2>7, <2>9, <3>2 DEF OtherInv, CodesInv
        <3>4. \A s, t \in Requests, l \in CodeIds : Granting(s, l)' /\ Granting(t, l)' => s = t
            BY <3>2 DEF OtherInv, CodesInv
        <3>5. QED
            BY <1>2, <2>6, <2>7, <3>1, <3>3, <3>4 DEF OtherInv, CodesInv
    <2>11. PairsInv'
        BY <1>2 DEF OtherInv, PairsInv, Refreshed
    <2>12. ConsentInv'
        <3>1. \A l \in CodeIds : codes'[l] # None => consent[l] = <<codes'[l].app, codes'[l].scopes>>
            BY <2>1, <2>2, <2>4 DEF OtherInv, ConsentInv
        <3>2. consent[k] = <<c.app, c.scopes>>
            BY <2>1, <2>2 DEF OtherInv, ConsentInv
        <3>3. \A s \in Requests : req'[s].pc = "grant" =>
                consent[req'[s].code] = <<req'[s].app, req'[s].scopes>>
            BY <2>8, <3>2 DEF OtherInv, ConsentInv
        <3>4. QED
            BY <1>2, <3>1, <3>3 DEF OtherInv, ConsentInv
    <2>13. EachWorksOnce' /\ ReuseEndsGrant'
        BY <1>2 DEF OtherInv, EachWorksOnce, ReuseEndsGrant
    <2>14. QED
        BY <2>10, <2>11, <2>12, <2>13 DEF OtherInv
<1>5. QED
    BY <1>3, <1>4


LEMMA GrantStep ==
    ASSUME TypeInv, OtherInv, NEW r \in Requests, issueTokens(r)
    PROVE  OtherInv'
<1> DEFINE k == req[r].code
           n == NewGrant(req[r], made')
<1>1. RowsOK /\ req \in [Requests -> Request] /\ req[r].pc = "grant"
    BY TypeInvInParts DEF TypeInv, TypeOK, issueTokens
<1>2. /\ made \in Nat /\ made' = made + 1 /\ k \in CodeIds
      /\ grants' = grants \cup {n}
      /\ got' = got \cup {<<"code", k, made'>>}
      /\ UNCHANGED <<codes, issued, refused, consent>>
    BY <1>1, NewGrantFits DEF RowsOK, issueTokens
<1>3. /\ n.app = req[r].app /\ n.scopes = req[r].scopes /\ n.pair = made' /\ n.code = k
      /\ n.prev = None
    BY DEF NewGrant
<1>4. NoNewClaims /\ req'[r].pc # "grant"
    <2>1. NoNewClaims
        BY OnlyClaimsClaim DEF TokenEndpoint, Claim, issueTokens
    <2>2. QED
        BY <1>1, <2>1 DEF issueTokens, Becomes, Idle
<1>5. Granting(r, k) /\ Spent(k) /\ ~Redeemed(k)
    BY <1>1, <1>2 DEF Granting, OtherInv, CodesInv
<1>6. \A l : Redeemed(l)' <=> (Redeemed(l) \/ l = k)
    <2>1. PICK z : z = <<"code", k, made'>>
        OBVIOUS
    <2>2. got' = got \cup {z} /\ z[1] = "code" /\ z[2] = k
        BY <1>2, <2>1
    <2>3. QED
        BY <2>2 DEF Redeemed
<1>7. \A p : Refreshed(p)' <=> Refreshed(p)
    BY <1>2 DEF Refreshed
<1>8. ~Refreshed(made')
    BY <1>2 DEF OtherInv, PairsInv, Refreshed
<1>9. \A g \in grants : g.pair # made' /\ g.code # k
    BY <1>2, <1>5 DEF OtherInv, PairsInv, CodesInv
<1>10. CodesInv'
    <2>1. \A l : Spent(l)' <=> Spent(l)
        BY <1>2 DEF Spent
    <2>2. \A s \in Requests, l \in CodeIds : Granting(s, l)' => s # r /\ Granting(s, l)
        BY <1>4 DEF Granting, NoNewClaims
    <2>3. \A s \in Requests, l \in CodeIds : Granting(s, l)' => l # k
        BY <1>5, <2>2 DEF OtherInv, CodesInv
    <2>4. \A g \in grants' : Redeemed(g.code)'
        BY <1>2, <1>3, <1>6 DEF OtherInv, CodesInv
    <2>5. QED
        BY <1>2, <1>5, <1>6, <2>1, <2>2, <2>3, <2>4 DEF OtherInv, CodesInv
<1>11. PairsInv'
    <2>1. \A x \in got' : x[1] = "refresh" => x[2] \in 1 .. made'
        BY <1>2 DEF OtherInv, PairsInv
    <2>2. \A g \in grants' : g.pair \in 1 .. made' /\ ~Refreshed(g.pair)
        BY <1>2, <1>3, <1>8 DEF OtherInv, PairsInv
    <2>3. QED
        BY <1>2, <1>7, <2>1, <2>2 DEF OtherInv, PairsInv
<1>12. ConsentInv'
    <2>1. consent[k] = <<n.app, n.scopes>>
        BY <1>1, <1>3 DEF OtherInv, ConsentInv
    <2>2. \A g \in grants' : consent[g.code] = <<g.app, g.scopes>>
        BY <1>2, <1>3, <2>1 DEF OtherInv, ConsentInv
    <2>3. QED
        BY <1>2, <1>4, <2>2 DEF OtherInv, ConsentInv, NoNewClaims
<1>13. EachWorksOnce'
    <2>1. \A x, y \in got' : (x[1] = y[1] /\ x[2] = y[2]) => x = y
        BY <1>2, <1>5 DEF OtherInv, EachWorksOnce, Redeemed
    <2>2. \A g, h \in grants' : g.pair = h.pair \/ g.code = h.code => g = h
        BY <1>2, <1>3, <1>9 DEF OtherInv, EachWorksOnce
    <2>3. QED
        BY <2>1, <2>2 DEF EachWorksOnce
<1>14. ReuseEndsGrant'
    <2>1. <<n.app, n.prev>> \notin refused
        BY <1>1, <1>3, NoneAssumption DEF RowsOK, Pairs
    <2>2. QED
        BY <1>2, <2>1 DEF OtherInv, ReuseEndsGrant
<1>15. QED
    BY <1>10, <1>11, <1>12, <1>13, <1>14 DEF OtherInv

LEMMA SwapStep ==
    ASSUME TypeInv, OtherInv, NEW r \in Requests, Swap(r)
    PROVE  OtherInv'
<1> DEFINE S == Refreshable(req[r])
           p == req[r].pair
<1>1. RowsOK /\ req \in [Requests -> Request] /\ NoNewClaims
    BY TypeInvInParts, OnlyClaimsClaim DEF TypeInv, TypeOK, TokenEndpoint, Claim, Swap
<1>2. UNCHANGED <<codes, issued, refused, consent>>
    BY DEF Swap
<1>3. CASE S = {}
    BY <1>1, <1>2, <1>3, QuietStep DEF Swap
<1>4. CASE S # {}
    <2>1. /\ made \in Nat /\ made' = made + 1 /\ made' \in Pairs
          /\ grants' = (grants \ S) \cup {Swapped(g, made') : g \in S}
          /\ got' = got \cup {<<"refresh", p, made'>>}
        BY <1>1, <1>4, SwapOfTokens DEF RowsOK
    <2>2. PICK g \in grants : g \in S
        BY <1>4 DEF Refreshable, Of
    <2>3. g.pair = p /\ S = {g}
        BY <2>2 DEF Refreshable, Of, OtherInv, EachWorksOnce
    <2>4. PICK n : n = Swapped(g, made')
        OBVIOUS
    <2>5. /\ n.pair = made' /\ n.prev = p /\ n.app = g.app /\ n.scopes = g.scopes
          /\ n.code = g.code /\ n.ended = g.ended
        BY <1>1, <2>1, <2>3, <2>4, SwappedGrant DEF RowsOK
    <2>6. grants' = (grants \ {g}) \cup {n}
        BY <2>1, <2>3, <2>4
    <2>7. p \in 1 .. made /\ ~Refreshed(p)
        BY <2>2, <2>3 DEF OtherInv, PairsInv
    <2>8. \A l : Redeemed(l)' <=> Redeemed(l)
        BY <2>1 DEF Redeemed
    <2>9. \A q : Refreshed(q)' <=> (Refreshed(q) \/ q = p)
        <3>1. PICK z : z = <<"refresh", p, made'>>
            OBVIOUS
        <3>2. got' = got \cup {z} /\ z[1] = "refresh" /\ z[2] = p
            BY <2>1, <3>1
        <3>3. QED
            BY <3>2 DEF Refreshed
    <2>10. \A h \in grants \ {g} : h.pair # p /\ h.code # g.code /\ h.pair # made'
        BY <2>1, <2>3 DEF OtherInv, EachWorksOnce, PairsInv
    <2>11. CodesInv'
        <3>1. \A l : Spent(l)' <=> Spent(l)
            BY <1>2 DEF Spent
        <3>2. \A s \in Requests, l \in CodeIds : Granting(s, l)' => Granting(s, l)
            BY <1>1 DEF Granting, NoNewClaims
        <3>3. \A h \in grants' : Redeemed(h.code)
            BY <2>5, <2>6 DEF OtherInv, CodesInv
        <3>4. QED
            BY <1>2, <2>8, <3>1, <3>2, <3>3 DEF OtherInv, CodesInv
    <2>12. PairsInv'
        <3>1. \A x \in got' : x[1] = "refresh" => x[2] \in 1 .. made'
            BY <2>1, <2>7 DEF OtherInv, PairsInv
        <3>2. ~Refreshed(made')
            BY <2>1 DEF OtherInv, PairsInv, Refreshed
        <3>3. \A h \in grants' : h.pair \in 1 .. made' /\ ~Refreshed(h.pair) /\ h.pair # p
            BY <2>1, <2>5, <2>6, <2>7, <2>10, <3>2 DEF OtherInv, PairsInv
        <3>4. \A y \in refused : Refreshed(y[2])
            BY DEF OtherInv, PairsInv
        <3>5. QED
            BY <1>2, <2>9, <3>1, <3>3, <3>4 DEF PairsInv
    <2>13. ConsentInv'
        <3>1. \A h \in grants' : consent[h.code] = <<h.app, h.scopes>>
            BY <2>5, <2>6 DEF OtherInv, ConsentInv
        <3>2. QED
            BY <1>1, <1>2, <3>1 DEF OtherInv, ConsentInv, NoNewClaims
    <2>14. EachWorksOnce'
        <3>1. \A x, y \in got' : (x[1] = y[1] /\ x[2] = y[2]) => x = y
            BY <2>1, <2>7 DEF OtherInv, EachWorksOnce, Refreshed
        <3>2. \A h, i \in grants' : h.pair = i.pair \/ h.code = i.code => h = i
            BY <2>5, <2>6, <2>10 DEF OtherInv, EachWorksOnce
        <3>3. QED
            BY <3>1, <3>2 DEF EachWorksOnce
    <2>15. ReuseEndsGrant'
        <3>1. <<n.app, n.prev>> \notin refused
            BY <2>5, <2>7 DEF OtherInv, PairsInv
        <3>2. QED
            BY <1>2, <2>6, <3>1 DEF OtherInv, ReuseEndsGrant
    <2>16. QED
        BY <2>11, <2>12, <2>13, <2>14, <2>15 DEF OtherInv
<1>5. QED
    BY <1>3, <1>4


LEMMA DeletionStep ==
    ASSUME RowsOK, OtherInv, deleteExpiredOAuthRows
    PROVE  OtherInv'
<1>1. /\ UNCHANGED <<issued, made, req, got, refused, consent>>
      /\ grants' \subseteq grants
      /\ \A k \in CodeIds : codes'[k] \in {codes[k], None}
    BY DEF deleteExpiredOAuthRows
<1>2. CodesInv'
    <2>1. \A k \in CodeIds : Spent(k) => Spent(k)'
        BY <1>1 DEF Spent
    <2>2. \A k : Redeemed(k)' <=> Redeemed(k)
        BY <1>1 DEF Redeemed
    <2>3. \A r \in Requests, k \in CodeIds : Granting(r, k)' <=> Granting(r, k)
        BY <1>1 DEF Granting
    <2>4. \A k \in CodeIds : codes'[k] # None => k <= issued'
        BY <1>1 DEF OtherInv, CodesInv
    <2>5. QED
        BY <1>1, <2>1, <2>2, <2>3, <2>4 DEF OtherInv, CodesInv
<1>3. PairsInv'
    BY <1>1 DEF OtherInv, PairsInv, Refreshed
<1>4. ConsentInv'
    BY <1>1 DEF OtherInv, ConsentInv
<1>5. EachWorksOnce' /\ ReuseEndsGrant'
    BY <1>1 DEF OtherInv, EachWorksOnce, ReuseEndsGrant
<1>6. QED
    BY <1>2, <1>3, <1>4, <1>5 DEF OtherInv

LEMMA EndOfReplaced ==
    ASSUME TypeInv, OtherInv, NEW r \in Requests, End(r)
    PROVE  OtherInv'
<1>1. RowsOK /\ NoNewClaims
    BY TypeInvInParts, OnlyClaimsClaim DEF TokenEndpoint, Claim, End
<1>2. Ends(Replaced(req[r])) /\ Replaced(req[r]) \in SUBSET grants
    BY EndedSets
<1>3. UNCHANGED <<codes, issued, made, got, consent>>
    BY DEF End
<1>4. refused' = refused \cup
        {<<req[r].app, x[2]>> : x \in {y \in got : y[1] = "refresh" /\ y[2] = req[r].pair}}
    BY DEF End
<1>5. ASSUME NEW y \in refused', y \notin refused
      PROVE  Refreshed(y[2]) /\ \A g \in grants \ Replaced(req[r]) : <<g.app, g.prev>> # y
    <2>1. PICK x \in got : x[1] = "refresh" /\ x[2] = req[r].pair /\ y = <<req[r].app, x[2]>>
        BY <1>4, <1>5
    <2>2. Refreshed(y[2])
        BY <2>1 DEF Refreshed
    <2>3. \A g \in grants \ Replaced(req[r]) : ~(g.app = req[r].app /\ g.prev = req[r].pair)
        BY DEF Replaced, Of
    <2>4. QED
        BY <2>1, <2>2, <2>3
<1>6. QED
    BY <1>1, <1>2, <1>3, <1>5, EndingStep

----------------------------------------------------------------------------
(* The theorems.                                                           *)

LEMMA InitHolds == Init => IInv
<1> SUFFICES ASSUME Init PROVE IInv
    OBVIOUS
<1>1. \A a \in Others : [live |-> TRUE, uris |-> Uris, scopes |-> Scopes] \in App
    <2>1. {u : u \in Uris} = Uris /\ Uris # {} /\ Scopes # {}
        BY UrisAssumption
    <2>2. PICK us \in (SUBSET Uris) \ {{}}, ss \in (SUBSET Scopes) \ {{}} : us = Uris /\ ss = Scopes
        BY <2>1
    <2>3. QED
        BY <2>2 DEF App
<1>2. RowsOK
    <2>1. apps \in [Apps -> App \cup {None}]
        BY <1>1 DEF Init
    <2>2. now \in 0 .. MaxTime /\ issued \in 0 .. MaxCodes /\ made \in 0 .. MaxPairs
        BY Numbers DEF Init
    <2>3. /\ codes \in [CodeIds -> Code \cup {None}] /\ grants \subseteq Grant
          /\ consent \in [CodeIds -> (Apps \X SUBSET Scopes) \cup {None}]
        BY DEF Init
    <2>4. got = {} /\ refused = {}
        BY DEF Init
    <2>5. QED
        BY <2>1, <2>2, <2>3, <2>4 DEF RowsOK
<1>3. RequestsOK
    BY IdleFits DEF Init, RequestsOK
<1>4. TypeInv
    BY <1>2, <1>3, TypeInvInParts
<1>5. \A r \in Requests : req[r].pc # "grant"
    BY DEF Init, Idle
<1>6. CodesInv
    BY <1>5 DEF Init, CodesInv, Redeemed, Granting
<1>7. PairsInv /\ EachWorksOnce /\ ReuseEndsGrant
    BY DEF Init, PairsInv, EachWorksOnce, ReuseEndsGrant
<1>8. ConsentInv
    BY <1>5 DEF Init, ConsentInv
<1>9. QED
    BY <1>4, <1>6, <1>7, <1>8 DEF IInv

LEMMA RequestsKeepInv ==
    ASSUME TypeInv, OtherInv, NEW r \in Requests,
           Developer(r) \/ Consent(r) \/ TokenEndpoint(r) \/ Fails(r)
    PROVE  TypeInv' /\ OtherInv'
<1>1. TypeInv'
    <2>1. RowsOK' /\ RequestsOK'
        BY RowsKept, RequestsKept
    <2>2. QED
        BY <2>1 DEF TypeInv, TypeOK, RowsOK, RequestsOK
<1>2. RowsOK
    BY TypeInvInParts
<1>3. ~Claim(r) => NoNewClaims
    BY OnlyClaimsClaim
<1>4. CASE Claim(r)
    BY <1>1, <1>4, ClaimStep
<1>5. CASE issueCode(r)
    BY <1>1, <1>5, CodeStep
<1>6. CASE issueTokens(r)
    BY <1>1, <1>6, GrantStep
<1>7. CASE Swap(r)
    BY <1>1, <1>7, SwapStep
<1>8. CASE End(r)
    BY <1>1, <1>8, EndOfReplaced
<1>9. CASE (RemoveEnds(r) \/ revokeToken(r)) /\ ~Claim(r)
    <2>1. UNCHANGED <<codes, issued, made, got, refused, consent>>
        BY <1>9 DEF RemoveEnds, revokeToken
    <2>2. PICK S \in SUBSET grants : Ends(S)
        BY <1>9, EndedSets
    <2>3. QED
        BY <1>1, <1>2, <1>3, <1>9, <2>1, <2>2, EndingStep
<1>10. CASE (Count(r) \/ Register(r) \/ Remove(r) \/ Approve(r) \/ Present(r) \/ Fails(r)) /\ ~Claim(r)
    <2>1. UNCHANGED <<codes, grants, issued, made, got, refused, consent>>
        BY <1>10 DEF Count, Register, Remove, Approve, Present, Fails
    <2>2. QED
        BY <1>1, <1>3, <1>10, <2>1, QuietStep
<1>11. QED
    BY <1>4, <1>5, <1>6, <1>7, <1>8, <1>9, <1>10 DEF Developer, Consent, TokenEndpoint

LEMMA ElsewhereKeepsInv ==
    ASSUME TypeInv, OtherInv, Elsewhere \/ UNCHANGED vars
    PROVE  TypeInv' /\ OtherInv'
<1>1. TypeInv' /\ RowsOK
    BY TypeInvElsewhere, TypeInvInParts
<1>2. CASE \E a \in Own : revokeAuthorization(a)
    <2>1. PICK a \in Own : revokeAuthorization(a)
        BY <1>2
    <2>2. Ends(Of(a)) /\ Of(a) \in SUBSET grants
        BY <2>1 DEF revokeAuthorization, Of
    <2>3. NoNewClaims /\ UNCHANGED <<codes, issued, made, got, refused, consent>>
        BY <2>1 DEF revokeAuthorization, NoNewClaims
    <2>4. QED
        BY <1>1, <2>2, <2>3, EndingStep
<1>3. CASE deleteExpiredOAuthRows
    BY <1>1, <1>3, DeletionStep
<1>4. CASE (\E a \in Own : SetRedirectUris(a) \/ SetScopes(a)) \/ Tick \/ UNCHANGED vars
    <2>1. NoNewClaims /\ UNCHANGED <<codes, grants, issued, made, got, refused, consent>>
        BY <1>4 DEF SetRedirectUris, SetScopes, Tick, vars, NoNewClaims
    <2>2. QED
        BY <1>1, <2>1, QuietStep
<1>5. QED
    BY <1>2, <1>3, <1>4 DEF Elsewhere

LEMMA InvIsKept == IInv /\ [Next]_vars => IInv'
<1> SUFFICES ASSUME IInv, [Next]_vars PROVE IInv'
    OBVIOUS
<1>1. TypeInv /\ OtherInv
    BY DEF IInv, OtherInv
<1>2. \/ \E r \in Requests : Developer(r) \/ Consent(r) \/ TokenEndpoint(r) \/ Fails(r)
      \/ Elsewhere \/ UNCHANGED vars
    BY DEF Next, Elsewhere
<1>3. TypeInv' /\ OtherInv'
    BY <1>1, <1>2, RequestsKeepInv, ElsewhereKeepsInv
<1>4. QED
    BY <1>3 DEF IInv, OtherInv

\* Rows and requests keep their form (oauth.ts, migrations 0022 and 0025).
THEOREM TypeCorrect == Spec => []TypeOK
<1>1. IInv => TypeOK
    BY DEF IInv, TypeInv
<1>2. QED
    BY <1>1, InitHolds, InvIsKept, PTL DEF Spec

\* However many requests present a code or a refresh token at once, one of them gets
\* a pair of tokens for it (exchangeCode and refreshTokens of oauth.ts).
THEOREM CodesAndTokensWorkOnce == Spec => []EachWorksOnce
<1>1. IInv => EachWorksOnce
    BY DEF IInv
<1>2. QED
    BY <1>1, InitHolds, InvIsKept, PTL DEF Spec

\* Whatever comes between a refresh and the reuse of its token, a reuse leaves no
\* grant that remembers it (refreshTokens of oauth.ts).
THEOREM ReuseAlwaysEndsGrant == Spec => []ReuseEndsGrant
<1>1. IInv => ReuseEndsGrant
    BY DEF IInv
<1>2. QED
    BY <1>1, InitHolds, InvIsKept, PTL DEF Spec

\* Through any number of exchanges and refreshes an access token opens no more than
\* was agreed to, for the app it was agreed to for (verifyAccessToken of oauth.ts).
THEOREM AccessIsAlwaysConsentedTo == Spec => []AccessWasConsentedTo
<1>1. IInv => AccessWasConsentedTo
    <2>1. SUFFICES ASSUME IInv, NEW g \in grants, Opens(g) # {}
                   PROVE  /\ consent[g.code] # None /\ consent[g.code][1] = g.app
                          /\ Opens(g) \subseteq consent[g.code][2] \cap apps[g.app].scopes
        BY DEF AccessWasConsentedTo
    <2>2. consent[g.code] = <<g.app, g.scopes>>
        BY <2>1 DEF IInv, ConsentInv
    <2>3. g \in Grant
        BY <2>1 DEF IInv, TypeInv, TypeOK
    <2>4. <<g.app, g.scopes>> # None
        BY <2>3, NoneAssumption DEF Grant
    <2>5. Opens(g) \subseteq g.scopes \cap apps[g.app].scopes
        BY DEF Opens
    <2>6. QED
        BY <2>2, <2>4, <2>5
<1>2. QED
    BY <1>1, InitHolds, InvIsKept, PTL DEF Spec

=============================================================================
