------------------------- MODULE GatewayKeysProofs -------------------------
(***************************************************************************)
(* Proofs about GatewayKeys, for any keys, APIs, backend keys, requests,   *)
(* cap and batch, in three parts: types; that nobody revokes a backend key *)
(* in use, when every COMMIT is answered; and that GatewayKeys then        *)
(* implements BackendCredentials.                                          *)
(***************************************************************************)
EXTENDS GatewayKeys, TLAPS

USE DEF upstreamVars, rows, jobs


----------------------------------------------------------------------------
(* The operators.                                                          *)

LEMMA WorkType ==
  ASSUME NEW pc \in RequestPc, NEW k \in Keys \cup {None}, NEW S \in SUBSET Services
  PROVE  Work(pc, k, S) \in Request
  BY DEF Work, Request

LEMMA DiscardingType ==
  ASSUME NEW ids \in SUBSET Backends
  PROVE  Discarding(ids) \in Request
  BY DEF Discarding, Idle, Work, Request, RequestPc

LEMMA RevokeEachType ==
  ASSUME NEW K \in SUBSET Keys, NEW k \in Keys \cup {None},
         NEW then \in {"return", "deleteKey", "deleteAccount"}
  PROVE  /\ RevokeEach(K, then, k) \in Request
         /\ RevokeEach(K, then, k).pc \in {"idle", "revokeRead", "delete"}
         /\ RevokeEach(K, then, k).pc = "revokeRead" =>
              RevokeEach(K, then, k).key \in Keys
         /\ RevokeEach(K, then, k).ids = {}
<1>1. CASE K = {}
  BY <1>1 DEF RevokeEach, Idle, Work, Request, RequestPc
<1>2. CASE K # {}
  <2> DEFINE next == CHOOSE x \in K : TRUE
  <2>1. next \in K
    BY <1>2
  <2>2. RevokeEach(K, then, k) =
          [Work("revokeRead", next, {}) EXCEPT !.rest = K \ {next}, !.then = then]
    BY <1>2 DEF RevokeEach
  <2> HIDE DEF next
  <2>3. QED
    BY <2>1, <2>2 DEF Work, Request, RequestPc
<1>3. QED
  BY <1>1, <1>2

LEMMA AfterRevokeType ==
  ASSUME NEW r \in Request
  PROVE  /\ AfterRevoke(r) \in Request
         /\ AfterRevoke(r).pc \in {"idle", "revokeRead", "delete"}
         /\ AfterRevoke(r).pc = "revokeRead" => AfterRevoke(r).key \in Keys
         /\ AfterRevoke(r).ids = {}
  BY RevokeEachType DEF AfterRevoke, Request

LEMMA BackendsOfType ==
  ASSUME NEW G \in SUBSET Grant
  PROVE  BackendsOf(G) \subseteq Backends
  BY DEF BackendsOf, Grant

----------------------------------------------------------------------------
(* Type correctness.  A request in flight knows its key, and the backend   *)
(* keys it is to grant belong to an API: the rows it inserts name both.    *)

KeyedPc == {"create", "addRead", "add", "removeRead", "remove", "revokeRead",
            "revokeMark", "revokeList", "revokeUpstream"}

\* a: the backend keys' APIs.
Keyed(r, a) ==
    /\ r.pc \in KeyedPc => r.key \in Keys
    /\ r.pc = "addRead" => r.ids = {}
    /\ r.pc \in {"create", "add"} => \A b \in r.ids : a[b] \in Brokered

RowsOK ==
    /\ account \in BOOLEAN
    /\ key \in [Keys -> KeyState]
    /\ grants \subseteq Grant
    /\ queue \subseteq Backends

UpstreamOK ==
    /\ upstream \in [Backends -> {"unminted", "live", "revoked"}]
    /\ label \in [Backends -> Keys \cup {None}]
    /\ at \in [Backends -> Brokered \cup {None}]

JobsOK == sweep \in SweepRun /\ recon \in ReconRun

RequestsOK == req \in [Requests -> Request] /\ \A h \in Requests : Keyed(req[h], at)

TypeInv == RowsOK /\ UpstreamOK /\ JobsOK /\ RequestsOK

\* A backend key stays with its API.
AtKept == \A b \in Backends : at[b] \in Brokered => at'[b] \in Brokered

LEMMA RevokeUpstreamType ==
  ASSUME UpstreamOK, NEW B, RevokeUpstream(B)
  PROVE  UpstreamOK' /\ AtKept
  BY DEF RevokeUpstream, UpstreamOK, AtKept

LEMMA IssueType ==
  ASSUME UpstreamOK, NEW b \in Backends, NEW s \in Brokered, NEW k \in Keys \cup {None},
         Issue(b, s, k)
  PROVE  UpstreamOK' /\ AtKept /\ at'[b] \in Brokered
  BY DEF Issue, UpstreamOK, AtKept

LEMMA SameUpstreamType ==
  ASSUME UpstreamOK, UNCHANGED upstreamVars
  PROVE  UpstreamOK' /\ AtKept
  BY DEF UpstreamOK, AtKept

LEMMA SameRowsType ==
  ASSUME RowsOK, UNCHANGED rows
  PROVE  RowsOK'
  BY DEF RowsOK

LEMMA SameJobsType ==
  ASSUME JobsOK, UNCHANGED jobs
  PROVE  JobsOK'
  BY DEF JobsOK

\* The requests stay well formed when one of them becomes a well formed r.
LEMMA BecomesType ==
  ASSUME RequestsOK, NEW h \in Requests, NEW r \in Request, Becomes(h, r),
         Keyed(r, at'), AtKept
  PROVE  RequestsOK'
<1>1. req' \in [Requests -> Request]
  BY DEF Becomes, RequestsOK
<1>2. ASSUME NEW i \in Requests PROVE Keyed(req'[i], at')
  <2>1. CASE i = h
    <3>1. req'[i] = r
      BY <2>1 DEF Becomes, RequestsOK
    <3>2. QED
      BY <3>1 DEF Keyed
  <2>2. CASE i # h
    <3>1. req'[i] = req[i] /\ req[i].ids \subseteq Backends /\ Keyed(req[i], at)
      BY <2>2 DEF Becomes, RequestsOK, Request
    <3>2. QED
      BY <3>1 DEF Keyed, AtKept
  <2>3. QED
    BY <2>1, <2>2
<1>3. QED
  BY <1>1, <1>2 DEF RequestsOK

LEMMA SameRequestsType ==
  ASSUME RequestsOK, UNCHANGED req, AtKept
  PROVE  RequestsOK'
<1>1. ASSUME NEW i \in Requests PROVE Keyed(req'[i], at')
  <2>1. req'[i] = req[i] /\ req[i].ids \subseteq Backends /\ Keyed(req[i], at)
    BY DEF RequestsOK, Request
  <2>2. QED
    BY <2>1 DEF Keyed, AtKept
<1>2. QED
  BY <1>1 DEF RequestsOK

LEMMA InitType == ASSUME Init PROVE TypeInv
<1>1. Idle \in Request /\ Idle.pc = "idle"
  BY DEF Idle, Work, Request, RequestPc
<1>2. RequestsOK
  BY <1>1 DEF Init, RequestsOK, Keyed, KeyedPc
<1>3. RowsOK /\ UpstreamOK /\ JobsOK
  BY DEF Init, RowsOK, UpstreamOK, JobsOK, KeyState, SweepIdle, ReconIdle,
         SweepRun, ReconRun
<1>4. QED
  BY <1>2, <1>3 DEF TypeInv

\* A step of request h that writes nothing but what h is at.
LEMMA ReadStepType ==
  ASSUME TypeInv, NEW h \in Requests, NEW r \in Request, Becomes(h, r), Keyed(r, at),
         UNCHANGED <<rows, upstreamVars, jobs>>
  PROVE  TypeInv'
<1>1. RowsOK' /\ UpstreamOK' /\ JobsOK' /\ AtKept
  BY SameRowsType, SameUpstreamType, SameJobsType DEF TypeInv
<1>2. Keyed(r, at')
  BY DEF Keyed
<1>3. RequestsOK'
  BY <1>1, <1>2, BecomesType DEF TypeInv
<1>4. QED
  BY <1>1, <1>3 DEF TypeInv

LEMMA WorkKeyed ==
  ASSUME NEW pc \in RequestPc, NEW k \in Keys, NEW S \in SUBSET Services
  PROVE  Keyed(Work(pc, k, S), at)
  BY DEF Keyed, Work

LEMMA DiscardingKeyed ==
  ASSUME NEW ids \in SUBSET Backends
  PROVE  Keyed(Discarding(ids), at) /\ Discarding(ids).pc \in {"idle", "discard"}
  BY DEF Keyed, KeyedPc, Discarding, Idle, Work

LEMMA RevokeEachKeyed ==
  ASSUME NEW K \in SUBSET Keys, NEW k \in Keys \cup {None},
         NEW then \in {"return", "deleteKey", "deleteAccount"}
  PROVE  Keyed(RevokeEach(K, then, k), at)
  BY RevokeEachType DEF Keyed, KeyedPc

LEMMA AfterRevokeKeyed ==
  ASSUME NEW r \in Request
  PROVE  Keyed(AfterRevoke(r), at)
  BY AfterRevokeType DEF Keyed, KeyedPc

\* What a request is at, given the invariant.
LEMMA InFlight ==
  ASSUME TypeInv, NEW h \in Requests
  PROVE  /\ req[h] \in Request
         /\ Keyed(req[h], at)
         /\ req[h].key \in Keys \cup {None}
         /\ req[h].services \subseteq Services
         /\ req[h].ids \subseteq Backends
         /\ req[h].rest \subseteq Keys
  BY DEF TypeInv, RequestsOK, Request

LEMMA StartType ==
  ASSUME TypeInv, NEW h \in Requests, AddStart(h) \/ RemoveStart(h)
  PROVE  TypeInv'
<1>1. PICK k \in Keys, s \in Services, pc \in {"addRead", "removeRead"} :
        Becomes(h, Work(pc, k, {s}))
  BY DEF AddStart, RemoveStart, Active
<1>2. Work(pc, k, {s}) \in Request /\ Keyed(Work(pc, k, {s}), at)
  BY WorkType, WorkKeyed DEF RequestPc
<1>3. UNCHANGED <<rows, upstreamVars, jobs>>
  BY DEF AddStart, RemoveStart
<1>4. QED
  BY <1>1, <1>2, <1>3, ReadStepType

LEMMA RevokeStartType ==
  ASSUME TypeInv, NEW h \in Requests, RevokeStart(h)
  PROVE  TypeInv'
<1>1. PICK K \in SUBSET Keys, k \in Keys \cup {None},
           then \in {"return", "deleteKey", "deleteAccount"} :
        Becomes(h, RevokeEach(K, then, k))
  <2>1. Active \subseteq Keys
    BY DEF Active
  <2>2. QED
    BY <2>1 DEF RevokeStart
<1>2. UNCHANGED <<rows, upstreamVars, jobs>>
  BY DEF RevokeStart
<1>3. QED
  BY <1>1, <1>2, RevokeEachType, RevokeEachKeyed, ReadStepType

\* AddRead, RemoveRead, RevokeRead, RevokeList, RevokeEnd, MintFails,
\* InsertFails and QueryFails: the request goes on, or ends.
LEMMA GoesOnType ==
  ASSUME TypeInv, NEW h \in Requests,
         \/ AddRead(h) \/ RemoveRead(h) \/ RevokeRead(h) \/ RevokeList(h)
         \/ RevokeEnd(h) \/ MintFails(h) \/ InsertFails(h) \/ QueryFails(h)
  PROVE  TypeInv'
<1> DEFINE r == req[h]
           listed == BackendsOf({g \in GrantsOf(r.key) : g.service \in Brokered})
<1>1. r \in Request /\ Keyed(r, at) /\ r.ids \subseteq Backends
  BY InFlight
<1>2. UNCHANGED <<rows, upstreamVars, jobs>>
  BY DEF AddRead, RemoveRead, RevokeRead, RevokeList, RevokeEnd, MintFails,
         InsertFails, QueryFails
<1>3. Idle \in Request /\ Keyed(Idle, at)
  BY DEF Idle, Work, Request, RequestPc, Keyed, KeyedPc
<1>4. CASE AddRead(h)
  <2>1. [r EXCEPT !.pc = "add"] \in Request
    BY <1>1 DEF Request, RequestPc
  <2>2. Keyed([r EXCEPT !.pc = "add"], at)
    BY <1>1, <1>4 DEF AddRead, Keyed, KeyedPc, Request
  <2>3. Becomes(h, Idle) \/ Becomes(h, [r EXCEPT !.pc = "add"])
    BY <1>4 DEF AddRead
  <2>4. QED
    BY <2>1, <2>2, <2>3, <1>2, <1>3, ReadStepType
<1>5. CASE RemoveRead(h)
  <2>1. [r EXCEPT !.pc = "remove"] \in Request
    BY <1>1 DEF Request, RequestPc
  <2>2. Keyed([r EXCEPT !.pc = "remove"], at)
    BY <1>1, <1>5 DEF RemoveRead, Keyed, KeyedPc, Request
  <2>3. Becomes(h, Idle) \/ Becomes(h, [r EXCEPT !.pc = "remove"])
    BY <1>5 DEF RemoveRead
  <2>4. QED
    BY <2>1, <2>2, <2>3, <1>2, <1>3, ReadStepType
<1>6. CASE RevokeRead(h)
  <2>1. [r EXCEPT !.pc = "revokeMark"] \in Request
    BY <1>1 DEF Request, RequestPc
  <2>2. Keyed([r EXCEPT !.pc = "revokeMark"], at)
    BY <1>1, <1>6 DEF RevokeRead, Keyed, KeyedPc, Request
  <2>3. Becomes(h, AfterRevoke(r)) \/ Becomes(h, [r EXCEPT !.pc = "revokeMark"])
    BY <1>6 DEF RevokeRead
  <2>4. QED
    BY <2>1, <2>2, <2>3, <1>1, <1>2, AfterRevokeType, AfterRevokeKeyed, ReadStepType
<1>7. CASE RevokeList(h)
  <2>1. listed \subseteq Backends
    BY BackendsOfType DEF TypeInv, RowsOK, GrantsOf
  <2>2. [r EXCEPT !.pc = "revokeUpstream", !.ids = listed] \in Request
    BY <1>1, <2>1 DEF Request, RequestPc
  <2>3. Keyed([r EXCEPT !.pc = "revokeUpstream", !.ids = listed], at)
    BY <1>1, <1>7 DEF RevokeList, Keyed, KeyedPc, Request
  <2>4. Becomes(h, [r EXCEPT !.pc = "revokeUpstream", !.ids = listed])
    BY <1>7 DEF RevokeList
  <2>5. QED
    BY <2>2, <2>3, <2>4, <1>2, ReadStepType
<1>8. CASE RevokeEnd(h)
  <2>1. Becomes(h, AfterRevoke(r))
    BY <1>8 DEF RevokeEnd
  <2>2. QED
    BY <2>1, <1>1, <1>2, AfterRevokeType, AfterRevokeKeyed, ReadStepType
<1>9. CASE MintFails(h) \/ InsertFails(h)
  <2>1. Becomes(h, Discarding(r.ids))
    BY <1>9 DEF MintFails, InsertFails
  <2>2. QED
    BY <2>1, <1>1, <1>2, DiscardingType, DiscardingKeyed, ReadStepType
<1>10. CASE QueryFails(h)
  <2>1. Becomes(h, Idle) \/ Becomes(h, AfterRevoke(r))
    BY <1>10 DEF QueryFails
  <2>2. QED
    BY <2>1, <1>1, <1>2, <1>3, AfterRevokeType, AfterRevokeKeyed, ReadStepType
<1>11. QED
  BY <1>4, <1>5, <1>6, <1>7, <1>8, <1>9, <1>10

LEMMA CreateStartType ==
  ASSUME TypeInv, NEW h \in Requests, CreateStart(h)
  PROVE  TypeInv'
<1>1. PICK k \in Keys, S \in SUBSET Services :
        /\ key' = [key EXCEPT ![k] = "reserved"]
        /\ Becomes(h, Work("create", k, S))
  BY DEF CreateStart
<1>2. /\ UNCHANGED <<account, grants, queue>>
      /\ UNCHANGED upstreamVars
      /\ UNCHANGED jobs
  BY DEF CreateStart
<1>3. RowsOK'
  BY <1>1, <1>2 DEF TypeInv, RowsOK, KeyState
<1>4. UpstreamOK' /\ JobsOK' /\ AtKept
  BY <1>2, SameUpstreamType, SameJobsType DEF TypeInv
<1>5. Work("create", k, S) \in Request /\ Keyed(Work("create", k, S), at')
  BY WorkType DEF RequestPc, Keyed, Work
<1>6. RequestsOK'
  BY <1>1, <1>4, <1>5, BecomesType DEF TypeInv
<1>7. QED
  BY <1>3, <1>4, <1>6 DEF TypeInv

\* Mint and MintReplyLost: a backend key is issued, and known or not.
LEMMA MintType ==
  ASSUME TypeInv, NEW h \in Requests, Mint(h) \/ MintReplyLost(h)
  PROVE  TypeInv'
<1> DEFINE r == req[h]
<1>1. r \in Request /\ Keyed(r, at) /\ r.ids \subseteq Backends /\ r.pc \in {"create", "add"}
  BY InFlight DEF Mint, MintReplyLost
<1>2. PICK s \in Brokered, b \in Backends :
        /\ Issue(b, s, r.key)
        /\ \/ Becomes(h, [r EXCEPT !.ids = @ \cup {b}])
           \/ Becomes(h, Discarding(r.ids))
  BY DEF Mint, MintReplyLost, Unminted
<1>3. UNCHANGED rows /\ UNCHANGED jobs
  BY DEF Mint, MintReplyLost
<1>4. UpstreamOK' /\ AtKept /\ at'[b] \in Brokered
  BY <1>1, <1>2, IssueType DEF TypeInv, Keyed, KeyedPc
<1>5. RowsOK' /\ JobsOK'
  BY <1>3, SameRowsType, SameJobsType DEF TypeInv
<1>6. CASE Becomes(h, [r EXCEPT !.ids = @ \cup {b}])
  <2> DEFINE q == [r EXCEPT !.ids = @ \cup {b}]
  <2>1. /\ q \in Request
        /\ q.pc = r.pc /\ q.key = r.key /\ q.ids = r.ids \cup {b}
    BY <1>1 DEF Request
  <2> HIDE DEF q
  <2>2. Keyed(q, at')
    BY <1>1, <1>4, <2>1 DEF Keyed, KeyedPc, AtKept
  <2>3. RequestsOK'
    BY <1>4, <1>6, <2>1, <2>2, BecomesType DEF TypeInv, q
  <2>4. QED
    BY <1>4, <1>5, <2>3 DEF TypeInv
<1>7. CASE Becomes(h, Discarding(r.ids))
  <2>1. Discarding(r.ids) \in Request /\ Discarding(r.ids).pc \in {"idle", "discard"}
    BY <1>1, DiscardingType, DiscardingKeyed
  <2>2. Keyed(Discarding(r.ids), at')
    BY <2>1 DEF Keyed, KeyedPc
  <2>3. RequestsOK'
    BY <1>4, <1>7, <2>1, <2>2, BecomesType DEF TypeInv
  <2>4. QED
    BY <1>4, <1>5, <2>3 DEF TypeInv
<1>8. QED
  BY <1>2, <1>6, <1>7

LEMMA NewGrantsType ==
  ASSUME NEW r \in Request, Keyed(r, at), r.pc \in {"create", "add"}
  PROVE  NewGrants(r) \subseteq Grant
<1>1. r.key \in Keys /\ r.services \subseteq Services
      /\ \A b \in r.ids : b \in Backends /\ at[b] \in Services
  BY BrokeredAssumption DEF Keyed, KeyedPc, Request
<1>2. QED
  BY <1>1 DEF NewGrants, Grant

LEMMA InsertType ==
  ASSUME TypeInv, NEW h \in Requests, Insert(h) \/ InsertReplyLost(h)
  PROVE  TypeInv'
<1> DEFINE r == req[h]
<1>1. PICK after \in {Idle, Discarding(r.ids)} : InsertThen(h, after)
  BY DEF Insert, InsertReplyLost
<1>2. r \in Request /\ Keyed(r, at) /\ r.ids \subseteq Backends /\ r.pc \in {"create", "add"}
  BY <1>1, InFlight DEF InsertThen
<1>3. /\ after \in Request
      /\ after.pc \in {"idle", "discard"}
  BY <1>2, DiscardingType, DiscardingKeyed DEF Idle, Work, Request, RequestPc
<1>4. /\ UNCHANGED <<account, queue>> /\ UNCHANGED upstreamVars /\ UNCHANGED jobs
      /\ Becomes(h, after)
  BY <1>1 DEF InsertThen
<1>5. UpstreamOK' /\ JobsOK' /\ AtKept
  BY <1>4, SameUpstreamType, SameJobsType DEF TypeInv
<1>6. grants' \subseteq Grant
  BY <1>1, <1>2, NewGrantsType DEF InsertThen, TypeInv, RowsOK
<1>7. key' \in [Keys -> KeyState]
  BY <1>1, <1>2 DEF InsertThen, TypeInv, RowsOK, KeyState
<1>8. RowsOK'
  BY <1>4, <1>6, <1>7 DEF TypeInv, RowsOK
<1>9. Keyed(after, at')
  BY <1>3 DEF Keyed, KeyedPc
<1>10. RequestsOK'
  BY <1>3, <1>4, <1>5, <1>9, BecomesType DEF TypeInv
<1>11. QED
  BY <1>5, <1>8, <1>10 DEF TypeInv

LEMMA DiscardType ==
  ASSUME TypeInv, NEW h \in Requests, Discard(h)
  PROVE  TypeInv'
<1>1. UNCHANGED rows /\ UNCHANGED jobs /\ Becomes(h, Idle)
  BY DEF Discard
<1>2. UpstreamOK' /\ AtKept
  BY RevokeUpstreamType DEF Discard, TypeInv
<1>3. RowsOK' /\ JobsOK'
  BY <1>1, SameRowsType, SameJobsType DEF TypeInv
<1>4. Idle \in Request /\ Keyed(Idle, at')
  BY DEF Idle, Work, Request, RequestPc, Keyed, KeyedPc
<1>5. RequestsOK'
  BY <1>1, <1>2, <1>4, BecomesType DEF TypeInv
<1>6. QED
  BY <1>2, <1>3, <1>5 DEF TypeInv

LEMMA DeleteGrantsType ==
  ASSUME RowsOK, NEW G \in SUBSET grants, DeleteGrants(G)
  PROVE  grants' \subseteq Grant /\ queue' \subseteq Backends
<1>1. BackendsOf({g \in G : g.service \in Brokered}) \subseteq Backends
  BY BackendsOfType DEF RowsOK
<1>2. QED
  BY <1>1 DEF RowsOK, DeleteGrants

LEMMA RemoveType ==
  ASSUME TypeInv, NEW h \in Requests, Remove(h)
  PROVE  TypeInv'
<1> DEFINE r == req[h]
           G == {g \in GrantsOf(r.key) : g.service \in r.services}
<1>1. G \subseteq grants /\ BackendsOf(G) \subseteq Backends
  BY BackendsOfType DEF GrantsOf, TypeInv, RowsOK
<1>2. /\ DeleteGrants(G) /\ Becomes(h, Discarding(BackendsOf(G)))
      /\ UNCHANGED <<account, key>> /\ UNCHANGED upstreamVars /\ UNCHANGED jobs
  BY DEF Remove
<1> HIDE DEF G
<1>3. RowsOK'
  BY <1>1, <1>2, DeleteGrantsType DEF TypeInv, RowsOK
<1>4. UpstreamOK' /\ JobsOK' /\ AtKept
  BY <1>2, SameUpstreamType, SameJobsType DEF TypeInv
<1>5. Discarding(BackendsOf(G)) \in Request /\ Keyed(Discarding(BackendsOf(G)), at')
  BY <1>1, DiscardingType, DiscardingKeyed DEF Keyed, KeyedPc
<1>6. RequestsOK'
  BY <1>2, <1>4, <1>5, BecomesType DEF TypeInv
<1>7. QED
  BY <1>3, <1>4, <1>6 DEF TypeInv

LEMMA RevokeMarkType ==
  ASSUME TypeInv, NEW h \in Requests, RevokeMark(h)
  PROVE  TypeInv'
<1> DEFINE q == [req[h] EXCEPT !.pc = "revokeList"]
<1>1. /\ Becomes(h, q)
      /\ UNCHANGED <<account, grants, queue>> /\ UNCHANGED upstreamVars /\ UNCHANGED jobs
  BY DEF RevokeMark
<1>2. q \in Request /\ Keyed(q, at')
  BY InFlight DEF RevokeMark, Request, RequestPc, Keyed, KeyedPc
<1>3. RowsOK'
  BY <1>1 DEF RevokeMark, TypeInv, RowsOK, KeyState
<1>4. UpstreamOK' /\ JobsOK' /\ AtKept
  BY <1>1, SameUpstreamType, SameJobsType DEF TypeInv
<1>5. RequestsOK'
  BY <1>1, <1>2, <1>4, BecomesType DEF TypeInv
<1>6. QED
  BY <1>3, <1>4, <1>5 DEF TypeInv

LEMMA ForgetBackendType ==
  ASSUME RowsOK, NEW G, ForgetBackend(G)
  PROVE  grants' \subseteq Grant
<1>1. \A g \in Grant : [g EXCEPT !.backend = None] \in Grant
  BY DEF Grant
<1>2. QED
  BY <1>1 DEF RowsOK, ForgetBackend

LEMMA RevokeOneType ==
  ASSUME TypeInv, NEW h \in Requests, RevokeOneDone(h) \/ RevokeOneFails(h)
  PROVE  TypeInv'
<1> DEFINE r == req[h]
<1>1. r \in Request /\ Keyed(r, at) /\ r.pc = "revokeUpstream"
  BY InFlight DEF RevokeOneDone, RevokeOneFails
<1>2. PICK b : Becomes(h, [r EXCEPT !.ids = @ \ {b}])
  BY DEF RevokeOneDone, RevokeOneFails
<1>3. /\ [r EXCEPT !.ids = @ \ {b}] \in Request
      /\ Keyed([r EXCEPT !.ids = @ \ {b}], at')
  BY <1>1 DEF Request, Keyed, KeyedPc
<1>4. UpstreamOK' /\ AtKept
  BY RevokeUpstreamType DEF RevokeOneDone, RevokeOneFails, TypeInv
<1>5. UNCHANGED jobs
  BY DEF RevokeOneDone, RevokeOneFails
<1>6. RowsOK'
  <2>1. CASE RevokeOneFails(h)
    BY <2>1, SameRowsType DEF RevokeOneFails, TypeInv
  <2>2. CASE RevokeOneDone(h)
    <3>1. grants' \subseteq Grant /\ UNCHANGED <<account, key, queue>>
      BY <2>2, ForgetBackendType DEF RevokeOneDone, TypeInv
    <3>2. QED
      BY <3>1 DEF TypeInv, RowsOK
  <2>3. QED
    BY <2>1, <2>2
<1>7. RequestsOK'
  BY <1>2, <1>3, <1>4, BecomesType DEF TypeInv
<1>8. JobsOK'
  BY <1>5, SameJobsType DEF TypeInv
<1>9. QED
  BY <1>4, <1>6, <1>7, <1>8 DEF TypeInv

LEMMA DeleteType ==
  ASSUME TypeInv, NEW h \in Requests, Delete(h)
  PROVE  TypeInv'
<1> DEFINE r == req[h]
           K == {k \in Keys : HasRow(k) /\ (r.then = "deleteAccount" \/ k = r.key)}
           G == {g \in grants : g.key \in K}
<1>1. /\ account' = (account /\ r.then # "deleteAccount")
      /\ key' = [k \in Keys |-> IF k \in K THEN "deleted" ELSE key[k]]
      /\ DeleteGrants(G)
      /\ Becomes(h, Idle)
      /\ UNCHANGED upstreamVars /\ UNCHANGED jobs
  BY DEF Delete
<1>2. G \in SUBSET grants
  OBVIOUS
<1> HIDE DEF K, G
<1>3. grants' \subseteq Grant /\ queue' \subseteq Backends
  BY <1>1, <1>2, DeleteGrantsType DEF TypeInv
<1>4. key' \in [Keys -> KeyState]
  BY <1>1 DEF TypeInv, RowsOK, KeyState
<1>5. account' \in BOOLEAN
  BY <1>1 DEF TypeInv, RowsOK
<1>6. UpstreamOK' /\ JobsOK' /\ AtKept
  BY <1>1, SameUpstreamType, SameJobsType DEF TypeInv
<1>7. Idle \in Request /\ Keyed(Idle, at')
  BY DEF Idle, Work, Request, RequestPc, Keyed, KeyedPc
<1>8. RequestsOK'
  BY <1>1, <1>6, <1>7, BecomesType DEF TypeInv
<1>9. QED
  BY <1>3, <1>4, <1>5, <1>6, <1>8 DEF TypeInv, RowsOK

LEMMA LimitedType ==
  ASSUME NEW S \in SUBSET Backends
  PROVE  Limited(S) \subseteq SUBSET Backends
  BY DEF Limited

\* A step of a job that leaves the requests alone.
LEMMA JobStepType ==
  ASSUME TypeInv, RowsOK', UpstreamOK', AtKept, JobsOK', UNCHANGED req
  PROVE  TypeInv'
  BY SameRequestsType DEF TypeInv

LEMMA SweepType ==
  ASSUME TypeInv, SweepSteps \/ SweepAborts
  PROVE  TypeInv'
<1>1. UNCHANGED req /\ UNCHANGED recon
  BY DEF SweepSteps, SweepStart, SweepQueuedDone, SweepLeftovers, SweepGrantDone,
         SweepFails, SweepEnd, SweepAborts
<1>2. sweep' \in SweepRun
  <2>1. CASE SweepStart
    <3>1. PICK B \in Limited(queue) : sweep' = [pc |-> "queue", ids |-> B]
      BY <2>1 DEF SweepStart
    <3>2. B \subseteq Backends
      BY LimitedType DEF TypeInv, RowsOK
    <3>3. QED
      BY <3>1, <3>2 DEF SweepRun
  <2>2. CASE SweepLeftovers
    <3>1. PICK B \in Limited(BackendsOf(Leftovers)) :
            sweep' = [pc |-> "grants", ids |-> B]
      BY <2>2 DEF SweepLeftovers
    <3>2. BackendsOf(Leftovers) \subseteq Backends
      BY BackendsOfType DEF Leftovers, TypeInv, RowsOK
    <3>3. B \subseteq Backends
      BY <3>2, LimitedType
    <3>4. QED
      BY <3>1, <3>3 DEF SweepRun
  <2>3. CASE SweepQueuedDone \/ SweepGrantDone \/ SweepFails
    <3>1. PICK b : sweep' = [sweep EXCEPT !.ids = @ \ {b}]
      BY <2>3 DEF SweepQueuedDone, SweepGrantDone, SweepFails
    <3>2. QED
      BY <3>1 DEF TypeInv, JobsOK, SweepRun
  <2>4. CASE SweepEnd \/ SweepAborts
    BY <2>4 DEF SweepEnd, SweepAborts, SweepIdle, SweepRun
  <2>5. QED
    BY <2>1, <2>2, <2>3, <2>4 DEF SweepSteps
<1>3. UpstreamOK' /\ AtKept
  BY RevokeUpstreamType, SameUpstreamType
     DEF TypeInv, SweepSteps, SweepStart, SweepQueuedDone, SweepLeftovers,
         SweepGrantDone, SweepFails, SweepEnd, SweepAborts
<1>4. RowsOK'
  <2>1. CASE UNCHANGED rows
    BY <2>1, SameRowsType DEF TypeInv
  <2>2. CASE SweepQueuedDone
    BY <2>2 DEF SweepQueuedDone, TypeInv, RowsOK
  <2>3. CASE SweepGrantDone
    <3>1. grants' \subseteq Grant /\ UNCHANGED <<account, key, queue>>
      BY <2>3, ForgetBackendType DEF SweepGrantDone, TypeInv
    <3>2. QED
      BY <3>1 DEF TypeInv, RowsOK
  <2>4. QED
    BY <2>1, <2>2, <2>3 DEF SweepSteps, SweepStart, SweepLeftovers, SweepFails,
                            SweepEnd, SweepAborts
<1>5. JobsOK'
  BY <1>1, <1>2 DEF TypeInv, JobsOK
<1>6. QED
  BY <1>1, <1>3, <1>4, <1>5, JobStepType

LEMMA ReconType ==
  ASSUME TypeInv, ReconSteps \/ ReconAborts
  PROVE  TypeInv'
<1>1. UNCHANGED rows /\ UNCHANGED req /\ UNCHANGED sweep
  BY DEF ReconSteps, ReconStart, ReconList, ReconSkip, ReconHeld, ReconKnown,
         ReconRevoke, ReconFails, ReconNext, ReconEnd, ReconAborts
<1>2. UpstreamOK' /\ AtKept
  BY RevokeUpstreamType, SameUpstreamType
     DEF TypeInv, ReconSteps, ReconStart, ReconList, ReconSkip, ReconHeld,
         ReconKnown, ReconRevoke, ReconFails, ReconNext, ReconEnd, ReconAborts
<1>3. recon' \in ReconRun
  <2>1. recon \in ReconRun
    BY DEF TypeInv, JobsOK
  <2>2. CASE ReconStart \/ ReconEnd \/ ReconAborts
    <3>1. \/ recon' = ReconIdle
          \/ recon' = [pc |-> "list", todo |-> Brokered, service |-> None, ids |-> {}]
      BY <2>2 DEF ReconStart, ReconEnd, ReconAborts, ReconIdle
    <3>2. QED
      BY <3>1 DEF ReconIdle, ReconRun
  <2>3. CASE ReconList
    <3>1. PICK s \in recon.todo :
            recon' = [pc |-> "held", todo |-> recon.todo \ {s}, service |-> s,
                      ids |-> Listed(s)]
      BY <2>3 DEF ReconList
    <3>2. Listed(s) \subseteq Backends
      BY DEF Listed
    <3>3. QED
      BY <2>1, <3>1, <3>2 DEF ReconRun
  <2>4. CASE ReconSkip
    BY <2>1, <2>4 DEF ReconSkip, ReconRun
  <2>5. CASE ReconHeld
    BY <2>1, <2>5 DEF ReconHeld, ReconRun
  <2>6. CASE ReconKnown
    BY <2>1, <2>6 DEF ReconKnown, ReconRun
  <2>7. CASE ReconRevoke \/ ReconFails
    <3>1. PICK b : recon' = [recon EXCEPT !.ids = @ \ {b}]
      BY <2>7 DEF ReconRevoke, ReconFails
    <3>2. QED
      BY <2>1, <3>1 DEF ReconRun
  <2>8. CASE ReconNext
    BY <2>1, <2>8 DEF ReconNext, ReconRun
  <2>9. QED
    BY <2>2, <2>3, <2>4, <2>5, <2>6, <2>7, <2>8 DEF ReconSteps
<1>4. RowsOK'
  BY <1>1, SameRowsType DEF TypeInv
<1>5. JobsOK'
  BY <1>1, <1>3 DEF TypeInv, JobsOK
<1>6. QED
  BY <1>1, <1>2, <1>4, <1>5, JobStepType

LEMMA CrashType ==
  ASSUME TypeInv, Crash
  PROVE  TypeInv'
<1>1. RowsOK' /\ UpstreamOK'
  BY SameRowsType, SameUpstreamType DEF Crash, TypeInv
<1>2. JobsOK'
  BY DEF Crash, JobsOK, SweepIdle, ReconIdle, SweepRun, ReconRun
<1>3. Idle \in Request /\ Keyed(Idle, at')
  BY DEF Idle, Work, Request, RequestPc, Keyed, KeyedPc
<1>4. RequestsOK'
  BY <1>3 DEF Crash, RequestsOK
<1>5. QED
  BY <1>1, <1>2, <1>4 DEF TypeInv

LEMMA NextType ==
  ASSUME TypeInv, [Next]_vars
  PROVE  TypeInv'
<1>1. CASE UNCHANGED vars
  BY <1>1, SameRowsType, SameUpstreamType, SameJobsType, JobStepType DEF TypeInv, vars
<1>2. ASSUME NEW h \in Requests, RequestStarts(h) PROVE TypeInv'
  BY <1>2, CreateStartType, StartType, RevokeStartType DEF RequestStarts
<1>3. ASSUME NEW h \in Requests, RequestSteps(h) PROVE TypeInv'
  BY <1>3, GoesOnType, MintType, InsertType, DiscardType, RemoveType, RevokeMarkType,
     RevokeOneType, DeleteType DEF RequestSteps
<1>4. QED
  BY <1>1, <1>2, <1>3, SweepType, ReconType, CrashType DEF Next

\* Rows, backends, requests and jobs stay well typed.
THEOREM TypeCorrect == Spec => []TypeOK
<1>1. Init => TypeInv
  BY InitType
<1>2. TypeInv /\ [Next]_vars => TypeInv'
  BY NextType
<1>3. TypeInv => TypeOK
  BY DEF TypeInv, RowsOK, UpstreamOK, JobsOK, RequestsOK, TypeOK
<1>4. QED
  BY <1>1, <1>2, <1>3, PTL DEF Spec

----------------------------------------------------------------------------
(* Safety.  The invariant follows a backend key from the request that      *)
(* minted it to its one grant, and says what each party that is about to   *)
(* revoke it has read.                                                     *)

Pending(h) == req[h].pc \in {"create", "add"}

\* What the request r knows of its key; K: the keys' states.
Fits(r, K) ==
    /\ r.pc = "create" => K[r.key] = "reserved"
    /\ r.pc \in {"addRead", "add", "removeRead", "remove", "revokeMark"} =>
         K[r.key] \in {"active", "revoked", "deleted"}
    /\ r.pc \in {"revokeList", "revokeUpstream"} => K[r.key] \in {"revoked", "deleted"}

OneCreator ==
    \A h, i \in Requests :
        req[h].pc = "create" /\ req[i].pc = "create" /\ h # i =>
            req[h].key # req[i].key

RequestsFit == OneCreator /\ \A h \in Requests : Fits(req[h], key)

\* A backend key that waits for its grant is one request's, and works as long
\* as the grant could be put into service.
PendingFit ==
    \A h \in Requests : Pending(h) =>
        \A b \in req[h].ids :
            /\ upstream[b] # "unminted" /\ label[b] = req[h].key
            /\ key[req[h].key] \in {"reserved", "active"} => upstream[b] = "live"
            /\ \A i \in Requests : Pending(i) /\ b \in req[i].ids => i = h
            /\ \A g \in grants : g.backend # b

\* A granted backend key is one grant's.
GrantsFit ==
    \A g \in grants :
        /\ HasRow(g.key)
        /\ g.backend # None =>
            /\ upstream[g.backend] # "unminted" /\ label[g.backend] = g.key
            /\ key[g.key] = "active" => upstream[g.backend] = "live"
            /\ \A f \in grants : f.backend = g.backend => f = g

\* What the reconciler has listed is not a create()'s.
ListedFit ==
    recon.pc \in {"held", "known"} =>
        \A b \in recon.ids :
            /\ upstream[b] # "unminted"
            /\ \A h \in Requests : req[h].pc = "create" => b \notin req[h].ids

SafeInv == RequestsFit /\ PendingFit /\ GrantsFit /\ ListedFit /\ OnlyTheDeadAreRevoked

----------------------------------------------------------------------------
(* Steps that give no backend key away: keys only end, grants only go, only *)
(* what is out of service is revoked, and no request gets a backend key to  *)
(* grant.                                                                  *)

CalmKeys ==
    \A k \in Keys : \/ key'[k] = key[k]
                    \/ /\ key[k] \in {"active", "revoked", "deleted"}
                       /\ key'[k] \in {"revoked", "deleted"}

CalmGrants ==
    \A g \in grants' : HasRow(g.key)' /\ (g.backend # None => g \in grants)

CalmUpstream ==
    /\ label' = label
    /\ \A b \in Backends : \/ upstream'[b] = upstream[b]
                           \/ OutOfService(b) /\ upstream'[b] = "revoked"

CalmRows == CalmKeys /\ CalmGrants /\ CalmUpstream

CalmRequests ==
    \A h \in Requests : \/ req'[h] = req[h]
                        \/ req'[h].pc \notin {"create", "add"}
                        \/ req'[h].pc = "add" /\ req'[h].ids = {}

Calm == CalmRows /\ CalmRequests

\* Out of service is for good.
Stable == \A b \in Backends : OutOfService(b) => OutOfService(b)'

LEMMA Typed ==
  ASSUME TypeInv
  PROVE  /\ \A g \in grants : g \in Grant /\ g.key \in Keys /\ g.backend \in Backends \cup {None}
         /\ \A h \in Requests : /\ req[h] \in Request /\ req[h].ids \subseteq Backends
                                /\ req[h].pc \in KeyedPc => req[h].key \in Keys
                                /\ req[h].pc = "addRead" => req[h].ids = {}
  BY DEF TypeInv, RowsOK, RequestsOK, Keyed, Request, Grant

LEMMA NoneIsNoBackend == None \notin Backends
  BY NoneAssumption

LEMMA CalmStable ==
  ASSUME TypeInv, TypeInv', Calm
  PROVE  Stable
<1> SUFFICES ASSUME NEW b \in Backends, OutOfService(b)
             PROVE  OutOfService(b)'
  BY DEF Stable
<1>1. (upstream[b] # "unminted")'
  BY DEF Calm, CalmRows, CalmUpstream, OutOfService
<1>2. ASSUME NEW g \in grants', g.backend = b
      PROVE  key'[g.key] # "active"
  <2>1. g \in grants /\ g.key \in Keys /\ key[g.key] # "active"
    BY <1>2, Typed, NoneIsNoBackend DEF Calm, CalmRows, CalmGrants, OutOfService
  <2>2. QED
    BY <2>1 DEF Calm, CalmRows, CalmKeys
<1>3. ASSUME NEW h \in Requests, Pending(h)', b \in req'[h].ids
      PROVE  key'[req'[h].key] \in {"revoked", "deleted"}
  <2>1. req'[h] = req[h]
    BY <1>3 DEF Calm, CalmRequests, Pending
  <2>2. req[h].key \in Keys
    BY <1>3, <2>1, Typed DEF Pending, KeyedPc
  <2>3. key[req[h].key] \in {"revoked", "deleted"}
    BY <1>3, <2>1 DEF OutOfService, Pending
  <2>4. QED
    BY <2>1, <2>2, <2>3 DEF Calm, CalmRows, CalmKeys
<1>4. QED
  BY <1>1, <1>2, <1>3 DEF OutOfService, Pending

LEMMA CalmPending ==
  ASSUME TypeInv, TypeInv', SafeInv, Calm
  PROVE  PendingFit'
<1> SUFFICES ASSUME NEW h \in Requests, Pending(h)', NEW b \in req'[h].ids
             PROVE  /\ upstream'[b] # "unminted" /\ label'[b] = req'[h].key
                    /\ key'[req'[h].key] \in {"reserved", "active"} => upstream'[b] = "live"
                    /\ \A i \in Requests : Pending(i)' /\ b \in req'[i].ids => i = h
                    /\ \A g \in grants' : g.backend # b
  BY DEF PendingFit
<1>1. req'[h] = req[h] /\ Pending(h) /\ b \in req[h].ids
  BY DEF Calm, CalmRequests, Pending
<1>2. b \in Backends /\ req[h].key \in Keys
  BY <1>1, Typed DEF Pending, KeyedPc
<1>3. /\ upstream[b] # "unminted" /\ label[b] = req[h].key
      /\ key[req[h].key] \in {"reserved", "active"} => upstream[b] = "live"
      /\ \A i \in Requests : Pending(i) /\ b \in req[i].ids => i = h
      /\ \A g \in grants : g.backend # b
  BY <1>1 DEF SafeInv, PendingFit
<1>4. upstream'[b] # "unminted" /\ label'[b] = req'[h].key
  BY <1>1, <1>2, <1>3 DEF Calm, CalmRows, CalmUpstream
<1>5. ASSUME key'[req'[h].key] \in {"reserved", "active"}
      PROVE  upstream'[b] = "live"
  <2>1. key[req[h].key] \in {"reserved", "active"}
    BY <1>1, <1>2, <1>5 DEF Calm, CalmRows, CalmKeys
  <2>2. ~OutOfService(b)
    BY <1>1, <2>1 DEF OutOfService, Pending
  <2>3. QED
    BY <1>2, <1>3, <2>1, <2>2 DEF Calm, CalmRows, CalmUpstream
<1>6. ASSUME NEW i \in Requests, Pending(i)', b \in req'[i].ids
      PROVE  i = h
  BY <1>3, <1>6 DEF Calm, CalmRequests, Pending
<1>7. ASSUME NEW g \in grants', g.backend = b
      PROVE  FALSE
  BY <1>2, <1>3, <1>7, NoneIsNoBackend DEF Calm, CalmRows, CalmGrants
<1>8. QED
  BY <1>4, <1>5, <1>6, <1>7

LEMMA CalmGranted ==
  ASSUME TypeInv, TypeInv', SafeInv, Calm
  PROVE  GrantsFit'
<1> SUFFICES ASSUME NEW g \in grants', g.backend # None
             PROVE  /\ upstream'[g.backend] # "unminted" /\ label'[g.backend] = g.key
                    /\ key'[g.key] = "active" => upstream'[g.backend] = "live"
                    /\ \A f \in grants' : f.backend = g.backend => f = g
  BY DEF GrantsFit, Calm, CalmRows, CalmGrants
<1>1. g \in grants /\ g.backend \in Backends /\ g.key \in Keys
  BY Typed DEF Calm, CalmRows, CalmGrants
<1>2. /\ upstream[g.backend] # "unminted" /\ label[g.backend] = g.key
      /\ key[g.key] = "active" => upstream[g.backend] = "live"
      /\ \A f \in grants : f.backend = g.backend => f = g
  BY <1>1 DEF SafeInv, GrantsFit
<1>3. upstream'[g.backend] # "unminted" /\ label'[g.backend] = g.key
  BY <1>1, <1>2 DEF Calm, CalmRows, CalmUpstream
<1>4. ASSUME key'[g.key] = "active"
      PROVE  upstream'[g.backend] = "live"
  <2>1. key[g.key] = "active"
    BY <1>1, <1>4 DEF Calm, CalmRows, CalmKeys
  <2>2. ~OutOfService(g.backend)
    BY <1>1, <2>1 DEF OutOfService
  <2>3. QED
    BY <1>1, <1>2, <2>1, <2>2 DEF Calm, CalmRows, CalmUpstream
<1>5. ASSUME NEW f \in grants', f.backend = g.backend
      PROVE  f = g
  BY <1>2, <1>5 DEF Calm, CalmRows, CalmGrants
<1>6. QED
  BY <1>3, <1>4, <1>5

\* A request that has not moved fits as it did.
LEMMA CalmFits ==
  ASSUME TypeInv, NEW h \in Requests, Fits(req[h], key), CalmKeys
  PROVE  Fits(req[h], key')
<1>1. req[h].pc \in KeyedPc => req[h].key \in Keys
  BY Typed
<1>2. QED
  BY <1>1 DEF Fits, CalmKeys, KeyedPc

\* Whatever is to be revoked is out of service, party by party.
PartiesFit ==
    /\ \A b \in queue \cup sweep.ids : OutOfService(b)
    /\ recon.pc = "revoke" => \A b \in recon.ids : OutOfService(b)
    /\ \A h \in Requests : req[h].pc \in {"discard", "revokeUpstream"} =>
         \A b \in req[h].ids : OutOfService(b)

LEMMA Parties == OnlyTheDeadAreRevoked <=> PartiesFit
<1> DEFINE X == {x \in Requests : req[x].pc \in {"discard", "revokeUpstream"}}
<1>1. \A b : b \in UNION {req[h].ids : h \in X} <=> \E h \in X : b \in req[h].ids
  OBVIOUS
<1>2. \A b : b \in ToBeRevoked <=>
        \/ b \in queue \cup sweep.ids
        \/ recon.pc = "revoke" /\ b \in recon.ids
        \/ \E h \in X : b \in req[h].ids
  BY <1>1 DEF ToBeRevoked
<1> HIDE DEF X
<1>3. \A h \in Requests : h \in X <=> req[h].pc \in {"discard", "revokeUpstream"}
  BY DEF X
<1>4. X \subseteq Requests
  BY DEF X
<1>5. QED
  BY <1>2, <1>3, <1>4 DEF OnlyTheDeadAreRevoked, PartiesFit

LEMMA PartiesLater == OnlyTheDeadAreRevoked' <=> PartiesFit'
  BY Parties, PTL

----------------------------------------------------------------------------
(* Calm steps keep the invariant.                                          *)

LEMMA SameGrantsCalm ==
  ASSUME SafeInv, UNCHANGED <<key, grants>>
  PROVE  CalmKeys /\ CalmGrants
  BY DEF SafeInv, GrantsFit, HasRow, CalmKeys, CalmGrants

\* Rows that forget their backend keys.
LEMMA ForgetCalm ==
  ASSUME TypeInv, SafeInv, UNCHANGED key, NEW G, ForgetBackend(G)
  PROVE  CalmKeys /\ CalmGrants
<1>1. ASSUME NEW g \in grants'
      PROVE  HasRow(g.key)' /\ (g.backend # None => g \in grants)
  <2>1. PICK f \in grants : g = IF f \in G THEN [f EXCEPT !.backend = None] ELSE f
    BY <1>1 DEF ForgetBackend
  <2>2. f \in Grant /\ HasRow(f.key)
    BY Typed DEF SafeInv, GrantsFit
  <2>3. g.key = f.key /\ (g.backend # None => g = f)
    BY <2>1, <2>2 DEF Grant
  <2>4. QED
    BY <2>2, <2>3 DEF HasRow
<1>2. QED
  BY <1>1 DEF CalmKeys, CalmGrants

LEMMA SameUpstreamCalm ==
  ASSUME UNCHANGED upstreamVars
  PROVE  CalmUpstream
  BY DEF CalmUpstream

LEMMA RevokeCalm ==
  ASSUME NEW B, RevokeUpstream(B), \A b \in B : OutOfService(b)
  PROVE  CalmUpstream
  BY DEF RevokeUpstream, CalmUpstream

LEMMA CalmOne ==
  ASSUME TypeInv, NEW h \in Requests, NEW r, Becomes(h, r),
         r.pc # "create", r.pc = "add" => r.ids = {}
  PROVE  CalmRequests /\ req'[h] = r /\ \A i \in Requests \ {h} : req'[i] = req[i]
  BY DEF TypeInv, RequestsOK, Becomes, CalmRequests

\* Backend keys a request gives up before they are granted.
LEMMA LetGo ==
  ASSUME TypeInv, TypeInv', SafeInv, Calm, NEW h \in Requests, Pending(h), ~Pending(h)',
         NEW b \in req[h].ids
  PROVE  OutOfService(b)'
<1>1. /\ upstream[b] # "unminted" /\ b \in Backends
      /\ \A i \in Requests : Pending(i) /\ b \in req[i].ids => i = h
      /\ \A g \in grants : g.backend # b
  BY Typed DEF SafeInv, PendingFit
<1>2. upstream'[b] # "unminted"
  BY <1>1 DEF Calm, CalmRows, CalmUpstream
<1>3. \A g \in grants' : g.backend # b
  BY <1>1, NoneIsNoBackend DEF Calm, CalmRows, CalmGrants
<1>4. \A i \in Requests : ~(Pending(i)' /\ b \in req'[i].ids)
  BY <1>1 DEF Calm, CalmRequests, Pending
<1>5. QED
  BY <1>2, <1>3, <1>4 DEF OutOfService, Pending

\* The backend key of a grant that is deleted.
LEMMA Dropped ==
  ASSUME TypeInv, TypeInv', SafeInv, Calm, NEW g \in grants, g.backend # None,
         g \notin grants'
  PROVE  OutOfService(g.backend)'
<1> DEFINE b == g.backend
<1>1. /\ upstream[b] # "unminted" /\ b \in Backends
      /\ \A f \in grants : f.backend = b => f = g
  BY Typed DEF SafeInv, GrantsFit
<1>2. upstream'[b] # "unminted"
  BY <1>1 DEF Calm, CalmRows, CalmUpstream
<1>3. \A f \in grants' : f.backend # b
  BY <1>1 DEF Calm, CalmRows, CalmGrants
<1>4. \A i \in Requests : ~(Pending(i)' /\ b \in req'[i].ids)
  <2>1. \A i \in Requests : ~(Pending(i) /\ b \in req[i].ids)
    BY DEF SafeInv, PendingFit
  <2>2. QED
    BY <2>1 DEF Calm, CalmRequests, Pending
<1>5. QED
  BY <1>2, <1>3, <1>4 DEF OutOfService, Pending

LEMMA CalmListed ==
  ASSUME TypeInv, SafeInv, Calm, recon' = recon
  PROVE  ListedFit'
<1> SUFFICES ASSUME recon.pc \in {"held", "known"}, NEW b \in recon.ids
             PROVE  /\ upstream'[b] # "unminted"
                    /\ \A h \in Requests : req'[h].pc = "create" => b \notin req'[h].ids
  BY DEF ListedFit
<1>1. /\ upstream[b] # "unminted" /\ b \in Backends
      /\ \A h \in Requests : req[h].pc = "create" => b \notin req[h].ids
  BY DEF SafeInv, ListedFit, TypeInv, JobsOK, ReconRun
<1>2. QED
  BY <1>1 DEF Calm, CalmRows, CalmUpstream, CalmRequests

\* One request's step.
LEMMA CalmStep ==
  ASSUME TypeInv, TypeInv', SafeInv, NEW h \in Requests, NEW r, Becomes(h, r),
         r.pc # "create", r.pc = "add" => r.ids = {}, Fits(r, key'),
         CalmRows, UNCHANGED jobs,
         \A b \in queue' : b \in queue \/ OutOfService(b)',
         r.pc \in {"discard", "revokeUpstream"} => \A b \in r.ids : OutOfService(b)'
  PROVE  SafeInv' /\ Calm
<1>1. CalmRequests /\ req'[h] = r /\ \A i \in Requests \ {h} : req'[i] = req[i]
  BY CalmOne
<1>2. Calm
  BY <1>1 DEF Calm
<1>3. PendingFit' /\ GrantsFit' /\ ListedFit' /\ Stable
  BY <1>2, CalmPending, CalmGranted, CalmListed, CalmStable
<1>4. RequestsFit'
  <2>1. ASSUME NEW i \in Requests, i # h PROVE Fits(req[i], key')
    BY <2>1, CalmFits DEF SafeInv, RequestsFit, CalmRows
  <2>2. ASSUME NEW i \in Requests PROVE Fits(req'[i], key')
    BY <1>1, <2>1, <2>2
  <2>3. OneCreator'
    BY <1>1 DEF SafeInv, RequestsFit, OneCreator
  <2>4. QED
    BY <2>2, <2>3 DEF RequestsFit
<1>5. OnlyTheDeadAreRevoked'
  <2>1. \A b \in queue \cup sweep.ids : OutOfService(b)'
    BY <1>3, Parties DEF PartiesFit, SafeInv, Stable, TypeInv, RowsOK, JobsOK, SweepRun
  <2>2. \A b \in queue' \cup sweep'.ids : OutOfService(b)'
    BY <2>1
  <2>3. recon'.pc = "revoke" => \A b \in recon'.ids : OutOfService(b)'
    BY <1>3, Parties DEF PartiesFit, SafeInv, Stable, TypeInv, JobsOK, ReconRun
  <2>4. ASSUME NEW i \in Requests, req'[i].pc \in {"discard", "revokeUpstream"},
               NEW b \in req'[i].ids
        PROVE  OutOfService(b)'
    <3>1. CASE i = h
      BY <1>1, <2>4, <3>1
    <3>2. CASE i # h
      BY <1>1, <1>3, <2>4, <3>2, Parties, Typed DEF PartiesFit, SafeInv, Stable
    <3>3. QED
      BY <3>1, <3>2
  <2>5. QED
    BY <2>2, <2>3, <2>4, PartiesLater DEF PartiesFit
<1>6. QED
  BY <1>2, <1>3, <1>4, <1>5 DEF SafeInv

\* A job's step.
LEMMA CalmJob ==
  ASSUME TypeInv, TypeInv', SafeInv, UNCHANGED req, CalmRows, ListedFit',
         queue' \subseteq queue,
         \A b \in sweep'.ids : OutOfService(b),
         recon'.pc = "revoke" => \A b \in recon'.ids : OutOfService(b)
  PROVE  SafeInv' /\ Calm
<1>1. Calm
  BY DEF Calm, CalmRequests
<1>2. PendingFit' /\ GrantsFit' /\ Stable
  BY <1>1, CalmPending, CalmGranted, CalmStable
<1>3. RequestsFit'
  <2>1. \A i \in Requests : Fits(req'[i], key')
    BY CalmFits DEF SafeInv, RequestsFit, CalmRows
  <2>2. QED
    BY <2>1 DEF SafeInv, RequestsFit, OneCreator
<1>4. OnlyTheDeadAreRevoked'
  <2>1. \A b \in queue' \cup sweep'.ids : OutOfService(b)'
    BY <1>2, Parties DEF PartiesFit, SafeInv, Stable, TypeInv, RowsOK, JobsOK, SweepRun
  <2>2. recon'.pc = "revoke" => \A b \in recon'.ids : OutOfService(b)'
    BY <1>2 DEF Stable, TypeInv, JobsOK, ReconRun
  <2>3. \A i \in Requests : req'[i].pc \in {"discard", "revokeUpstream"} =>
          \A b \in req'[i].ids : OutOfService(b)'
    BY <1>2, Parties, Typed DEF PartiesFit, SafeInv, Stable
  <2>4. QED
    BY <2>1, <2>2, <2>3, PartiesLater DEF PartiesFit
<1>5. QED
  BY <1>1, <1>2, <1>3, <1>4 DEF SafeInv

\* A request that only reads, or gives up what it minted.
LEMMA ReadStep ==
  ASSUME TypeInv, TypeInv', SafeInv, NEW h \in Requests, NEW r, Becomes(h, r),
         r.pc # "create", r.pc = "add" => r.ids = {}, Fits(r, key),
         UNCHANGED <<rows, upstreamVars, jobs>>,
         r.pc \in {"discard", "revokeUpstream"} =>
           \A b \in r.ids : OutOfService(b) \/ (Pending(h) /\ b \in req[h].ids)
  PROVE  SafeInv' /\ Calm
<1>1. CalmRows
  BY SameGrantsCalm, SameUpstreamCalm DEF CalmRows
<1>2. CalmRequests /\ req'[h] = r
  BY CalmOne
<1>3. Calm
  BY <1>1, <1>2 DEF Calm
<1>4. ASSUME r.pc \in {"discard", "revokeUpstream"}, NEW b \in r.ids
      PROVE  OutOfService(b)'
  <2>1. CASE OutOfService(b)
    BY <1>2, <1>3, <1>4, <2>1, CalmStable, Typed DEF Stable, TypeInv, RequestsOK, Request
  <2>2. CASE Pending(h) /\ b \in req[h].ids
    <3>1. ~Pending(h)'
      BY <1>2, <1>4 DEF Pending
    <3>2. QED
      BY <1>3, <2>2, <3>1, LetGo
  <2>3. QED
    BY <1>4, <2>1, <2>2
<1>5. Fits(r, key')
  BY DEF Fits
<1>6. QED
  BY <1>1, <1>4, <1>5, CalmStep

----------------------------------------------------------------------------
(* The requests' steps.                                                    *)

LEMMA IdleFits ==
  ASSUME NEW K
  PROVE  Fits(Idle, K) /\ Idle.pc = "idle"
  BY DEF Fits, Idle, Work

LEMMA DiscardingFits ==
  ASSUME NEW K, NEW ids
  PROVE  /\ Fits(Discarding(ids), K)
         /\ Discarding(ids).pc \in {"idle", "discard"}
         /\ Discarding(ids).pc = "discard" => Discarding(ids).ids = ids
  BY DEF Fits, Discarding, Idle, Work

LEMMA RevokeEachFits ==
  ASSUME NEW K \in SUBSET Keys, NEW k \in Keys \cup {None},
         NEW then \in {"return", "deleteKey", "deleteAccount"}, NEW states
  PROVE  Fits(RevokeEach(K, then, k), states)
  BY RevokeEachType DEF Fits

LEMMA AfterRevokeFits ==
  ASSUME NEW r \in Request, NEW states
  PROVE  Fits(AfterRevoke(r), states)
  BY AfterRevokeType DEF Fits

LEMMA StartSafe ==
  ASSUME TypeInv, TypeInv', SafeInv, NEW h \in Requests, AddStart(h) \/ RemoveStart(h)
  PROVE  SafeInv' /\ Calm
<1>1. PICK k \in Active, s \in Services, pc \in {"addRead", "removeRead"} :
        Becomes(h, Work(pc, k, {s}))
  BY DEF AddStart, RemoveStart
<1> DEFINE r == Work(pc, k, {s})
<1>2. r.pc = pc /\ Fits(r, key)
  BY DEF Work, Fits, Active
<1>3. UNCHANGED <<rows, upstreamVars, jobs>>
  BY DEF AddStart, RemoveStart
<1> HIDE DEF r
<1>4. QED
  BY <1>1, <1>2, <1>3, ReadStep DEF r

LEMMA RevokeStartSafe ==
  ASSUME TypeInv, TypeInv', SafeInv, NEW h \in Requests, RevokeStart(h)
  PROVE  SafeInv' /\ Calm
<1>1. PICK K \in SUBSET Keys, k \in Keys \cup {None},
           then \in {"return", "deleteKey", "deleteAccount"} :
        Becomes(h, RevokeEach(K, then, k))
  <2>1. Active \subseteq Keys
    BY DEF Active
  <2>2. QED
    BY <2>1 DEF RevokeStart
<1>2. UNCHANGED <<rows, upstreamVars, jobs>>
  BY DEF RevokeStart
<1>3. RevokeEach(K, then, k).pc \in {"idle", "revokeRead", "delete"}
  BY RevokeEachType
<1>4. QED
  BY <1>1, <1>2, <1>3, RevokeEachFits, ReadStep

\* The backend keys of a key that is revoked or gone are out of service.
LEMMA ListedDead ==
  ASSUME TypeInv, SafeInv, NEW g \in grants, g.backend # None, key[g.key] # "active"
  PROVE  OutOfService(g.backend)
<1>1. /\ upstream[g.backend] # "unminted"
      /\ \A f \in grants : f.backend = g.backend => f = g
  BY DEF SafeInv, GrantsFit
<1>2. \A h \in Requests : ~(Pending(h) /\ g.backend \in req[h].ids)
  BY DEF SafeInv, PendingFit
<1>3. QED
  BY <1>1, <1>2 DEF OutOfService, Pending

LEMMA RevokeListSafe ==
  ASSUME TypeInv, TypeInv', SafeInv, NEW h \in Requests, RevokeList(h)
  PROVE  SafeInv' /\ Calm
<1>1. PICK listed : /\ listed = BackendsOf({g \in GrantsOf(req[h].key) : g.service \in Brokered})
                    /\ Becomes(h, [req[h] EXCEPT !.pc = "revokeUpstream", !.ids = listed])
                    /\ UNCHANGED <<rows, upstreamVars, jobs>>
  BY DEF RevokeList
<1>2. req[h] \in Request /\ req[h].pc = "revokeList" /\ key[req[h].key] \in {"revoked", "deleted"}
  BY Typed DEF RevokeList, SafeInv, RequestsFit, Fits
<1>3. ASSUME NEW b \in listed PROVE OutOfService(b)
  <2>1. PICK g \in grants : g.key = req[h].key /\ g.backend = b /\ b # None
    BY <1>1, <1>3 DEF BackendsOf, GrantsOf
  <2>2. QED
    BY <1>2, <2>1, ListedDead
<1> DEFINE r == [req[h] EXCEPT !.pc = "revokeUpstream", !.ids = listed]
<1>4. r.pc = "revokeUpstream" /\ r.ids = listed /\ r.key = req[h].key
  BY <1>2 DEF Request
<1> HIDE DEF r
<1>5. Becomes(h, r) /\ UNCHANGED <<rows, upstreamVars, jobs>>
  BY <1>1 DEF r
<1>6. /\ r.pc # "create" /\ r.pc # "add"
      /\ \A b \in r.ids : OutOfService(b)
      /\ Fits(r, key)
  BY <1>2, <1>3, <1>4 DEF Fits
<1>7. QED
  BY <1>5, <1>6, ReadStep

\* AddRead, RemoveRead, RevokeRead, RevokeEnd and QueryFails.
LEMMA GoesOnSafe ==
  ASSUME TypeInv, TypeInv', SafeInv, NEW h \in Requests,
         AddRead(h) \/ RemoveRead(h) \/ RevokeRead(h) \/ RevokeEnd(h) \/ QueryFails(h)
  PROVE  SafeInv' /\ Calm
<1>1. req[h] \in Request /\ Fits(req[h], key) /\ (req[h].pc = "addRead" => req[h].ids = {})
  BY Typed DEF SafeInv, RequestsFit
<1>2. UNCHANGED <<rows, upstreamVars, jobs>>
  BY DEF AddRead, RemoveRead, RevokeRead, RevokeEnd, QueryFails
<1>3. CASE Becomes(h, Idle)
  BY <1>2, <1>3, IdleFits, ReadStep
<1>4. CASE Becomes(h, AfterRevoke(req[h]))
  <2>1. AfterRevoke(req[h]).pc \in {"idle", "revokeRead", "delete"}
    BY <1>1, AfterRevokeType
  <2>2. QED
    BY <1>1, <1>2, <1>4, <2>1, AfterRevokeFits, ReadStep
<1>5. ASSUME NEW pc \in {"add", "remove", "revokeMark"}, Becomes(h, [req[h] EXCEPT !.pc = pc]),
             pc = "add" => req[h].pc = "addRead",
             pc = "remove" => req[h].pc = "removeRead",
             pc = "revokeMark" => key[req[h].key] = "active"
      PROVE  SafeInv' /\ Calm
  <2> DEFINE r == [req[h] EXCEPT !.pc = pc]
  <2>1. r.pc = pc /\ r.key = req[h].key /\ r.ids = req[h].ids
    BY <1>1 DEF Request
  <2> HIDE DEF r
  <2>2. Fits(r, key)
    BY <1>1, <1>5, <2>1 DEF Fits
  <2>3. QED
    BY <1>1, <1>2, <1>5, <2>1, <2>2, ReadStep DEF r
<1>6. CASE AddRead(h)
  <2>1. \/ Becomes(h, Idle)
        \/ req[h].pc = "addRead" /\ Becomes(h, [req[h] EXCEPT !.pc = "add"])
    BY <1>6 DEF AddRead
  <2>2. QED
    BY <1>3, <1>5, <2>1
<1>7. CASE RemoveRead(h)
  <2>1. \/ Becomes(h, Idle)
        \/ req[h].pc = "removeRead" /\ Becomes(h, [req[h] EXCEPT !.pc = "remove"])
    BY <1>7 DEF RemoveRead
  <2>2. QED
    BY <1>3, <1>5, <2>1
<1>8. CASE RevokeRead(h)
  <2>1. \/ Becomes(h, AfterRevoke(req[h]))
        \/ key[req[h].key] = "active" /\ Becomes(h, [req[h] EXCEPT !.pc = "revokeMark"])
    BY <1>8 DEF RevokeRead
  <2>2. QED
    BY <1>4, <1>5, <2>1
<1>9. CASE RevokeEnd(h) \/ QueryFails(h)
  BY <1>3, <1>4, <1>9 DEF RevokeEnd, QueryFails
<1>10. QED
  BY <1>6, <1>7, <1>8, <1>9

LEMMA FailsSafe ==
  ASSUME TypeInv, TypeInv', SafeInv, NEW h \in Requests, MintFails(h) \/ InsertFails(h)
  PROVE  SafeInv' /\ Calm
<1>1. /\ Becomes(h, Discarding(req[h].ids)) /\ Pending(h)
      /\ UNCHANGED <<rows, upstreamVars, jobs>>
  BY DEF MintFails, InsertFails, Pending
<1>2. QED
  BY <1>1, DiscardingFits, ReadStep

LEMMA DiscardSafe ==
  ASSUME TypeInv, TypeInv', SafeInv, NEW h \in Requests, Discard(h)
  PROVE  SafeInv' /\ Calm
<1>1. /\ req[h].pc = "discard" /\ Becomes(h, Idle) /\ UNCHANGED rows /\ UNCHANGED jobs
  BY DEF Discard
<1>2. PICK B \in SUBSET req[h].ids : RevokeUpstream(B)
  BY DEF Discard
<1>3. \A b \in B : OutOfService(b)
  BY <1>1, <1>2, Parties DEF SafeInv, PartiesFit
<1>4. CalmRows
  BY <1>1, <1>2, <1>3, SameGrantsCalm, RevokeCalm DEF CalmRows
<1>5. Idle.pc = "idle" /\ Fits(Idle, key')
  BY IdleFits
<1>6. QED
  BY <1>1, <1>4, <1>5, CalmStep

LEMMA RevokeOneSafe ==
  ASSUME TypeInv, TypeInv', SafeInv, NEW h \in Requests,
         RevokeOneDone(h) \/ RevokeOneFails(h)
  PROVE  SafeInv' /\ Calm
<1>1. /\ req[h].pc = "revokeUpstream" /\ req[h] \in Request
      /\ key[req[h].key] \in {"revoked", "deleted"}
  BY Typed DEF RevokeOneDone, RevokeOneFails, SafeInv, RequestsFit, Fits
<1>2. PICK b \in req[h].ids : /\ Becomes(h, [req[h] EXCEPT !.ids = @ \ {b}])
                              /\ RevokeUpstream({}) \/ RevokeUpstream({b})
                              /\ \/ UNCHANGED rows
                                 \/ /\ UNCHANGED <<account, key, queue>>
                                    /\ \E G : ForgetBackend(G)
  BY DEF RevokeOneDone, RevokeOneFails
<1> DEFINE r == [req[h] EXCEPT !.ids = @ \ {b}]
<1>3. r.pc = "revokeUpstream" /\ r.ids = req[h].ids \ {b} /\ r.key = req[h].key
  BY <1>1 DEF Request
<1>4. \A x \in req[h].ids : OutOfService(x)
  BY <1>1, Parties DEF SafeInv, PartiesFit
<1>5. CalmUpstream
  BY <1>2, <1>4, RevokeCalm
<1>6. CalmKeys /\ CalmGrants
  <2>1. CASE UNCHANGED rows
    BY <2>1, SameGrantsCalm
  <2>2. ASSUME UNCHANGED key, NEW G, ForgetBackend(G)
        PROVE  CalmKeys /\ CalmGrants
    BY <2>2, ForgetCalm
  <2>3. QED
    BY <1>2, <2>1, <2>2
<1>7. CalmRows /\ UNCHANGED jobs /\ UNCHANGED queue
  BY <1>2, <1>5, <1>6 DEF CalmRows, RevokeOneDone, RevokeOneFails
<1> HIDE DEF r
<1>8. Becomes(h, r)
  BY <1>2 DEF r
<1>9. UNCHANGED key
  BY <1>2
<1>10. Fits(r, key')
  BY <1>1, <1>3, <1>9 DEF Fits
<1>11. Calm /\ Stable
  BY <1>3, <1>7, <1>8, CalmOne, CalmStable DEF Calm
<1>12. \A x \in r.ids : OutOfService(x)'
  BY <1>3, <1>4, <1>11, Typed DEF Stable
<1>13. QED
  BY <1>3, <1>7, <1>8, <1>10, <1>12, CalmStep

LEMMA RevokeMarkSafe ==
  ASSUME TypeInv, TypeInv', SafeInv, NEW h \in Requests, RevokeMark(h)
  PROVE  SafeInv' /\ Calm
<1> DEFINE k == req[h].key
           r == [req[h] EXCEPT !.pc = "revokeList"]
<1>1. /\ req[h] \in Request /\ req[h].pc = "revokeMark" /\ k \in Keys
      /\ key[k] \in {"active", "revoked", "deleted"}
      /\ key \in [Keys -> KeyState]
  BY Typed DEF RevokeMark, KeyedPc, SafeInv, RequestsFit, Fits, TypeInv, RowsOK
<1>2. /\ key' = [key EXCEPT ![k] = IF HasRow(k) THEN "revoked" ELSE @]
      /\ UNCHANGED <<account, grants, queue>> /\ UNCHANGED upstreamVars /\ UNCHANGED jobs
  BY DEF RevokeMark
<1>3. key'[k] \in {"revoked", "deleted"} /\ (HasRow(k) => key'[k] = "revoked")
      /\ \A x \in Keys \ {k} : key'[x] = key[x]
  BY <1>1, <1>2 DEF HasRow
<1>4. CalmKeys
  BY <1>1, <1>3 DEF CalmKeys
<1>5. CalmGrants
  BY <1>2, <1>3, Typed DEF CalmGrants, SafeInv, GrantsFit, HasRow
<1>6. CalmRows
  BY <1>2, <1>4, <1>5, SameUpstreamCalm DEF CalmRows
<1>7. r.pc = "revokeList" /\ r.key = k
  BY <1>1 DEF Request
<1>8. Becomes(h, r) /\ Fits(r, key')
  BY <1>3, <1>7 DEF RevokeMark, Fits
<1> HIDE DEF r
<1>9. QED
  BY <1>2, <1>6, <1>7, <1>8, CalmStep

\* Grant rows that go: their backend keys, queued by the trigger, are out of
\* service.
LEMMA DeleteGrantsDead ==
  ASSUME TypeInv, TypeInv', SafeInv, Calm, NEW G \in SUBSET grants, DeleteGrants(G)
  PROVE  /\ \A b \in BackendsOf(G) : OutOfService(b)'
         /\ \A b \in queue' : b \in queue \/ OutOfService(b)'
<1>1. ASSUME NEW b \in BackendsOf(G) PROVE OutOfService(b)'
  <2>1. PICK g \in G : g.backend = b /\ b # None
    BY <1>1 DEF BackendsOf
  <2>2. g \notin grants'
    BY DEF DeleteGrants
  <2>3. QED
    BY <2>1, <2>2, Dropped
<1>2. BackendsOf({g \in G : g.service \in Brokered}) \subseteq BackendsOf(G)
  BY DEF BackendsOf
<1>3. QED
  BY <1>1, <1>2 DEF DeleteGrants

LEMMA RemoveSafe ==
  ASSUME TypeInv, TypeInv', SafeInv, NEW h \in Requests, Remove(h)
  PROVE  SafeInv' /\ Calm
<1> DEFINE G == {g \in GrantsOf(req[h].key) : g.service \in req[h].services}
           r == Discarding(BackendsOf(G))
<1>1. /\ DeleteGrants(G) /\ Becomes(h, r) /\ G \in SUBSET grants
      /\ UNCHANGED <<account, key>> /\ UNCHANGED upstreamVars /\ UNCHANGED jobs
  BY DEF Remove, GrantsOf
<1>2. /\ Fits(r, key') /\ r.pc \in {"idle", "discard"}
      /\ r.pc = "discard" => r.ids = BackendsOf(G)
  BY DiscardingFits
<1> HIDE DEF G, r
<1>3. CalmRows
  BY <1>1, SameUpstreamCalm
     DEF CalmRows, CalmKeys, CalmGrants, DeleteGrants, SafeInv, GrantsFit, HasRow
<1>4. Calm
  BY <1>1, <1>2, <1>3, CalmOne DEF Calm
<1>5. /\ \A b \in BackendsOf(G) : OutOfService(b)'
      /\ \A b \in queue' : b \in queue \/ OutOfService(b)'
  BY <1>1, <1>4, DeleteGrantsDead
<1>6. QED
  BY <1>1, <1>2, <1>3, <1>5, CalmStep

LEMMA DeleteSafe ==
  ASSUME TypeInv, TypeInv', SafeInv, NEW h \in Requests, Delete(h)
  PROVE  SafeInv' /\ Calm
<1> DEFINE K == {k \in Keys : HasRow(k) /\ (req[h].then = "deleteAccount" \/ k = req[h].key)}
           G == {g \in grants : g.key \in K}
<1>1. /\ key' = [k \in Keys |-> IF k \in K THEN "deleted" ELSE key[k]]
      /\ DeleteGrants(G) /\ G \in SUBSET grants
      /\ Becomes(h, Idle) /\ UNCHANGED upstreamVars /\ UNCHANGED jobs
  BY DEF Delete
<1>2. \A k \in K : key[k] \in {"active", "revoked"}
  BY DEF HasRow
<1>3. \A g \in grants : g \in G <=> g.key \in K
  OBVIOUS
<1> HIDE DEF K, G
<1>4. CalmKeys
  BY <1>1, <1>2 DEF CalmKeys
<1>5. CalmGrants
  <2>1. ASSUME NEW g \in grants' PROVE HasRow(g.key)' /\ g \in grants
    <3>1. g \in grants /\ g.key \notin K /\ g.key \in Keys /\ HasRow(g.key)
      BY <1>1, <1>3, <2>1, Typed DEF DeleteGrants, SafeInv, GrantsFit
    <3>2. QED
      BY <1>1, <3>1 DEF HasRow
  <2>2. QED
    BY <2>1 DEF CalmGrants
<1>6. CalmRows
  BY <1>1, <1>4, <1>5, SameUpstreamCalm DEF CalmRows
<1>7. Idle.pc = "idle" /\ Fits(Idle, key')
  BY IdleFits
<1>8. Calm
  BY <1>1, <1>6, <1>7, CalmOne DEF Calm
<1>9. \A b \in queue' : b \in queue \/ OutOfService(b)'
  BY <1>1, <1>8, DeleteGrantsDead
<1>10. QED
  BY <1>1, <1>6, <1>7, <1>9, CalmStep

----------------------------------------------------------------------------
(* The jobs.                                                               *)

LEMMA SweepSafe ==
  ASSUME TypeInv, TypeInv', SafeInv, SweepSteps \/ SweepAborts
  PROVE  SafeInv' /\ Calm
<1>1. UNCHANGED req /\ UNCHANGED recon /\ UNCHANGED <<account, key>>
  BY DEF SweepSteps, SweepStart, SweepQueuedDone, SweepLeftovers, SweepGrantDone,
         SweepFails, SweepEnd, SweepAborts
<1>2. /\ \A b \in queue \cup sweep.ids : OutOfService(b)
      /\ recon.pc = "revoke" => \A b \in recon.ids : OutOfService(b)
  BY Parties DEF SafeInv, PartiesFit
<1>3. ASSUME CalmRows, queue' \subseteq queue, \A b \in sweep'.ids : OutOfService(b)
      PROVE  SafeInv' /\ Calm
  <2>1. Calm
    BY <1>1, <1>3 DEF Calm, CalmRequests
  <2>2. QED
    BY <1>1, <1>2, <1>3, <2>1, CalmListed, CalmJob
<1>4. CASE UNCHANGED rows /\ UNCHANGED upstreamVars
  <2>1. CalmRows
    BY <1>4, SameGrantsCalm, SameUpstreamCalm DEF CalmRows
  <2>2. \A b \in sweep'.ids : OutOfService(b)
    <3>1. CASE SweepStart
      <4>1. PICK B \in Limited(queue) : sweep' = [pc |-> "queue", ids |-> B]
        BY <3>1 DEF SweepStart
      <4>2. B \subseteq queue
        BY <4>1 DEF Limited
      <4>3. QED
        BY <1>2, <4>1, <4>2
    <3>2. CASE SweepLeftovers
      <4>1. PICK B \in Limited(BackendsOf(Leftovers)) :
              sweep' = [pc |-> "grants", ids |-> B]
        BY <3>2 DEF SweepLeftovers
      <4>2. B \subseteq BackendsOf(Leftovers)
        BY <4>1 DEF Limited
      <4>3. \A b \in BackendsOf(Leftovers) : OutOfService(b)
        BY ListedDead DEF BackendsOf, Leftovers
      <4>4. QED
        BY <4>1, <4>2, <4>3
    <3>3. CASE SweepQueuedDone \/ SweepGrantDone \/ SweepFails
      <4>1. PICK b : sweep' = [sweep EXCEPT !.ids = @ \ {b}]
        BY <3>3 DEF SweepQueuedDone, SweepGrantDone, SweepFails
      <4>2. sweep'.ids \subseteq sweep.ids
        BY <4>1 DEF TypeInv, JobsOK, SweepRun
      <4>3. QED
        BY <1>2, <4>2
    <3>4. CASE SweepEnd \/ SweepAborts
      BY <3>4 DEF SweepEnd, SweepAborts, SweepIdle
    <3>5. QED
      BY <3>1, <3>2, <3>3, <3>4 DEF SweepSteps
  <2>3. QED
    BY <1>3, <1>4, <2>1, <2>2
<1>5. CASE SweepQueuedDone \/ SweepGrantDone \/ SweepFails
  <2>1. PICK b \in sweep.ids : /\ sweep' = [sweep EXCEPT !.ids = @ \ {b}]
                               /\ RevokeUpstream({}) \/ RevokeUpstream({b})
    BY <1>5 DEF SweepQueuedDone, SweepGrantDone, SweepFails
  <2>2. \A x \in sweep'.ids : OutOfService(x)
    BY <1>2, <2>1 DEF TypeInv, JobsOK, SweepRun
  <2>3. CalmUpstream
    BY <1>2, <2>1, RevokeCalm
  <2>4. CalmKeys /\ CalmGrants /\ queue' \subseteq queue
    <3>1. CASE UNCHANGED grants
      BY <1>1, <1>5, <3>1, SameGrantsCalm
         DEF SweepQueuedDone, SweepGrantDone, SweepFails
    <3>2. CASE SweepGrantDone
      <4>1. PICK G : ForgetBackend(G)
        BY <3>2 DEF SweepGrantDone
      <4>2. QED
        BY <1>1, <3>2, <4>1, ForgetCalm DEF SweepGrantDone
    <3>3. QED
      BY <1>5, <3>1, <3>2 DEF SweepQueuedDone, SweepFails
  <2>5. QED
    BY <1>3, <2>2, <2>3, <2>4 DEF CalmRows
<1>6. QED
  BY <1>4, <1>5 DEF SweepSteps, SweepStart, SweepLeftovers, SweepEnd, SweepAborts

LEMMA ReconSafe ==
  ASSUME TypeInv, TypeInv', SafeInv, ReconSteps \/ ReconAborts
  PROVE  SafeInv' /\ Calm
<1>1. UNCHANGED rows /\ UNCHANGED req /\ UNCHANGED sweep
  BY DEF ReconSteps, ReconStart, ReconList, ReconSkip, ReconHeld, ReconKnown,
         ReconRevoke, ReconFails, ReconNext, ReconEnd, ReconAborts
<1>2. /\ \A b \in queue \cup sweep.ids : OutOfService(b)
      /\ recon.pc = "revoke" => \A b \in recon.ids : OutOfService(b)
  BY Parties DEF SafeInv, PartiesFit
<1>3. recon \in ReconRun
  BY DEF TypeInv, JobsOK
<1>4. CalmRows
  <2>1. CASE UNCHANGED upstreamVars
    BY <1>1, <2>1, SameGrantsCalm, SameUpstreamCalm DEF CalmRows
  <2>2. CASE ReconRevoke
    <3>1. PICK b \in recon.ids : RevokeUpstream({b}) /\ recon.pc = "revoke"
      BY <2>2 DEF ReconRevoke
    <3>2. CalmUpstream
      BY <1>2, <3>1, RevokeCalm
    <3>3. QED
      BY <1>1, <3>2, SameGrantsCalm DEF CalmRows
  <2>3. QED
    BY <2>1, <2>2 DEF ReconSteps, ReconStart, ReconList, ReconSkip, ReconHeld,
         ReconKnown, ReconFails, ReconNext, ReconEnd, ReconAborts
<1>5. Calm
  BY <1>1, <1>4 DEF Calm, CalmRequests
<1>6. ASSUME recon'.pc \notin {"held", "known"},
             recon'.pc = "revoke" => \A b \in recon'.ids : OutOfService(b)
      PROVE  SafeInv' /\ Calm
  <2>1. ListedFit'
    BY <1>6 DEF ListedFit
  <2>2. QED
    BY <1>1, <1>2, <1>4, <1>6, <2>1, CalmJob
<1>7. ASSUME recon'.pc # "revoke", ListedFit' PROVE SafeInv' /\ Calm
  BY <1>1, <1>2, <1>4, <1>7, CalmJob
<1>8. CASE ReconStart \/ ReconEnd \/ ReconAborts
  <2>1. \/ recon' = ReconIdle
        \/ recon' = [pc |-> "list", todo |-> Brokered, service |-> None, ids |-> {}]
    BY <1>8 DEF ReconStart, ReconEnd, ReconAborts, ReconIdle
  <2>2. recon'.pc \in {"list", "idle"}
    BY <2>1 DEF ReconIdle
  <2>3. QED
    BY <1>6, <2>2
<1>9. CASE ReconSkip \/ ReconNext
  <2>1. recon'.pc = "list"
    BY <1>3, <1>9 DEF ReconSkip, ReconNext, ReconRun
  <2>2. QED
    BY <1>6, <2>1
<1>10. CASE ReconList
  <2>1. PICK s \in recon.todo :
          recon' = [pc |-> "held", todo |-> recon.todo \ {s}, service |-> s,
                    ids |-> Listed(s)]
    BY <1>10 DEF ReconList
  <2>2. \A b \in Listed(s) :
          /\ upstream[b] # "unminted"
          /\ \A h \in Requests : req[h].pc = "create" => b \notin req[h].ids
    BY DEF Listed, Young
  <2>3. UNCHANGED upstream
    BY <1>10 DEF ReconList
  <2>4. ListedFit'
    BY <1>1, <2>1, <2>2, <2>3 DEF ListedFit
  <2>5. QED
    BY <1>7, <2>1, <2>4
<1>11. CASE ReconHeld
  <2>1. /\ recon.pc = "held" /\ UNCHANGED upstream
        /\ \/ recon' = [recon EXCEPT !.pc = "list", !.service = None, !.ids = {}]
           \/ recon' = [recon EXCEPT !.pc = "known",
                                     !.ids = recon.ids \ HeldAt(recon.service)]
    BY <1>11 DEF ReconHeld
  <2>2. recon'.pc \in {"list", "known"} /\ recon'.ids \subseteq recon.ids
    BY <1>3, <2>1 DEF ReconRun
  <2>3. ListedFit'
    BY <1>1, <2>1, <2>2 DEF SafeInv, ListedFit
  <2>4. QED
    BY <1>7, <2>2, <2>3
<1>12. CASE ReconKnown
  <2>1. recon'.pc = "revoke" /\ recon'.ids = {b \in recon.ids : label[b] \notin Active}
    BY <1>3, <1>12 DEF ReconKnown, ReconRun
  <2>2. ASSUME NEW b \in recon.ids, label[b] \notin Active PROVE OutOfService(b)
    <3>1. /\ upstream[b] # "unminted" /\ b \in Backends
          /\ \A h \in Requests : req[h].pc = "create" => b \notin req[h].ids
      BY <1>3, <1>12 DEF ReconKnown, SafeInv, ListedFit, ReconRun
    <3>2. \A g \in grants : g.backend = b => key[g.key] # "active"
      BY <2>2, <3>1, Typed, NoneIsNoBackend DEF SafeInv, GrantsFit, Active
    <3>3. ASSUME NEW h \in Requests, Pending(h), b \in req[h].ids
          PROVE  key[req[h].key] \in {"revoked", "deleted"}
      <4>1. req[h].pc = "add" /\ req[h].key \in Keys /\ label[b] = req[h].key
        BY <3>1, <3>3, Typed DEF Pending, KeyedPc, SafeInv, PendingFit
      <4>2. key[req[h].key] \in {"active", "revoked", "deleted"}
        BY <4>1 DEF SafeInv, RequestsFit, Fits
      <4>3. QED
        BY <2>2, <4>1, <4>2 DEF Active
    <3>4. QED
      BY <3>1, <3>2, <3>3 DEF OutOfService, Pending
  <2>3. QED
    BY <1>6, <2>1, <2>2
<1>13. CASE ReconRevoke \/ ReconFails
  <2>1. PICK b : recon' = [recon EXCEPT !.ids = @ \ {b}] /\ recon.pc = "revoke"
    BY <1>13 DEF ReconRevoke, ReconFails
  <2>2. recon'.pc = "revoke" /\ recon'.ids \subseteq recon.ids
    BY <1>3, <2>1 DEF ReconRun
  <2>3. QED
    BY <1>2, <1>6, <2>1, <2>2
<1>14. QED
  BY <1>8, <1>9, <1>10, <1>11, <1>12, <1>13 DEF ReconSteps

LEMMA CrashSafe ==
  ASSUME TypeInv, TypeInv', SafeInv, Crash
  PROVE  SafeInv' /\ Calm
<1>1. /\ \A h \in Requests : req'[h].pc = "idle"
      /\ sweep'.ids = {} /\ recon'.pc = "idle"
      /\ UNCHANGED rows /\ UNCHANGED upstreamVars
  BY DEF Crash, Idle, Work, SweepIdle, ReconIdle
<1>2. Calm
  BY <1>1, SameGrantsCalm, SameUpstreamCalm DEF Calm, CalmRows, CalmRequests
<1>3. PendingFit' /\ GrantsFit' /\ Stable
  BY <1>2, CalmPending, CalmGranted, CalmStable
<1>4. RequestsFit' /\ ListedFit'
  BY <1>1 DEF RequestsFit, OneCreator, Fits, ListedFit
<1>5. OnlyTheDeadAreRevoked'
  <2>1. \A b \in queue' \cup sweep'.ids : OutOfService(b)'
    BY <1>1, <1>3, Parties DEF PartiesFit, SafeInv, Stable, TypeInv, RowsOK
  <2>2. QED
    BY <1>1, <2>1, PartiesLater DEF PartiesFit
<1>6. QED
  BY <1>2, <1>3, <1>4, <1>5 DEF SafeInv

----------------------------------------------------------------------------
(* Steps that do give a backend key away.                                  *)

\* Nothing new is to be revoked, and what is stays out of service.
LEMMA StableParties ==
  ASSUME TypeInv, SafeInv, Stable, UNCHANGED jobs, queue' = queue,
         NEW h \in Requests, \A i \in Requests \ {h} : req'[i] = req[i],
         req'[h].pc \in {"discard", "revokeUpstream"} =>
           \A b \in req'[h].ids : OutOfService(b)'
  PROVE  OnlyTheDeadAreRevoked'
<1>1. /\ \A b \in queue \cup sweep.ids : OutOfService(b)'
      /\ recon.pc = "revoke" => \A b \in recon.ids : OutOfService(b)'
  BY Parties DEF PartiesFit, SafeInv, Stable, TypeInv, RowsOK, JobsOK, SweepRun, ReconRun
<1>2. \A i \in Requests : req'[i].pc \in {"discard", "revokeUpstream"} =>
        \A b \in req'[i].ids : OutOfService(b)'
  BY Parties, Typed DEF PartiesFit, SafeInv, Stable
<1>3. QED
  BY <1>1, <1>2, PartiesLater DEF PartiesFit

LEMMA CreateStartSafe ==
  ASSUME TypeInv, TypeInv', SafeInv, NEW h \in Requests, CreateStart(h)
  PROVE  SafeInv'
<1>1. PICK k \in Keys, S \in SUBSET Services :
        /\ key[k] = "unused"
        /\ key' = [key EXCEPT ![k] = "reserved"]
        /\ Becomes(h, Work("create", k, S))
  BY DEF CreateStart
<1> DEFINE r == Work("create", k, S)
<1>2. r.pc = "create" /\ r.key = k /\ r.ids = {}
  BY DEF Work
<1>3. /\ UNCHANGED <<account, grants, queue>>
      /\ UNCHANGED upstreamVars
      /\ UNCHANGED jobs
  BY DEF CreateStart
<1> HIDE DEF r
<1>4. req'[h] = r /\ \A i \in Requests \ {h} : req'[i] = req[i]
  BY <1>1 DEF Becomes, TypeInv, RequestsOK, r
<1>5. key'[k] = "reserved" /\ \A x \in Keys \ {k} : key'[x] = key[x]
  BY <1>1 DEF TypeInv, RowsOK
<1>6. ASSUME NEW i \in Requests \ {h}
      PROVE  /\ Fits(req[i], key')
             /\ req[i].pc \in {"create", "add"} => req[i].key \in Keys \ {k}
  <2>1. req[i].pc \in KeyedPc => req[i].key \in Keys
    BY Typed
  <2>2. Fits(req[i], key)
    BY DEF SafeInv, RequestsFit
  <2>3. QED
    BY <1>1, <1>5, <2>1, <2>2 DEF Fits, KeyedPc
<1>7. \A g \in grants : g.key \in Keys \ {k}
  BY <1>1, Typed DEF SafeInv, GrantsFit, HasRow
<1>8. RequestsFit'
  <2>1. Fits(r, key')
    BY <1>2, <1>5 DEF Fits
  <2>2. \A i \in Requests : Fits(req'[i], key')
    BY <1>4, <1>6, <2>1
  <2>3. OneCreator'
    BY <1>2, <1>4, <1>6 DEF SafeInv, RequestsFit, OneCreator
  <2>4. QED
    BY <2>2, <2>3 DEF RequestsFit
<1>9. PendingFit'
  <2>1. ASSUME NEW i \in Requests, Pending(i)', NEW b \in req'[i].ids
        PROVE  /\ upstream'[b] # "unminted" /\ label'[b] = req'[i].key
               /\ key'[req'[i].key] \in {"reserved", "active"} => upstream'[b] = "live"
               /\ \A j \in Requests : Pending(j)' /\ b \in req'[j].ids => j = i
               /\ \A g \in grants' : g.backend # b
    <3>1. i # h /\ req'[i] = req[i] /\ Pending(i) /\ b \in req[i].ids
      BY <1>2, <1>4, <2>1 DEF Pending
    <3>2. /\ upstream[b] # "unminted" /\ label[b] = req[i].key
          /\ key[req[i].key] \in {"reserved", "active"} => upstream[b] = "live"
          /\ \A j \in Requests : Pending(j) /\ b \in req[j].ids => j = i
          /\ \A g \in grants : g.backend # b
      BY <3>1 DEF SafeInv, PendingFit
    <3>3. key'[req[i].key] = key[req[i].key]
      BY <1>5, <1>6, <3>1 DEF Pending
    <3>4. \A j \in Requests : Pending(j)' /\ b \in req'[j].ids => j = i
      BY <1>2, <1>4, <3>2 DEF Pending
    <3>5. QED
      BY <1>3, <3>1, <3>2, <3>3, <3>4
  <2>2. QED
    BY <2>1 DEF PendingFit
<1>10. GrantsFit'
  BY <1>3, <1>5, <1>7 DEF SafeInv, GrantsFit, HasRow
<1>11. ListedFit'
  BY <1>2, <1>3, <1>4 DEF SafeInv, ListedFit
<1>12. Stable
  <2>1. ASSUME NEW b \in Backends, OutOfService(b) PROVE OutOfService(b)'
    <3>1. \A g \in grants' : g.backend = b => key'[g.key] # "active"
      BY <1>3, <1>5, <1>7, <2>1 DEF OutOfService
    <3>2. ASSUME NEW i \in Requests, Pending(i)', b \in req'[i].ids
          PROVE  key'[req'[i].key] \in {"revoked", "deleted"}
      <4>1. i # h /\ req'[i] = req[i] /\ Pending(i)
        BY <1>2, <1>4, <3>2 DEF Pending
      <4>2. QED
        BY <1>5, <1>6, <2>1, <3>2, <4>1 DEF OutOfService, Pending
    <3>3. QED
      BY <1>3, <2>1, <3>1, <3>2 DEF OutOfService, Pending
  <2>2. QED
    BY <2>1 DEF Stable
<1>13. OnlyTheDeadAreRevoked'
  BY <1>2, <1>3, <1>4, <1>12, StableParties
<1>14. QED
  BY <1>8, <1>9, <1>10, <1>11, <1>13 DEF SafeInv

\* A fresh backend key: nobody has heard of it.
LEMMA Fresh ==
  ASSUME TypeInv, SafeInv, NEW b \in Backends, upstream[b] = "unminted"
  PROVE  /\ \A g \in grants : g.backend # b
         /\ \A h \in Requests : Pending(h) => b \notin req[h].ids
         /\ recon.pc \in {"held", "known"} => b \notin recon.ids
         /\ ~OutOfService(b)
  BY NoneIsNoBackend DEF SafeInv, GrantsFit, PendingFit, ListedFit, OutOfService

\* Mint and MintReplyLost: h has the new key, or gives up what it had.
LEMMA MintSafe ==
  ASSUME TypeInv, TypeInv', SafeInv, NEW h \in Requests, Mint(h) \/ MintReplyLost(h)
  PROVE  SafeInv'
<1>1. req[h] \in Request /\ Pending(h) /\ req[h].key \in Keys /\ Fits(req[h], key)
  BY Typed DEF Mint, MintReplyLost, Pending, KeyedPc, SafeInv, RequestsFit
<1>2. PICK s \in Brokered, n \in Backends :
        /\ Issue(n, s, req[h].key)
        /\ \/ Becomes(h, [req[h] EXCEPT !.ids = @ \cup {n}])
           \/ Becomes(h, Discarding(req[h].ids))
  BY DEF Mint, MintReplyLost, Unminted
<1>3. PICK r : /\ Becomes(h, r)
               /\ \/ r.pc = req[h].pc /\ r.key = req[h].key /\ r.ids = req[h].ids \cup {n}
                  \/ r.pc \in {"idle", "discard"} /\ (r.pc = "discard" => r.ids = req[h].ids)
  <2>1. CASE Becomes(h, [req[h] EXCEPT !.ids = @ \cup {n}])
    <3> DEFINE q == [req[h] EXCEPT !.ids = @ \cup {n}]
    <3>1. q.pc = req[h].pc /\ q.key = req[h].key /\ q.ids = req[h].ids \cup {n}
      BY <1>1 DEF Request
    <3> HIDE DEF q
    <3>2. QED
      BY <2>1, <3>1 DEF q
  <2>2. CASE Becomes(h, Discarding(req[h].ids))
    BY <2>2, DiscardingFits
  <2>3. QED
    BY <1>2, <2>1, <2>2
<1>4. UNCHANGED rows /\ UNCHANGED jobs
  BY DEF Mint, MintReplyLost
<1>5. req'[h] = r /\ \A i \in Requests \ {h} : req'[i] = req[i]
  BY <1>3 DEF Becomes, TypeInv, RequestsOK
<1>6. /\ upstream[n] = "unminted"
      /\ upstream'[n] = "live" /\ label'[n] = req[h].key
      /\ \A b \in Backends \ {n} : upstream'[b] = upstream[b] /\ label'[b] = label[b]
  BY <1>2 DEF Issue, TypeInv, UpstreamOK
<1>7. /\ \A g \in grants : g.backend # n
      /\ \A i \in Requests : Pending(i) => n \notin req[i].ids
      /\ recon.pc \in {"held", "known"} => n \notin recon.ids
      /\ ~OutOfService(n)
  BY <1>6, Fresh
<1>8. \A i \in Requests : Pending(i)' =>
        /\ Pending(i) /\ req'[i].pc = req[i].pc /\ req'[i].key = req[i].key
        /\ \A b \in req'[i].ids : b \in req[i].ids \/ (b = n /\ i = h)
  BY <1>1, <1>3, <1>5 DEF Pending
<1>9. RequestsFit'
  <2>1. Fits(r, key')
    BY <1>1, <1>3, <1>4 DEF Fits
  <2>2. \A i \in Requests : Fits(req'[i], key')
    BY <1>4, <1>5, <2>1 DEF SafeInv, RequestsFit, Fits
  <2>3. OneCreator'
    BY <1>8 DEF SafeInv, RequestsFit, OneCreator, Pending
  <2>4. QED
    BY <2>2, <2>3 DEF RequestsFit
<1>10. PendingFit'
  <2>1. ASSUME NEW i \in Requests, Pending(i)', NEW b \in req'[i].ids
        PROVE  /\ upstream'[b] # "unminted" /\ label'[b] = req'[i].key
               /\ key'[req'[i].key] \in {"reserved", "active"} => upstream'[b] = "live"
               /\ \A j \in Requests : Pending(j)' /\ b \in req'[j].ids => j = i
               /\ \A g \in grants' : g.backend # b
    <3>1. CASE b = n
      <4>1. i = h /\ req'[i].key = req[h].key
        BY <1>7, <1>8, <2>1, <3>1
      <4>2. \A j \in Requests : Pending(j)' /\ b \in req'[j].ids => j = h
        BY <1>7, <1>8, <3>1
      <4>3. QED
        BY <1>4, <1>6, <1>7, <3>1, <4>1, <4>2
    <3>2. CASE b # n
      <4>1. Pending(i) /\ b \in req[i].ids /\ req'[i].key = req[i].key
        BY <1>8, <2>1, <3>2
      <4>2. b \in Backends
        BY <4>1, Typed
      <4>3. /\ upstream[b] # "unminted" /\ label[b] = req[i].key
            /\ key[req[i].key] \in {"reserved", "active"} => upstream[b] = "live"
            /\ \A j \in Requests : Pending(j) /\ b \in req[j].ids => j = i
            /\ \A g \in grants : g.backend # b
        BY <4>1 DEF SafeInv, PendingFit
      <4>4. \A j \in Requests : Pending(j)' /\ b \in req'[j].ids => j = i
        BY <1>8, <3>2, <4>3
      <4>5. QED
        BY <1>4, <1>6, <3>2, <4>1, <4>2, <4>3, <4>4
    <3>3. QED
      BY <3>1, <3>2
  <2>2. QED
    BY <2>1 DEF PendingFit
<1>11. GrantsFit'
  BY <1>4, <1>6, <1>7, Typed DEF SafeInv, GrantsFit, HasRow
<1>12. ListedFit'
  <2>1. ASSUME recon.pc \in {"held", "known"}, NEW b \in recon.ids
        PROVE  /\ upstream'[b] # "unminted"
               /\ \A i \in Requests : req'[i].pc = "create" => b \notin req'[i].ids
    <3>1. b # n /\ b \in Backends
      BY <1>7, <2>1 DEF TypeInv, JobsOK, ReconRun
    <3>2. upstream[b] # "unminted"
          /\ \A i \in Requests : req[i].pc = "create" => b \notin req[i].ids
      BY <2>1 DEF SafeInv, ListedFit
    <3>3. QED
      BY <1>6, <1>8, <3>1, <3>2 DEF Pending
  <2>2. QED
    BY <1>4, <2>1 DEF ListedFit
<1>13. Stable
  <2>1. ASSUME NEW b \in Backends, OutOfService(b) PROVE OutOfService(b)'
    <3>1. b # n
      BY <1>7, <2>1
    <3>2. QED
      BY <1>4, <1>6, <1>8, <2>1, <3>1 DEF OutOfService, Pending
  <2>2. QED
    BY <2>1 DEF Stable
<1>14. ASSUME r.pc \in {"discard", "revokeUpstream"}, NEW b \in r.ids
       PROVE  OutOfService(b)'
  <2>1. r.ids = req[h].ids /\ ~Pending(h)'
    BY <1>1, <1>3, <1>5, <1>14 DEF Pending
  <2>2. b \in Backends /\ b # n
    BY <1>1, <1>7, <1>14, <2>1, Typed
  <2>3. /\ upstream[b] # "unminted"
        /\ \A i \in Requests : Pending(i) /\ b \in req[i].ids => i = h
        /\ \A g \in grants : g.backend # b
    BY <1>1, <1>14, <2>1 DEF SafeInv, PendingFit
  <2>4. \A i \in Requests : ~(Pending(i)' /\ b \in req'[i].ids)
    BY <1>8, <2>1, <2>2, <2>3
  <2>5. QED
    BY <1>4, <1>6, <2>2, <2>3, <2>4 DEF OutOfService, Pending
<1>15. OnlyTheDeadAreRevoked'
  BY <1>4, <1>5, <1>13, <1>14, StableParties
<1>16. QED
  BY <1>9, <1>10, <1>11, <1>12, <1>15 DEF SafeInv

\* The rows a request inserts, and the key it activates.
LEMMA InsertSafe ==
  ASSUME TypeInv, TypeInv', SafeInv, NEW h \in Requests, Insert(h)
  PROVE  SafeInv'
<1> DEFINE r == req[h]
<1>1. /\ r \in Request /\ Pending(h) /\ r.key \in Keys /\ Fits(r, key)
      /\ r.ids \subseteq Backends
  BY Typed DEF Insert, InsertThen, Pending, KeyedPc, SafeInv, RequestsFit
<1>2. /\ Insertable(r)
      /\ grants' = grants \cup NewGrants(r)
      /\ key' = IF r.pc = "create" THEN [key EXCEPT ![r.key] = "active"] ELSE key
      /\ Becomes(h, Idle)
      /\ UNCHANGED <<account, queue>> /\ UNCHANGED upstreamVars /\ UNCHANGED jobs
  BY DEF Insert, InsertThen
<1>3. req'[h].pc = "idle" /\ \A i \in Requests \ {h} : req'[i] = req[i]
  BY <1>2 DEF Becomes, TypeInv, RequestsOK, Idle, Work
<1>4. key'[r.key] \in {"active", "revoked"} /\ \A k \in Keys \ {r.key} : key'[k] = key[k]
  BY <1>1, <1>2 DEF Insertable, HasRow, TypeInv, RowsOK, Pending
<1>5. \/ r.pc = "create" /\ key[r.key] = "reserved" /\ key'[r.key] = "active"
      \/ r.pc = "add" /\ key' = key
  BY <1>1, <1>2 DEF Fits, Pending, TypeInv, RowsOK
<1>6. \A b \in r.ids :
        /\ upstream[b] # "unminted" /\ label[b] = r.key
        /\ key'[r.key] = "active" => upstream[b] = "live"
        /\ \A i \in Requests : Pending(i) /\ b \in req[i].ids => i = h
        /\ \A g \in grants : g.backend # b
  BY <1>1, <1>5 DEF SafeInv, PendingFit
<1>7. \A g \in grants' : g \in grants \/
        /\ g.key = r.key
        /\ g.backend # None => /\ g.backend \in r.ids
                               /\ g = [key |-> r.key, service |-> at[g.backend], backend |-> g.backend]
  BY <1>2 DEF NewGrants
<1>8. \A g \in grants : g.key \in Keys /\ HasRow(g.key)
  BY Typed DEF SafeInv, GrantsFit
<1>9. \A g \in grants : key'[g.key] = key[g.key]
  BY <1>4, <1>5, <1>8 DEF HasRow
<1>10. \A i \in Requests : Pending(i)' => i # h /\ Pending(i) /\ req'[i] = req[i]
  BY <1>3 DEF Pending
<1>11. \A i \in Requests \ {h} : req[i].pc \in KeyedPc => req[i].key \in Keys
  BY Typed
<1> HIDE DEF r
<1>12. RequestsFit'
  <2>1. ASSUME NEW i \in Requests \ {h} PROVE Fits(req[i], key')
    <3>1. Fits(req[i], key)
      BY DEF SafeInv, RequestsFit
    <3>2. r.pc = "create" /\ req[i].pc = "create" => req[i].key # r.key
      BY DEF SafeInv, RequestsFit, OneCreator, r
    <3>3. QED
      BY <1>4, <1>5, <1>11, <3>1, <3>2 DEF Fits, KeyedPc
  <2>2. \A i \in Requests : Fits(req'[i], key')
    BY <1>3, <2>1 DEF Fits
  <2>3. OneCreator'
    BY <1>10 DEF SafeInv, RequestsFit, OneCreator, Pending
  <2>4. QED
    BY <2>2, <2>3 DEF RequestsFit
<1>13. \A i \in Requests : Pending(i)' =>
         key'[req[i].key] = key[req[i].key]
  <2>1. ASSUME NEW i \in Requests, Pending(i)' PROVE key'[req[i].key] = key[req[i].key]
    <3>1. i # h /\ Pending(i) /\ req[i].key \in Keys
      BY <1>10, <1>11, <2>1 DEF Pending, KeyedPc
    <3>2. Fits(req[i], key)
      BY DEF SafeInv, RequestsFit
    <3>3. r.pc = "create" => req[i].key # r.key
      BY <1>5, <3>1, <3>2 DEF SafeInv, RequestsFit, OneCreator, r, Pending, Fits
    <3>4. QED
      BY <1>4, <1>5, <3>1, <3>3
  <2>2. QED
    BY <2>1
<1>14. PendingFit'
  <2>1. ASSUME NEW i \in Requests, Pending(i)', NEW b \in req'[i].ids
        PROVE  /\ upstream'[b] # "unminted" /\ label'[b] = req'[i].key
               /\ key'[req'[i].key] \in {"reserved", "active"} => upstream'[b] = "live"
               /\ \A j \in Requests : Pending(j)' /\ b \in req'[j].ids => j = i
               /\ \A g \in grants' : g.backend # b
    <3>1. i # h /\ Pending(i) /\ req'[i] = req[i] /\ b \in req[i].ids
      BY <1>10, <2>1
    <3>2. /\ upstream[b] # "unminted" /\ label[b] = req[i].key
          /\ key[req[i].key] \in {"reserved", "active"} => upstream[b] = "live"
          /\ \A j \in Requests : Pending(j) /\ b \in req[j].ids => j = i
          /\ \A g \in grants : g.backend # b
      BY <3>1 DEF SafeInv, PendingFit
    <3>3. b \notin r.ids /\ b \in Backends
      BY <1>6, <3>1, Typed
    <3>4. \A g \in grants' : g.backend # b
      BY <1>7, <3>2, <3>3, NoneIsNoBackend
    <3>5. \A j \in Requests : Pending(j)' /\ b \in req'[j].ids => j = i
      BY <1>10, <3>2
    <3>6. QED
      BY <1>2, <1>13, <2>1, <3>1, <3>2, <3>4, <3>5
  <2>2. QED
    BY <2>1 DEF PendingFit
<1>15. GrantsFit'
  <2>1. ASSUME NEW g \in grants', g.backend # None
        PROVE  /\ upstream'[g.backend] # "unminted" /\ label'[g.backend] = g.key
               /\ key'[g.key] = "active" => upstream'[g.backend] = "live"
               /\ \A f \in grants' : f.backend = g.backend => f = g
    <3>1. CASE g \in grants
      <4>1. /\ upstream[g.backend] # "unminted" /\ label[g.backend] = g.key
            /\ key[g.key] = "active" => upstream[g.backend] = "live"
            /\ \A f \in grants : f.backend = g.backend => f = g
        BY <2>1, <3>1 DEF SafeInv, GrantsFit
      <4>2. g.backend \notin r.ids
        BY <1>6, <3>1
      <4>3. \A f \in grants' : f.backend = g.backend => f = g
        BY <1>7, <2>1, <4>1, <4>2
      <4>4. QED
        BY <1>2, <1>9, <3>1, <4>1, <4>3
    <3>2. CASE g \notin grants
      <4>1. /\ g.key = r.key /\ g.backend \in r.ids
            /\ g = [key |-> r.key, service |-> at[g.backend], backend |-> g.backend]
        BY <1>7, <2>1, <3>2
      <4>2. ASSUME NEW f \in grants', f.backend = g.backend PROVE f = g
        <5>1. f \notin grants
          BY <1>6, <4>1, <4>2
        <5>2. f = [key |-> r.key, service |-> at[f.backend], backend |-> f.backend]
          BY <1>7, <2>1, <4>2, <5>1
        <5>3. QED
          BY <4>1, <4>2, <5>2
      <4>3. QED
        BY <1>2, <1>6, <4>1, <4>2
    <3>3. QED
      BY <3>1, <3>2
  <2>2. ASSUME NEW g \in grants' PROVE HasRow(g.key)'
    BY <1>4, <1>7, <1>8, <1>9, <2>2 DEF HasRow
  <2>3. QED
    BY <2>1, <2>2 DEF GrantsFit
<1>16. ListedFit'
  BY <1>2, <1>10 DEF SafeInv, ListedFit, Pending
<1>17. Stable
  <2>1. ASSUME NEW b \in Backends, OutOfService(b) PROVE OutOfService(b)'
    <3>1. ASSUME NEW g \in grants', g.backend = b PROVE key'[g.key] # "active"
      <4>1. CASE g \in grants
        BY <1>9, <2>1, <3>1, <4>1 DEF OutOfService
      <4>2. CASE g \notin grants
        <5>1. g.key = r.key /\ b \in r.ids
          BY <1>7, <3>1, <4>2, NoneIsNoBackend
        <5>2. key[r.key] \in {"revoked", "deleted"}
          BY <1>1, <2>1, <5>1 DEF OutOfService, Pending, r
        <5>3. QED
          BY <1>5, <5>1, <5>2
      <4>3. QED
        BY <4>1, <4>2
    <3>2. \A i \in Requests : Pending(i)' /\ b \in req'[i].ids =>
            key'[req'[i].key] \in {"revoked", "deleted"}
      BY <1>10, <1>13, <2>1 DEF OutOfService, Pending
    <3>3. QED
      BY <1>2, <2>1, <3>1, <3>2 DEF OutOfService, Pending
  <2>2. QED
    BY <2>1 DEF Stable
<1>18. OnlyTheDeadAreRevoked'
  BY <1>2, <1>3, <1>17, StableParties
<1>19. QED
  BY <1>12, <1>14, <1>15, <1>16, <1>18 DEF SafeInv

----------------------------------------------------------------------------
(* The theorems.                                                           *)

LEMMA InitSafe == ASSUME Init PROVE SafeInv
<1>1. \A h \in Requests : req[h].pc = "idle"
  BY DEF Init, Idle, Work
<1>2. /\ queue = {} /\ grants = {} /\ sweep.ids = {}
      /\ recon.pc = "idle"
  BY DEF Init, SweepIdle, ReconIdle
<1>3. OnlyTheDeadAreRevoked
  BY <1>1, <1>2, Parties DEF PartiesFit
<1>4. QED
  BY <1>1, <1>2, <1>3 DEF SafeInv, RequestsFit, OneCreator, Fits, PendingFit, Pending,
                          GrantsFit, ListedFit

LEMMA NextSafe ==
  ASSUME CommitReplyLost = FALSE, TypeInv, TypeInv', SafeInv, [Next]_vars
  PROVE  SafeInv'
<1>1. CASE UNCHANGED vars
  <2>1. CalmRows /\ UNCHANGED req /\ UNCHANGED jobs /\ UNCHANGED rows
    BY <1>1, SameGrantsCalm, SameUpstreamCalm DEF vars, CalmRows
  <2>2. Calm
    BY <2>1 DEF Calm, CalmRequests
  <2>3. ListedFit'
    BY <2>1, <2>2, CalmListed
  <2>4. /\ \A b \in sweep.ids : OutOfService(b)
        /\ recon.pc = "revoke" => \A b \in recon.ids : OutOfService(b)
    BY Parties DEF SafeInv, PartiesFit
  <2>5. QED
    BY <2>1, <2>3, <2>4, CalmJob
<1>2. ASSUME NEW h \in Requests, RequestStarts(h) PROVE SafeInv'
  BY <1>2, CreateStartSafe, StartSafe, RevokeStartSafe DEF RequestStarts
<1>3. ASSUME NEW h \in Requests, RequestSteps(h) PROVE SafeInv'
  <2>1. ~InsertReplyLost(h)
    BY DEF InsertReplyLost
  <2>2. QED
    BY <1>3, <2>1, GoesOnSafe, RevokeListSafe, FailsSafe, MintSafe, InsertSafe,
       DiscardSafe, RemoveSafe, RevokeMarkSafe, RevokeOneSafe, DeleteSafe
       DEF RequestSteps
<1>4. QED
  BY <1>1, <1>2, <1>3, SweepSafe, ReconSafe, CrashSafe DEF Next

LEMMA SafeStep ==
  ASSUME CommitReplyLost = FALSE
  PROVE  TypeInv /\ SafeInv /\ [Next]_vars => (TypeInv /\ SafeInv)'
<1> SUFFICES ASSUME TypeInv, SafeInv, [Next]_vars
             PROVE  (TypeInv /\ SafeInv)'
  OBVIOUS
<1>1. TypeInv'
  BY NextType
<1>2. QED
  BY <1>1, NextSafe

\* When every COMMIT is answered, whatever the queue, the sweeper, the
\* reconciler or a request is about to revoke is out of service for good.
THEOREM OnlyTheDeadAreRevokedAlways ==
  ASSUME CommitReplyLost = FALSE
  PROVE  Spec => []OnlyTheDeadAreRevoked
<1>1. Init => TypeInv /\ SafeInv
  BY InitType, InitSafe
<1>2. TypeInv /\ SafeInv /\ [Next]_vars => (TypeInv /\ SafeInv)'
  BY SafeStep
<1>3. SafeInv => OnlyTheDeadAreRevoked
  BY DEF SafeInv
<1>4. QED
  BY <1>1, <1>2, <1>3, PTL DEF Spec

\* When every COMMIT is answered, the backend key behind a grant of an active
\* gateway key is live.
THEOREM GrantedKeysWorkAlways ==
  ASSUME CommitReplyLost = FALSE
  PROVE  Spec => []GrantedKeysWork
<1>1. Init => TypeInv /\ SafeInv
  BY InitType, InitSafe
<1>2. TypeInv /\ SafeInv /\ [Next]_vars => (TypeInv /\ SafeInv)'
  BY SafeStep
<1>3. SafeInv => GrantedKeysWork
  BY NoneIsNoBackend DEF SafeInv, GrantsFit, GrantedKeysWork, Serving
<1>4. QED
  BY <1>1, <1>2, <1>3, PTL DEF Spec

----------------------------------------------------------------------------
(* The refinement: each step moves some backend keys, all the same way, or *)
(* none.                                                                   *)

PhaseFits ==
    \A b \in Backends :
        /\ upstream[b] = "unminted" => Phase[b] = "none"
        /\ upstream[b] = "revoked" => Phase[b] = "revoked"
        /\ upstream[b] = "live" /\ Serving(b) => Phase[b] = "serving"
        /\ upstream[b] = "live" /\ ~Serving(b) /\ Awaited(b) => Phase[b] = "pending"
        /\ upstream[b] = "live" /\ ~Serving(b) /\ ~Awaited(b) => Phase[b] = "released"

LEMMA PhaseIs == PhaseFits
  BY DEF PhaseFits, Phase

LEMMA PhaseWillBe == PhaseFits'
  BY PhaseIs, PTL

LEMMA PhaseFunction ==
  /\ Phase = [b \in Backends |-> Phase[b]]
  /\ Phase' = [b \in Backends |-> Phase'[b]]
  BY DEF Phase

\* A uniform change of phases is an abstract step.
LEMMA Moves ==
  ASSUME NEW from, NEW to,
         \A b \in Backends : Phase'[b] = Phase[b] \/ (Phase[b] \in from /\ Phase'[b] = to)
  PROVE  \E B \in SUBSET Backends : Credentials!Move(B, from, to)
<1> DEFINE B == {b \in Backends : Phase'[b] # Phase[b]}
<1>1. \A b \in B : Phase[b] \in from
  OBVIOUS
<1>2. Phase' = [b \in Backends |-> IF b \in B THEN to ELSE Phase[b]]
  BY PhaseFunction
<1>3. Credentials!Move(B, from, to)
  BY <1>1, <1>2 DEF Credentials!Move
<1>4. QED
  BY <1>3

LEMMA AbstractStep ==
  ASSUME \/ \A b \in Backends : Phase'[b] = Phase[b] \/
              (Phase[b] \in {"none"} /\ Phase'[b] = "pending")
         \/ \A b \in Backends : Phase'[b] = Phase[b] \/
              (Phase[b] \in {"pending"} /\ Phase'[b] = "serving")
         \/ \A b \in Backends : Phase'[b] = Phase[b] \/
              (Phase[b] \in {"none", "pending", "serving"} /\ Phase'[b] = "released")
         \/ \A b \in Backends : Phase'[b] = Phase[b] \/
              (Phase[b] \in {"released"} /\ Phase'[b] = "revoked")
  PROVE  Credentials!Next
<1>1. \/ \E B \in SUBSET Backends : Credentials!Move(B, {"none"}, "pending")
      \/ \E B \in SUBSET Backends : Credentials!Move(B, {"pending"}, "serving")
      \/ \E B \in SUBSET Backends : Credentials!Move(B, {"none", "pending", "serving"}, "released")
      \/ \E B \in SUBSET Backends : Credentials!Move(B, {"released"}, "revoked")
  BY Moves
<1>2. QED
  BY <1>1 DEF Credentials!Next, Credentials!Issue, Credentials!Serve,
              Credentials!Release, Credentials!Revoke

----------------------------------------------------------------------------
(* Calm steps release, or revoke.                                          *)

LEMMA NotBoth ==
  ASSUME TypeInv, SafeInv, NEW b \in Backends
  PROVE  /\ Awaited(b) => ~Serving(b)
         /\ Awaited(b) \/ Serving(b) => ~OutOfService(b) /\ upstream[b] = "live"
<1>1. ASSUME NEW h \in Requests, Pending(h), b \in req[h].ids,
             key[req[h].key] \in {"reserved", "active"}
      PROVE  ~Serving(b) /\ ~OutOfService(b) /\ upstream[b] = "live"
  BY <1>1 DEF SafeInv, PendingFit, Serving, OutOfService, Pending
<1>2. Serving(b) => ~OutOfService(b) /\ upstream[b] = "live"
  BY NoneIsNoBackend DEF SafeInv, GrantsFit, Serving, OutOfService
<1>3. QED
  BY <1>1, <1>2 DEF Awaited, Pending

LEMMA CalmShrinks ==
  ASSUME TypeInv, Calm, NEW b \in Backends
  PROVE  (Serving(b)' => Serving(b)) /\ (Awaited(b)' => Awaited(b))
<1>1. ASSUME NEW g \in grants', g.backend = b, key'[g.key] = "active"
      PROVE  Serving(b)
  <2>1. g \in grants /\ g.key \in Keys
    BY <1>1, Typed, NoneIsNoBackend DEF Calm, CalmRows, CalmGrants
  <2>2. QED
    BY <1>1, <2>1 DEF Calm, CalmRows, CalmKeys, Serving
<1>2. ASSUME NEW h \in Requests, Pending(h)', b \in req'[h].ids,
             key'[req'[h].key] \in {"reserved", "active"}
      PROVE  Awaited(b)
  <2>1. req'[h] = req[h] /\ Pending(h)
    BY <1>2 DEF Calm, CalmRequests, Pending
  <2>2. req[h].key \in Keys
    BY <2>1, Typed DEF Pending, KeyedPc
  <2>3. QED
    BY <1>2, <2>1, <2>2 DEF Calm, CalmRows, CalmKeys, Awaited, Pending
<1>3. QED
  BY <1>1, <1>2 DEF Serving, Awaited, Pending

LEMMA ReleaseStep ==
  ASSUME TypeInv, SafeInv, Calm, UNCHANGED upstream
  PROVE  Credentials!Next
<1>1. ASSUME NEW b \in Backends
      PROVE  Phase'[b] = Phase[b] \/
              (Phase[b] \in {"none", "pending", "serving"} /\ Phase'[b] = "released")
  <2>1. (Serving(b)' => Serving(b)) /\ (Awaited(b)' => Awaited(b)) /\ (Awaited(b) => ~Serving(b))
    BY CalmShrinks, NotBoth
  <2>2. upstream[b] \in {"unminted", "live", "revoked"} /\ upstream'[b] = upstream[b]
    BY DEF TypeInv, UpstreamOK
  <2>3. QED
    BY <2>1, <2>2, PhaseIs, PhaseWillBe DEF PhaseFits
<1>2. QED
  BY <1>1, AbstractStep

LEMMA RevokeStep ==
  ASSUME TypeInv, SafeInv, Calm,
         \A b \in Backends : (Serving(b) => Serving(b)') /\ (Awaited(b) => Awaited(b)')
  PROVE  Credentials!Next
<1>1. ASSUME NEW b \in Backends
      PROVE  Phase'[b] = Phase[b] \/ (Phase[b] \in {"released"} /\ Phase'[b] = "revoked")
  <2>1. (Serving(b)' <=> Serving(b)) /\ (Awaited(b)' <=> Awaited(b))
    BY CalmShrinks
  <2>2. Awaited(b) \/ Serving(b) => ~OutOfService(b)
    BY NotBoth
  <2>3. /\ upstream[b] \in {"unminted", "live", "revoked"}
        /\ \/ upstream'[b] = upstream[b]
           \/ OutOfService(b) /\ upstream'[b] = "revoked"
    BY DEF TypeInv, UpstreamOK, Calm, CalmRows, CalmUpstream
  <2>4. CASE upstream'[b] = upstream[b]
    BY <2>1, <2>3, <2>4, PhaseIs, PhaseWillBe DEF PhaseFits
  <2>5. CASE OutOfService(b) /\ upstream'[b] = "revoked"
    <3>1. upstream[b] # "unminted"
      BY <2>5 DEF OutOfService
    <3>2. QED
      BY <2>2, <2>3, <2>5, <3>1, PhaseIs, PhaseWillBe DEF PhaseFits
  <2>6. QED
    BY <2>3, <2>4, <2>5
<1>2. QED
  BY <1>1, AbstractStep

----------------------------------------------------------------------------
(* The steps that revoke: what they forget, and whom they answer, has no   *)
(* backend key in service.                                                 *)

\* Request h, which was granting nothing, is all that changes.
LEMMA SameService ==
  ASSUME TypeInv, UNCHANGED <<key, grants>>,
         NEW h \in Requests, ~Pending(h), \A i \in Requests \ {h} : req'[i] = req[i],
         NEW b \in Backends
  PROVE  (Serving(b) => Serving(b)') /\ (Awaited(b) => Awaited(b)')
<1>1. Serving(b) => Serving(b)'
  BY DEF Serving
<1>2. ASSUME NEW i \in Requests, Pending(i), b \in req[i].ids,
             key[req[i].key] \in {"reserved", "active"}
      PROVE  Awaited(b)'
  <2>1. req'[i] = req[i]
    BY <1>2
  <2>2. QED
    BY <1>2, <2>1 DEF Awaited, Pending
<1>3. QED
  BY <1>1, <1>2 DEF Awaited, Pending

LEMMA OthersStay ==
  ASSUME TypeInv, NEW h \in Requests, NEW r, Becomes(h, r)
  PROVE  req'[h] = r /\ \A i \in Requests \ {h} : req'[i] = req[i]
  BY DEF TypeInv, RequestsOK, Becomes

\* Forgetting rows of keys that are not active, or backend keys out of service.
LEMMA ForgetService ==
  ASSUME UNCHANGED key, NEW G, ForgetBackend(G),
         \A g \in G : g \in grants => key[g.key] # "active" \/ OutOfService(g.backend),
         NEW b \in Backends
  PROVE  Serving(b) => Serving(b)'
<1>1. ASSUME NEW g \in grants, g.backend = b, key[g.key] = "active"
      PROVE  Serving(b)'
  <2>1. g \notin G
    BY <1>1 DEF OutOfService
  <2>2. g \in grants'
    BY <2>1 DEF ForgetBackend
  <2>3. QED
    BY <1>1, <2>2 DEF Serving
<1>2. QED
  BY <1>1 DEF Serving

LEMMA DiscardRefines ==
  ASSUME TypeInv, TypeInv', SafeInv, NEW h \in Requests, Discard(h)
  PROVE  Credentials!Next
<1>1. ~Pending(h) /\ Becomes(h, Idle) /\ UNCHANGED <<key, grants>>
  BY DEF Discard, Pending
<1>2. \A i \in Requests \ {h} : req'[i] = req[i]
  BY <1>1, OthersStay
<1>3. QED
  BY <1>1, <1>2, DiscardSafe, SameService, RevokeStep

LEMMA RevokeOneRefines ==
  ASSUME TypeInv, TypeInv', SafeInv, NEW h \in Requests,
         RevokeOneDone(h) \/ RevokeOneFails(h)
  PROVE  Credentials!Next
<1>1. PICK r : Becomes(h, r)
  BY DEF RevokeOneDone, RevokeOneFails
<1>2. \A i \in Requests \ {h} : req'[i] = req[i]
  BY <1>1, OthersStay
<1>3. ~Pending(h) /\ UNCHANGED key /\ key[req[h].key] \in {"revoked", "deleted"}
  BY DEF RevokeOneDone, RevokeOneFails, Pending, SafeInv, RequestsFit, Fits
<1>4. ASSUME NEW b \in Backends PROVE Serving(b) => Serving(b)'
  <2>1. CASE RevokeOneDone(h)
    <3>1. PICK G \in SUBSET GrantsOf(req[h].key) : ForgetBackend(G)
      BY <2>1 DEF RevokeOneDone
    <3>2. \A g \in G : key[g.key] # "active"
      BY <1>3, <3>1 DEF GrantsOf
    <3>3. QED
      BY <1>3, <3>1, <3>2, ForgetService
  <2>2. CASE RevokeOneFails(h)
    BY <2>2 DEF RevokeOneFails, Serving
  <2>3. QED
    BY <2>1, <2>2
<1>5. ASSUME NEW b \in Backends PROVE Awaited(b) => Awaited(b)'
  BY <1>2, <1>3 DEF Awaited, Pending
<1>6. QED
  BY <1>4, <1>5, RevokeOneSafe, RevokeStep

LEMMA SweepRefines ==
  ASSUME TypeInv, TypeInv', SafeInv, SweepSteps \/ SweepAborts
  PROVE  Credentials!Next
<1>1. Calm /\ UNCHANGED req /\ UNCHANGED key
  BY SweepSafe DEF SweepSteps, SweepStart, SweepQueuedDone, SweepLeftovers,
                   SweepGrantDone, SweepFails, SweepEnd, SweepAborts
<1>2. CASE UNCHANGED upstream
  BY <1>1, <1>2, ReleaseStep
<1>3. ASSUME NEW b \in Backends, UNCHANGED grants \/ SweepGrantDone
      PROVE  Serving(b) => Serving(b)'
  <2>1. CASE UNCHANGED grants
    BY <1>1, <2>1 DEF Serving
  <2>2. CASE SweepGrantDone
    <3>1. PICK x \in sweep.ids : ForgetBackend({g \in grants : g.backend = x})
      BY <2>2 DEF SweepGrantDone
    <3>2. OutOfService(x)
      BY <3>1, Parties DEF SafeInv, PartiesFit
    <3>3. QED
      BY <1>1, <3>1, <3>2, ForgetService
  <2>3. QED
    BY <1>3, <2>1, <2>2
<1>4. \A b \in Backends : Awaited(b) => Awaited(b)'
  BY <1>1 DEF Awaited
<1>5. CASE SweepQueuedDone \/ SweepGrantDone \/ SweepFails
  <2>1. UNCHANGED grants \/ SweepGrantDone
    BY <1>5 DEF SweepQueuedDone, SweepFails
  <2>2. QED
    BY <1>1, <1>3, <1>4, <2>1, RevokeStep
<1>6. QED
  BY <1>2, <1>5 DEF SweepSteps, SweepStart, SweepLeftovers, SweepEnd, SweepAborts

LEMMA ReconRefines ==
  ASSUME TypeInv, TypeInv', SafeInv, ReconSteps \/ ReconAborts
  PROVE  Credentials!Next
<1>1. Calm /\ UNCHANGED req /\ UNCHANGED rows
  BY ReconSafe DEF ReconSteps, ReconStart, ReconList, ReconSkip, ReconHeld, ReconKnown,
                   ReconRevoke, ReconFails, ReconNext, ReconEnd, ReconAborts
<1>2. \A b \in Backends : (Serving(b) => Serving(b)') /\ (Awaited(b) => Awaited(b)')
  BY <1>1 DEF Serving, Awaited
<1>3. QED
  BY <1>1, <1>2, RevokeStep

----------------------------------------------------------------------------
(* The steps that give a backend key away.                                 *)

LEMMA CreateStartRefines ==
  ASSUME TypeInv, TypeInv', SafeInv, NEW h \in Requests, CreateStart(h)
  PROVE  Credentials!Next
<1>1. PICK k \in Keys, S \in SUBSET Services :
        /\ key[k] = "unused"
        /\ key' = [key EXCEPT ![k] = "reserved"]
        /\ Becomes(h, Work("create", k, S))
  BY DEF CreateStart
<1>2. UNCHANGED <<grants, upstream>> /\ ~Pending(h)
  BY DEF CreateStart, Pending
<1>3. req'[h].ids = {} /\ \A i \in Requests \ {h} : req'[i] = req[i]
  BY <1>1, OthersStay DEF Work
<1>4. \A x \in Keys \ {k} : key'[x] = key[x]
  BY <1>1 DEF TypeInv, RowsOK
<1>5. ASSUME NEW b \in Backends PROVE Serving(b)' <=> Serving(b)
  <2>1. \A g \in grants : g.key \in Keys \ {k}
    BY <1>1, Typed DEF SafeInv, GrantsFit, HasRow
  <2>2. QED
    BY <1>2, <1>4, <2>1 DEF Serving
<1>6. ASSUME NEW b \in Backends PROVE Awaited(b)' <=> Awaited(b)
  <2>1. ASSUME NEW i \in Requests, Pending(i) PROVE i # h /\ req[i].key \in Keys \ {k}
    BY <1>1, <1>2, <2>1, Typed DEF Pending, KeyedPc, SafeInv, RequestsFit, Fits
  <2>2. \A i \in Requests : b \in req'[i].ids => i # h
    BY <1>3
  <2>3. QED
    BY <1>3, <1>4, <2>1, <2>2 DEF Awaited, Pending
<1>7. \A b \in Backends : Phase'[b] = Phase[b]
  BY <1>2, <1>5, <1>6, PhaseIs, PhaseWillBe DEF PhaseFits, TypeInv, UpstreamOK
<1>8. QED
  BY <1>7, AbstractStep

LEMMA MintRefines ==
  ASSUME TypeInv, TypeInv', SafeInv, NEW h \in Requests, Mint(h) \/ MintReplyLost(h)
  PROVE  Credentials!Next
<1>1. req[h] \in Request /\ Pending(h) /\ UNCHANGED <<key, grants>>
  BY Typed DEF Mint, MintReplyLost, Pending
<1>2. PICK s \in Brokered, n \in Backends : Issue(n, s, req[h].key)
                /\ (Mint(h) => Becomes(h, [req[h] EXCEPT !.ids = @ \cup {n}]))
  BY DEF Mint, MintReplyLost, Unminted
<1>3. /\ upstream[n] = "unminted" /\ upstream'[n] = "live"
      /\ \A b \in Backends \ {n} : upstream'[b] = upstream[b]
  BY <1>2 DEF Issue, TypeInv, UpstreamOK
<1>4. /\ \A g \in grants : g.backend # n
      /\ \A i \in Requests : Pending(i) => n \notin req[i].ids
  BY <1>3, Fresh
<1>5. \A b \in Backends : (Serving(b)' <=> Serving(b)) /\ (Awaited(b) => ~Serving(b))
  BY <1>1, NotBoth DEF Serving
<1>6. Phase[n] = "none" /\ ~Serving(n)'
  BY <1>1, <1>3, <1>4, PhaseIs DEF PhaseFits, Serving
<1>7. \A b \in Backends : upstream[b] \in {"unminted", "live", "revoked"}
  BY DEF TypeInv, UpstreamOK
<1>8. CASE Mint(h)
  <2> DEFINE r == [req[h] EXCEPT !.ids = @ \cup {n}]
  <2>1. r.pc = req[h].pc /\ r.key = req[h].key /\ r.ids = req[h].ids \cup {n}
    BY <1>1 DEF Request
  <2>2. Becomes(h, r)
    BY <1>2, <1>8
  <2> HIDE DEF r
  <2>3. req'[h] = r /\ \A i \in Requests \ {h} : req'[i] = req[i]
    BY <2>2, OthersStay
  <2>4. ASSUME NEW b \in Backends \ {n} PROVE Awaited(b)' <=> Awaited(b)
    <3>1. \A i \in Requests : /\ req'[i].pc = req[i].pc /\ req'[i].key = req[i].key
                              /\ b \in req'[i].ids <=> b \in req[i].ids
      BY <2>1, <2>3
    <3>2. QED
      BY <1>1, <3>1 DEF Awaited
  <2>5. \A b \in Backends \ {n} : Phase'[b] = Phase[b]
    BY <1>3, <1>5, <1>7, <2>4, PhaseIs, PhaseWillBe DEF PhaseFits
  <2>6. Phase'[n] \in {"pending", "released"}
    BY <1>3, <1>6, PhaseWillBe DEF PhaseFits
  <2>7. QED
    BY <1>6, <2>5, <2>6, AbstractStep
<1>9. CASE MintReplyLost(h)
  <2>1. Becomes(h, Discarding(req[h].ids))
    BY <1>9 DEF MintReplyLost
  <2>2. Discarding(req[h].ids).pc \in {"idle", "discard"}
    BY DiscardingFits
  <2>3. ~Pending(h)' /\ \A i \in Requests \ {h} : req'[i] = req[i]
    BY <2>1, <2>2, OthersStay DEF Pending
  <2>4. \A b \in Backends : Awaited(b)' => Awaited(b)
    BY <1>1, <2>3 DEF Awaited, Pending
  <2>5. ~Awaited(n)'
    BY <1>4, <2>4 DEF Awaited, Pending
  <2>6. Phase'[n] = "released"
    BY <1>3, <1>6, <2>5, PhaseWillBe DEF PhaseFits
  <2>7. \A b \in Backends \ {n} : Phase'[b] = Phase[b] \/
          (Phase[b] \in {"none", "pending", "serving"} /\ Phase'[b] = "released")
    BY <1>3, <1>5, <1>7, <2>4, PhaseIs, PhaseWillBe DEF PhaseFits
  <2>8. QED
    BY <1>6, <2>6, <2>7, AbstractStep
<1>10. QED
  BY <1>8, <1>9

LEMMA InsertRefines ==
  ASSUME TypeInv, TypeInv', SafeInv, SafeInv', NEW h \in Requests, Insert(h)
  PROVE  Credentials!Next
<1> DEFINE r == req[h]
<1>1. Pending(h) /\ r.key \in Keys /\ Fits(r, key) /\ r.ids \subseteq Backends
  BY Typed DEF Insert, InsertThen, Pending, KeyedPc, SafeInv, RequestsFit
<1>2. /\ Insertable(r)
      /\ grants' = grants \cup NewGrants(r)
      /\ key' = IF r.pc = "create" THEN [key EXCEPT ![r.key] = "active"] ELSE key
      /\ Becomes(h, Idle)
      /\ UNCHANGED upstream
  BY DEF Insert, InsertThen
<1>3. req'[h].pc = "idle" /\ \A i \in Requests \ {h} : req'[i] = req[i]
  BY <1>2, OthersStay, IdleFits
<1>4. /\ key'[r.key] \in {"active", "revoked"}
      /\ \A k \in Keys \ {r.key} : key'[k] = key[k]
      /\ \/ r.pc = "create" /\ key[r.key] = "reserved" /\ key'[r.key] = "active"
         \/ r.pc = "add" /\ key' = key
  BY <1>1, <1>2 DEF Insertable, HasRow, TypeInv, RowsOK, Pending, Fits
<1>5. /\ \A g \in NewGrants(r) : g.key = r.key /\ (g.backend # None => g.backend \in r.ids)
      /\ \A b \in r.ids : \E g \in NewGrants(r) : g.key = r.key /\ g.backend = b
  <2>1. ASSUME NEW b \in r.ids
        PROVE  \E g \in NewGrants(r) : g.key = r.key /\ g.backend = b
    <3>1. [key |-> r.key, service |-> at[b], backend |-> b] \in NewGrants(r)
      BY <2>1 DEF NewGrants
    <3>2. QED
      BY <3>1
  <2>2. \A g \in NewGrants(r) : g.key = r.key /\ (g.backend # None => g.backend \in r.ids)
    BY DEF NewGrants
  <2>3. QED
    BY <2>1, <2>2
<1>6. \A g \in grants : key'[g.key] = key[g.key]
  BY <1>4, Typed DEF SafeInv, GrantsFit, HasRow
<1>7. \A b \in r.ids :
        /\ key[r.key] \in {"reserved", "active"} => upstream[b] = "live"
        /\ \A i \in Requests : Pending(i) /\ b \in req[i].ids => i = h
        /\ \A g \in grants : g.backend # b
  BY <1>1 DEF SafeInv, PendingFit
<1> HIDE DEF r
<1>8. ASSUME NEW i \in Requests, Pending(i), i # h
      PROVE  key'[req[i].key] = key[req[i].key]
  <2>1. req[i].key \in Keys
    BY <1>8, Typed DEF Pending, KeyedPc
  <2>2. r.pc = "create" => req[i].key # r.key
    <3>1. Fits(req[i], key)
      BY DEF SafeInv, RequestsFit
    <3>2. QED
      BY <1>4, <1>8, <3>1 DEF SafeInv, RequestsFit, OneCreator, r, Pending, Fits
  <2>3. QED
    BY <1>4, <2>1, <2>2
<1>9. ASSUME NEW b \in Backends \ r.ids
      PROVE  Phase'[b] = Phase[b]
  <2>1. Serving(b)' <=> Serving(b)
    BY <1>2, <1>5, <1>6, NoneIsNoBackend DEF Serving
  <2>2. Awaited(b)' <=> Awaited(b)
    BY <1>3, <1>8 DEF Awaited, Pending, r
  <2>3. upstream[b] \in {"unminted", "live", "revoked"} /\ upstream'[b] = upstream[b]
    BY <1>2 DEF TypeInv, UpstreamOK
  <2>4. QED
    BY <2>1, <2>2, <2>3, PhaseIs, PhaseWillBe DEF PhaseFits
<1>10. ASSUME NEW b \in r.ids, key'[r.key] = "active"
       PROVE  Phase[b] = "pending" /\ Phase'[b] = "serving"
  <2>1. b \in Backends /\ key[r.key] \in {"reserved", "active"}
    BY <1>1, <1>4, <1>10 DEF r
  <2>2. upstream[b] = "live" /\ upstream'[b] = "live" /\ Awaited(b) /\ ~Serving(b)
    BY <1>1, <1>2, <1>7, <1>10, <2>1, NotBoth DEF Awaited, Pending, r
  <2>3. Serving(b)'
    BY <1>2, <1>5, <1>10 DEF Serving
  <2>4. QED
    BY <2>1, <2>2, <2>3, PhaseIs, PhaseWillBe DEF PhaseFits
<1>11. ASSUME NEW b \in r.ids, key'[r.key] # "active"
       PROVE  Phase'[b] = Phase[b]
  <2>1. b \in Backends /\ key[r.key] = "revoked" /\ key' = key
    BY <1>1, <1>4, <1>11 DEF r
  <2>2. ~Serving(b) /\ ~Serving(b)'
    BY <1>2, <1>5, <1>7, <1>11, <2>1, NoneIsNoBackend DEF Serving
  <2>3. ~Awaited(b) /\ ~Awaited(b)'
    BY <1>3, <1>7, <1>11, <2>1 DEF Awaited, Pending, r
  <2>4. upstream[b] \in {"unminted", "live", "revoked"} /\ upstream'[b] = upstream[b]
    BY <1>2, <2>1 DEF TypeInv, UpstreamOK
  <2>5. QED
    BY <2>1, <2>2, <2>3, <2>4, PhaseIs, PhaseWillBe DEF PhaseFits
<1>12. \A b \in Backends : Phase'[b] = Phase[b] \/
         (Phase[b] \in {"pending"} /\ Phase'[b] = "serving")
  BY <1>9, <1>10, <1>11
<1>13. QED
  BY <1>12, AbstractStep

----------------------------------------------------------------------------
LEMMA NextRefines ==
  ASSUME CommitReplyLost = FALSE, TypeInv, TypeInv', SafeInv, SafeInv', [Next]_vars
  PROVE  [Credentials!Next]_Phase
<1>1. CASE UNCHANGED vars
  BY <1>1 DEF vars, Phase, Serving, Awaited
<1>2. ASSUME NEW h \in Requests, RequestStarts(h) PROVE Credentials!Next
  <2>1. CASE AddStart(h) \/ RemoveStart(h) \/ RevokeStart(h)
    BY <2>1, StartSafe, RevokeStartSafe, ReleaseStep DEF AddStart, RemoveStart, RevokeStart
  <2>2. QED
    BY <1>2, <2>1, CreateStartRefines DEF RequestStarts
<1>3. ASSUME NEW h \in Requests, RequestSteps(h) PROVE Credentials!Next
  <2>1. CASE AddRead(h) \/ RemoveRead(h) \/ RevokeRead(h) \/ RevokeEnd(h) \/ QueryFails(h)
    BY <2>1, GoesOnSafe, ReleaseStep
       DEF AddRead, RemoveRead, RevokeRead, RevokeEnd, QueryFails
  <2>2. CASE RevokeList(h) \/ MintFails(h) \/ InsertFails(h)
    BY <2>2, RevokeListSafe, FailsSafe, ReleaseStep
       DEF RevokeList, MintFails, InsertFails
  <2>3. CASE Remove(h) \/ RevokeMark(h) \/ Delete(h)
    BY <2>3, RemoveSafe, RevokeMarkSafe, DeleteSafe, ReleaseStep
       DEF Remove, RevokeMark, Delete
  <2>4. ~InsertReplyLost(h)
    BY DEF InsertReplyLost
  <2>5. QED
    BY <1>3, <2>1, <2>2, <2>3, <2>4, MintRefines, InsertRefines, DiscardRefines,
       RevokeOneRefines DEF RequestSteps
<1>4. CASE Crash
  BY <1>4, CrashSafe, ReleaseStep DEF Crash
<1>5. QED
  BY <1>1, <1>2, <1>3, <1>4, SweepRefines, ReconRefines DEF Next

\* When every COMMIT is answered, requests, sweeper, reconciler and crashes
\* together keep every backend key to the life cycle of BackendCredentials.
THEOREM LifeCycleKept ==
  ASSUME CommitReplyLost = FALSE
  PROVE  Spec => CredentialLifeCycle
<1>1. Init => TypeInv /\ SafeInv
  BY InitType, InitSafe
<1>2. TypeInv /\ SafeInv /\ [Next]_vars => (TypeInv /\ SafeInv)'
  BY SafeStep
<1>3. Init => Credentials!Init
  BY DEF Init, Credentials!Init, Phase
<1>4. TypeInv /\ SafeInv /\ (TypeInv /\ SafeInv)' /\ [Next]_vars => [Credentials!Next]_Phase
  BY NextRefines
<1>5. QED
  BY <1>1, <1>2, <1>3, <1>4, PTL DEF Spec, CredentialLifeCycle, Credentials!Spec
=============================================================================
