---------------------------- MODULE ServerProofs ----------------------------
(***************************************************************************)
(* Proofs about the server's own machinery: Idempotency, for any requests  *)
(* and payloads, and Supervisor, for any workers and any number of timers. *)
(***************************************************************************)
EXTENDS Idempotency, Supervisor, TLAPS, FiniteSetTheorems

----------------------------------------------------------------------------
(* Idempotency: the inductive invariant.                                   *)

\* A request at work has a payload, and only one that holds the key writes its row.
RequestFit(q) ==
    /\ q.pc # "idle" => q.payload \in Payloads
    /\ q.pc = "record" => q.claimed

TypeInv == TypeOK /\ \A r \in Requests : RequestFit(req[r])

\* An execution whose claim nothing disturbed owns the row there is, and neither another
\* execution nor the clearing of a row is under way.
OwnerInv ==
    \A r \in Requests :
        Running(r) /\ r \notin disturbed =>
            /\ row # NoRow /\ row.by = r
            /\ \A s \in Requests : req[s].pc # "clear" /\ (Running(s) => s = r)

\* A settled key has its row, which nobody is about to clear; the one execution that may
\* still be under way is the one that settled it.
SettledInv ==
    settled =>
        /\ row # NoRow
        /\ \A s \in Requests :
            /\ req[s].pc # "clear"
            /\ Running(s) => s = row.by /\ req[s].pc = "record" /\ Settles(req[s].ok)

\* Nobody but who claimed it ever answers for a row claimed alone.
AloneInv ==
    row # NoRow /\ row.alone =>
        /\ \A s \in Requests : Running(s) => s = row.by /\ req[s].payload = row.hash
        /\ row.answer # None => row.answer = row.hash

RowInv == OwnerInv /\ SettledInv /\ AloneInv

IInv == TypeInv /\ RowInv /\ ReplaysFit

----------------------------------------------------------------------------
(* Type correctness.                                                       *)

LEMMA RequestAt ==
    ASSUME TypeInv, NEW r \in Requests
    PROVE  req[r] \in Request /\ RequestFit(req[r])
BY DEF TypeInv, TypeOK

LEMMA RowIsNotNone ==
    ASSUME NEW x \in Row
    PROVE  x # NoRow
BY NoneAssumption DEF Row, NoRow

LEMMA RequestsFit ==
    ASSUME NEW q \in Request, RequestFit(q), q.pc # "idle", row \in Row \cup {NoRow}
    PROVE  /\ Idle \in Request /\ RequestFit(Idle)
           /\ Claimed(q) \in Request /\ RequestFit(Claimed(q))
           /\ Unclaimed(q) \in Request /\ RequestFit(Unclaimed(q))
           /\ Replayed(q) \in Request /\ RequestFit(Replayed(q))
           /\ Again(q) \in Request /\ RequestFit(Again(q))
           /\ \A pc \in {"inspect", "clear"} :
                [q EXCEPT !.pc = pc] \in Request /\ RequestFit([q EXCEPT !.pc = pc])
<1>1. /\ q.payload \in Payloads /\ row.answer \in Payloads \cup {None}
      /\ row.alone \in BOOLEAN
    <2>1. q.payload \in Payloads
        BY DEF RequestFit
    <2>2. CASE row \in Row
        BY <2>1, <2>2 DEF Row
    <2>3. CASE row = NoRow
        BY <2>1, <2>3 DEF NoRow
    <2>4. QED
        BY <2>2, <2>3
<1>2. Idle \in Request /\ RequestFit(Idle)
    BY DEF Idle, Request, RequestFit
<1>3. Claimed(q) \in Request /\ RequestFit(Claimed(q))
    <2>1. PICK p, x : p = q.payload /\ x = Claimed(q)
        OBVIOUS
    <2>2. x = [Idle EXCEPT !.pc = "run", !.payload = p, !.claimed = TRUE]
        BY <2>1 DEF Claimed
    <2>3. x = [pc |-> "run", payload |-> p, attempt |-> 1, claimed |-> TRUE, ok |-> FALSE,
               answer |-> None, alone |-> TRUE]
        BY <2>2 DEF Idle
    <2>4. x \in Request
        BY <1>1, <2>1, <2>3 DEF Request
    <2>5. RequestFit(x)
        BY <1>1, <2>1, <2>3 DEF RequestFit
    <2>6. QED
        BY <2>1, <2>4, <2>5
<1>4. Unclaimed(q) \in Request /\ RequestFit(Unclaimed(q))
    <2>1. PICK p, x : p = q.payload /\ x = Unclaimed(q)
        OBVIOUS
    <2>2. x = [Idle EXCEPT !.pc = "run", !.payload = p]
        BY <2>1 DEF Unclaimed
    <2>3. x = [pc |-> "run", payload |-> p, attempt |-> 1, claimed |-> FALSE, ok |-> FALSE,
               answer |-> None, alone |-> TRUE]
        BY <2>2 DEF Idle
    <2>4. x \in Request
        BY <1>1, <2>1, <2>3 DEF Request
    <2>5. RequestFit(x)
        BY <1>1, <2>1, <2>3 DEF RequestFit
    <2>6. QED
        BY <2>1, <2>4, <2>5
<1>5. Replayed(q) \in Request /\ RequestFit(Replayed(q))
    <2>1. PICK p, x, v, a : p = q.payload /\ x = Replayed(q) /\ v = row.answer /\ a = row.alone
        OBVIOUS
    <2>2. x = [Idle EXCEPT !.pc = "replayed", !.payload = p, !.answer = v, !.alone = a]
        BY <2>1 DEF Replayed
    <2>3. x = [pc |-> "replayed", payload |-> p, attempt |-> 1, claimed |-> FALSE,
               ok |-> FALSE, answer |-> v, alone |-> a]
        BY <2>2 DEF Idle
    <2>4. x \in Request
        BY <1>1, <2>1, <2>3 DEF Request
    <2>5. RequestFit(x)
        BY <1>1, <2>1, <2>3 DEF RequestFit
    <2>6. QED
        BY <2>1, <2>4, <2>5
<1>6. Again(q) \in Request /\ RequestFit(Again(q))
    <2>1. CASE q.attempt = 1
        <3>1. PICK x : x = [q EXCEPT !.pc = "claim"]
            OBVIOUS
        <3>2. PICK y : y = [x EXCEPT !.attempt = 2]
            OBVIOUS
        <3>3. x \in Request /\ x.pc = "claim" /\ x.payload = q.payload
            BY <3>1 DEF Request
        <3>4. y \in Request /\ y.pc = "claim" /\ y.payload = q.payload
            BY <3>2, <3>3 DEF Request
        <3>5. Again(q) = y
            BY <2>1, <3>1, <3>2 DEF Again
        <3>6. QED
            BY <1>1, <3>4, <3>5 DEF RequestFit
    <2>2. CASE q.attempt # 1
        BY <1>4, <2>2 DEF Again
    <2>3. QED
        BY <2>1, <2>2
<1>7. ASSUME NEW pc \in {"inspect", "clear"}
      PROVE  [q EXCEPT !.pc = pc] \in Request /\ RequestFit([q EXCEPT !.pc = pc])
    BY <1>1 DEF Request, RequestFit
<1>8. QED
    BY <1>2, <1>3, <1>4, <1>5, <1>6, <1>7

LEMMA BecomesFit ==
    ASSUME TypeInv, NEW r \in Requests, NEW q \in Request, RequestFit(q), Becomes(r, q)
    PROVE  /\ req' \in [Requests -> Request] /\ \A s \in Requests : RequestFit(req'[s])
           /\ req'[r] = q /\ \A s \in Requests \ {r} : req'[s] = req[s]
BY DEF TypeInv, TypeOK, Becomes

\* A step that leaves the rest as it is.
LEMMA OnlyRequests ==
    ASSUME TypeInv, req' \in [Requests -> Request], \A s \in Requests : RequestFit(req'[s]),
           UNCHANGED <<kind, row, claimHistory>>
    PROVE  TypeInv'
BY DEF TypeInv, TypeOK, claimHistory

\* Executions end and clearings end, none begins, and the row at most ages.
LEMMA NothingBegins ==
    ASSUME RowInv,
           \A s \in Requests : Running(s)' => Running(s) /\ req'[s] = req[s],
           \A s \in Requests : req'[s].pc = "clear" => req[s].pc = "clear",
           row' # NoRow <=> row # NoRow,
           row # NoRow => /\ row'.by = row.by /\ row'.hash = row.hash
                          /\ row'.answer = row.answer /\ (row'.alone => row.alone),
           UNCHANGED <<kind, claimHistory>>
    PROVE  RowInv'
<1>1. OwnerInv'
    BY DEF RowInv, OwnerInv, claimHistory
<1>2. SettledInv'
    <2>1. SUFFICES ASSUME settled PROVE SettledInv'
        BY DEF SettledInv, claimHistory
    <2>2. row' # NoRow /\ \A s \in Requests : req'[s].pc # "clear"
        BY <2>1 DEF RowInv, SettledInv
    <2>3. ASSUME NEW s \in Requests, Running(s)'
          PROVE  s = row'.by /\ req'[s].pc = "record" /\ Settles(req[s].ok)
        BY <2>1, <2>3 DEF RowInv, SettledInv
    <2>4. ASSUME NEW s \in Requests, Running(s)'
          PROVE  Settles(req[s].ok)'
        BY <2>3, <2>4 DEF Settles, ForgetsFailures
    <2>5. QED
        BY <2>2, <2>3, <2>4 DEF SettledInv
<1>3. AloneInv'
    BY DEF RowInv, AloneInv
<1>4. QED
    BY <1>1, <1>2, <1>3 DEF RowInv

\* A row judged too old, be it still there or already gone.
LEMMA RowJudged ==
    ASSUME RowInv, row # NoRow, Judged, row' \in {row, NoRow},
           \A s \in Requests : Running(s)' => Running(s) /\ req'[s] = req[s]
    PROVE  RowInv'
<1>1. OwnerInv'
    BY DEF RowInv, OwnerInv, Judged
<1>2. SettledInv'
    BY DEF SettledInv, Judged
<1>3. AloneInv'
    BY DEF RowInv, AloneInv
<1>4. QED
    BY <1>1, <1>2, <1>3 DEF RowInv

\* A request that neither executes nor clears, and replays nothing it should not.
Harmless(q) ==
    /\ ~(q.claimed /\ q.pc \in {"run", "record"})
    /\ q.pc # "clear" /\ q.pc # "replayed"

LEMMA HarmlessStep ==
    ASSUME IInv, NEW r \in Requests, NEW q \in Request, RequestFit(q), Harmless(q),
           Becomes(r, q), UNCHANGED <<kind, row, claimHistory>>
    PROVE  IInv'
<1>1. TypeInv /\ RowInv /\ ReplaysFit
    BY DEF IInv
<1>2. /\ req' \in [Requests -> Request] /\ \A s \in Requests : RequestFit(req'[s])
      /\ req'[r] = q /\ \A s \in Requests \ {r} : req'[s] = req[s]
    BY <1>1, BecomesFit
<1>3. TypeInv'
    BY <1>1, <1>2, OnlyRequests
<1>4. \A s \in Requests : Running(s)' => Running(s) /\ req'[s] = req[s]
    BY <1>2 DEF Running, Harmless
<1>5. RowInv'
    BY <1>1, <1>2, <1>4, NothingBegins DEF Harmless
<1>6. ReplaysFit'
    BY <1>1, <1>2 DEF ReplaysFit, Harmless
<1>7. QED
    BY <1>3, <1>5, <1>6 DEF IInv

----------------------------------------------------------------------------
(* The steps of a request.                                                 *)

LEMMA Shapes ==
    ASSUME NEW q \in Request
    PROVE  /\ Harmless(Idle) /\ Harmless(Unclaimed(q))
           /\ q.pc \in {"claim", "inspect", "clear"} => Harmless(Again(q))
           /\ Harmless([q EXCEPT !.pc = "inspect"])
           /\ Claimed(q).pc = "run" /\ Claimed(q).claimed /\ Claimed(q).payload = q.payload
           /\ Replayed(q).pc = "replayed" /\ Replayed(q).payload = q.payload
           /\ Replayed(q).answer = row.answer /\ Replayed(q).alone = row.alone
<1>1. Harmless(Idle) /\ Harmless(Unclaimed(q))
    BY DEF Harmless, Idle, Unclaimed
<1>2. q.pc \in {"claim", "inspect", "clear"} => Harmless(Again(q))
    BY <1>1 DEF Harmless, Again, Request
<1>3. Harmless([q EXCEPT !.pc = "inspect"])
    BY DEF Harmless, Request
<1>4. QED
    BY <1>1, <1>2, <1>3 DEF Claimed, Replayed, Idle

LEMMA SendStep ==
    ASSUME IInv, NEW r \in Requests, Send(r)
    PROVE  IInv'
<1>1. PICK p \in Payloads : Becomes(r, [Idle EXCEPT !.pc = "claim", !.payload = p])
    BY DEF Send
<1>2. PICK q : q = [Idle EXCEPT !.pc = "claim", !.payload = p]
    OBVIOUS
<1>3. q = [pc |-> "claim", payload |-> p, attempt |-> 1, claimed |-> FALSE, ok |-> FALSE,
           answer |-> None, alone |-> TRUE]
    BY <1>2 DEF Idle
<1>4. q \in Request
    BY <1>3 DEF Request
<1>5. RequestFit(q) /\ Harmless(q)
    BY <1>3 DEF RequestFit, Harmless
<1>6. QED
    BY <1>1, <1>2, <1>4, <1>5, HarmlessStep DEF Send

LEMMA ClaimStep ==
    ASSUME IInv, NEW r \in Requests, Claim(r)
    PROVE  IInv'
<1>1. /\ TypeInv /\ RowInv /\ ReplaysFit
      /\ req[r] \in Request /\ RequestFit(req[r]) /\ req[r].pc = "claim"
      /\ row \in Row \cup {NoRow}
    BY RequestAt DEF IInv, TypeInv, TypeOK, Claim
<1>2. CASE row # NoRow
    <2>1. PICK q : q = [req[r] EXCEPT !.pc = "inspect"]
        OBVIOUS
    <2>2. q \in Request /\ RequestFit(q) /\ Harmless(q)
        BY <1>1, <2>1, RequestsFit, Shapes
    <2>3. QED
        BY <1>2, <2>1, <2>2, HarmlessStep DEF Claim, claimHistory
<1>3. CASE row = NoRow
    <2>1. PICK q : q = Claimed(req[r])
        OBVIOUS
    <2>2. /\ q \in Request /\ RequestFit(q) /\ q.pc = "run" /\ q.claimed
          /\ q.payload = req[r].payload /\ req[r].payload \in Payloads
        BY <1>1, <2>1, RequestsFit, Shapes DEF RequestFit
    <2>3. /\ row' = [hash |-> req[r].payload, answer |-> None, age |-> "fresh", by |-> r,
                     alone |-> Runners = {}]
          /\ Becomes(r, q) /\ Claims(r) /\ UNCHANGED <<kind, settled>>
        BY <1>3, <2>1 DEF Claim
    <2>4. /\ req' \in [Requests -> Request] /\ \A s \in Requests : RequestFit(req'[s])
          /\ req'[r] = q /\ \A s \in Requests \ {r} : req'[s] = req[s]
        BY <1>1, <2>2, <2>3, BecomesFit
    <2>5. /\ row' \in Row /\ row' # NoRow /\ row'.by = r /\ row'.hash = q.payload
          /\ row'.answer = None /\ row'.alone = (Runners = {})
        <3>1. row' \in Row
            BY <2>2, <2>3 DEF Row
        <3>2. QED
            BY <2>2, <2>3, <3>1, RowIsNotNone
    <2>6. TypeInv'
        BY <1>1, <2>3, <2>4, <2>5 DEF TypeInv, TypeOK, Claims
    <2>7. /\ \A s \in Requests : Running(s) => s \in disturbed
          /\ ~settled
        BY <1>1, <1>3 DEF RowInv, OwnerInv, SettledInv
    <2>8. /\ \A s \in Requests \ {r} : Running(s)' <=> Running(s)
          /\ ~Running(r) /\ Running(r)' /\ req'[r].pc # "clear"
        BY <1>1, <2>2, <2>4 DEF Running
    <2>9. OwnerInv'
        <3>1. ASSUME NEW s \in Requests, Running(s)', s \notin disturbed'
              PROVE  s = r /\ ~Crowded(r)
            BY <2>3, <2>7, <2>8, <3>1 DEF Claims
        <3>2. ~Crowded(r) => \A s \in Requests \ {r} : ~Running(s)' /\ req'[s].pc # "clear"
            BY <2>4, <2>8 DEF Crowded
        <3>3. QED
            BY <2>5, <2>8, <3>1, <3>2 DEF OwnerInv
    <2>10. SettledInv'
        BY <2>3, <2>7 DEF SettledInv
    <2>11. AloneInv'
        <3>1. SUFFICES ASSUME Runners = {} PROVE AloneInv'
            BY <2>5 DEF AloneInv
        <3>2. \A s \in Requests : Running(s)' => s = r
            BY <2>8, <3>1 DEF Runners
        <3>3. QED
            BY <2>4, <2>5, <3>2 DEF AloneInv
    <2>12. ReplaysFit'
        BY <1>1, <2>2, <2>3, <2>4 DEF ReplaysFit
    <2>13. QED
        BY <2>6, <2>9, <2>10, <2>11, <2>12 DEF IInv, RowInv
<1>4. QED
    BY <1>2, <1>3

LEMMA InspectStep ==
    ASSUME IInv, NEW r \in Requests, Inspect(r)
    PROVE  IInv'
<1>1. /\ TypeInv /\ RowInv /\ ReplaysFit
      /\ req[r] \in Request /\ RequestFit(req[r]) /\ req[r].pc = "inspect"
      /\ row \in Row \cup {NoRow}
      /\ UNCHANGED <<kind, row>>
    BY RequestAt DEF IInv, TypeInv, TypeOK, Inspect
<1>2. \/ UNCHANGED claimHistory /\ (Becomes(r, Again(req[r])) \/ Becomes(r, Idle))
      \/ row # NoRow /\ Judged /\ Becomes(r, [req[r] EXCEPT !.pc = "clear"])
      \/ /\ row # NoRow /\ row.hash = req[r].payload /\ row.answer # None /\ kind # "secret"
         /\ Becomes(r, Replayed(req[r])) /\ UNCHANGED claimHistory
    BY DEF Inspect, TooOld
<1>3. CASE UNCHANGED claimHistory /\ (Becomes(r, Again(req[r])) \/ Becomes(r, Idle))
    <2>1. PICK q : q \in {Again(req[r]), Idle} /\ Becomes(r, q)
        BY <1>3
    <2>2. q \in Request /\ RequestFit(q) /\ Harmless(q)
        BY <1>1, <2>1, RequestsFit, Shapes
    <2>3. QED
        BY <1>1, <1>3, <2>1, <2>2, HarmlessStep
<1>4. CASE row # NoRow /\ Judged /\ Becomes(r, [req[r] EXCEPT !.pc = "clear"])
    <2>1. PICK q : q = [req[r] EXCEPT !.pc = "clear"]
        OBVIOUS
    <2>2. q \in Request /\ RequestFit(q) /\ q.pc = "clear"
        BY <1>1, <2>1, RequestsFit DEF Request
    <2>3. /\ req' \in [Requests -> Request] /\ \A s \in Requests : RequestFit(req'[s])
          /\ req'[r] = q /\ \A s \in Requests \ {r} : req'[s] = req[s]
        BY <1>1, <1>4, <2>1, <2>2, BecomesFit
    <2>4. TypeInv'
        BY <1>1, <1>4, <2>3 DEF TypeInv, TypeOK, Judged, Row
    <2>5. \A s \in Requests : Running(s)' => Running(s) /\ req'[s] = req[s]
        BY <2>2, <2>3 DEF Running
    <2>6. RowInv'
        BY <1>1, <1>4, <2>5, RowJudged
    <2>7. ReplaysFit'
        BY <1>1, <2>2, <2>3 DEF ReplaysFit
    <2>8. QED
        BY <2>4, <2>6, <2>7 DEF IInv
<1>5. CASE /\ row # NoRow /\ row.hash = req[r].payload /\ row.answer # None /\ kind # "secret"
           /\ Becomes(r, Replayed(req[r])) /\ UNCHANGED claimHistory
    <2>1. PICK q : q = Replayed(req[r])
        OBVIOUS
    <2>2. /\ q \in Request /\ RequestFit(q) /\ q.pc = "replayed"
          /\ q.payload = req[r].payload /\ q.answer = row.answer /\ q.alone = row.alone
        BY <1>1, <2>1, RequestsFit, Shapes
    <2>3. /\ req' \in [Requests -> Request] /\ \A s \in Requests : RequestFit(req'[s])
          /\ req'[r] = q /\ \A s \in Requests \ {r} : req'[s] = req[s]
        BY <1>1, <1>5, <2>1, <2>2, BecomesFit
    <2>4. TypeInv'
        BY <1>1, <1>5, <2>3, OnlyRequests
    <2>5. \A s \in Requests : Running(s)' => Running(s) /\ req'[s] = req[s]
        BY <2>2, <2>3 DEF Running
    <2>6. RowInv'
        BY <1>1, <1>5, <2>2, <2>3, <2>5, NothingBegins
    <2>7. q.alone => q.answer = q.payload
        BY <1>1, <1>5, <2>2 DEF RowInv, AloneInv
    <2>8. ReplaysFit'
        BY <1>1, <1>5, <2>2, <2>3, <2>7 DEF ReplaysFit
    <2>9. QED
        BY <2>4, <2>6, <2>8 DEF IInv
<1>6. QED
    BY <1>2, <1>3, <1>4, <1>5

LEMMA ClearStep ==
    ASSUME IInv, NEW r \in Requests, Clear(r)
    PROVE  IInv'
<1>1. /\ TypeInv /\ RowInv /\ ReplaysFit
      /\ req[r] \in Request /\ RequestFit(req[r]) /\ req[r].pc = "clear"
      /\ row \in Row \cup {NoRow}
      /\ row' = NoRow /\ UNCHANGED <<kind, disturbed, settled>>
    BY RequestAt DEF IInv, TypeInv, TypeOK, Clear, claimHistory
<1>2. PICK q : q = Again(req[r])
    OBVIOUS
<1>3. q \in Request /\ RequestFit(q) /\ Harmless(q) /\ Becomes(r, q)
    BY <1>1, <1>2, RequestsFit, Shapes DEF Clear
<1>4. /\ req' \in [Requests -> Request] /\ \A s \in Requests : RequestFit(req'[s])
      /\ req'[r] = q /\ \A s \in Requests \ {r} : req'[s] = req[s]
    BY <1>1, <1>3, BecomesFit
<1>5. TypeInv'
    BY <1>1, <1>4 DEF TypeInv, TypeOK
<1>6. \A s \in Requests : Running(s)' => Running(s)
    BY <1>3, <1>4 DEF Running, Harmless
<1>7. ~settled /\ \A s \in Requests : Running(s) => s \in disturbed
    BY <1>1 DEF RowInv, OwnerInv, SettledInv
<1>8. RowInv'
    BY <1>1, <1>6, <1>7 DEF RowInv, OwnerInv, SettledInv, AloneInv
<1>9. ReplaysFit'
    BY <1>1, <1>3, <1>4 DEF ReplaysFit, Harmless
<1>10. QED
    BY <1>5, <1>8, <1>9 DEF IInv

LEMMA FailedStep ==
    ASSUME IInv, NEW r \in Requests, StatementFails(r) \/ Die(r)
    PROVE  IInv'
<1>1. req[r] \in Request /\ RequestFit(req[r]) /\ row \in Row \cup {NoRow}
    BY RequestAt DEF IInv, TypeInv, TypeOK
<1>2. PICK q : Becomes(r, q) /\
        \/ q = Idle
        \/ req[r].pc \in {"claim", "inspect"} /\ q = Unclaimed(req[r])
        \/ req[r].pc = "clear" /\ q = Again(req[r])
    BY DEF StatementFails, Die
<1>3. q \in Request /\ RequestFit(q) /\ Harmless(q)
    <2>1. Idle \in Request /\ RequestFit(Idle)
        BY DEF Idle, Request, RequestFit
    <2>2. QED
        BY <1>1, <1>2, <2>1, RequestsFit, Shapes
<1>4. QED
    BY <1>2, <1>3, HarmlessStep DEF StatementFails, Die

LEMMA RunStep ==
    ASSUME IInv, NEW r \in Requests, Run(r)
    PROVE  IInv'
<1>1. /\ TypeInv /\ RowInv /\ ReplaysFit
      /\ req[r] \in Request /\ RequestFit(req[r]) /\ req[r].pc = "run"
      /\ row \in Row \cup {NoRow} /\ settled \in BOOLEAN
      /\ UNCHANGED <<kind, row, disturbed>>
    BY RequestAt DEF IInv, TypeInv, TypeOK, Run
<1>2. CASE ~req[r].claimed
    <2>1. Becomes(r, Idle) /\ UNCHANGED settled
        <3>1. r \notin Runners
            BY <1>2 DEF Runners, Running
        <3>2. QED
            BY <1>1, <1>2, <3>1 DEF Run
    <2>2. Idle \in Request /\ RequestFit(Idle) /\ Harmless(Idle)
        BY <1>1, RequestsFit, Shapes
    <2>3. QED
        BY <1>1, <2>1, <2>2, HarmlessStep DEF claimHistory
<1>3. CASE req[r].claimed
    <2>1. PICK ok \in BOOLEAN :
            /\ Becomes(r, [req[r] EXCEPT !.pc = "record", !.ok = ok])
            /\ settled' = (settled \/ (r \in Runners \ disturbed /\ Settles(ok)))
        BY <1>3 DEF Run
    <2>2. PICK x : x = [req[r] EXCEPT !.pc = "record"]
        OBVIOUS
    <2>3. x \in Request /\ x.payload = req[r].payload /\ x.claimed /\ x.pc = "record"
        BY <1>1, <1>3, <2>2 DEF Request
    <2>4. PICK q : q = [x EXCEPT !.ok = ok]
        OBVIOUS
    <2>5. /\ q \in Request /\ q.payload = req[r].payload /\ q.claimed /\ q.pc = "record"
          /\ q.ok = ok
        BY <2>3, <2>4 DEF Request
    <2>6. RequestFit(q)
        BY <1>1, <2>5 DEF RequestFit
    <2>7. Becomes(r, q)
        BY <2>1, <2>2, <2>4
    <2>8. /\ req' \in [Requests -> Request] /\ \A s \in Requests : RequestFit(req'[s])
          /\ req'[r] = q /\ \A s \in Requests \ {r} : req'[s] = req[s]
        BY <1>1, <2>5, <2>6, <2>7, BecomesFit
    <2>9. TypeInv'
        BY <1>1, <2>1, <2>8 DEF TypeInv, TypeOK
    <2>10. /\ Running(r) /\ \A s \in Requests : Running(s)' <=> Running(s)
           /\ \A s \in Requests : req'[s].pc = "clear" => req[s].pc = "clear"
           /\ \A s \in Requests : req'[s].payload = req[s].payload
        BY <1>1, <1>3, <2>5, <2>8 DEF Running
    <2>11. ~settled
        BY <1>1, <2>10 DEF RowInv, SettledInv
    <2>12. OwnerInv'
        BY <1>1, <2>10 DEF RowInv, OwnerInv
    <2>13. SettledInv'
        <3>1. SUFFICES ASSUME r \notin disturbed, Settles(ok) PROVE SettledInv'
            BY <2>1, <2>11 DEF SettledInv
        <3>2. /\ row # NoRow /\ row.by = r
              /\ \A s \in Requests : req[s].pc # "clear" /\ (Running(s) => s = r)
            BY <1>1, <2>10, <3>1 DEF RowInv, OwnerInv
        <3>3. req'[r].pc = "record" /\ Settles(req[r].ok)'
            BY <1>1, <2>5, <2>8, <3>1 DEF Settles, ForgetsFailures
        <3>4. QED
            BY <1>1, <2>10, <3>2, <3>3 DEF SettledInv
    <2>14. AloneInv'
        BY <1>1, <2>10 DEF RowInv, AloneInv
    <2>15. ReplaysFit'
        BY <1>1, <2>5, <2>8 DEF ReplaysFit
    <2>16. QED
        BY <2>9, <2>12, <2>13, <2>14, <2>15 DEF IInv, RowInv
<1>4. QED
    BY <1>2, <1>3

LEMMA RecordStep ==
    ASSUME IInv, NEW r \in Requests, RecordAnswer(r)
    PROVE  IInv'
<1>1. /\ TypeInv /\ RowInv /\ ReplaysFit
      /\ req[r] \in Request /\ RequestFit(req[r]) /\ req[r].pc = "record" /\ req[r].claimed
      /\ req[r].payload \in Payloads /\ row \in Row \cup {NoRow}
      /\ UNCHANGED <<kind, disturbed, settled>>
    BY RequestAt DEF IInv, TypeInv, TypeOK, RecordAnswer, RequestFit, claimHistory
<1>2. Becomes(r, Idle) /\ Idle \in Request /\ RequestFit(Idle) /\ Harmless(Idle)
    BY <1>1, RequestsFit, Shapes DEF RecordAnswer
<1>3. /\ req' \in [Requests -> Request] /\ \A s \in Requests : RequestFit(req'[s])
      /\ req'[r] = Idle /\ \A s \in Requests \ {r} : req'[s] = req[s]
    BY <1>1, <1>2, BecomesFit
<1>4. \/ row' = NoRow /\ (~Settles(req[r].ok) \/ row = NoRow)
      \/ row # NoRow /\ row' = [row EXCEPT !.answer = req[r].payload]
    BY DEF RecordAnswer
<1>5. row # NoRow /\ row' = [row EXCEPT !.answer = req[r].payload] =>
        /\ row' \in Row /\ row' # NoRow /\ row'.hash = row.hash /\ row'.by = row.by
        /\ row'.alone = row.alone /\ row'.answer = req[r].payload
    <2>1. SUFFICES ASSUME row # NoRow, row' = [row EXCEPT !.answer = req[r].payload]
                   PROVE  /\ row' \in Row /\ row' # NoRow /\ row'.hash = row.hash
                          /\ row'.by = row.by /\ row'.alone = row.alone
                          /\ row'.answer = req[r].payload
        OBVIOUS
    <2>2. row \in Row
        BY <1>1, <2>1
    <2>3. /\ row' \in Row /\ row'.hash = row.hash /\ row'.by = row.by
          /\ row'.alone = row.alone /\ row'.answer = req[r].payload
        BY <1>1, <2>1, <2>2 DEF Row
    <2>4. QED
        BY <2>3, RowIsNotNone
<1>6. TypeInv'
    <2>1. row' \in Row \cup {NoRow}
        BY <1>4, <1>5
    <2>2. QED
        BY <1>1, <1>3, <2>1 DEF TypeInv, TypeOK
<1>7. /\ Running(r) /\ \A s \in Requests : Running(s)' => s # r /\ Running(s)
      /\ \A s \in Requests \ {r} : req'[s] = req[s]
    BY <1>1, <1>2, <1>3 DEF Running, Harmless
<1>8. OwnerInv'
    BY <1>1, <1>7 DEF RowInv, OwnerInv
<1>9. SettledInv'
    <2>1. SUFFICES ASSUME settled PROVE SettledInv'
        BY <1>1 DEF SettledInv
    <2>2. /\ row # NoRow /\ row.by = r /\ Settles(req[r].ok)
          /\ \A s \in Requests : req[s].pc # "clear" /\ (Running(s) => s = r)
        BY <1>1, <1>7, <2>1 DEF RowInv, SettledInv
    <2>3. row' # NoRow
        BY <1>4, <1>5, <2>2
    <2>4. \A s \in Requests : ~Running(s)' /\ req'[s].pc # "clear"
        BY <1>2, <1>3, <1>7, <2>2 DEF Harmless
    <2>5. QED
        BY <2>3, <2>4 DEF SettledInv
<1>10. AloneInv'
    <2>1. SUFFICES ASSUME row # NoRow, row.alone, row' = [row EXCEPT !.answer = req[r].payload]
                   PROVE  AloneInv'
        BY <1>4, <1>5 DEF AloneInv
    <2>2. req[r].payload = row.hash /\ \A s \in Requests : Running(s) => s = r
        BY <1>1, <1>7, <2>1 DEF RowInv, AloneInv
    <2>3. QED
        BY <1>5, <1>7, <2>1, <2>2 DEF AloneInv
<1>11. ReplaysFit'
    BY <1>1, <1>2, <1>3 DEF ReplaysFit, Harmless
<1>12. QED
    BY <1>6, <1>8, <1>9, <1>10, <1>11 DEF IInv, RowInv

----------------------------------------------------------------------------
(* Time, and the theorems.                                                 *)

LEMMA TimeStep ==
    ASSUME IInv, GrowStale \/ Expire \/ DeleteExpired
    PROVE  IInv'
<1>1. /\ TypeInv /\ RowInv /\ ReplaysFit /\ row \in Row \cup {NoRow}
      /\ UNCHANGED <<kind, req>>
    BY DEF IInv, TypeInv, TypeOK, GrowStale, Expire, DeleteExpired
<1>2. ReplaysFit' /\ \A s \in Requests : Running(s)' <=> Running(s)
    BY <1>1 DEF ReplaysFit, Running
<1>3. CASE DeleteExpired
    <2>1. row # NoRow /\ row' = NoRow /\ Judged
        BY <1>3 DEF DeleteExpired, NoRow
    <2>2. TypeInv'
        BY <1>1, <2>1 DEF TypeInv, TypeOK, Judged, Row
    <2>3. RowInv'
        BY <1>1, <1>2, <2>1, RowJudged
    <2>4. QED
        BY <1>2, <2>2, <2>3 DEF IInv
<1>4. CASE GrowStale \/ Expire
    <2>1. UNCHANGED claimHistory /\ row # NoRow
        BY <1>4 DEF GrowStale, Expire, NoRow
    <2>2. PICK age \in {"stale", "expired"} : row' = [row EXCEPT !.age = age]
        BY <1>4 DEF GrowStale, Expire
    <2>3. /\ row' \in Row /\ row'.hash = row.hash /\ row'.by = row.by
          /\ row'.answer = row.answer /\ row'.alone = row.alone
        BY <1>1, <2>1, <2>2 DEF Row
    <2>4. row' # NoRow
        BY <2>3, RowIsNotNone
    <2>5. TypeInv'
        BY <1>1, <2>1, <2>3 DEF TypeInv, TypeOK, claimHistory
    <2>6. RowInv'
        BY <1>1, <1>2, <2>1, <2>3, <2>4, NothingBegins
    <2>7. QED
        BY <1>2, <2>5, <2>6 DEF IInv
<1>5. QED
    BY <1>3, <1>4

LEMMA InitHolds == Init => IInv
<1> SUFFICES ASSUME Init PROVE IInv
    OBVIOUS
<1>1. Idle \in Request /\ RequestFit(Idle) /\ Harmless(Idle) /\ Idle.pc = "idle"
    BY DEF Idle, Request, RequestFit, Harmless
<1>2. TypeInv
    <2>1. req \in [Requests -> Request] /\ \A r \in Requests : RequestFit(req[r])
        BY <1>1 DEF Init
    <2>2. kind \in Kinds /\ row \in Row \cup {NoRow}
        BY DEF Init
    <2>3. disturbed \subseteq Requests /\ settled \in BOOLEAN
        BY DEF Init
    <2>4. QED
        BY <2>1, <2>2, <2>3 DEF TypeInv, TypeOK
<1>3. RowInv
    <2>1. \A r \in Requests : ~Running(r)
        BY <1>1 DEF Init, Running, Harmless
    <2>2. QED
        BY <2>1 DEF Init, RowInv, OwnerInv, SettledInv, AloneInv
<1>4. ReplaysFit
    BY <1>1 DEF Init, ReplaysFit
<1>5. QED
    BY <1>2, <1>3, <1>4 DEF IInv

LEMMA InvIsKept == IInv /\ [Next]_vars => IInv'
<1> SUFFICES ASSUME IInv, [Next]_vars PROVE IInv'
    OBVIOUS
<1>1. ASSUME NEW r \in Requests,
             Send(r) \/ RequestSteps(r) \/ StatementFails(r) \/ Die(r)
      PROVE  IInv'
    BY <1>1, SendStep, ClaimStep, InspectStep, ClearStep, RunStep, RecordStep, FailedStep
       DEF RequestSteps
<1>2. CASE GrowStale \/ Expire \/ DeleteExpired
    BY <1>2, TimeStep
<1>3. CASE UNCHANGED vars
    BY <1>3 DEF vars, claimHistory, IInv, TypeInv, TypeOK, RowInv, OwnerInv, SettledInv, AloneInv,
                ReplaysFit, Running, Settles, ForgetsFailures
<1>4. QED
    BY <1>1, <1>2, <1>3 DEF Next

\* The row of a key and the requests that carry it keep their form (idempotency.ts).
THEOREM TypeCorrect == Spec => []TypeOK
<1>1. IInv => TypeOK
    BY DEF IInv, TypeInv
<1>2. QED
    BY <1>1, InitHolds, InvIsKept, PTL DEF Spec

\* However many requests carry the key, in whatever order they claim, fail and die: while
\* a request with a sound claim is executed no other that claimed the key is, and once
\* such an execution settled the key none is until its row is judged too old.  A claim is
\* sound unless it was made while another execution or the clearing of an earlier row was
\* under way, or its own row has been judged too old (preHandler and onSend of
\* idempotency.ts; DELETE by key alone, :159, is why a clearing counts).
THEOREM OneExecutesAtATime == Spec => []OnlyOneExecutes
<1>1. IInv => OnlyOneExecutes
    BY DEF IInv, RowInv, OwnerInv, SettledInv, OnlyOneExecutes, Runners
<1>2. QED
    BY <1>1, InitHolds, InvIsKept, PTL DEF Spec

\* A stored answer is given only to a request with the payload it answers, unless the
\* row that holds it was claimed while another request was still being executed, which
\* may have written its own answer there; one that carries a secret is given to
\* nobody, whatever happened (preHandler of idempotency.ts, and :223).
THEOREM ReplaysAlwaysFit == Spec => []ReplaysFit
<1>1. IInv => ReplaysFit
    BY DEF IInv
<1>2. QED
    BY <1>1, InitHolds, InvIsKept, PTL DEF Spec

----------------------------------------------------------------------------
(* The supervisor: the inductive invariant.                                *)

\* While the first worker starts there is nothing else.
BootFit ==
    /\ sup = "boot" =>
         /\ serving = {} /\ retiring = {} /\ doomed = {} /\ ~Reloading
         /\ \A w \in Workers : start[w] \in {"boot", "nobody"}
    /\ \A w \in Workers : start[w] = "boot" => sup \in {"boot", "exited"}
    /\ \A w, v \in Workers : start[w] = "boot" /\ start[v] = "boot" => w = v

\* A worker whose start is awaited is none of those that a reload ends, and the fresh one
\* of a reload was not told to end either.
FreshFit ==
    /\ \A w \in Workers : start[w] # "nobody" =>
         proc[w] = "starting" /\ w \notin reload.before \cup retiring
    /\ \A w \in Workers : start[w] = "reload" => reload.pc = "starting" /\ w \notin doomed
    /\ \A w, v \in Workers : start[w] = "reload" /\ start[v] = "reload" => w = v
    /\ reload.pc = "starting" => reload.wait = {}
    /\ reload.pc = "idle" => reload.before = {}

\* Nobody starts a worker again before one has died by itself.
AgainFit == ~crashed => timers = 0 /\ \A w \in Workers : start[w] # "again"

\* Workers that serve have started, and are not retired yet.
ServingFit ==
    /\ \A w \in serving : proc[w] = "ready"
    /\ serving \cap retiring = {}

SupervisorInv == SupervisorTypeOK /\ BootFit /\ FreshFit /\ AgainFit /\ ServingFit /\ NoGap

----------------------------------------------------------------------------
(* The supervisor: one step after the other.                               *)

LEMMA SupervisorInvInParts ==
    ASSUME SupervisorInv
    PROVE  SupervisorTypeOK /\ BootFit /\ FreshFit /\ AgainFit /\ ServingFit /\ NoGap
BY DEF SupervisorInv

LEMMA ReadyFacts ==
    ASSUME SupervisorInv, NEW w \in Workers, IsReady(w)
    PROVE  /\ sup # "exited" /\ proc[w] = "starting" /\ w \notin serving
           /\ proc' \in [Workers -> {"starting", "ready", "dead"}]
           /\ start' \in [Workers -> {"nobody", "boot", "reload", "again"}]
           /\ proc'[w] = "ready" /\ start'[w] = "nobody"
           /\ \A v \in Workers \ {w} : proc'[v] = proc[v] /\ start'[v] = start[v]
           /\ UNCHANGED <<stopping, stopWait, timers, history>>
<1>1. proc \in [Workers -> {"starting", "ready", "dead"}]
      /\ start \in [Workers -> {"nobody", "boot", "reload", "again"}]
    BY DEF SupervisorInv, SupervisorTypeOK
<1>2. /\ sup # "exited" /\ proc[w] = "starting"
      /\ proc' = [proc EXCEPT ![w] = "ready"] /\ start' = [start EXCEPT ![w] = "nobody"]
      /\ UNCHANGED <<stopping, stopWait, timers, history>>
    BY DEF IsReady
<1>3. w \notin serving
    BY <1>2 DEF SupervisorInv, ServingFit
<1>4. QED
    BY <1>1, <1>2, <1>3

LEMMA JoinsStep ==
    ASSUME SupervisorInv, NEW w \in Workers, Joins(w)
    PROVE  SupervisorInv'
<1>1. /\ sup # "exited" /\ proc[w] = "starting" /\ w \notin serving
      /\ proc' \in [Workers -> {"starting", "ready", "dead"}]
      /\ start' \in [Workers -> {"nobody", "boot", "reload", "again"}]
      /\ proc'[w] = "ready" /\ start'[w] = "nobody"
      /\ \A v \in Workers \ {w} : proc'[v] = proc[v] /\ start'[v] = start[v]
      /\ UNCHANGED <<stopping, stopWait, timers, history>>
    BY ReadyFacts DEF Joins
<1>2. /\ start[w] \in {"boot", "again"} /\ serving' = serving \cup {w}
      /\ sup' = (IF start[w] = "boot" THEN "up" ELSE sup)
      /\ UNCHANGED <<retiring, doomed, reload>>
    BY DEF Joins
<1>3. SupervisorTypeOK /\ BootFit /\ FreshFit /\ AgainFit /\ ServingFit /\ NoGap
    BY SupervisorInvInParts
<1>4. SupervisorTypeOK'
    BY <1>1, <1>2, <1>3 DEF SupervisorTypeOK, Alive, history
<1>5. start[w] = "boot" => sup = "boot" /\ doomed = {} /\ retiring = {} /\ ~Reloading
    BY <1>1, <1>3 DEF BootFit
<1>6. sup' # "boot" /\ \A v \in Workers : start'[v] = "boot" => sup' = sup
    BY <1>1, <1>2, <1>3, <1>5 DEF BootFit
<1>7. BootFit'
    BY <1>1, <1>2, <1>3, <1>6 DEF BootFit
<1>8. FreshFit'
    BY <1>1, <1>2, <1>3 DEF FreshFit
<1>9. AgainFit'
    BY <1>1, <1>3 DEF AgainFit, history
<1>10. ServingFit'
    <2>1. \A v \in serving' : proc'[v] = "ready"
        BY <1>1, <1>2, <1>3 DEF ServingFit, SupervisorTypeOK
    <2>2. w \notin retiring
        BY <1>2, <1>3 DEF FreshFit
    <2>3. QED
        BY <1>1, <1>2, <1>3, <2>1, <2>2 DEF ServingFit
<1>11. NoGap'
    <2>1. ASSUME sup' = "up", ~stopping, ~crashed
          PROVE  w \in serving' /\ proc'[w] = "ready" /\ w \notin doomed
        BY <1>1, <1>2, <1>3, <1>5, <2>1 DEF AgainFit
    <2>2. QED
        BY <1>1, <1>2, <2>1 DEF NoGap, history
<1>12. QED
    BY <1>4, <1>7, <1>8, <1>9, <1>10, <1>11 DEF SupervisorInv

LEMMA TakesOverStep ==
    ASSUME SupervisorInv, NEW w \in Workers, TakesOver(w)
    PROVE  SupervisorInv'
<1>1. /\ sup # "exited" /\ proc[w] = "starting" /\ w \notin serving
      /\ proc' \in [Workers -> {"starting", "ready", "dead"}]
      /\ start' \in [Workers -> {"nobody", "boot", "reload", "again"}]
      /\ proc'[w] = "ready" /\ start'[w] = "nobody"
      /\ \A v \in Workers \ {w} : proc'[v] = proc[v] /\ start'[v] = start[v]
      /\ UNCHANGED <<stopping, stopWait, timers, history>>
    BY ReadyFacts DEF TakesOver
<1>2. PICK old : old = reload.before
    OBVIOUS
<1>3. /\ start[w] = "reload" /\ UNCHANGED sup
      /\ serving' = (serving \cup {w}) \ old
      /\ retiring' = retiring \cup old
      /\ doomed' = doomed \cup {x \in old : Alive(x)}
      /\ reload' = IF old = {} THEN NoReload
                   ELSE [reload EXCEPT !.pc = "retiring", !.wait = old]
    BY <1>2 DEF TakesOver
<1>4. SupervisorTypeOK /\ BootFit /\ FreshFit /\ AgainFit /\ ServingFit /\ NoGap
    BY SupervisorInvInParts
<1>5. reload.pc = "starting" /\ w \notin old \cup retiring \cup doomed
    BY <1>2, <1>3, <1>4 DEF FreshFit
<1>6. old \in SUBSET Workers /\ reload \in Reload
    BY <1>2, <1>4 DEF SupervisorTypeOK, Reload
<1>7. /\ reload' \in Reload /\ reload'.pc # "starting" /\ reload'.before \subseteq old
      /\ reload'.pc = "idle" => reload'.before = {}
    <2>1. CASE old = {}
        BY <1>3, <2>1 DEF NoReload, Reload
    <2>2. CASE old # {}
        BY <1>2, <1>3, <1>6, <2>2 DEF Reload
    <2>3. QED
        BY <2>1, <2>2
<1>8. SupervisorTypeOK'
    <2>1. doomed' \subseteq {x \in Workers : proc'[x] \in {"starting", "ready"}}
        BY <1>1, <1>3, <1>4, <1>6 DEF SupervisorTypeOK, Alive
    <2>2. QED
        BY <1>1, <1>3, <1>4, <1>6, <1>7, <2>1 DEF SupervisorTypeOK, Alive, history
<1>9. sup # "boot"
    BY <1>4, <1>5 DEF BootFit, Reloading
<1>10. BootFit'
    BY <1>1, <1>3, <1>4, <1>9 DEF BootFit
<1>11. \A v \in Workers : start'[v] # "reload"
    BY <1>1, <1>3, <1>4 DEF FreshFit
<1>12. FreshFit'
    <2>1. \A v \in Workers : start'[v] # "nobody" =>
            v # w /\ proc'[v] = "starting" /\ v \notin old \cup retiring
        BY <1>1, <1>2, <1>4 DEF FreshFit
    <2>2. \A v \in Workers : start'[v] # "nobody" =>
            v \notin reload'.before \cup retiring'
        BY <1>3, <1>7, <2>1
    <2>3. QED
        BY <1>7, <1>11, <2>1, <2>2 DEF FreshFit
<1>13. AgainFit'
    BY <1>1, <1>4 DEF AgainFit, history
<1>14. ServingFit'
    <2>1. \A v \in serving' : proc'[v] = "ready"
        BY <1>1, <1>3, <1>4 DEF ServingFit, SupervisorTypeOK
    <2>2. serving' \cap retiring' = {}
        BY <1>3, <1>4, <1>5 DEF ServingFit
    <2>3. QED
        BY <1>1, <2>1, <2>2 DEF ServingFit
<1>15. NoGap'
    <2>1. w \in serving' /\ w \notin doomed'
        BY <1>3, <1>5
    <2>2. QED
        BY <1>1, <2>1 DEF NoGap
<1>16. QED
    BY <1>8, <1>10, <1>12, <1>13, <1>14, <1>15 DEF SupervisorInv


LEMMA UnheardStep ==
    ASSUME SupervisorInv, NEW w \in Workers, ReadyUnheard(w)
    PROVE  SupervisorInv'
<1>1. /\ sup # "exited" /\ proc[w] = "starting" /\ w \notin serving
      /\ proc' \in [Workers -> {"starting", "ready", "dead"}]
      /\ start' \in [Workers -> {"nobody", "boot", "reload", "again"}]
      /\ proc'[w] = "ready" /\ start'[w] = "nobody"
      /\ \A v \in Workers \ {w} : proc'[v] = proc[v] /\ start'[v] = start[v]
      /\ UNCHANGED <<stopping, stopWait, timers, history>>
    BY ReadyFacts DEF ReadyUnheard
<1>2. start[w] = "nobody" /\ UNCHANGED <<sup, sets, doomed, reload>>
    BY DEF ReadyUnheard
<1>3. SupervisorTypeOK /\ BootFit /\ FreshFit /\ AgainFit /\ ServingFit /\ NoGap
    BY SupervisorInvInParts
<1>4. SupervisorTypeOK'
    BY <1>1, <1>2, <1>3 DEF SupervisorTypeOK, Alive, history, sets
<1>5. BootFit' /\ FreshFit' /\ AgainFit'
    BY <1>1, <1>2, <1>3 DEF BootFit, FreshFit, AgainFit, Reloading, history, sets
<1>6. ServingFit' /\ NoGap'
    BY <1>1, <1>2, <1>3 DEF ServingFit, NoGap, SupervisorTypeOK, history, sets
<1>7. QED
    BY <1>4, <1>5, <1>6 DEF SupervisorInv

LEMMA StartOverFacts ==
    ASSUME SupervisorInv, NEW w \in Workers, StartOver(w)
    PROVE  /\ sup # "exited" /\ proc[w] = "starting" /\ start[w] # "nobody" /\ w \notin serving
           /\ proc' \in [Workers -> {"starting", "ready", "dead"}]
           /\ start' \in [Workers -> {"nobody", "boot", "reload", "again"}]
           /\ start'[w] = "nobody"
           /\ \A v \in Workers \ {w} : proc'[v] = proc[v] /\ start'[v] = start[v]
           /\ UNCHANGED <<stopping, sets, stopWait, history>>
<1>1. proc \in [Workers -> {"starting", "ready", "dead"}]
      /\ start \in [Workers -> {"nobody", "boot", "reload", "again"}]
    BY DEF SupervisorInv, SupervisorTypeOK
<1>2. /\ sup # "exited" /\ proc[w] = "starting" /\ start[w] # "nobody"
      /\ start' = [start EXCEPT ![w] = "nobody"]
      /\ UNCHANGED <<stopping, sets, stopWait, history>>
      /\ proc' = [proc EXCEPT ![w] = "dead"] \/ proc' = proc
    BY DEF StartOver
<1>3. w \notin serving
    BY <1>2 DEF SupervisorInv, ServingFit
<1>4. QED
    BY <1>1, <1>2, <1>3

LEMMA BootFailsStep ==
    ASSUME SupervisorInv, NEW w \in Workers, BootFails(w)
    PROVE  SupervisorInv'
<1>1. /\ sup # "exited" /\ proc[w] = "starting" /\ start[w] # "nobody" /\ w \notin serving
      /\ proc' \in [Workers -> {"starting", "ready", "dead"}]
      /\ start' \in [Workers -> {"nobody", "boot", "reload", "again"}]
      /\ start'[w] = "nobody"
      /\ \A v \in Workers \ {w} : proc'[v] = proc[v] /\ start'[v] = start[v]
      /\ UNCHANGED <<stopping, sets, stopWait, history>>
    BY StartOverFacts DEF BootFails
<1>2. start[w] = "boot" /\ sup' = "exited" /\ UNCHANGED <<doomed, reload, timers>>
    BY DEF BootFails
<1>3. SupervisorTypeOK /\ BootFit /\ FreshFit /\ AgainFit /\ ServingFit
    BY SupervisorInvInParts
<1>4. doomed = {}
    BY <1>1, <1>2, <1>3 DEF BootFit
<1>5. SupervisorTypeOK'
    BY <1>1, <1>2, <1>3, <1>4 DEF SupervisorTypeOK, history, sets
<1>6. BootFit' /\ FreshFit' /\ AgainFit'
    BY <1>1, <1>2, <1>3 DEF BootFit, FreshFit, AgainFit, history, sets
<1>7. ServingFit' /\ NoGap'
    BY <1>1, <1>2, <1>3 DEF ServingFit, NoGap, SupervisorTypeOK, history, sets
<1>8. QED
    BY <1>5, <1>6, <1>7 DEF SupervisorInv

LEMMA AgainFailsStep ==
    ASSUME SupervisorInv, NEW w \in Workers, AgainFails(w)
    PROVE  SupervisorInv'
<1>1. /\ sup # "exited" /\ proc[w] = "starting" /\ start[w] # "nobody" /\ w \notin serving
      /\ proc' \in [Workers -> {"starting", "ready", "dead"}]
      /\ start' \in [Workers -> {"nobody", "boot", "reload", "again"}]
      /\ start'[w] = "nobody"
      /\ \A v \in Workers \ {w} : proc'[v] = proc[v] /\ start'[v] = start[v]
      /\ UNCHANGED <<stopping, sets, stopWait, history>>
    BY StartOverFacts DEF AgainFails
<1>2. /\ start[w] = "again" /\ timers < MaxTimers /\ timers' = timers + 1
      /\ doomed' = {x \in doomed : proc'[x] # "dead"} /\ UNCHANGED <<sup, reload>>
    BY DEF AgainFails
<1>3. SupervisorTypeOK /\ BootFit /\ FreshFit /\ AgainFit /\ ServingFit /\ NoGap
    BY SupervisorInvInParts
<1>4. crashed
    BY <1>2, <1>3 DEF AgainFit
<1>5. timers' \in 0 .. MaxTimers
    BY <1>2, <1>3, TimersAssumption DEF SupervisorTypeOK
<1>6. SupervisorTypeOK'
    <2>1. doomed' \subseteq {x \in Workers : proc'[x] \in {"starting", "ready"}}
        BY <1>1, <1>2, <1>3 DEF SupervisorTypeOK, Alive
    <2>2. QED
        BY <1>1, <1>2, <1>3, <1>5, <2>1 DEF SupervisorTypeOK, Alive, history, sets
<1>7. sup # "boot"
    BY <1>2, <1>3 DEF BootFit
<1>8. BootFit' /\ FreshFit'
    BY <1>1, <1>2, <1>3, <1>7 DEF BootFit, FreshFit, history, sets
<1>9. AgainFit' /\ ServingFit' /\ NoGap'
    BY <1>1, <1>2, <1>3, <1>4 DEF AgainFit, ServingFit, NoGap, SupervisorTypeOK, history, sets
<1>10. QED
    BY <1>6, <1>8, <1>9 DEF SupervisorInv

LEMMA ReloadFailsStep ==
    ASSUME SupervisorInv, NEW w \in Workers, ReloadFails(w)
    PROVE  SupervisorInv'
<1>1. /\ sup # "exited" /\ proc[w] = "starting" /\ start[w] # "nobody" /\ w \notin serving
      /\ proc' \in [Workers -> {"starting", "ready", "dead"}]
      /\ start' \in [Workers -> {"nobody", "boot", "reload", "again"}]
      /\ start'[w] = "nobody"
      /\ \A v \in Workers \ {w} : proc'[v] = proc[v] /\ start'[v] = start[v]
      /\ UNCHANGED <<stopping, sets, stopWait, history>>
    BY StartOverFacts DEF ReloadFails
<1>2. /\ start[w] = "reload" /\ reload' = NoReload
      /\ doomed' = {x \in doomed \cup HalfStarted : proc'[x] # "dead"}
      /\ UNCHANGED <<sup, timers>>
    BY DEF ReloadFails
<1>3. SupervisorTypeOK /\ BootFit /\ FreshFit /\ AgainFit /\ ServingFit /\ NoGap
    BY SupervisorInvInParts
<1>4. HalfStarted \subseteq Workers /\ HalfStarted \cap serving = {}
    BY DEF HalfStarted
<1>5. NoReload \in Reload /\ NoReload.pc = "idle" /\ NoReload.before = {}
    BY DEF NoReload, Reload
<1>6. SupervisorTypeOK'
    <2>1. doomed' \subseteq {x \in Workers : proc'[x] \in {"starting", "ready"}}
        BY <1>1, <1>2, <1>3, <1>4 DEF SupervisorTypeOK
    <2>2. QED
        BY <1>1, <1>2, <1>3, <1>5, <2>1 DEF SupervisorTypeOK, Alive, history, sets
<1>7. sup # "boot"
    BY <1>2, <1>3 DEF BootFit
<1>8. BootFit'
    BY <1>1, <1>2, <1>3, <1>7 DEF BootFit
<1>9. \A v \in Workers : start'[v] # "reload"
    BY <1>1, <1>2, <1>3 DEF FreshFit
<1>10. FreshFit' /\ AgainFit'
    <2>1. \A v \in Workers : start'[v] # "nobody" =>
            proc'[v] = "starting" /\ v \notin reload'.before \cup retiring'
        BY <1>1, <1>2, <1>3, <1>5 DEF FreshFit, sets
    <2>2. FreshFit'
        BY <1>2, <1>5, <1>9, <2>1 DEF FreshFit
    <2>3. QED
        BY <1>1, <1>2, <1>3, <2>2 DEF AgainFit, history
<1>11. ServingFit'
    BY <1>1, <1>2, <1>3 DEF ServingFit, SupervisorTypeOK, history, sets
<1>12. NoGap'
    <2>1. SUFFICES ASSUME sup = "up", ~stopping, ~crashed
                   PROVE  \E v \in serving : proc'[v] = "ready" /\ v \notin doomed'
        BY <1>1, <1>2 DEF NoGap, history, sets
    <2>2. PICK v \in serving : proc[v] = "ready" /\ v \notin doomed
        BY <1>3, <2>1 DEF NoGap
    <2>3. v \in Workers \ {w} /\ v \notin HalfStarted
        BY <1>1, <1>3, <1>4, <2>2 DEF SupervisorTypeOK
    <2>4. QED
        BY <1>1, <1>2, <2>2, <2>3
<1>13. QED
    BY <1>6, <1>8, <1>10, <1>11, <1>12 DEF SupervisorInv


LEMMA ExitsStep ==
    ASSUME SupervisorInv, NEW w \in Workers, ServingExits(w) \/ RetiringExits(w) \/ UntrackedExits(w)
    PROVE  SupervisorInv'
<1>1. SupervisorTypeOK /\ BootFit /\ FreshFit /\ AgainFit /\ ServingFit /\ NoGap
    BY SupervisorInvInParts
<1>2. /\ sup # "exited" /\ start[w] = "nobody"
      /\ proc' = [proc EXCEPT ![w] = "dead"] /\ doomed' = doomed \ {w}
      /\ UNCHANGED <<stopping, start>>
    BY DEF ServingExits, RetiringExits, UntrackedExits, Exits
<1>3. /\ proc' \in [Workers -> {"starting", "ready", "dead"}]
      /\ \A v \in Workers \ {w} : proc'[v] = proc[v]
      /\ doomed' \subseteq {x \in Workers : proc'[x] \in {"starting", "ready"}}
    BY <1>1, <1>2 DEF SupervisorTypeOK, Alive
<1>4. \A v \in Workers : start[v] # "nobody" => v # w /\ proc'[v] = "starting"
    BY <1>1, <1>2, <1>3 DEF FreshFit
<1>5. CASE ServingExits(w)
    <2>1. /\ w \in serving /\ timers < MaxTimers /\ serving' = serving \ {w}
          /\ timers' = (IF stopping THEN timers ELSE timers + 1)
          /\ crashed' = TRUE /\ clash' = (clash \/ Reloading)
          /\ UNCHANGED <<sup, retiring, reload, stopWait>>
        BY <1>5 DEF ServingExits
    <2>2. timers' \in 0 .. MaxTimers
        BY <1>1, <2>1, TimersAssumption DEF SupervisorTypeOK
    <2>3. clash' \in BOOLEAN /\ crashed' \in BOOLEAN
        BY <2>1
    <2>4. SupervisorTypeOK'
        BY <1>1, <1>2, <1>3, <2>1, <2>2, <2>3 DEF SupervisorTypeOK, Alive
    <2>5. BootFit' /\ FreshFit' /\ AgainFit'
        BY <1>1, <1>2, <1>4, <2>1 DEF BootFit, FreshFit, AgainFit, Reloading
    <2>6. ServingFit' /\ NoGap'
        BY <1>1, <1>3, <2>1 DEF ServingFit, NoGap, SupervisorTypeOK
    <2>7. QED
        BY <2>4, <2>5, <2>6 DEF SupervisorInv
<1>6. CASE RetiringExits(w) \/ UntrackedExits(w)
    <2>1. PICK r \in SUBSET Workers : retiring' = r /\ r \subseteq retiring
        BY <1>1, <1>6 DEF RetiringExits, UntrackedExits, SupervisorTypeOK, sets
    <2>2. /\ reload' \in Reload /\ reload'.before \subseteq reload.before
          /\ reload.pc = "idle" => reload'.pc = "idle"
          /\ reload.pc = "starting" => reload' = reload
          /\ reload'.pc = "starting" => reload = reload'
          /\ reload'.pc = "idle" => reload'.before = {}
        <3>1. CASE reload.wait = {w} /\ RetiringExits(w)
            <4>1. reload' = NoReload
                BY <3>1 DEF RetiringExits
            <4>2. reload.pc # "starting"
                BY <1>1, <3>1 DEF FreshFit
            <4>3. QED
                BY <4>1, <4>2 DEF NoReload, Reload
        <3>2. CASE reload.wait # {w} /\ RetiringExits(w)
            <4>1. reload' = [reload EXCEPT !.wait = reload.wait \ {w}] /\ reload \in Reload
                BY <1>1, <3>2 DEF RetiringExits, SupervisorTypeOK
            <4>2. reload' \in Reload /\ reload'.pc = reload.pc /\ reload'.before = reload.before
                BY <4>1 DEF Reload
            <4>3. reload.pc = "starting" => reload' = reload
                <5>1. SUFFICES ASSUME reload.pc = "starting" PROVE reload' = reload
                    OBVIOUS
                <5>2. reload.wait \ {w} = reload.wait
                    BY <1>1, <5>1 DEF FreshFit
                <5>3. QED
                    BY <4>1, <5>2 DEF Reload
            <4>4. QED
                BY <1>1, <4>2, <4>3 DEF FreshFit
        <3>3. CASE UntrackedExits(w)
            BY <1>1, <3>3 DEF UntrackedExits, SupervisorTypeOK, FreshFit
        <3>4. QED
            BY <1>6, <3>1, <3>2, <3>3
    <2>3. w \notin serving /\ UNCHANGED <<serving, timers, history>>
        BY <1>1, <1>6 DEF RetiringExits, UntrackedExits, ServingFit, sets
    <2>4. /\ sup' \in {"boot", "up", "exited"} /\ stopWait' \subseteq Workers
          /\ sup' = sup \/ sup' = "exited"
        BY <1>1, <1>6 DEF RetiringExits, UntrackedExits, SupervisorTypeOK
    <2>5. SupervisorTypeOK'
        BY <1>1, <1>2, <1>3, <2>1, <2>2, <2>3, <2>4 DEF SupervisorTypeOK, Alive, history
    <2>6. BootFit'
        BY <1>1, <1>2, <2>1, <2>2, <2>3, <2>4 DEF BootFit, Reloading
    <2>7. FreshFit'
        BY <1>1, <1>2, <1>4, <2>1, <2>2 DEF FreshFit
    <2>8. AgainFit'
        BY <1>1, <1>2, <2>3 DEF AgainFit, history
    <2>9. ServingFit'
        BY <1>1, <1>2, <1>3, <2>1, <2>3 DEF ServingFit, SupervisorTypeOK, history
    <2>10. NoGap'
        BY <1>1, <1>2, <1>3, <2>3, <2>4 DEF NoGap, SupervisorTypeOK, history
    <2>11. QED
        BY <2>5, <2>6, <2>7, <2>8, <2>9, <2>10 DEF SupervisorInv
<1>7. QED
    BY <1>5, <1>6


LEMMA ForkFacts ==
    ASSUME SupervisorInv, NEW w \in Workers, NEW by \in {"reload", "again"}, Fork(w, by)
    PROVE  /\ proc' \in [Workers -> {"starting", "ready", "dead"}]
           /\ start' \in [Workers -> {"nobody", "boot", "reload", "again"}]
           /\ proc'[w] = "starting" /\ start'[w] = by
           /\ w \notin serving \cup doomed \cup retiring \cup reload.before
           /\ \A v \in Workers \ {w} : proc'[v] = proc[v] /\ start'[v] = start[v]
<1>1. /\ ~Alive(w) /\ w \notin retiring \cup reload.before
      /\ proc' = [proc EXCEPT ![w] = "starting"] /\ start' = [start EXCEPT ![w] = by]
    BY DEF Fork, Free
<1>2. SupervisorTypeOK /\ ServingFit
    BY SupervisorInvInParts
<1>3. w \notin serving \cup doomed
    BY <1>1, <1>2 DEF ServingFit, SupervisorTypeOK, Alive
<1>4. QED
    BY <1>1, <1>2, <1>3 DEF SupervisorTypeOK

LEMMA StartAgainStep ==
    ASSUME SupervisorInv, StartAgain \/ StartAgainSkipped
    PROVE  SupervisorInv'
<1>1. SupervisorTypeOK /\ BootFit /\ FreshFit /\ AgainFit /\ ServingFit /\ NoGap
    BY SupervisorInvInParts
<1>2. /\ sup = "up" /\ timers > 0 /\ timers' = timers - 1 /\ crashed
      /\ UNCHANGED <<sup, stopping, sets, doomed, reload, stopWait, crashed>>
    BY <1>1 DEF StartAgain, StartAgainSkipped, AgainFit, history, processes
<1>3. timers' \in 0 .. MaxTimers
    BY <1>1, <1>2, TimersAssumption DEF SupervisorTypeOK
<1>4. CASE StartAgainSkipped
    <2>1. UNCHANGED <<proc, start>> /\ clash' \in BOOLEAN
        BY <1>4 DEF StartAgainSkipped, processes
    <2>2. SupervisorTypeOK'
        BY <1>1, <1>2, <1>3, <2>1 DEF SupervisorTypeOK, Alive, sets
    <2>3. BootFit' /\ FreshFit' /\ AgainFit' /\ ServingFit' /\ NoGap'
        BY <1>1, <1>2, <2>1 DEF BootFit, FreshFit, AgainFit, ServingFit, NoGap, Reloading, sets
    <2>4. QED
        BY <2>2, <2>3 DEF SupervisorInv
<1>5. CASE StartAgain
    <2>1. PICK w \in Workers : Fork(w, "again")
        BY <1>5 DEF StartAgain
    <2>2. /\ proc' \in [Workers -> {"starting", "ready", "dead"}]
          /\ start' \in [Workers -> {"nobody", "boot", "reload", "again"}]
          /\ proc'[w] = "starting" /\ start'[w] = "again"
          /\ w \notin serving \cup doomed \cup retiring \cup reload.before
          /\ \A v \in Workers \ {w} : proc'[v] = proc[v] /\ start'[v] = start[v]
        BY <2>1, ForkFacts
    <2>3. UNCHANGED clash
        BY <1>5 DEF StartAgain, history
    <2>4. SupervisorTypeOK'
        BY <1>1, <1>2, <1>3, <2>2, <2>3 DEF SupervisorTypeOK, Alive, sets
    <2>5. BootFit'
        BY <1>1, <1>2, <2>2 DEF BootFit
    <2>6. FreshFit'
        BY <1>1, <1>2, <2>2 DEF FreshFit, sets
    <2>7. AgainFit' /\ ServingFit' /\ NoGap'
        BY <1>1, <1>2, <2>2 DEF AgainFit, ServingFit, NoGap, SupervisorTypeOK, sets
    <2>8. QED
        BY <2>4, <2>5, <2>6, <2>7 DEF SupervisorInv
<1>6. QED
    BY <1>4, <1>5

LEMMA ReloadStartStep ==
    ASSUME SupervisorInv, ReloadStart
    PROVE  SupervisorInv'
<1>1. SupervisorTypeOK /\ BootFit /\ FreshFit /\ AgainFit /\ ServingFit /\ NoGap
    BY SupervisorInvInParts
<1>2. /\ sup = "up" /\ ~Reloading
      /\ reload' = [pc |-> "starting", before |-> serving, wait |-> {}]
      /\ UNCHANGED <<sup, stopping, sets, doomed, stopWait, timers, history>>
    BY DEF ReloadStart
<1>3. PICK w \in Workers : Fork(w, "reload")
    BY DEF ReloadStart
<1>4. /\ proc' \in [Workers -> {"starting", "ready", "dead"}]
      /\ start' \in [Workers -> {"nobody", "boot", "reload", "again"}]
      /\ proc'[w] = "starting" /\ start'[w] = "reload"
      /\ w \notin serving \cup doomed \cup retiring \cup reload.before
      /\ \A v \in Workers \ {w} : proc'[v] = proc[v] /\ start'[v] = start[v]
    BY <1>3, ForkFacts
<1>5. /\ reload' \in Reload /\ reload'.pc = "starting" /\ reload'.before = serving
      /\ reload'.wait = {}
    BY <1>1, <1>2 DEF Reload, SupervisorTypeOK
<1>6. \A v \in Workers : start[v] # "reload"
    BY <1>1, <1>2 DEF FreshFit, Reloading
<1>7. SupervisorTypeOK'
    BY <1>1, <1>2, <1>4, <1>5 DEF SupervisorTypeOK, Alive, sets, history
<1>8. BootFit'
    BY <1>1, <1>2, <1>4 DEF BootFit
<1>9. FreshFit'
    <2>1. \A v \in Workers : start'[v] # "nobody" =>
            proc'[v] = "starting" /\ v \notin serving \cup retiring
        BY <1>1, <1>4 DEF FreshFit, ServingFit
    <2>2. \A v \in Workers : start'[v] = "reload" => v = w
        BY <1>4, <1>6
    <2>3. QED
        BY <1>2, <1>4, <1>5, <2>1, <2>2 DEF FreshFit, sets
<1>10. AgainFit'
    BY <1>1, <1>2, <1>4 DEF AgainFit, history
<1>11. ServingFit' /\ NoGap'
    BY <1>1, <1>2, <1>4 DEF ServingFit, NoGap, SupervisorTypeOK, sets, history
<1>12. QED
    BY <1>7, <1>8, <1>9, <1>10, <1>11 DEF SupervisorInv

LEMMA StopStartStep ==
    ASSUME SupervisorInv, StopStart
    PROVE  SupervisorInv'
<1>1. SupervisorTypeOK /\ BootFit /\ FreshFit /\ AgainFit /\ ServingFit /\ NoGap
    BY SupervisorInvInParts
<1>2. PICK all : all = serving \cup retiring
    OBVIOUS
<1>3. /\ sup # "exited" /\ stopping' = TRUE /\ serving' = {} /\ retiring' = all
      /\ doomed' = doomed \cup {w \in all : Alive(w)} /\ stopWait' = all
      /\ sup' = (IF all = {} THEN "exited" ELSE sup)
      /\ UNCHANGED <<proc, start, reload, timers, history>>
    BY <1>2 DEF StopStart
<1>4. all \subseteq Workers
    BY <1>1, <1>2 DEF SupervisorTypeOK
<1>5. SupervisorTypeOK'
    <2>1. doomed' \subseteq {w \in Workers : proc'[w] \in {"starting", "ready"}}
        BY <1>1, <1>3, <1>4 DEF SupervisorTypeOK, Alive
    <2>2. QED
        BY <1>1, <1>3, <1>4, <2>1 DEF SupervisorTypeOK, Alive, history
<1>6. sup' # "boot"
    BY <1>1, <1>2, <1>3 DEF BootFit
<1>7. BootFit'
    BY <1>1, <1>3, <1>6 DEF BootFit
<1>8. \A w \in Workers : start[w] # "nobody" => w \notin all
    BY <1>1, <1>2 DEF FreshFit, ServingFit
<1>9. FreshFit'
    BY <1>1, <1>3, <1>8 DEF FreshFit
<1>10. AgainFit' /\ ServingFit' /\ NoGap'
    BY <1>1, <1>3 DEF AgainFit, ServingFit, NoGap, history
<1>11. QED
    BY <1>5, <1>7, <1>9, <1>10 DEF SupervisorInv

----------------------------------------------------------------------------
(* The supervisor: the theorems.                                           *)

LEMMA SupervisorInitHolds == SupervisorInit => SupervisorInv
<1> SUFFICES ASSUME SupervisorInit PROVE SupervisorInv
    OBVIOUS
<1>1. PICK first \in Workers :
        /\ proc = [w \in Workers |-> IF w = first THEN "starting" ELSE "dead"]
        /\ start = [w \in Workers |-> IF w = first THEN "boot" ELSE "nobody"]
    BY DEF SupervisorInit
<1>2. /\ sup = "boot" /\ stopping = FALSE /\ serving = {} /\ retiring = {} /\ doomed = {}
      /\ reload = NoReload /\ stopWait = {} /\ timers = 0 /\ crashed = FALSE /\ clash = FALSE
    BY DEF SupervisorInit
<1>3. NoReload \in Reload /\ NoReload.pc = "idle" /\ NoReload.before = {}
    BY DEF NoReload, Reload
<1>4. timers \in 0 .. MaxTimers
    BY <1>2, TimersAssumption
<1>5. SupervisorTypeOK
    BY <1>1, <1>2, <1>3, <1>4 DEF SupervisorTypeOK
<1>6. BootFit
    BY <1>1, <1>2, <1>3 DEF BootFit, Reloading
<1>7. FreshFit
    BY <1>1, <1>2, <1>3 DEF FreshFit
<1>8. AgainFit /\ ServingFit /\ NoGap
    BY <1>1, <1>2 DEF AgainFit, ServingFit, NoGap
<1>9. QED
    BY <1>5, <1>6, <1>7, <1>8 DEF SupervisorInv

LEMMA SupervisorInvIsKept == SupervisorInv /\ [SupervisorNext]_supervisorVars => SupervisorInv'
<1> SUFFICES ASSUME SupervisorInv, [SupervisorNext]_supervisorVars PROVE SupervisorInv'
    OBVIOUS
<1>1. ASSUME NEW w \in Workers, WorkerSteps(w)
      PROVE  SupervisorInv'
    BY <1>1, JoinsStep, TakesOverStep, UnheardStep, BootFailsStep, AgainFailsStep,
       ReloadFailsStep, ExitsStep DEF WorkerSteps, WorkerReady
<1>2. CASE StartAgainSkipped \/ StartAgain
    BY <1>2, StartAgainStep
<1>3. CASE ReloadStart
    BY <1>3, ReloadStartStep
<1>4. CASE StopStart
    BY <1>4, StopStartStep
<1>5. CASE UNCHANGED supervisorVars
    BY <1>5 DEF supervisorVars, processes, sets, history, SupervisorInv, SupervisorTypeOK, Alive, BootFit, FreshFit,
                AgainFit, ServingFit, NoGap, Reloading
<1>6. QED
    BY <1>1, <1>2, <1>3, <1>4, <1>5 DEF SupervisorNext

\* The supervisor's variables keep their form (supervisor.ts).
THEOREM SupervisorTypeCorrect == SupervisorSpec => []SupervisorTypeOK
<1>1. SupervisorInv => SupervisorTypeOK
    BY DEF SupervisorInv
<1>2. QED
    BY <1>1, SupervisorInitHolds, SupervisorInvIsKept, PTL DEF SupervisorSpec

\* However many workers there are, and however reloads succeed, fail or are asked for
\* again, one that is ready serves until the stop, or until one dies by itself.
THEOREM ReloadsLeaveNoGap == SupervisorSpec => []NoGap
<1>1. SupervisorInv => NoGap
    BY DEF SupervisorInv
<1>2. QED
    BY <1>1, SupervisorInitHolds, SupervisorInvIsKept, PTL DEF SupervisorSpec

=============================================================================
