--------------------------- MODULE BillingProofs ---------------------------
(***************************************************************************)
(* Proofs about Billing, for any plans, prices, requests, changes and      *)
(* length of the month (of three ticks or more), with invoices run for any *)
(* month, over or not.                                                     *)
(*                                                                         *)
(* What has to be shown of every step is that whoever decides on a change  *)
(* has left nothing that was due when it began; that a change which is no  *)
(* longer what its claimant read was dropped within a tick of its date,    *)
(* and seen to be so, or is dated after its claimant began; that once a    *)
(* month may be billed no change waits or is claimed that would be dated   *)
(* in it; and that a row begins or ends ahead of the clock only by the     *)
(* ticks that history keeps as ended early.                                *)
(***************************************************************************)
EXTENDS Billing, FiniteSetTheorems, TLAPS

----------------------------------------------------------------------------
(* The invariant.                                                          *)

\* Row i is in force and a change waits on it.
Pending(i) == Active(i) /\ subs[i].target # None

MonthStart(t) == \E k \in Nat : t = StartOf(k)

\* The ticks until d are among those that a run for a month not over has got ahead of.
Foreseen(d) == \A t \in Times : now <= t /\ t < d => t \in ahead

\* Of the rows one is current at most; none begins or ends ahead of the clock otherwise,
\* and what waits is another plan, from the 1st of a month.
RowsFit ==
    /\ \A i, j \in ActiveRows : i = j
    /\ \A i \in Ids :
        /\ Foreseen(subs[i].created)
        /\ ~Active(i) => subs[i].ended \in Nat /\ Foreseen(subs[i].ended)
        /\ Pending(i) => /\ subs[i].due \in Nat /\ MonthStart(subs[i].due)
                         /\ subs[i].target # subs[i].plan

Switching(q) == q.pc \in {"claim", "update", "wait", "commit"}

\* A request is over within the next tick, and dates its change accordingly.
Timely(q) ==
    /\ q.begun <= now
    /\ q.pc # "idle" => now <= q.begun + 1
    /\ Switching(q) => q.target \in Plans /\ q.at \in Nat /\ (q.at <= now \/ Early(q))
    /\ Switching(q) /\ q.claim = None => q.at >= q.begun
    /\ q.claim # None => MonthStart(q.at)
    /\ q.pc = "schedule" => q.at \in Nat /\ MonthStart(q.at) /\ q.at > q.begun
    /\ q.kind = "invoices" /\ q.pc # "idle" => q.month \in Months
    /\ q.pc \in {"bill", "post"} => q.kind = "invoices"

\* The rows a request has claimed, waits for or has locked.
Holding(q) ==
    /\ q.claim # None => Switching(q) /\ q.claim \in Ids
    /\ q.pc = "claim" => q.claim # None
    /\ q.pc = "wait" => q.claim = None /\ q.seen \in Ids
    /\ q.holds # None => q.pc \in {"update", "commit"} /\ q.holds \in Ids /\ Active(q.holds)
    /\ q.pc \in {"update", "commit"} /\ q.claim # None => q.holds = q.claim

\* A change of plan knows the row it has read, and its plan.
Asking(q) ==
    /\ q.pc \in {"decide", "clear", "schedule", "reread"} => q.kind = "change"
    /\ q.kind = "change" /\ q.pc # "idle" => q.want \in Plans
    /\ q.sub # None => q.sub \in Ids
    /\ q.pc \in {"clear", "schedule"} => q.sub # None
    /\ q.pc = "decide" /\ q.sub # None => q.plan = subs[q.sub].plan
    /\ q.pc = "schedule" => q.want # subs[q.sub].plan

\* Whoever has looked for what is due, and did not take a failure for Free, ...
Knows(q) ==
    \/ q.pc = "reread" \/ q.claim # None
    \/ /\ q.pc \in {"decide", "clear", "schedule", "update", "wait", "commit"}
       /\ q.sub # None \/ ~blind

\* ... has left nothing that was due when it began.
NoneOverdue(q) == \A i \in Ids : Pending(i) /\ i # q.claim => subs[i].due >= q.begun

AsClaimed(q) == subs[q.claim].target = q.target /\ subs[q.claim].due = q.at

\* A change that waits no longer as it was claimed was dropped or replaced within a tick
\* of its date, and seen to be so, unless its claimant began before that date.
StaleSoon(q) ==
    q.claim # None /\ Active(q.claim) /\ ~AsClaimed(q) =>
        /\ q.begun <= q.at + 1
        /\ \/ q.begun < q.at
           \/ held[q.at] = None
           \/ q.at + 1 <= now /\ held[q.at + 1] = None
        /\ Pending(q.claim) => subs[q.claim].due >= q.begun

\* Month m is over, and no change is waiting that would be dated in it.
Settled(m) == EndOf(m) <= now /\ \A i \in Ids : Pending(i) => subs[i].due >= EndOf(m)

BillFits(q) ==
    /\ q.pc \in {"bill", "post"} /\ ~Early(q) => Settled(q.month)
    /\ q.pc = "post" /\ ~Early(q) /\ q.month \notin late => q.bill = segmentsInMonth(q.month)

Fits(q) == Timely(q) /\ Holding(q) /\ Asking(q) /\ StaleSoon(q) /\ BillFits(q)

RequestsFit ==
    /\ \A r \in Requests : Fits(req[r]) /\ (Knows(req[r]) => NoneOverdue(req[r]))
    /\ \A r, s \in Requests : req[r].holds # None /\ req[r].holds = req[s].holds => r = s

InvoicesFit ==
    \A m \in Months \ early : invoice[m] # None =>
        Settled(m) /\ (m \notin late => invoice[m] = segmentsInMonth(m))

\* Row i is charged plan x for tick t.
Charged(i, x, t) ==
    \/ /\ subs[i].created <= t
       /\ IF Active(i) THEN ~Due(subs[i], t) ELSE t < subs[i].ended
       /\ x = subs[i].plan
    \/ /\ Active(i) /\ Due(subs[i], t) /\ subs[i].target # Free
       /\ x = subs[i].target

\* Nothing is charged for tick t but plan p, if that is not Free.
OnlyCharged(p, t) ==
    IF p = Free THEN \A i \in Ids : \A x \in Plans : ~Charged(i, x, t)
    ELSE \E i \in Ids : \A j \in Ids : \A x \in Plans : Charged(j, x, t) <=> (j = i /\ x = p)

HeldFits ==
    /\ held[now] \in {None, InForce}
    /\ ~blind => \A t \in Times \ ahead :
        t < now /\ held[t] # None /\ held[t + 1] = held[t] => OnlyCharged(held[t][2], t)

Shapes ==
    /\ now \in Times
    /\ subs \in Seq(Row)
    /\ invoice \in [Months -> (SUBSET Segment) \cup {None}]
    /\ req \in [Requests -> Request]
    /\ asked \in 0 .. MaxAsked
    /\ held \in [Times -> ((Ids \cup {None}) \X Plans) \cup {None}]
    /\ late \in SUBSET Months /\ early \in SUBSET Months /\ ahead \in SUBSET Times
    /\ blind \in BOOLEAN

BillingInv == Shapes /\ RowsFit /\ RequestsFit /\ InvoicesFit /\ HeldFits

----------------------------------------------------------------------------
(* Months.                                                                 *)

LEMMA MonthsOf ==
  ASSUME NEW t \in Nat
  PROVE  /\ MonthOf(t) \in Nat /\ StartOf(MonthOf(t)) \in Nat /\ EndOf(MonthOf(t)) \in Nat
         /\ StartOf(MonthOf(t)) <= t /\ t < EndOf(MonthOf(t))
<1>1. /\ t \div MonthLength \in Nat /\ (t \div MonthLength) * MonthLength <= t
      /\ t < (t \div MonthLength) * MonthLength + MonthLength
      /\ (t \div MonthLength) * MonthLength \in Nat
  BY TimeAssumption
<1>2. (t \div MonthLength + 1) * MonthLength = (t \div MonthLength) * MonthLength + MonthLength
  BY <1>1, TimeAssumption
<1>3. QED
  BY <1>1, <1>2, TimeAssumption DEF MonthOf, StartOf, EndOf

LEMMA Starts ==
  ASSUME NEW m \in Nat
  PROVE  /\ StartOf(m) \in Nat /\ EndOf(m) \in Nat
         /\ EndOf(m) = StartOf(m) + MonthLength /\ EndOf(m) = StartOf(m + 1)
         /\ StartOf(m) + 3 <= EndOf(m)
BY TimeAssumption DEF StartOf, EndOf

\* What begins before another month does begins a month before it.
LEMMA MonthsApart ==
  ASSUME NEW k \in Nat, NEW m \in Nat, StartOf(k) < StartOf(m)
  PROVE  k < m /\ StartOf(k) + MonthLength <= StartOf(m)
<1>1. k < m
  BY TimeAssumption DEF StartOf
<1>2. k * MonthLength + MonthLength <= m * MonthLength
  BY <1>1, TimeAssumption
<1>3. QED
  BY <1>1, <1>2 DEF StartOf

LEMMA MonthsInOrder ==
  ASSUME NEW k \in Nat, NEW m \in Nat, k <= m
  PROVE  StartOf(k) <= StartOf(m) /\ EndOf(k) <= EndOf(m)
<1>1. CASE k = m
  BY <1>1, Starts
<1>2. CASE k < m
  <2>1. /\ k * MonthLength + MonthLength <= m * MonthLength
        /\ k * MonthLength \in Nat /\ m * MonthLength \in Nat
    BY <1>2, TimeAssumption
  <2>2. /\ (k + 1) * MonthLength = k * MonthLength + MonthLength
        /\ (m + 1) * MonthLength = m * MonthLength + MonthLength
    BY TimeAssumption
  <2>3. QED
    BY <2>1, <2>2, TimeAssumption DEF StartOf, EndOf
<1>3. QED
  BY <1>1, <1>2

LEMMA StartsApart ==
  ASSUME NEW s \in Nat, NEW t \in Nat, MonthStart(s), MonthStart(t), s < t
  PROVE  s + 3 <= t
<1>1. PICK k \in Nat, m \in Nat : s = StartOf(k) /\ t = StartOf(m)
  BY DEF MonthStart
<1>2. QED
  BY <1>1, MonthsApart, TimeAssumption

\* The tick before a month is over is in it.
LEMMA LastTick ==
  ASSUME NEW m \in Nat, NEW t \in Nat, t + 1 = EndOf(m)
  PROVE  MonthOf(t) = m
<1>1. /\ MonthOf(t) \in Nat /\ StartOf(MonthOf(t)) <= t /\ t < EndOf(MonthOf(t))
      /\ EndOf(MonthOf(t)) = StartOf(MonthOf(t) + 1)
  BY MonthsOf, Starts
<1>2. StartOf(m) + 3 <= EndOf(m) /\ StartOf(m) \in Nat /\ EndOf(m) = StartOf(m + 1)
  BY Starts
<1>3. StartOf(m) < StartOf(MonthOf(t) + 1)
  BY <1>1, <1>2, Starts
<1>4. StartOf(MonthOf(t)) < StartOf(m + 1)
  BY <1>1, <1>2, Starts
<1>5. m < MonthOf(t) + 1 /\ MonthOf(t) < m + 1
  BY <1>1, <1>3, <1>4, MonthsApart
<1>6. QED
  BY <1>1, <1>5

LEMMA DatesOf ==
  /\ Times \subseteq Nat /\ Times \subseteq Dates /\ Dates \subseteq Nat /\ Months \subseteq Nat
  /\ \A t \in Times : nextMonth(t) \in Dates /\ nextMonth(t) > t /\ MonthStart(nextMonth(t))
  /\ \A m \in Months : StartOf(m) \in Dates /\ EndOf(m) \in Dates
<1>1. MaxTime \in Nat /\ MonthOf(MaxTime) \in Nat /\ nextMonth(MaxTime) \in Nat /\ MaxTime < nextMonth(MaxTime)
  BY MonthsOf, TimeAssumption DEF nextMonth
<1>2. Times \subseteq Nat /\ Times \subseteq Dates /\ Dates \subseteq Nat /\ Months \subseteq Nat
  BY <1>1 DEF Times, Dates, Months
<1>3. ASSUME NEW m \in Months PROVE StartOf(m) \in Dates /\ EndOf(m) \in Dates
  <2>1. m \in Nat /\ m <= MonthOf(MaxTime)
    BY <1>1 DEF Months
  <2>2. EndOf(m) <= EndOf(MonthOf(MaxTime)) /\ StartOf(m) <= EndOf(m) /\ EndOf(m) \in Nat /\ StartOf(m) \in Nat
    BY <1>1, <2>1, MonthsInOrder, Starts
  <2>3. QED
    BY <1>1, <2>2 DEF Dates, nextMonth
<1>4. ASSUME NEW t \in Times
      PROVE  nextMonth(t) \in Dates /\ nextMonth(t) > t /\ MonthStart(nextMonth(t))
  <2>1. t \in Nat /\ t <= MaxTime
    BY <1>1 DEF Times
  <2>2. /\ MonthOf(t) \in Nat /\ StartOf(MonthOf(t)) <= t /\ t < EndOf(MonthOf(t))
        /\ StartOf(MonthOf(t)) \in Nat /\ EndOf(MonthOf(t)) \in Nat
    BY <2>1, MonthsOf
  <2>3. EndOf(MonthOf(MaxTime)) \in Nat /\ MaxTime < EndOf(MonthOf(MaxTime)) /\ EndOf(MonthOf(MaxTime)) = StartOf(MonthOf(MaxTime) + 1)
    BY <1>1, MonthsOf, Starts
  <2>4. MonthOf(t) < MonthOf(MaxTime) + 1
    <3>1. StartOf(MonthOf(t)) < StartOf(MonthOf(MaxTime) + 1) /\ MonthOf(MaxTime) + 1 \in Nat
      BY <1>1, <2>1, <2>2, <2>3
    <3>2. QED
      BY <2>2, <3>1, MonthsApart
  <2>5. EndOf(MonthOf(t)) <= EndOf(MonthOf(MaxTime))
    BY <1>1, <2>2, <2>4, MonthsInOrder
  <2>6. MonthStart(nextMonth(t))
    <3>1. EndOf(MonthOf(t)) = StartOf(MonthOf(t) + 1) /\ MonthOf(t) + 1 \in Nat
      BY <2>2, Starts
    <3>2. QED
      BY <3>1 DEF MonthStart, nextMonth
  <2>7. QED
    BY <1>1, <2>2, <2>5, <2>6 DEF Dates, nextMonth
<1>5. QED
  BY <1>2, <1>3, <1>4

\* What is not ahead of the clock is foreseen, and what is foreseen stays so.
LEMMA ForeseenKept ==
  ASSUME now \in Nat, now' \in Nat, now <= now', ahead \subseteq ahead', NEW d
  PROVE  /\ Foreseen(d) => Foreseen(d)'
         /\ d \in Nat /\ d <= now => Foreseen(d)
<1>1. Times' = Times /\ Times \subseteq Nat
  BY DatesOf DEF Times
<1>2. QED
  BY <1>1 DEF Foreseen

----------------------------------------------------------------------------
(* Rows and what is in force.                                              *)

LEMMA RowTypes ==
  ASSUME Shapes, NEW i \in Ids
  PROVE  /\ subs[i] \in Row /\ subs[i].plan \in Paid /\ subs[i].plan \in Plans /\ subs[i].plan # Free
         /\ subs[i].created \in Nat
         /\ subs[i].status \in {"active", "canceled"}
         /\ subs[i].target \in Plans \cup {None} /\ subs[i].due \in Dates \cup {None}
<1>1. subs[i] \in Row
  BY DEF Shapes, Ids
<1>2. QED
  BY <1>1, PlansAssumption, DatesOf DEF Row, Plans

LEMMA NoneIsNone ==
  /\ \A n \in Int : n # None
  /\ \A p \in Plans : p # None
  /\ \A x \in Nat \cup {None}, p \in Plans : <<x, p>> # None
BY NoneAssumption

LEMMA CurrentIs ==
  ASSUME RowsFit
  PROVE  /\ \A i \in Ids : Active(i) <=> Current = i
         /\ Current \in Ids \cup {None}
<1>1. \A i \in Ids : i \in Int /\ i # None
  BY NoneIsNone DEF Ids
<1>2. CASE ActiveRows = {}
  BY <1>1, <1>2 DEF Current, ActiveRows
<1>3. CASE ActiveRows # {}
  <2>1. Current \in ActiveRows
    BY <1>3 DEF Current
  <2>2. QED
    BY <1>1, <2>1 DEF RowsFit, ActiveRows
<1>4. QED
  BY <1>2, <1>3

LEMMA CurrentIsNow ==
  ASSUME RowsFit'
  PROVE  /\ \A i \in Ids' : Active(i)' <=> Current' = i
         /\ Current' \in Ids' \cup {None}
<1>1. \A i \in Ids' : i \in Int /\ i # None
  BY NoneIsNone DEF Ids
<1>2. CASE ActiveRows' = {}
  BY <1>1, <1>2 DEF Current, ActiveRows
<1>3. CASE ActiveRows' # {}
  <2>1. Current' \in ActiveRows'
    BY <1>3 DEF Current
  <2>2. QED
    BY <1>1, <2>1 DEF RowsFit, ActiveRows
<1>4. QED
  BY <1>2, <1>3

LEMMA InForceIs ==
  ASSUME Shapes, RowsFit
  PROVE  /\ InForce \in (Ids \cup {None}) \X Plans
         /\ Current = None => InForce = <<None, Free>>
         /\ \A i \in Ids : Active(i) =>
              InForce = <<i, IF Pending(i) /\ subs[i].due <= now THEN subs[i].target ELSE subs[i].plan>>
<1>1. CASE Current = None
  <2>1. InForce = <<None, Free>>
    BY <1>1 DEF InForce, PlanOf
  <2>2. \A i \in Ids : ~Active(i)
    BY <1>1, CurrentIs, NoneIsNone DEF Ids
  <2>3. QED
    BY <2>1, <2>2 DEF Plans
<1>2. CASE Current # None
  <2>1. PICK i \in Ids : Current = i /\ Active(i)
    BY <1>2, CurrentIs
  <2>2. InForce = <<i, IF Due(subs[i], now) THEN subs[i].target ELSE subs[i].plan>>
    BY <1>2, <2>1 DEF InForce, PlanOf
  <2>3. Due(subs[i], now) <=> Pending(i) /\ subs[i].due <= now
    BY <2>1 DEF Due, Pending
  <2>4. Pending(i) => subs[i].target \in Plans
    BY RowTypes DEF Pending
  <2>5. subs[i].plan \in Plans
    BY RowTypes
  <2>6. \A j \in Ids : Active(j) => j = i
    BY <2>1, CurrentIs
  <2>7. QED
    BY <1>2, <2>1, <2>2, <2>3, <2>4, <2>5, <2>6
<1>3. QED
  BY <1>1, <1>2

LEMMA InForceIsNow ==
  ASSUME subs' \in Seq(Row), RowsFit'
  PROVE  /\ InForce' \in (Ids' \cup {None}) \X Plans
         /\ Current' = None => InForce' = <<None, Free>>
         /\ \A i \in Ids' : Active(i)' =>
              InForce' = <<i, IF Pending(i)' /\ subs'[i].due <= now'
                              THEN subs'[i].target ELSE subs'[i].plan>>
<1>0. \A i \in Ids' : subs'[i].plan \in Plans /\ subs'[i].target \in Plans \cup {None}
  <2>1. \A i \in Ids' : subs'[i] \in Row
    BY DEF Ids
  <2>2. QED
    BY <2>1 DEF Row, Plans
<1>1. CASE Current' = None
  <2>1. InForce' = <<None, Free>>
    BY <1>1 DEF InForce, PlanOf
  <2>2. \A i \in Ids' : ~Active(i)'
    BY <1>1, CurrentIsNow, NoneIsNone DEF Ids
  <2>3. QED
    BY <2>1, <2>2 DEF Plans
<1>2. CASE Current' # None
  <2>1. PICK i \in Ids' : Current' = i /\ Active(i)'
    BY <1>2, CurrentIsNow
  <2>2. InForce' = <<i, IF Due(subs[i], now)' THEN subs'[i].target ELSE subs'[i].plan>>
    BY <1>2, <2>1 DEF InForce, PlanOf
  <2>3. Due(subs[i], now)' <=> Pending(i)' /\ subs'[i].due <= now'
    BY <2>1 DEF Due, Pending
  <2>4. Pending(i)' => subs'[i].target \in Plans
    BY <1>0 DEF Pending
  <2>5. subs'[i].plan \in Plans
    BY <1>0
  <2>6. \A j \in Ids' : Active(j)' => j = i
    BY <2>1, CurrentIsNow
  <2>7. QED
    BY <1>2, <2>1, <2>2, <2>3, <2>4, <2>5, <2>6
<1>3. QED
  BY <1>1, <1>2

LEMMA InForceIsSome ==
  ASSUME subs' \in Seq(Row), RowsFit'
  PROVE  InForce' # None
<1>1. PICK x \in Ids' \cup {None}, p \in Plans : InForce' = <<x, p>>
  BY InForceIsNow
<1>2. x \in Nat \cup {None}
  BY DEF Ids
<1>3. QED
  BY <1>1, <1>2, NoneIsNone

\* What history is kept by a step within a tick.
Remembers == held' = [held EXCEPT ![now'] = IF now' # now \/ @ = InForce' THEN InForce' ELSE None]

LEMMA HeldNow ==
  ASSUME Shapes, now' = now, Remembers
  PROVE  /\ held'[now] = IF held[now] = InForce' THEN InForce' ELSE None
         /\ \A t \in Times : t # now => held'[t] = held[t]
BY DEF Shapes, Remembers

----------------------------------------------------------------------------
(* Steps that change a request and nothing else.                           *)

\* What is said of a request that stays as it is.
LEMMA SameFits ==
  ASSUME now' = now, subs' = subs, held' = held, late \subseteq late', NEW q
  PROVE  /\ Fits(q) => Fits(q)'
         /\ NoneOverdue(q)' <=> NoneOverdue(q)
<1>1. Timely(q)' <=> Timely(q)
  BY DEF Timely, Switching
<1>2. Holding(q)' <=> Holding(q)
  BY DEF Holding, Switching, Ids, Active
<1>3. Asking(q)' <=> Asking(q)
  BY DEF Asking, Ids
<1>4. StaleSoon(q)' <=> StaleSoon(q)
  BY DEF StaleSoon, AsClaimed, Active, Pending
<1>5. BillFits(q) => BillFits(q)'
  BY DEF BillFits, Settled, Ids, Active, Pending, segmentsInMonth
<1>6. NoneOverdue(q)' <=> NoneOverdue(q)
  BY DEF NoneOverdue, Ids, Active, Pending
<1>7. QED
  BY <1>1, <1>2, <1>3, <1>4, <1>5, <1>6 DEF Fits

\* Rows and clock stay.
Still ==
    /\ UNCHANGED <<now, subs>> /\ Remembers
    /\ late \subseteq late' /\ late' \in SUBSET Months /\ early' \in SUBSET Months
    /\ ahead \subseteq ahead' /\ ahead' \in SUBSET Times

LEMMA StillHeld ==
  ASSUME Shapes, HeldFits, Still
  PROVE  held' = held /\ InForce' = InForce
<1>1. now' = now /\ subs' = subs
  BY DEF Still
<1>2. InForce' = InForce
  BY <1>1 DEF InForce, Current, ActiveRows, Active, Ids, PlanOf
<1>3. held[now] = InForce \/ held[now] = None
  BY DEF HeldFits
<1>4. held'[now] = held[now] /\ \A t \in Times : held'[t] = held[t]
  BY <1>1, <1>2, <1>3, HeldNow DEF Still
<1>5. held \in [Times -> ((Ids \cup {None}) \X Plans) \cup {None}] /\ DOMAIN held' = Times
  BY DEF Shapes, Still, Remembers
<1>6. held' = held
  BY <1>4, <1>5 DEF Still, Remembers
<1>7. QED
  BY <1>2, <1>6

LEMMA StillKeeps ==
  ASSUME BillingInv, Still, NEW r \in Requests, NEW q \in Request,
         req' = [req EXCEPT ![r] = q],
         asked' \in 0 .. MaxAsked, blind' \in BOOLEAN, blind => blind',
         Fits(q), Knows(q)' => NoneOverdue(q),
         invoice' \in [Months -> (SUBSET Segment) \cup {None}], InvoicesFit',
         q.holds # None => \A o \in Requests \ {r} : req[o].holds # q.holds
  PROVE  BillingInv'
<1>1. /\ now' = now /\ subs' = subs /\ late \subseteq late' /\ late' \in SUBSET Months
      /\ early' \in SUBSET Months /\ ahead \subseteq ahead' /\ ahead' \in SUBSET Times
  BY DEF Still
<1>2. held' = held /\ InForce' = InForce
  BY StillHeld DEF BillingInv
<1>3. \A o \in Requests : req'[o] = IF o = r THEN q ELSE req[o]
  BY DEF BillingInv, Shapes
<1>4. Shapes'
  <2>1. req' \in [Requests -> Request]
    BY DEF BillingInv, Shapes
  <2>2. QED
    BY <1>1, <1>2, <2>1 DEF BillingInv, Shapes, Ids
<1>5. RowsFit'
  <2>1. \A x : Foreseen(x) => Foreseen(x)'
    BY <1>1, DatesOf, ForeseenKept DEF BillingInv, Shapes
  <2>2. QED
    BY <1>1, <2>1 DEF BillingInv, RowsFit, ActiveRows, Active, Ids, Pending
<1>6. RequestsFit'
  <2>1. ASSUME NEW o \in Requests
        PROVE  Fits(req[o])' /\ (Knows(req[o])' => NoneOverdue(req[o])')
    <3>1. PICK p : p = req'[o]
      OBVIOUS
    <3>2. Fits(p) /\ (Knows(p)' => NoneOverdue(p))
      <4>1. CASE o = r
        BY <1>3, <3>1, <4>1
      <4>2. CASE o # r
        <5>1. p = req[o] /\ Fits(p) /\ (Knows(p) => NoneOverdue(p))
          BY <1>3, <3>1, <4>2 DEF BillingInv, RequestsFit
        <5>2. QED
          BY <5>1 DEF Knows
      <4>3. QED
        BY <4>1, <4>2
    <3>3. Fits(p)' /\ (Knows(p)' => NoneOverdue(p)')
      BY <1>1, <1>2, <3>2, SameFits
    <3>4. QED
      BY <3>1, <3>3
  <2>2. ASSUME NEW o \in Requests, NEW s \in Requests,
               req'[o].holds # None, req'[o].holds = req'[s].holds
        PROVE  o = s
    BY <1>3, <2>2 DEF BillingInv, RequestsFit
  <2>3. QED
    BY <2>1, <2>2 DEF RequestsFit
<1>7. HeldFits'
  <2>1. \A t, p : OnlyCharged(p, t)' <=> OnlyCharged(p, t)
    BY <1>1 DEF OnlyCharged, Charged, Ids, Active
  <2>2. QED
    BY <1>1, <1>2, <2>1 DEF BillingInv, HeldFits
<1>8. QED
  BY <1>4, <1>5, <1>6, <1>7 DEF BillingInv


\* Invoices stay, too.
Quiet == UNCHANGED <<now, subs, invoice, history>> /\ Remembers

LEMMA QuietKeeps ==
  ASSUME BillingInv, Quiet, NEW r \in Requests, NEW q \in Request,
         req' = [req EXCEPT ![r] = q],
         asked' \in 0 .. MaxAsked, blind' \in BOOLEAN, blind => blind',
         Fits(q), Knows(q)' => NoneOverdue(q),
         q.holds # None => \A o \in Requests \ {r} : req[o].holds # q.holds
  PROVE  BillingInv'
<1>1. Still /\ invoice' \in [Months -> (SUBSET Segment) \cup {None}]
  BY DEF BillingInv, Shapes, Quiet, Still, history
<1>2. InvoicesFit'
  BY DEF BillingInv, Quiet, history, InvoicesFit, Settled, Ids, Active, Pending, segmentsInMonth
<1>3. QED
  BY <1>1, <1>2, StillKeeps
----------------------------------------------------------------------------
(* Requests begin.                                                         *)

LEMMA IdleFits ==
  ASSUME BillingInv
  PROVE  /\ Idle \in Request /\ Idle.holds = None
         /\ Fits(Idle) /\ ~Knows(Idle) /\ ~Knows(Idle)'
<1>1. now \in Nat /\ 0 \in Times /\ 0 <= now
  BY DatesOf, TimeAssumption DEF BillingInv, Shapes, Times
<1>2. Idle \in Request
  BY <1>1 DEF Idle, Request, Plans
<1>3. Idle.holds = None /\ ~Knows(Idle) /\ ~Knows(Idle)'
  BY DEF Idle, Knows
<1>4. Timely(Idle) /\ Holding(Idle) /\ Asking(Idle) /\ StaleSoon(Idle) /\ BillFits(Idle)
  BY <1>1 DEF Idle, Timely, Switching, Holding, Asking, StaleSoon, BillFits
<1>5. QED
  BY <1>2, <1>3, <1>4 DEF Fits

\* A request that reads, and knows nothing yet.
Reads(q) ==
    /\ q.pc = "read" /\ q.begun <= now /\ now <= q.begun + 1
    /\ q.claim = None /\ q.holds = None /\ q.sub = None
    /\ q.kind \in {"lookup", "change"} /\ (q.kind = "change" => q.want \in Plans)

LEMMA ReadsFits ==
  ASSUME NEW q, Reads(q)
  PROVE  Fits(q) /\ ~Knows(q) /\ ~Knows(q)'
<1>1. ~Knows(q) /\ ~Knows(q)'
  BY DEF Reads, Knows
<1>2. Timely(q) /\ Holding(q) /\ Asking(q) /\ StaleSoon(q) /\ BillFits(q)
  BY DEF Reads, Timely, Switching, Holding, Asking, StaleSoon, BillFits
<1>3. QED
  BY <1>1, <1>2 DEF Fits

LEMMA AnsweringFits ==
  ASSUME BillingInv, NEW q \in Request, q.begun <= now, now <= q.begun + 1
  PROVE  Answering(q) \in Request /\ Answering(q).holds = None /\ Reads(Answering(q))
<1>1. Answering(q) \in Request
  BY IdleFits DEF Answering, Request
<1>2. QED
  BY <1>1 DEF Answering, Reads, Idle

LEMMA BeginKeeps ==
  ASSUME BillingInv, Remembers, NEW r \in Requests, Begin(r)
  PROVE  BillingInv'
<1>1. now \in Times /\ now \in Nat /\ Idle \in Request
  BY IdleFits, DatesOf DEF BillingInv, Shapes
<1>2. blind \in BOOLEAN /\ asked \in 0 .. MaxAsked /\ MaxAsked \in Nat
  BY TimeAssumption DEF BillingInv, Shapes
<1>3. CASE Lookup(r)
  <2>1. PICK q : q = [Idle EXCEPT !.pc = "read", !.begun = now]
    OBVIOUS
  <2>2. q \in Request
    BY <1>1, <2>1 DEF Request
  <2>3. Reads(q) /\ q.holds = None
    BY <1>1, <2>1 DEF Reads, Idle
  <2>4. Quiet /\ req' = [req EXCEPT ![r] = q] /\ asked' = asked /\ blind' = blind
    BY <1>3, <2>1 DEF Lookup, Quiet, Becomes
  <2>5. QED
    BY <1>2, <2>2, <2>3, <2>4, ReadsFits, QuietKeeps
<1>4. CASE Change(r)
  <2>1. PICK p \in Plans, when \in {"auto", "now"} :
          Becomes(r, [Idle EXCEPT !.pc = "read", !.kind = "change", !.begun = now,
                                  !.want = p, !.when = when])
    BY <1>4 DEF Change
  <2>2. PICK q : q = [Idle EXCEPT !.pc = "read", !.kind = "change", !.begun = now,
                                  !.want = p, !.when = when]
    OBVIOUS
  <2>3. q \in Request
    BY <1>1, <2>2 DEF Request
  <2>4. Reads(q) /\ q.holds = None
    BY <1>1, <2>2 DEF Reads, Idle
  <2>5. Quiet /\ req' = [req EXCEPT ![r] = q] /\ blind' = blind
    BY <1>4, <2>1, <2>2 DEF Change, Quiet, Becomes
  <2>6. asked' \in 0 .. MaxAsked
    <3>1. asked' = asked + 1 /\ asked < MaxAsked
      BY <1>4 DEF Change
    <3>2. QED
      BY <1>2, <3>1
  <2>7. QED
    BY <1>2, <2>3, <2>4, <2>5, <2>6, ReadsFits, QuietKeeps
<1>5. CASE ApplyDue(r)
  <2>1. PICK q : q = [Idle EXCEPT !.pc = "due", !.kind = "job", !.begun = now]
    OBVIOUS
  <2>2. q \in Request
    BY <1>1, <2>1 DEF Request
  <2>3. Fits(q) /\ ~Knows(q)' /\ q.holds = None
    BY <1>1, <2>1 DEF Idle, Fits, Timely, Switching, Holding, Asking, StaleSoon, BillFits, Knows
  <2>4. Quiet /\ req' = [req EXCEPT ![r] = q] /\ asked' = asked /\ blind' = blind
    BY <1>5, <2>1 DEF ApplyDue, Quiet, Becomes
  <2>5. QED
    BY <1>2, <2>2, <2>3, <2>4, QuietKeeps
<1>6. CASE GenerateInvoices(r)
  <2>1. PICK m \in Months : InvoiceRun(r, m, "due")
    BY <1>6 DEF GenerateInvoices
  <2>2. PICK q : q = [Idle EXCEPT !.pc = "due", !.kind = "invoices", !.begun = now, !.month = m]
    OBVIOUS
  <2>3. q \in Request
    BY <1>1, <2>2 DEF Request
  <2>4. asked' \in 0 .. MaxAsked
    <3>1. asked' = asked \/ (asked' = asked + 1 /\ asked < MaxAsked)
      BY <2>1 DEF InvoiceRun
    <3>2. QED
      BY <1>2, <3>1
  <2>5. Fits(q) /\ ~Knows(q)' /\ q.holds = None
    BY <1>1, <2>2 DEF Idle, Fits, Timely, Switching, Holding, Asking, StaleSoon, BillFits, Knows
  <2>6. Quiet /\ req' = [req EXCEPT ![r] = q] /\ blind' = blind
    BY <2>1, <2>2 DEF InvoiceRun, Quiet, Becomes
  <2>7. QED
    BY <1>2, <2>3, <2>4, <2>5, <2>6, QuietKeeps
<1>7. QED
  BY <1>3, <1>4, <1>5, <1>6 DEF Begin

----------------------------------------------------------------------------
(* Requests look up, claim and lock rows.                                  *)

LEMMA RequestTypes ==
  ASSUME BillingInv, NEW r \in Requests
  PROVE  /\ req[r] \in Request /\ Fits(req[r]) /\ (Knows(req[r]) => NoneOverdue(req[r]))
         /\ now \in Times /\ now \in Nat /\ req[r].begun \in Times /\ req[r].begun \in Nat
         /\ blind \in BOOLEAN /\ asked \in 0 .. MaxAsked
         /\ Shapes /\ RowsFit
         /\ \A o \in Requests \ {r} : req[r].holds # None => req[o].holds # req[r].holds
<1>1. req[r] \in Request /\ Fits(req[r]) /\ (Knows(req[r]) => NoneOverdue(req[r]))
  BY DEF BillingInv, Shapes, RequestsFit
<1>2. now \in Times /\ req[r].begun \in Times
  BY <1>1 DEF BillingInv, Shapes, Request
<1>3. QED
  BY <1>1, <1>2, DatesOf DEF BillingInv, Shapes, RequestsFit

\* A quiet step of request r to a request like it, that knows no more than r did.
LEMMA MovesOn ==
  ASSUME BillingInv, Quiet, NEW r \in Requests, NEW q \in Request,
         req' = [req EXCEPT ![r] = q], asked' = asked, blind' = blind,
         Fits(q), Knows(q) => NoneOverdue(q), q.holds \in {None, req[r].holds}
  PROVE  BillingInv'
<1>1. Knows(q)' <=> Knows(q)
  BY DEF Knows
<1>2. QED
  BY <1>1, RequestTypes, QuietKeeps

LEMMA KnowingKeeps ==
  ASSUME BillingInv, Quiet, NEW r \in Requests, req[r].pc \in {"read", "reread"},
         req' = [req EXCEPT ![r] = Knowing(req[r], Current)],
         asked' = asked, blind' = blind, req[r].claim = None, req[r].holds = None,
         \A i \in Ids : Pending(i) => subs[i].due >= req[r].begun
  PROVE  BillingInv'
<1>1. PICK q : q = req[r]
  OBVIOUS
<1>2. q \in Request /\ Fits(q) /\ Shapes /\ RowsFit
  BY <1>1, RequestTypes
<1>3. Current \in Ids \cup {None} /\ (Ids \subseteq Nat)
  BY <1>2, CurrentIs DEF Ids
<1>4. PlanOf(Current) \in Plans /\ (Current # None => PlanOf(Current) = subs[Current].plan)
  BY <1>2, <1>3, RowTypes DEF PlanOf, Plans
<1>5. CASE q.kind # "change"
  BY <1>1, <1>5, IdleFits, MovesOn DEF Knowing
<1>6. CASE q.kind = "change"
  <2>1. PICK p : p = [q EXCEPT !.pc = "decide", !.sub = Current, !.plan = PlanOf(Current)]
    OBVIOUS
  <2>2. p \in Request
    BY <1>2, <1>3, <1>4, <2>1 DEF Request
  <2>3. /\ p.pc = "decide" /\ p.sub = Current /\ p.plan = PlanOf(Current) /\ p.kind = q.kind
        /\ p.begun = q.begun /\ p.want = q.want /\ p.claim = None /\ p.holds = None
    BY <1>1, <1>2, <2>1 DEF Request
  <2>4. Fits(p)
    BY <1>1, <1>2, <1>3, <1>4, <1>6, <2>3
    DEF Fits, Timely, Switching, Holding, Asking, StaleSoon, BillFits
  <2>5. NoneOverdue(p)
    BY <1>1, <2>3 DEF NoneOverdue
  <2>6. QED
    BY <1>1, <1>6, <2>1, <2>2, <2>3, <2>4, <2>5, MovesOn DEF Knowing
<1>7. QED
  BY <1>5, <1>6

LEMMA ReadKeeps ==
  ASSUME BillingInv, Remembers, NEW r \in Requests, Read(r) \/ Reread(r)
  PROVE  BillingInv'
<1>1. PICK q : q = req[r]
  OBVIOUS
<1>2. q \in Request /\ Fits(q) /\ (Knows(q) => NoneOverdue(q)) /\ Shapes /\ RowsFit
      /\ now \in Nat /\ q.begun \in Nat /\ q.begun <= now
  BY <1>1, RequestTypes DEF Fits, Timely
<1>3. Quiet /\ asked' = asked /\ blind' = blind
  BY DEF Read, Reread, Quiet
<1>4. q.pc \in {"read", "reread"} /\ q.claim = None /\ q.holds = None
  BY <1>1, <1>2 DEF Read, Reread, Fits, Holding, Switching
<1>5. \A i \in Ids : Active(i) <=> Current = i
  BY <1>2, CurrentIs
<1>6. CASE Reread(r)
  <2>1. \A i \in Ids : Pending(i) => subs[i].due >= req[r].begun
    BY <1>1, <1>2, <1>4, <1>6, NoneIsNone DEF Reread, Knows, NoneOverdue, Ids
  <2>2. QED
    BY <1>1, <1>3, <1>4, <1>6, <2>1, KnowingKeeps DEF Reread, Becomes
<1>7. CASE Read(r) /\ Current # None /\ Due(subs[Current], now)
  <2>1. PICK p : p = [q EXCEPT !.pc = "due"]
    OBVIOUS
  <2>2. p \in Request
    BY <1>2, <2>1 DEF Request
  <2>3. /\ p.pc = "due" /\ p.kind = q.kind /\ p.begun = q.begun /\ p.want = q.want
        /\ p.claim = None /\ p.holds = None /\ p.month = q.month /\ p.sub = q.sub
    BY <1>2, <1>4, <2>1 DEF Request
  <2>4. Fits(p) /\ ~Knows(p)
    BY <1>2, <1>4, <2>3
    DEF Fits, Timely, Switching, Holding, Asking, StaleSoon, BillFits, Knows
  <2>5. req' = [req EXCEPT ![r] = p]
    BY <1>1, <1>7, <2>1 DEF Read, Becomes
  <2>6. QED
    BY <1>1, <1>3, <2>2, <2>3, <2>4, <2>5, MovesOn
<1>8. CASE Read(r) /\ ~(Current # None /\ Due(subs[Current], now))
  <2>1. \A i \in Ids : Pending(i) => subs[i].due >= req[r].begun
    <3>1. ASSUME NEW i \in Ids, Pending(i) PROVE subs[i].due >= req[r].begun
      <4>1. Current = i /\ i # None
        BY <1>5, <3>1, NoneIsNone DEF Pending, Ids
      <4>2. ~(subs[i].due <= now) /\ subs[i].due \in Nat
        BY <1>2, <1>8, <3>1, <4>1 DEF Due, Pending, RowsFit
      <4>3. QED
        BY <1>1, <1>2, <4>2
    <3>2. QED
      BY <3>1
  <2>2. req' = [req EXCEPT ![r] = Knowing(req[r], Current)]
    BY <1>8 DEF Read, Becomes
  <2>3. QED
    BY <1>1, <1>3, <1>4, <2>1, <2>2, KnowingKeeps
<1>9. QED
  BY <1>6, <1>7, <1>8

\* A request that has no change to apply, or none any more.
Released(s) ==
    /\ s.claim = None /\ s.holds = None /\ s.pc \in {"idle", "reread", "bill"}
    /\ s.begun <= now /\ (s.pc # "idle" => now <= s.begun + 1)
    /\ s.pc = "reread" <=> s.kind = "change"
    /\ s.pc = "bill" <=> s.kind = "invoices"
    /\ s.kind = "change" => s.want \in Plans
    /\ s.kind = "invoices" => s.month \in Months
    /\ s.sub # None => s.sub \in Ids

LEMMA AfterDueReleases ==
  ASSUME BillingInv, NEW r \in Requests, req[r].pc \in {"due", "claim", "commit"}
  PROVE  /\ AfterDue(req[r]) \in Request /\ Released(AfterDue(req[r]))
         /\ AfterDue(req[r]).pc # "idle" =>
               /\ AfterDue(req[r]).begun = req[r].begun /\ AfterDue(req[r]).kind = req[r].kind
               /\ AfterDue(req[r]).month = req[r].month
<1>1. PICK q : q = req[r]
  OBVIOUS
<1>2. q \in Request /\ Fits(q) /\ now \in Nat /\ q.begun \in Nat /\ q.begun <= now
  BY <1>1, RequestTypes DEF Fits, Timely
<1>3. PICK p : p = [q EXCEPT !.target = None, !.at = None, !.claim = None,
                             !.seen = None, !.holds = None]
  OBVIOUS
<1>4. p \in Request
  BY <1>2, <1>3 DEF Request
<1>5. PICK s : s = AfterDue(q)
  OBVIOUS
<1>6. CASE q.kind \in {"change", "invoices"}
  <2>1. s = [p EXCEPT !.pc = IF q.kind = "change" THEN "reread" ELSE "bill"]
    BY <1>3, <1>5, <1>6 DEF AfterDue
  <2>2. s \in Request
    BY <1>4, <2>1 DEF Request
  <2>3. /\ s.pc = IF q.kind = "change" THEN "reread" ELSE "bill"
        /\ s.kind = q.kind /\ s.begun = q.begun /\ s.want = q.want
        /\ s.claim = None /\ s.holds = None /\ s.sub = q.sub /\ s.month = q.month
    BY <1>2, <1>3, <1>4, <2>1 DEF Request
  <2>4. Released(s)
    BY <1>1, <1>2, <1>6, <2>3 DEF Fits, Timely, Asking, Released
  <2>5. QED
    BY <1>1, <1>5, <2>2, <2>3, <2>4
<1>7. CASE q.kind \notin {"change", "invoices"}
  <2>1. s = Idle /\ s \in Request
    BY <1>5, <1>7, IdleFits DEF AfterDue
  <2>2. Released(s) /\ s.pc = "idle"
    BY <1>2, <2>1 DEF Idle, Released
  <2>3. QED
    BY <1>1, <1>5, <2>1, <2>2
<1>8. QED
  BY <1>6, <1>7

LEMMA ReleasedFits ==
  ASSUME NEW s, Released(s), s.pc = "bill" /\ ~Early(s) => Settled(s.month)
  PROVE  Fits(s)
<1>1. Timely(s)
  BY DEF Released, Timely, Switching
<1>2. Holding(s) /\ Asking(s) /\ StaleSoon(s) /\ BillFits(s)
  BY DEF Released, Holding, Asking, StaleSoon, BillFits
<1>3. QED
  BY <1>1, <1>2 DEF Fits

LEMMA ReleasedFitsNow ==
  ASSUME NEW s, Released(s), now' = now, Ids \subseteq Ids', s.pc = "bill" /\ ~Early(s) => Settled(s.month)'
  PROVE  Fits(s)'
<1>1. Timely(s)'
  BY DEF Released, Timely, Switching
<1>2. Holding(s)' /\ Asking(s)' /\ StaleSoon(s)' /\ BillFits(s)'
  BY DEF Released, Holding, Asking, StaleSoon, BillFits
<1>3. QED
  BY <1>1, <1>2 DEF Fits

\* What follows once nothing that was due is left.
LEMMA AfterDueFits ==
  ASSUME BillingInv, NEW r \in Requests, req[r].pc \in {"due", "claim"},
         Early(req[r]) \/ \A i \in Ids : Pending(i) =>
            subs[i].due >= IF req[r].kind = "invoices" THEN EndOf(req[r].month) ELSE req[r].begun
  PROVE  /\ AfterDue(req[r]) \in Request /\ Fits(AfterDue(req[r]))
         /\ Knows(AfterDue(req[r])) => NoneOverdue(AfterDue(req[r]))
         /\ AfterDue(req[r]).holds = None
<1>1. PICK q : q = req[r]
  OBVIOUS
<1>2. q \in Request /\ Fits(q) /\ now \in Nat /\ q.begun \in Nat /\ q.begun <= now
  BY <1>1, RequestTypes DEF Fits, Timely
<1>3. PICK s : s = AfterDue(q)
  OBVIOUS
<1>4. /\ s \in Request /\ Released(s)
      /\ s.pc # "idle" => s.begun = q.begun /\ s.kind = q.kind /\ s.month = q.month
  BY <1>1, <1>3, AfterDueReleases
<1>5. s.pc = "bill" /\ ~Early(s) => Settled(s.month)
  <2>1. HAVE s.pc = "bill" /\ ~Early(s)
  <2>2. q.kind = "invoices" /\ s.month = q.month /\ s.month \in Months /\ ~Early(q)
    BY <1>4, <2>1 DEF Released, Early
  <2>3. EndOf(q.month) \in Nat
    BY <2>2, DatesOf
  <2>4. EndOf(q.month) <= q.begun
    BY <1>2, <2>2, <2>3 DEF Early
  <2>5. QED
    BY <1>1, <1>2, <2>2, <2>3, <2>4 DEF Settled
<1>6. Fits(s)
  BY <1>4, <1>5, ReleasedFits
<1>7. Knows(s) => NoneOverdue(s)
  <2>1. HAVE Knows(s)
  <2>2. s.pc = "reread" /\ s.begun = q.begun /\ q.kind = "change" /\ ~Early(q)
    BY <1>4, <2>1 DEF Knows, Released, Early
  <2>3. QED
    BY <1>1, <2>2 DEF NoneOverdue
<1>8. QED
  BY <1>1, <1>3, <1>4, <1>6, <1>7 DEF Released

LEMMA SelectDueKeeps ==
  ASSUME BillingInv, Remembers, NEW r \in Requests, SelectDue(r)
  PROVE  BillingInv'
<1>1. PICK q : q = req[r]
  OBVIOUS
<1>2. q \in Request /\ Fits(q) /\ Shapes /\ RowsFit
      /\ now \in Nat /\ q.begun \in Nat /\ q.begun <= now
  BY <1>1, RequestTypes DEF Fits, Timely
<1>3. Quiet /\ asked' = asked /\ blind' = blind
  BY DEF SelectDue, Quiet
<1>4. q.pc = "due" /\ q.claim = None /\ q.holds = None
  BY <1>1, <1>2 DEF SelectDue, Fits, Holding, Switching
<1>5. \A i \in Ids : i # None /\ (Active(i) <=> Current = i)
  BY <1>2, CurrentIs, NoneIsNone DEF Ids
<1>6. PICK until : until = IF q.kind = "invoices" THEN EndOf(q.month) ELSE now
  OBVIOUS
<1>7. until \in Nat /\ (until <= now \/ Early(q))
  <2>1. CASE q.kind = "invoices"
    <3>1. EndOf(q.month) \in Nat
      BY <1>2, <1>4, <2>1, DatesOf DEF Fits, Timely
    <3>2. QED
      BY <1>2, <1>6, <2>1, <3>1 DEF Early
  <2>2. QED
    BY <1>2, <1>6, <2>1
<1>8. CASE Current # None /\ Due(subs[Current], until)
  <2>1. PICK i \in Ids : Current = i /\ Active(i) /\ Pending(i)
    BY <1>2, <1>5, <1>8, CurrentIs DEF Due, Pending
  <2>2. /\ subs[i].due \in Nat /\ subs[i].due <= until /\ MonthStart(subs[i].due)
        /\ subs[i].target \in Plans /\ subs[i].due \in Dates \cup {None} /\ i \in Nat
    BY <1>2, <1>8, <2>1, RowTypes DEF Due, RowsFit, Pending, Ids
  <2>3. PICK p : p = [q EXCEPT !.pc = "claim", !.claim = i, !.target = subs[i].target,
                               !.at = subs[i].due]
    OBVIOUS
  <2>4. p \in Request
    BY <1>2, <2>2, <2>3 DEF Request
  <2>5. /\ p.pc = "claim" /\ p.claim = i /\ p.target = subs[i].target /\ p.at = subs[i].due
        /\ p.kind = q.kind /\ p.begun = q.begun /\ p.want = q.want /\ p.sub = q.sub
        /\ p.holds = None /\ p.month = q.month
    BY <1>2, <1>4, <2>3 DEF Request
  <2>6. Timely(p)
    BY <1>2, <1>4, <1>5, <1>7, <2>2, <2>5 DEF Fits, Timely, Switching, Early
  <2>7. Holding(p) /\ Asking(p) /\ StaleSoon(p) /\ BillFits(p)
    BY <1>2, <1>4, <1>5, <2>5 DEF Fits, Holding, Asking, Switching, StaleSoon, AsClaimed, BillFits
  <2>8. NoneOverdue(p)
    BY <1>5, <2>1, <2>5 DEF NoneOverdue, Pending
  <2>9. req' = [req EXCEPT ![r] = p]
    BY <1>1, <1>6, <1>8, <2>1, <2>3 DEF SelectDue, Becomes
  <2>10. QED
    BY <1>1, <1>3, <2>4, <2>5, <2>6, <2>7, <2>8, <2>9, MovesOn DEF Fits
<1>9. CASE ~(Current # None /\ Due(subs[Current], until))
  <2>1. ASSUME NEW i \in Ids, Pending(i)
        PROVE  subs[i].due >= IF req[r].kind = "invoices" THEN EndOf(req[r].month) ELSE req[r].begun
    <3>1. Current = i /\ i # None
      BY <1>5, <2>1 DEF Pending
    <3>2. ~(subs[i].due <= until) /\ subs[i].due \in Nat
      BY <1>2, <1>9, <2>1, <3>1 DEF Due, Pending, RowsFit
    <3>3. subs[i].due >= until
      BY <1>7, <3>2
    <3>4. CASE q.kind = "invoices"
      BY <1>1, <1>6, <3>3, <3>4
    <3>5. CASE q.kind # "invoices"
      <4>1. until = now
        BY <1>6, <3>5
      <4>2. QED
        BY <1>1, <1>2, <3>2, <3>3, <3>5, <4>1
    <3>6. QED
      BY <3>4, <3>5
  <2>2. req' = [req EXCEPT ![r] = AfterDue(req[r])]
    BY <1>1, <1>6, <1>9 DEF SelectDue, Becomes
  <2>3. QED
    BY <1>1, <1>3, <1>4, <2>1, <2>2, AfterDueFits, MovesOn
<1>10. QED
  BY <1>8, <1>9


LEMMA ClaimKeeps ==
  ASSUME BillingInv, Remembers, NEW r \in Requests, Claim(r)
  PROVE  BillingInv'
<1>1. PICK q : q = req[r]
  OBVIOUS
<1>2. q \in Request /\ Fits(q) /\ Shapes /\ RowsFit /\ (Knows(q) => NoneOverdue(q))
      /\ now \in Nat /\ q.begun \in Nat /\ q.begun <= now
  BY <1>1, RequestTypes DEF Fits, Timely
<1>3. Quiet /\ asked' = asked /\ blind' = blind
  BY DEF Claim, Quiet
<1>4. q.pc = "claim" /\ q.claim \in Ids /\ q.claim # None /\ q.claim \in Nat /\ q.holds = None
  BY <1>1, <1>2 DEF Claim, Fits, Holding, Ids
<1>5. NoneOverdue(q)
  BY <1>2, <1>4 DEF Knows
<1>6. CASE Pending(q.claim)
  <2>1. PICK p : p = [q EXCEPT !.pc = "update", !.holds = q.claim]
    OBVIOUS
  <2>2. p \in Request
    <3>1. PICK c \in Nat : c = q.claim
      BY <1>4
    <3>2. p = [q EXCEPT !.pc = "update", !.holds = c]
      BY <2>1, <3>1
    <3>3. QED
      BY <1>2, <3>2 DEF Request
  <2>3. /\ p.pc = "update" /\ p.claim = q.claim /\ p.target = q.target /\ p.at = q.at
        /\ p.kind = q.kind /\ p.begun = q.begun /\ p.want = q.want /\ p.sub = q.sub
        /\ p.holds = q.claim /\ p.month = q.month
    BY <1>2, <1>4, <2>1 DEF Request
  <2>4. Timely(p) /\ Asking(p) /\ StaleSoon(p) /\ BillFits(p)
    BY <1>2, <1>4, <2>3 DEF Fits, Timely, Asking, Switching, StaleSoon, AsClaimed, BillFits, Early
  <2>5. Holding(p)
    BY <1>2, <1>4, <1>6, <2>3 DEF Fits, Holding, Switching, Pending
  <2>6. NoneOverdue(p)
    BY <1>5, <2>3 DEF NoneOverdue
  <2>7. req' = [req EXCEPT ![r] = p]
    BY <1>1, <1>6, <2>1 DEF Claim, Becomes, Pending
  <2>8. \A o \in Requests \ {r} : req[o].holds # p.holds
    BY <1>1, <2>3 DEF Claim, Unlocked
  <2>9. asked' \in 0 .. MaxAsked /\ blind' \in BOOLEAN
    BY <1>3, RequestTypes
  <2>10. QED
    BY <1>3, <2>2, <2>4, <2>5, <2>6, <2>7, <2>8, <2>9, QuietKeeps DEF Fits
<1>7. CASE ~Pending(q.claim)
  <2>1. ASSUME NEW i \in Ids, Pending(i), ~Early(q)
        PROVE  subs[i].due >= IF req[r].kind = "invoices" THEN EndOf(req[r].month) ELSE req[r].begun
    <3>1. subs[i].due >= q.begun /\ subs[i].due \in Nat
      BY <1>2, <1>5, <1>7, <2>1 DEF NoneOverdue, RowsFit
    <3>2. CASE q.kind = "invoices"
      <4>1. EndOf(q.month) <= q.begun /\ EndOf(q.month) \in Nat
        <5>1. q.month \in Months
          BY <1>2, <1>4, <3>2 DEF Fits, Timely
        <5>2. EndOf(q.month) \in Nat /\ ~(q.begun < EndOf(q.month))
          BY <2>1, <3>2, <5>1, DatesOf DEF Early
        <5>3. QED
          BY <1>2, <5>2
      <4>2. QED
        BY <1>1, <1>2, <3>1, <3>2, <4>1
    <3>3. CASE q.kind # "invoices"
      BY <1>1, <3>1, <3>3
    <3>4. QED
      BY <3>2, <3>3
  <2>2. req' = [req EXCEPT ![r] = AfterDue(req[r])]
    BY <1>1, <1>7 DEF Claim, Becomes, Pending
  <2>3. QED
    BY <1>1, <1>3, <1>4, <2>1, <2>2, AfterDueFits, MovesOn
<1>8. QED
  BY <1>6, <1>7

LEMMA UpdateKeeps ==
  ASSUME BillingInv, Remembers, NEW r \in Requests, Update(r) \/ Wait(r)
  PROVE  BillingInv'
<1>1. PICK q : q = req[r]
  OBVIOUS
<1>2. q \in Request /\ Fits(q) /\ Shapes /\ RowsFit /\ (Knows(q) => NoneOverdue(q))
  BY <1>1, RequestTypes
<1>3. Quiet /\ asked' = asked /\ blind' = blind
  BY DEF Update, Wait, Quiet
<1>4. q.pc \in {"update", "wait"} /\ (q.pc = "wait" => q.claim = None /\ q.holds = None /\ q.seen \in Ids)
  BY <1>1, <1>2 DEF Update, Wait, Fits, Holding
<1>5. /\ \A i \in Ids : i \in Nat /\ i # None /\ (Active(i) <=> Current = i)
      /\ Current \in Ids \cup {None}
  BY <1>2, CurrentIs, NoneIsNone DEF Ids
<1>6. q.claim # None => q.holds = q.claim /\ Current = q.claim /\ Unlocked(r, Current)
  <2>1. HAVE q.claim # None
  <2>2. q.holds = q.claim /\ q.claim \in Ids /\ Active(q.holds)
    BY <1>2, <1>4, <2>1 DEF Fits, Holding
  <2>3. \A o \in Requests \ {r} : req[o].holds # q.holds
    BY <1>1, <2>1, <2>2, RequestTypes
  <2>4. QED
    BY <1>5, <2>2, <2>3 DEF Unlocked
<1>7. ASSUME NEW p \in Request, req' = [req EXCEPT ![r] = p],
             p.pc \in {"wait", "commit"}, p.claim = q.claim, p.target = q.target, p.at = q.at,
             p.kind = q.kind, p.begun = q.begun, p.want = q.want, p.sub = q.sub, p.month = q.month,
             Holding(p), p.holds # None => Unlocked(r, p.holds)
      PROVE  BillingInv'
  <2>1. Timely(p) /\ Asking(p) /\ StaleSoon(p) /\ BillFits(p)
    BY <1>2, <1>4, <1>7 DEF Fits, Timely, Asking, Switching, StaleSoon, AsClaimed, BillFits, Early
  <2>2. Knows(p)' => NoneOverdue(p)
    BY <1>2, <1>3, <1>4, <1>7 DEF Knows, NoneOverdue
  <2>3. p.holds # None => \A o \in Requests \ {r} : req[o].holds # p.holds
    BY <1>7 DEF Unlocked
  <2>4. asked' \in 0 .. MaxAsked /\ blind' \in BOOLEAN
    BY <1>3, RequestTypes
  <2>5. QED
    BY <1>3, <1>7, <2>1, <2>2, <2>3, <2>4, QuietKeeps DEF Fits
<1>8. CASE Update(r) /\ (Current = None \/ Unlocked(r, Current))
  <2>1. PICK p : p = [q EXCEPT !.pc = "commit", !.holds = Current]
    OBVIOUS
  <2>2. p \in Request
    BY <1>2, <1>5, <2>1 DEF Request
  <2>3. /\ p.pc = "commit" /\ p.claim = q.claim /\ p.target = q.target /\ p.at = q.at
        /\ p.kind = q.kind /\ p.begun = q.begun /\ p.want = q.want /\ p.sub = q.sub
        /\ p.holds = Current /\ p.month = q.month
    BY <1>2, <2>1 DEF Request
  <2>4. Holding(p)
    BY <1>2, <1>5, <1>6, <2>3 DEF Fits, Holding, Switching
  <2>5. req' = [req EXCEPT ![r] = p]
    BY <1>1, <1>8, <2>1 DEF Update, Becomes
  <2>6. QED
    BY <1>7, <1>8, <2>2, <2>3, <2>4, <2>5
<1>9. CASE Update(r) /\ ~(Current = None \/ Unlocked(r, Current))
  <2>1. PICK p : p = [q EXCEPT !.pc = "wait", !.seen = Current]
    OBVIOUS
  <2>2. p \in Request
    BY <1>2, <1>5, <2>1 DEF Request
  <2>3. /\ p.pc = "wait" /\ p.claim = q.claim /\ p.target = q.target /\ p.at = q.at
        /\ p.kind = q.kind /\ p.begun = q.begun /\ p.want = q.want /\ p.sub = q.sub
        /\ p.holds = q.holds /\ p.month = q.month /\ p.seen = Current
    BY <1>2, <2>1 DEF Request
  <2>4. q.claim = None /\ q.holds = None
    <3>1. q.claim = None
      BY <1>6, <1>9
    <3>2. q.holds # None => q.holds \in Ids /\ Active(q.holds)
      BY <1>2 DEF Fits, Holding
    <3>3. q.holds # None => Unlocked(r, q.holds)
      BY <1>1, RequestTypes DEF Unlocked
    <3>4. QED
      BY <1>5, <1>9, <3>1, <3>2, <3>3
  <2>5. Holding(p)
    BY <1>2, <1>5, <1>9, <2>3, <2>4 DEF Fits, Holding, Switching
  <2>6. req' = [req EXCEPT ![r] = p]
    BY <1>1, <1>9, <2>1 DEF Update, Becomes
  <2>7. QED
    BY <1>7, <2>2, <2>3, <2>4, <2>5, <2>6
<1>10. CASE Wait(r)
  <2>1. PICK h : h = IF Active(q.seen) THEN q.seen ELSE None
    OBVIOUS
  <2>2. PICK p : p = [q EXCEPT !.pc = "commit", !.seen = None, !.holds = h]
    OBVIOUS
  <2>3. q.pc = "wait" /\ q.claim = None /\ q.seen \in Ids /\ q.seen \in Nat /\ h \in Nat \cup {None}
    BY <1>1, <1>4, <1>5, <1>10, <2>1 DEF Wait
  <2>4. p \in Request
    <3>1. h \in Nat \cup {None} /\ None \in Nat \cup {None}
      BY <2>3
    <3>2. QED
      BY <1>2, <2>2, <3>1 DEF Request
  <2>5. /\ p.pc = "commit" /\ p.claim = q.claim /\ p.target = q.target /\ p.at = q.at
        /\ p.kind = q.kind /\ p.begun = q.begun /\ p.want = q.want /\ p.sub = q.sub
        /\ p.holds = h /\ p.month = q.month
    BY <1>2, <2>2, <2>3 DEF Request
  <2>6. Holding(p)
    BY <2>1, <2>3, <2>5 DEF Holding
  <2>7. req' = [req EXCEPT ![r] = p]
    BY <1>1, <1>10, <2>1, <2>2 DEF Wait, Becomes
  <2>8. p.holds # None => Unlocked(r, p.holds)
    BY <1>1, <1>10, <2>1, <2>5 DEF Wait
  <2>9. QED
    BY <1>7, <2>4, <2>5, <2>6, <2>7, <2>8
<1>11. QED
  BY <1>8, <1>9, <1>10

----------------------------------------------------------------------------
(* Changes are decided, months billed, and requests fail.                  *)

LEMMA DecideKeeps ==
  ASSUME BillingInv, Remembers, NEW r \in Requests, Decide(r)
  PROVE  BillingInv'
<1>1. PICK q : q = req[r]
  OBVIOUS
<1>2. q \in Request /\ Fits(q) /\ Shapes /\ RowsFit /\ (Knows(q) => NoneOverdue(q))
      /\ now \in Nat /\ now \in Times /\ q.begun \in Nat /\ q.begun <= now
  BY <1>1, RequestTypes DEF Fits, Timely
<1>3. Quiet /\ asked' = asked /\ blind' = blind
  BY DEF Decide, Quiet
<1>4. /\ q.pc = "decide" /\ q.kind = "change" /\ q.want \in Plans /\ q.claim = None /\ q.holds = None
      /\ now <= q.begun + 1
      /\ q.sub # None => q.sub \in Ids /\ q.plan = subs[q.sub].plan
  BY <1>1, <1>2 DEF Decide, Fits, Holding, Switching, Asking, Timely
<1>5. ASSUME NEW p \in Request, req' = [req EXCEPT ![r] = p],
             p.pc \in {"clear", "schedule", "update"}, p.sub = q.sub, p.begun = q.begun,
             p.claim = None, p.holds = None, Fits(p)
      PROVE  BillingInv'
  <2>1. Knows(p) => NoneOverdue(p)
    BY <1>2, <1>4, <1>5 DEF Knows, NoneOverdue
  <2>2. QED
    BY <1>3, <1>5, <2>1, MovesOn
<1>6. CASE q.plan = q.want /\ q.sub = None
  <2>1. req' = [req EXCEPT ![r] = Answering(q)]
    BY <1>1, <1>6 DEF Decide, Becomes
  <2>2. Answering(q) \in Request /\ Answering(q).holds = None /\ Reads(Answering(q))
    BY <1>2, <1>4, AnsweringFits
  <2>3. QED
    BY <1>3, <2>1, <2>2, ReadsFits, MovesOn
<1>7. CASE q.plan = q.want /\ q.sub # None
  <2>1. PICK p : p = [q EXCEPT !.pc = "clear"]
    OBVIOUS
  <2>2. p \in Request
    BY <1>2, <2>1 DEF Request
  <2>3. /\ p.pc = "clear" /\ p.kind = q.kind /\ p.begun = q.begun /\ p.want = q.want
        /\ p.sub = q.sub /\ p.claim = None /\ p.holds = None
    BY <1>2, <1>4, <2>1 DEF Request
  <2>4. Fits(p)
    BY <1>2, <1>4, <1>7, <2>3
    DEF Fits, Timely, Switching, Holding, Asking, StaleSoon, BillFits
  <2>5. req' = [req EXCEPT ![r] = p]
    <3>1. ~(Price[q.want] < Price[q.want])
      BY <1>4, PlansAssumption
    <3>2. QED
      BY <1>1, <1>7, <2>1, <3>1 DEF Decide, Becomes
  <2>6. QED
    BY <1>5, <2>2, <2>3, <2>4, <2>5
<1>8. CASE q.plan # q.want /\ q.when = "auto" /\ q.sub # None /\ Price[q.want] < Price[q.plan]
  <2>1. PICK t \in Dates : t = nextMonth(now) /\ t > now /\ MonthStart(t) /\ t \in Nat
    BY <1>2, DatesOf
  <2>2. PICK p : p = [q EXCEPT !.pc = "schedule", !.at = t]
    OBVIOUS
  <2>3. p \in Request
    <3>1. q \in Request /\ t \in Dates \cup {None}
      BY <1>2, <2>1
    <3>2. QED
      BY <2>2, <3>1 DEF Request
  <2>4. /\ p.pc = "schedule" /\ p.kind = q.kind /\ p.begun = q.begun /\ p.want = q.want
        /\ p.sub = q.sub /\ p.claim = None /\ p.holds = None /\ p.at = t
    BY <1>2, <1>4, <2>2 DEF Request
  <2>5. t > q.begun
    BY <1>2, <2>1
  <2>6. Timely(p)
    BY <1>2, <1>4, <2>1, <2>4, <2>5 DEF Timely, Switching
  <2>7. Holding(p) /\ Asking(p) /\ StaleSoon(p) /\ BillFits(p)
    BY <1>2, <1>4, <1>8, <2>4 DEF Holding, Asking, StaleSoon, BillFits
  <2>8. req' = [req EXCEPT ![r] = p]
    BY <1>1, <1>8, <2>1, <2>2 DEF Decide, Becomes
  <2>9. QED
    BY <1>5, <2>3, <2>4, <2>6, <2>7, <2>8 DEF Fits
<1>9. CASE q.plan # q.want /\ ~(q.when = "auto" /\ q.sub # None /\ Price[q.want] < Price[q.plan])
  <2>1. PICK p : p = [q EXCEPT !.pc = "update", !.target = q.want, !.at = now]
    OBVIOUS
  <2>2. p \in Request
    <3>1. PICK w \in Plans : w = q.want
      BY <1>4
    <3>2. p = [q EXCEPT !.pc = "update", !.target = w, !.at = now] /\ now \in Dates
      BY <1>2, <2>1, <3>1, DatesOf
    <3>3. QED
      BY <1>2, <3>2 DEF Request
  <2>3. /\ p.pc = "update" /\ p.kind = q.kind /\ p.begun = q.begun /\ p.want = q.want
        /\ p.sub = q.sub /\ p.claim = None /\ p.holds = None /\ p.at = now /\ p.target = q.want
    BY <1>2, <1>4, <2>1 DEF Request
  <2>4. Timely(p)
    BY <1>2, <1>4, <2>3 DEF Timely, Switching
  <2>5. Holding(p) /\ Asking(p) /\ StaleSoon(p) /\ BillFits(p)
    BY <1>2, <1>4, <2>3 DEF Holding, Asking, StaleSoon, BillFits
  <2>6. req' = [req EXCEPT ![r] = p]
    BY <1>1, <1>9, <2>1 DEF Decide, Becomes
  <2>7. QED
    BY <1>5, <2>2, <2>3, <2>4, <2>5, <2>6 DEF Fits
<1>10. QED
  BY <1>6, <1>7, <1>8, <1>9

\* The stretches of a month lie in the dates of the model.
LEMMA Segments ==
  ASSUME Shapes, RowsFit, NEW m \in Months
  PROVE  segmentsInMonth(m) \in SUBSET Segment
<1>1. SUFFICES ASSUME NEW i \in Ids
               PROVE  Stretch(subs[i], m) \in Segment
  BY DEF segmentsInMonth
<1>2. StartOf(m) \in Dates /\ EndOf(m) \in Dates
  BY DatesOf
<1>3. /\ subs[i].plan \in Paid /\ subs[i].created \in Dates
      /\ subs[i].status # "active" => subs[i].ended \in Dates
  <2>1. subs[i] \in Row
    BY DEF Shapes, Ids
  <2>2. subs[i].ended # None \/ Active(i)
    BY NoneIsNone DEF RowsFit
  <2>3. QED
    BY <2>1, <2>2 DEF Row, Active
<1>4. QED
  BY <1>2, <1>3 DEF Stretch, Segment, Least, Greatest

LEMMA BillKeeps ==
  ASSUME BillingInv, Remembers, NEW r \in Requests, Bill(r)
  PROVE  BillingInv'
<1>1. PICK q : q = req[r]
  OBVIOUS
<1>2. q \in Request /\ Fits(q) /\ Shapes /\ RowsFit
  BY <1>1, RequestTypes
<1>3. Quiet /\ asked' = asked /\ blind' = blind
  BY DEF Bill, Quiet
<1>4. q.pc = "bill" /\ q.kind = "invoices" /\ q.month \in Months /\ q.claim = None /\ q.holds = None
  BY <1>1, <1>2 DEF Bill, Fits, Timely, Holding, Switching
<1>5. CASE segmentsInMonth(q.month) = {}
  <2>1. req' = [req EXCEPT ![r] = Idle]
    BY <1>1, <1>5 DEF Bill, Becomes
  <2>2. QED
    BY <1>3, <2>1, IdleFits, MovesOn
<1>6. CASE segmentsInMonth(q.month) # {}
  <2>1. PICK b \in SUBSET Segment : b = segmentsInMonth(q.month)
    BY <1>2, <1>4, Segments
  <2>2. PICK p : p = [q EXCEPT !.pc = "post", !.bill = b]
    OBVIOUS
  <2>3. p \in Request
    <3>1. q \in Request /\ b \in SUBSET Segment
      BY <1>2, <2>1
    <3>2. QED
      BY <2>2, <3>1 DEF Request
  <2>4. /\ p.pc = "post" /\ p.kind = q.kind /\ p.begun = q.begun /\ p.bill = b /\ p.month = q.month
        /\ p.sub = q.sub /\ p.claim = None /\ p.holds = None
    BY <1>2, <1>4, <2>2 DEF Request
  <2>5. Fits(p) /\ ~Knows(p)
    BY <1>2, <1>4, <2>1, <2>4
    DEF Fits, Timely, Switching, Holding, Asking, StaleSoon, BillFits, Knows, Early
  <2>6. req' = [req EXCEPT ![r] = p]
    BY <1>1, <1>6, <2>1, <2>2 DEF Bill, Becomes
  <2>7. QED
    BY <1>3, <2>3, <2>4, <2>5, <2>6, MovesOn
<1>7. QED
  BY <1>5, <1>6

LEMMA PostKeeps ==
  ASSUME BillingInv, Remembers, NEW r \in Requests, Post(r)
  PROVE  BillingInv'
<1>1. PICK q : q = req[r]
  OBVIOUS
<1>2. q \in Request /\ Fits(q)
  BY <1>1, RequestTypes
<1>3. /\ now' = now /\ subs' = subs /\ late' = late /\ asked' = asked /\ blind' = blind
      /\ ahead' = ahead /\ req' = [req EXCEPT ![r] = Idle]
      /\ invoice' = [invoice EXCEPT ![q.month] = IF @ = None THEN q.bill ELSE @]
      /\ early' = IF invoice[q.month] = None /\ Early(q) THEN early \cup {q.month} ELSE early
  BY <1>1 DEF Post, Becomes
<1>4. /\ q.pc = "post" /\ q.month \in Months /\ q.bill \in SUBSET Segment
      /\ ~Early(q) => Settled(q.month)
      /\ ~Early(q) /\ q.month \notin late => q.bill = segmentsInMonth(q.month)
  BY <1>1, <1>2 DEF Post, Fits, Timely, BillFits, Request
<1>5. invoice' \in [Months -> (SUBSET Segment) \cup {None}]
  BY <1>3, <1>4 DEF BillingInv, Shapes
<1>6. InvoicesFit'
  <2>1. ASSUME NEW m \in Months \ early', invoice'[m] # None
        PROVE  Settled(m) /\ (m \notin late => invoice'[m] = segmentsInMonth(m))
    <3>1. CASE m = q.month /\ invoice[m] = None
      <4>1. invoice'[m] = q.bill /\ ~Early(q)
        BY <1>3, <1>4, <2>1, <3>1 DEF BillingInv, Shapes
      <4>2. QED
        BY <1>4, <3>1, <4>1
    <3>2. CASE ~(m = q.month /\ invoice[m] = None)
      <4>1. invoice'[m] = invoice[m] /\ m \notin early
        BY <1>3, <1>4, <2>1, <3>2 DEF BillingInv, Shapes
      <4>2. QED
        BY <2>1, <4>1 DEF BillingInv, InvoicesFit
    <3>3. QED
      BY <3>1, <3>2
  <2>2. ASSUME NEW m PROVE Settled(m)' <=> Settled(m)
    BY <1>3 DEF Settled, Ids, Pending, Active
  <2>3. ASSUME NEW m PROVE segmentsInMonth(m)' = segmentsInMonth(m)
    BY <1>3 DEF segmentsInMonth, Ids
  <2>4. QED
    BY <1>3, <2>1, <2>2, <2>3 DEF InvoicesFit
<1>7. Still
  BY <1>3, <1>4 DEF Still, BillingInv, Shapes
<1>8. asked' \in 0 .. MaxAsked /\ blind' \in BOOLEAN
  BY <1>3, RequestTypes
<1>9. QED
  BY <1>3, <1>5, <1>6, <1>7, <1>8, IdleFits, StillKeeps

\* A request that fails ends, or decides on a change in the belief that there is no row.
LEMMA FailedFits ==
  ASSUME BillingInv, NEW r \in Requests, req[r].pc # "idle"
  PROVE  /\ Failed(req[r]) \in Request /\ Fits(Failed(req[r])) /\ Failed(req[r]).holds = None
         /\ Failed(req[r]).claim = None /\ Failed(req[r]).sub = None
         /\ Failed(req[r]).pc \in {"idle", "decide"}
<1>1. PICK q : q = req[r]
  OBVIOUS
<1>2. q \in Request /\ Fits(q) /\ now <= q.begun + 1 /\ q.begun <= now
  BY <1>1, RequestTypes DEF Fits, Timely
<1>3. CASE Failed(q) = Idle
  BY <1>1, <1>3, IdleFits DEF Idle
<1>4. CASE Failed(q) # Idle
  <2>1. q.kind = "change" /\ q.pc # "idle"
    BY <1>1, <1>4 DEF Failed
  <2>2. PICK s : s = Failed(q)
    OBVIOUS
  <2>3. s = [Idle EXCEPT !.pc = "decide", !.kind = "change", !.begun = q.begun,
                         !.want = q.want, !.when = q.when]
    BY <1>4, <2>2 DEF Failed
  <2>4. s \in Request
    <3>1. Idle \in Request
      BY IdleFits
    <3>2. q.begun \in Times /\ q.want \in Plans \cup {None} /\ q.when \in {"auto", "now"}
      BY <1>2 DEF Request
    <3>3. QED
      BY <2>3, <3>1, <3>2 DEF Request
  <2>5. /\ s.pc = "decide" /\ s.kind = "change" /\ s.begun = q.begun /\ s.want = q.want
        /\ s.sub = None /\ s.claim = None /\ s.holds = None
    BY <2>3 DEF Idle
  <2>6. q.want \in Plans
    BY <1>2, <2>1 DEF Fits, Asking
  <2>7. Fits(s)
    BY <1>2, <2>5, <2>6 DEF Fits, Timely, Switching, Holding, Asking, StaleSoon, BillFits
  <2>8. QED
    BY <1>1, <2>2, <2>4, <2>5, <2>7
<1>5. QED
  BY <1>3, <1>4

LEMMA FailsKeeps ==
  ASSUME BillingInv, Remembers, NEW r \in Requests, Fails(r) \/ Conflicts(r)
  PROVE  BillingInv'
<1>1. Quiet /\ asked' = asked /\ req[r].pc # "idle" /\ FailsWith(r)
  BY DEF Fails, Conflicts, Quiet
<1>2. PICK s : s = Failed(req[r])
  OBVIOUS
<1>3. s \in Request /\ Fits(s) /\ s.holds = None /\ s.claim = None /\ s.sub = None /\ s.pc \in {"idle", "decide"}
  BY <1>1, <1>2, FailedFits
<1>4. req' = [req EXCEPT ![r] = s] /\ blind' = (blind \/ s.pc = "decide")
  BY <1>1, <1>2 DEF FailsWith, Becomes
<1>5. ~Knows(s)'
  BY <1>3, <1>4 DEF Knows
<1>6. asked' \in 0 .. MaxAsked /\ blind' \in BOOLEAN /\ (blind => blind')
  BY <1>1, <1>4, RequestTypes
<1>7. QED
  BY <1>1, <1>3, <1>4, <1>5, <1>6, QuietKeeps

----------------------------------------------------------------------------
(* Time goes on.                                                           *)

\* In a tick that is over, what was in force to its end is what is charged for it.
LEMMA InForceIsCharged ==
  ASSUME Shapes, RowsFit, now \notin ahead
  PROVE  OnlyCharged(InForce[2], now)
<1>1. now \in Nat /\ \A i \in Ids : subs[i].created \in Nat /\ i \in Nat
  BY DatesOf, RowTypes DEF Shapes, Ids
<1>2. /\ \A i \in Ids : subs[i].created <= now
      /\ \A i \in Ids : ~Active(i) => \A x : ~Charged(i, x, now)
  <2>1. \A d \in Nat : Foreseen(d) => d <= now
    BY <1>1 DEF Foreseen, Shapes
  <2>2. QED
    BY <1>1, <2>1 DEF RowsFit, Charged
<1>3. CASE Current = None
  <2>1. InForce[2] = Free /\ \A i \in Ids : ~Active(i)
    BY <1>3, InForceIs, CurrentIs, NoneIsNone DEF Ids
  <2>2. QED
    BY <1>2, <2>1 DEF OnlyCharged
<1>4. CASE Current # None
  <2>1. PICK i \in Ids : Current = i /\ Active(i) /\ \A j \in Ids : Active(j) => j = i
    BY <1>4, CurrentIs
  <2>2. Due(subs[i], now) <=> Pending(i) /\ subs[i].due <= now
    BY <2>1 DEF Due, Pending
  <2>3. PICK p : p = IF Due(subs[i], now) THEN subs[i].target ELSE subs[i].plan
    OBVIOUS
  <2>4. InForce[2] = p
    BY <2>1, <2>2, <2>3, InForceIs
  <2>5. subs[i].created <= now /\ subs[i].plan # Free /\ subs[i].plan \in Plans
        /\ (Due(subs[i], now) => subs[i].target \in Plans)
    BY <1>2, <2>1, <2>2, RowTypes DEF Pending
  <2>6. \A x \in Plans : Charged(i, x, now) <=> x = p /\ p # Free
    BY <2>1, <2>3, <2>5 DEF Charged
  <2>7. \A j \in Ids, x \in Plans : Charged(j, x, now) <=> j = i /\ x = p /\ p # Free
    BY <1>2, <2>1, <2>6
  <2>8. CASE p = Free
    BY <2>4, <2>7, <2>8 DEF OnlyCharged
  <2>9. CASE p # Free
    BY <2>4, <2>7, <2>9 DEF OnlyCharged
  <2>10. QED
    BY <2>8, <2>9
<1>5. QED
  BY <1>3, <1>4

LEMMA TickKeeps ==
  ASSUME BillingInv, Remembers, Tick
  PROVE  BillingInv'
<1>1. /\ now' = now + 1 /\ subs' = subs /\ invoice' = invoice /\ req' = req
      /\ asked' = asked /\ late' = late /\ blind' = blind
      /\ \A r \in Requests : req[r].pc = "idle" \/ req[r].begun = now
      /\ early' = early /\ ahead' = ahead
  BY DEF Tick, history
<1>2. now \in Times /\ now \in Nat /\ now' \in Times /\ now' \in Nat /\ now # now' /\ Shapes /\ RowsFit
  BY <1>1, DatesOf, TimeAssumption DEF Tick, BillingInv, Shapes, Times
<1>3. Ids' = Ids /\ \A i : (Active(i)' <=> Active(i)) /\ (Pending(i)' <=> Pending(i))
  BY <1>1 DEF Ids, Active, Pending
<1>4. RowsFit'
  <2>1. \A i, j \in ActiveRows' : i = j
    BY <1>1, <1>3 DEF BillingInv, RowsFit, ActiveRows
  <2>2. \A x : Foreseen(x) => Foreseen(x)'
    BY <1>1, <1>2, ForeseenKept
  <2>3. QED
    BY <1>1, <1>2, <1>3, <2>1, <2>2 DEF RowsFit
<1>5. InForce' \in (Ids \cup {None}) \X Plans
  BY <1>1, <1>2, <1>3, <1>4, InForceIsNow DEF Shapes
<1>6. /\ held' = [held EXCEPT ![now'] = InForce'] /\ held'[now'] = InForce'
      /\ \A t \in Times : t # now' => held'[t] = held[t]
  BY <1>2 DEF Remembers, Shapes
<1>7. Shapes'
  BY <1>1, <1>2, <1>3, <1>5, <1>6 DEF Shapes
<1>8. ASSUME NEW m \in Months PROVE (Settled(m) => Settled(m)') /\ segmentsInMonth(m)' = segmentsInMonth(m)
  <2>1. segmentsInMonth(m)' = segmentsInMonth(m)
    BY <1>1 DEF segmentsInMonth, Ids
  <2>2. ASSUME Settled(m) PROVE Settled(m)'
    <3>1. EndOf(m) \in Nat /\ EndOf(m) <= now
      BY <2>2, DatesOf DEF Settled
    <3>2. EndOf(m) <= now'
      BY <1>1, <1>2, <3>1
    <3>3. QED
      BY <1>1, <1>3, <2>2, <3>2 DEF Settled
  <2>3. QED
    BY <2>1, <2>2
<1>9. RequestsFit'
  <2>1. ASSUME NEW o \in Requests
        PROVE  Fits(req[o])' /\ (Knows(req[o])' => NoneOverdue(req[o])')
    <3>1. PICK p : p = req[o] /\ p = req'[o]
      BY <1>1
    <3>2. /\ p \in Request /\ Fits(p) /\ (Knows(p) => NoneOverdue(p))
          /\ p.begun \in Nat /\ (p.pc = "idle" \/ p.begun = now) /\ p.begun <= now
      BY <1>1, <3>1, RequestTypes DEF Fits, Timely
    <3>3. Timely(p)'
      <4>1. p.at \in Nat /\ p.at <= now => p.at <= now'
        BY <1>1, <1>2
      <4>2. p.begun <= now' /\ (p.pc # "idle" => now' <= p.begun + 1)
        BY <1>1, <1>2, <3>2
      <4>3. QED
        BY <3>2, <4>1, <4>2 DEF Fits, Timely, Switching
    <3>4. Holding(p)' /\ Asking(p)'
      BY <1>1, <1>3, <3>2 DEF Fits, Holding, Asking, Switching
    <3>5. StaleSoon(p)'
      <4>1. SUFFICES ASSUME p.claim # None, Active(p.claim), ~AsClaimed(p)
                     PROVE  /\ p.begun <= p.at + 1
                            /\ \/ p.begun < p.at
                               \/ held'[p.at] = None
                               \/ p.at + 1 <= now' /\ held'[p.at + 1] = None
                            /\ Pending(p.claim) => subs[p.claim].due >= p.begun
        BY <1>1, <1>3 DEF StaleSoon, AsClaimed
      <4>2. /\ p.begun <= p.at + 1
            /\ \/ p.begun < p.at
               \/ held[p.at] = None
               \/ p.at + 1 <= now /\ held[p.at + 1] = None
            /\ Pending(p.claim) => subs[p.claim].due >= p.begun
            /\ p.at \in Nat
        BY <3>2, <4>1 DEF Fits, StaleSoon, Timely, Holding
      <4>3. CASE p.begun < p.at
        BY <4>2, <4>3
      <4>4. CASE p.at <= p.begun
        <5>1. p.at \in Times /\ p.at # now' /\ (p.at + 1 <= now => p.at + 1 \in Times /\ p.at + 1 # now' /\ p.at + 1 <= now')
          BY <1>1, <1>2, <3>2, <4>2, <4>4, TimeAssumption DEF Times
        <5>2. held'[p.at] = held[p.at] /\ (p.at + 1 <= now => held'[p.at + 1] = held[p.at + 1] /\ p.at + 1 <= now')
          BY <1>6, <5>1
        <5>3. QED
          BY <3>2, <4>2, <4>4, <5>2
      <4>5. QED
        BY <3>2, <4>2, <4>3, <4>4
    <3>6. BillFits(p)'
      BY <1>1, <1>8, <3>2 DEF Fits, Timely, BillFits
    <3>7. Knows(p)' => NoneOverdue(p)'
      BY <1>1, <1>3, <3>2 DEF Knows, NoneOverdue
    <3>8. QED
      BY <3>1, <3>3, <3>4, <3>5, <3>6, <3>7 DEF Fits
  <2>2. QED
    BY <1>1, <2>1 DEF BillingInv, RequestsFit
<1>10. InvoicesFit'
  BY <1>1, <1>8 DEF BillingInv, InvoicesFit
<1>11. HeldFits'
  <2>1. ASSUME NEW t, NEW p PROVE OnlyCharged(p, t)' <=> OnlyCharged(p, t)
    BY <1>1 DEF OnlyCharged, Charged, Ids, Active
  <2>2. ASSUME ~blind, NEW t \in Times \ ahead, t < now', held'[t] # None, held'[t + 1] = held'[t]
        PROVE  OnlyCharged(held'[t][2], t)
    <3>1. t \in Nat /\ held'[t] = held[t]
      BY <1>2, <1>6, <2>2, DatesOf
    <3>2. CASE t = now
      <4>1. held[now] = InForce
        BY <2>2, <3>1, <3>2 DEF BillingInv, HeldFits
      <4>2. QED
        BY <1>2, <2>2, <3>1, <3>2, <4>1, InForceIsCharged
    <3>3. CASE t # now
      <4>1. t < now /\ t + 1 \in Times /\ t + 1 # now'
        BY <1>1, <1>2, <2>2, <3>1, <3>3, TimeAssumption DEF Times
      <4>2. held[t + 1] = held[t] /\ held[t] # None
        BY <1>6, <2>2, <3>1, <4>1
      <4>3. QED
        BY <2>2, <3>1, <4>1, <4>2 DEF BillingInv, HeldFits
    <3>4. QED
      BY <3>2, <3>3
  <2>3. QED
    BY <1>1, <1>6, <2>1, <2>2 DEF HeldFits
<1>12. QED
  BY <1>4, <1>7, <1>9, <1>10, <1>11 DEF BillingInv

----------------------------------------------------------------------------
(* Steps that change rows.                                                 *)

\* What such a step has to show of the rows, the months, the other requests and the
\* charges; the rest follows.
LEMMA RowsKeep ==
  ASSUME BillingInv, now' = now, invoice' = invoice, Remembers,
         NEW r \in Requests, NEW s \in Request, req' = [req EXCEPT ![r] = s],
         s.holds = None, Fits(s)', Knows(s)' => NoneOverdue(s)',
         asked' \in 0 .. MaxAsked, blind' \in BOOLEAN, blind => blind',
         late \subseteq late', late' \in SUBSET Months, early' = early, ahead' \in SUBSET Times,
         subs' \in Seq(Row), Ids \subseteq Ids', \A i \in Ids : subs'[i].plan = subs[i].plan,
         RowsFit',
         \A m \in Months : Settled(m) =>
            Settled(m)' /\ (m \notin late' => segmentsInMonth(m)' = segmentsInMonth(m)),
         \A o \in Requests \ {r}, p \in Request : p = req[o] =>
            Holding(p)' /\ StaleSoon(p)' /\ (Knows(p) => NoneOverdue(p)'),
         HeldFits'
  PROVE  BillingInv'
<1>1. \A o \in Requests : req'[o] = IF o = r THEN s ELSE req[o]
  BY DEF BillingInv, Shapes
<1>2. Shapes'
  <2>1. InForce' \in (Ids' \cup {None}) \X Plans
    BY InForceIsNow
  <2>2. held' \in [Times -> ((Ids' \cup {None}) \X Plans) \cup {None}]
    <3>1. held \in [Times -> ((Ids' \cup {None}) \X Plans) \cup {None}]
      BY DEF BillingInv, Shapes
    <3>2. QED
      BY <2>1, <3>1 DEF Remembers
  <2>3. req' \in [Requests -> Request]
    BY DEF BillingInv, Shapes
  <2>4. QED
    BY <2>2, <2>3 DEF BillingInv, Shapes
<1>3. RequestsFit'
  <2>1. ASSUME NEW o \in Requests
        PROVE  Fits(req[o])' /\ (Knows(req[o])' => NoneOverdue(req[o])')
    <3>1. CASE o = r
      BY <1>1, <3>1
    <3>2. CASE o # r
      <4>1. PICK p : p = req[o] /\ p = req'[o]
        BY <1>1, <3>2
      <4>2. p \in Request /\ Fits(p)
        BY <4>1, RequestTypes
      <4>3. Holding(p)' /\ StaleSoon(p)' /\ (Knows(p) => NoneOverdue(p)')
        BY <3>2, <4>1, <4>2
      <4>4. Timely(p)' /\ Asking(p)'
        BY <4>2 DEF Fits, Timely, Switching, Asking
      <4>5. BillFits(p)'
        BY <4>2 DEF Fits, Timely, BillFits
      <4>6. Knows(p)' => Knows(p)
        BY DEF Knows
      <4>7. QED
        BY <4>1, <4>3, <4>4, <4>5, <4>6 DEF Fits
    <3>3. QED
      BY <3>1, <3>2
  <2>2. ASSUME NEW o \in Requests, NEW p \in Requests,
               req'[o].holds # None, req'[o].holds = req'[p].holds
        PROVE  o = p
    BY <1>1, <2>2 DEF BillingInv, RequestsFit
  <2>3. QED
    BY <2>1, <2>2 DEF RequestsFit
<1>4. InvoicesFit'
  BY DEF BillingInv, InvoicesFit
<1>5. QED
  BY <1>2, <1>3, <1>4 DEF BillingInv

\* Of the rows, only what waits on row i is altered.
Rewritten(i, w, d) ==
    /\ Ids' = Ids /\ subs' \in Seq(Row)
    /\ subs'[i].target = w /\ subs'[i].due = d
    /\ \A j \in Ids : /\ subs'[j].plan = subs[j].plan /\ subs'[j].created = subs[j].created
                      /\ subs'[j].ended = subs[j].ended /\ subs'[j].status = subs[j].status
                      /\ j # i => subs'[j] = subs[j]

LEMMA WaitingRows ==
  ASSUME Shapes, NEW i \in Ids, NEW w \in Plans \cup {None}, NEW d \in Dates \cup {None},
         subs' = [subs EXCEPT ![i] = Waiting(@, w, d)]
  PROVE  Rewritten(i, w, d)
<1>1. subs \in Seq(Row) /\ subs[i] \in Row
  BY DEF Shapes, Ids
<1>2. PICK x : x = Waiting(subs[i], w, d)
  OBVIOUS
<1>3. x \in Row
  <2>1. w \in Plans \cup {None} /\ d \in Dates \cup {None}
    OBVIOUS
  <2>2. QED
    BY <1>1, <1>2, <2>1 DEF Waiting, Row
<1>4. /\ x.target = w /\ x.due = d /\ x.plan = subs[i].plan /\ x.created = subs[i].created
      /\ x.ended = subs[i].ended /\ x.status = subs[i].status
  BY <1>1, <1>2 DEF Waiting, Row
<1>5. subs' = [subs EXCEPT ![i] = x]
  BY <1>2
<1>6. subs' \in Seq(Row) /\ Len(subs') = Len(subs) /\ \A j \in Ids : subs'[j] = IF j = i THEN x ELSE subs[j]
  BY <1>1, <1>3, <1>5 DEF Ids
<1>7. QED
  BY <1>4, <1>6 DEF Ids, Rewritten

\* A change of plan that was due is dropped or replaced: what is in force is another plan.
LEMMA DueDropped ==
  ASSUME BillingInv, now' = now, Remembers, NEW i \in Ids, Pending(i),
         subs[i].due <= now, subs[i].due + 1 >= now, RowsFit',
         NEW w \in Plans \cup {None}, NEW d \in Dates \cup {None},
         subs' = [subs EXCEPT ![i] = Waiting(@, w, d)],
         w # None => d \in Nat /\ MonthStart(d) /\ d >= now /\ w # subs[i].plan,
         ~(w = subs[i].target /\ d = subs[i].due)
  PROVE  held'[now] = None
<1>1. /\ Shapes /\ RowsFit /\ now \in Nat /\ now \in Times
      /\ Active(i) /\ subs[i].due \in Nat /\ MonthStart(subs[i].due)
      /\ subs[i].target # subs[i].plan /\ subs[i].target # None
  BY DatesOf DEF BillingInv, Shapes, RowsFit, Pending
<1>2. /\ i \in Ids' /\ subs' \in Seq(Row) /\ subs'[i].target = w /\ subs'[i].due = d
      /\ subs'[i].plan = subs[i].plan /\ Active(i)'
  <2>1. Rewritten(i, w, d)
    BY <1>1, WaitingRows
  <2>2. QED
    BY <1>1, <2>1 DEF Rewritten, Active
<1>3. InForce = <<i, subs[i].target>>
  BY <1>1, InForceIs
<1>4. InForce' = <<i, IF w # None /\ d <= now THEN w ELSE subs[i].plan>>
  BY <1>2, InForceIsNow DEF Pending
<1>5. w # None /\ d <= now => w # subs[i].target
  <2>1. SUFFICES ASSUME w # None, d <= now PROVE d = subs[i].due
    OBVIOUS
  <2>2. d = now /\ d \in Nat /\ MonthStart(d) /\ subs[i].due <= d
    BY <1>1, <2>1
  <2>3. subs[i].due < d => subs[i].due + 3 <= d
    BY <1>1, <2>2, StartsApart
  <2>4. QED
    BY <1>1, <2>2, <2>3
<1>6. InForce' # InForce /\ InForce' # None
  <2>1. InForce' # InForce
    BY <1>1, <1>3, <1>4, <1>5
  <2>2. InForce' # None
    BY <1>2, InForceIsSome
  <2>3. QED
    BY <2>1, <2>2
<1>7. held[now] # InForce'
  BY <1>6 DEF BillingInv, HeldFits
<1>8. QED
  BY <1>1, <1>7, HeldNow

LEMMA WaitingKeeps ==
  ASSUME BillingInv, Remembers, NEW r \in Requests, Schedule(r) \/ Clear(r)
  PROVE  BillingInv'
<1>1. PICK q : q = req[r]
  OBVIOUS
<1>2. q \in Request /\ Fits(q) /\ Shapes /\ RowsFit /\ (Knows(q) => NoneOverdue(q))
      /\ now \in Nat /\ now \in Times /\ q.begun \in Nat /\ q.begun <= now
  BY <1>1, RequestTypes DEF Fits, Timely
<1>3. /\ q.pc \in {"schedule", "clear"} /\ q.sub # None /\ q.sub \in Ids /\ q.claim = None
      /\ now <= q.begun + 1 /\ q.want \in Plans
  BY <1>1, <1>2 DEF Schedule, Clear, Fits, Timely, Asking, Holding, Switching
<1>4. /\ now' = now /\ invoice' = invoice /\ asked' = asked /\ blind' = blind
      /\ late' = late /\ early' = early /\ ahead' = ahead
      /\ req' = [req EXCEPT ![r] = Answering(q)]
  BY <1>1 DEF Schedule, Clear, Becomes, history
<1>5. PICK i \in Ids : i = q.sub
  BY <1>3
<1>6. PICK w \in Plans \cup {None}, d \in Dates \cup {None} :
        /\ subs' = [subs EXCEPT ![i] = Waiting(@, w, d)]
        /\ w # None => d \in Nat /\ MonthStart(d) /\ d >= now /\ w # subs[i].plan
  <2>1. CASE q.pc = "schedule"
    <3>1. /\ q.want # subs[i].plan /\ q.at \in Nat /\ MonthStart(q.at) /\ q.at > q.begun
          /\ q.at \in Dates \cup {None}
      BY <1>2, <1>5, <2>1 DEF Fits, Timely, Asking, Request
    <3>2. q.at >= now
      BY <1>2, <1>3, <3>1
    <3>3. subs' = [subs EXCEPT ![i] = Waiting(@, q.want, q.at)]
      BY <1>1, <1>5, <2>1 DEF Schedule, Clear
    <3>4. QED
      BY <1>3, <3>1, <3>2, <3>3
  <2>2. CASE q.pc = "clear"
    BY <1>1, <1>5, <2>2 DEF Schedule, Clear
  <2>3. QED
    BY <1>3, <2>1, <2>2
<1>7. /\ Ids' = Ids /\ subs' \in Seq(Row)
      /\ subs'[i].target = w /\ subs'[i].due = d
      /\ \A j \in Ids : /\ subs'[j].plan = subs[j].plan /\ subs'[j].created = subs[j].created
                        /\ subs'[j].ended = subs[j].ended /\ subs'[j].status = subs[j].status
                        /\ j # i => subs'[j] = subs[j]
  <2>1. Rewritten(i, w, d)
    BY <1>2, <1>6, WaitingRows
  <2>2. QED
    BY <2>1 DEF Rewritten
<1>8. \A j \in Ids : /\ Active(j)' <=> Active(j)
                     /\ j # i => (Pending(j)' <=> Pending(j))
                     /\ Pending(j)' /\ j = i => Active(i) /\ w # None
  BY <1>7 DEF Active, Pending
<1>9. Pending(i) => subs[i].due \in Nat /\ subs[i].due >= q.begun /\ subs[i].due + 1 >= now
  <2>1. HAVE Pending(i)
  <2>2. i # q.claim
    BY <1>3, NoneIsNone DEF Ids
  <2>3. subs[i].due \in Nat /\ subs[i].due >= q.begun
    BY <1>2, <1>3, <2>1, <2>2 DEF Knows, NoneOverdue, RowsFit
  <2>4. QED
    BY <1>2, <1>3, <2>3
<1>10. RowsFit'
  <2>1. \A j, k \in ActiveRows' : j = k
    BY <1>2, <1>7, <1>8 DEF RowsFit, ActiveRows
  <2>2. ASSUME NEW j \in Ids
        PROVE  /\ Foreseen(subs[j].created)'
               /\ ~Active(j)' => subs'[j].ended \in Nat /\ Foreseen(subs[j].ended)'
               /\ Pending(j)' => /\ subs'[j].due \in Nat /\ MonthStart(subs'[j].due)
                                 /\ subs'[j].target # subs'[j].plan
    <3>1. \A x : Foreseen(x) => Foreseen(x)'
      BY <1>2, <1>4, ForeseenKept
    <3>2. QED
      BY <1>2, <1>6, <1>7, <1>8, <3>1 DEF RowsFit
  <2>3. QED
    BY <1>4, <1>7, <2>1, <2>2 DEF RowsFit
<1>11. ASSUME Pending(i), subs[i].due <= now, ~(w = subs[i].target /\ d = subs[i].due)
       PROVE  held'[now] = None
  BY <1>4, <1>6, <1>9, <1>10, <1>11, DueDropped
<1>12. ASSUME NEW m \in Months, Settled(m)
       PROVE  Settled(m)' /\ segmentsInMonth(m)' = segmentsInMonth(m)
  <2>1. EndOf(m) \in Nat /\ EndOf(m) <= now
    BY <1>12, DatesOf DEF Settled
  <2>2. ASSUME NEW j \in Ids, Pending(j)' PROVE subs'[j].due >= EndOf(m)
    BY <1>2, <1>6, <1>7, <1>8, <1>12, <2>1, <2>2 DEF Settled
  <2>3. \A j \in Ids : Stretch(subs'[j], m) = Stretch(subs[j], m)
    BY <1>7 DEF Stretch
  <2>4. QED
    BY <1>4, <1>7, <2>1, <2>2, <2>3 DEF Settled, segmentsInMonth
<1>13. ASSUME NEW o \in Requests \ {r}, NEW p \in Request, p = req[o]
       PROVE  Holding(p)' /\ StaleSoon(p)' /\ (Knows(p) => NoneOverdue(p)')
  <2>1. Fits(p) /\ (Knows(p) => NoneOverdue(p)) /\ p.begun \in Nat /\ p.begun <= now
    BY <1>13, RequestTypes DEF Fits, Timely
  <2>2. Holding(p)'
    BY <1>7, <1>8, <2>1 DEF Fits, Holding, Switching
  <2>3. Knows(p) => NoneOverdue(p)'
    <3>1. SUFFICES ASSUME NoneOverdue(p), NEW j \in Ids, Pending(j)', j # p.claim
                   PROVE  subs'[j].due >= p.begun
      BY <1>7, <2>1 DEF NoneOverdue
    <3>2. QED
      BY <1>2, <1>6, <1>7, <1>8, <2>1, <3>1 DEF NoneOverdue
  <2>4. StaleSoon(p)'
    <3>1. SUFFICES ASSUME p.claim # None, Active(p.claim), ~AsClaimed(p)'
                   PROVE  /\ p.begun <= p.at + 1
                          /\ \/ p.begun < p.at
                             \/ held'[p.at] = None
                             \/ p.at + 1 <= now /\ held'[p.at + 1] = None
                          /\ Pending(p.claim)' => subs'[p.claim].due >= p.begun
      <4>1. p.claim # None => (Active(p.claim)' <=> Active(p.claim))
        BY <1>8, <2>1 DEF Fits, Holding
      <4>2. QED
        BY <1>4, <4>1 DEF StaleSoon
    <3>2. p.claim \in Ids /\ p.target \in Plans /\ p.at \in Nat /\ now <= p.begun + 1
      BY <2>1, <3>1 DEF Fits, Holding, Timely, Switching
    <3>3. \A t \in Times : held[t] = None => held'[t] = None
      <4>1. InForce' # None
        BY <1>7, <1>10, InForceIsSome
      <4>2. QED
        BY <1>2, <1>4, <4>1, HeldNow
    <3>4. p.at <= now => p.at \in Times /\ (p.at + 1 <= now => p.at + 1 \in Times)
      BY <1>2, <3>2, TimeAssumption DEF Times
    <3>5. CASE ~AsClaimed(p)
      <4>1. /\ p.begun <= p.at + 1
            /\ \/ p.begun < p.at
               \/ held[p.at] = None
               \/ p.at + 1 <= now /\ held[p.at + 1] = None
            /\ Pending(p.claim) => subs[p.claim].due >= p.begun
        BY <2>1, <3>1, <3>5 DEF Fits, StaleSoon
      <4>2. Pending(p.claim)' => subs'[p.claim].due >= p.begun
        BY <1>2, <1>6, <1>7, <1>8, <2>1, <3>2, <4>1
      <4>3. p.begun < p.at \/ p.at <= now
        BY <1>2, <2>1, <3>2
      <4>4. QED
        BY <3>3, <3>4, <4>1, <4>2, <4>3
    <3>6. CASE AsClaimed(p)
      <4>1. p.claim = i
        BY <1>7, <3>1, <3>2, <3>6 DEF AsClaimed
      <4>2. Pending(i) /\ subs[i].target = p.target /\ subs[i].due = p.at
        BY <3>1, <3>2, <3>6, <4>1, NoneIsNone DEF AsClaimed, Pending
      <4>3. ~(w = subs[i].target /\ d = subs[i].due)
        BY <1>7, <3>1, <4>1, <4>2 DEF AsClaimed
      <4>4. p.at + 1 >= now
        BY <1>9, <4>2
      <4>5. Pending(i)' => subs'[i].due >= p.begun
        BY <1>2, <1>6, <1>7, <1>8, <2>1, <3>2
      <4>6. p.begun <= p.at + 1
        BY <1>2, <2>1, <3>2, <4>4
      <4>7. CASE p.begun < p.at
        BY <4>1, <4>5, <4>6, <4>7
      <4>8. CASE p.at <= p.begun
        <5>1. held'[now] = None
          BY <1>2, <1>11, <2>1, <3>2, <4>2, <4>3, <4>8
        <5>2. p.at = now \/ p.at + 1 = now
          BY <1>2, <2>1, <3>2, <4>4, <4>8
        <5>3. QED
          BY <1>2, <4>1, <4>5, <4>6, <5>1, <5>2
      <4>9. QED
        BY <2>1, <3>2, <4>7, <4>8
    <3>7. QED
      BY <3>5, <3>6
  <2>5. QED
    BY <2>2, <2>3, <2>4
<1>14. HeldFits'
  <2>1. held'[now] \in {None, InForce'}
    BY <1>2, <1>4, HeldNow
  <2>2. ASSUME ~blind, NEW t \in Times \ ahead, t < now, held'[t] # None, held'[t + 1] = held'[t],
               NEW p, p = held'[t][2]
        PROVE  OnlyCharged(p, t)'
    <3>1. t \in Nat /\ t + 1 \in Times /\ held'[t] = held[t]
      BY <1>2, <1>4, <2>2, DatesOf, HeldNow, TimeAssumption DEF Times
    <3>2. held[t + 1] = held[t] /\ held'[t + 1] # None
      BY <1>2, <1>4, <2>2, <3>1, HeldNow
    <3>3. OnlyCharged(p, t)
      BY <2>2, <3>1, <3>2 DEF BillingInv, HeldFits
    <3>4. w # None => ~(d <= t)
      BY <1>2, <1>6, <2>2, <3>1
    <3>5. ~(Pending(i) /\ subs[i].due <= t)
      <4>1. SUFFICES ASSUME Pending(i), subs[i].due <= t PROVE FALSE
        OBVIOUS
      <4>2. t + 1 = now /\ subs[i].due <= now
        BY <1>2, <1>9, <2>2, <3>1, <4>1
      <4>3. ~(w = subs[i].target /\ d = subs[i].due)
        BY <3>4, <4>1 DEF Pending
      <4>4. QED
        BY <1>11, <3>2, <4>1, <4>2, <4>3
    <3>6. ASSUME NEW j \in Ids, NEW x PROVE Charged(j, x, t)' <=> Charged(j, x, t)
      <4>1. CASE j = i
        <5>1. Active(i) => ~Due(subs[i], t) /\ ~Due(subs'[i], t)
          BY <1>7, <3>4, <3>5 DEF Due, Pending
        <5>2. QED
          BY <1>7, <1>8, <4>1, <5>1 DEF Charged
      <4>2. CASE j # i
        BY <1>7, <1>8, <4>2 DEF Charged
      <4>3. QED
        BY <4>1, <4>2
    <3>7. QED
      BY <1>7, <3>1, <3>3, <3>6 DEF OnlyCharged
  <2>3. QED
    BY <1>4, <2>1, <2>2 DEF HeldFits
<1>15. /\ Answering(q) \in Request /\ Answering(q).holds = None
       /\ Fits(Answering(q))' /\ ~Knows(Answering(q))'
  <2>1. PICK s : s = Answering(q)
    OBVIOUS
  <2>2. s \in Request /\ s.holds = None /\ Reads(s)
    BY <1>2, <1>3, <2>1, AnsweringFits
  <2>3. Fits(s)' /\ ~Knows(s)'
    BY <1>4, <2>2
    DEF Reads, Knows, Fits, Timely, Switching, Holding, Asking, StaleSoon, BillFits
  <2>4. QED
    BY <2>1, <2>2, <2>3
<1>16. /\ asked' \in 0 .. MaxAsked /\ blind' \in BOOLEAN /\ late' \in SUBSET Months
       /\ ahead' \in SUBSET Times
  BY <1>4 DEF BillingInv, Shapes
<1>17. PICK s \in Request : s = Answering(q)
  BY <1>15
<1>18. QED
  BY <1>4, <1>7, <1>10, <1>12, <1>13, <1>14, <1>15, <1>16, <1>17, RowsKeep

----------------------------------------------------------------------------
(* A switch is committed.                                                  *)

\* Row h, if any, ends at t, the next begins then, and no other is current.
Replaced(h, g, t) ==
    /\ subs' \in Seq(Row) /\ Ids \subseteq Ids'
    /\ \A j \in Ids : /\ subs'[j].plan = subs[j].plan /\ subs'[j].created = subs[j].created
                      /\ subs'[j].status = "canceled"
                      /\ j # h => subs'[j] = subs[j]
                      /\ j = h => subs'[j].ended = t
    /\ \A j \in Ids' \ Ids : j = Len(subs) + 1 /\ g # Free /\ subs'[j] = Opened(g, t)
    /\ g # Free => Len(subs) + 1 \in Ids' \ Ids

LEMMA CommitFacts ==
  ASSUME BillingInv, NEW r \in Requests, NEW q, q = req[r], q.pc = "commit"
  PROVE  /\ q \in Request /\ Fits(q) /\ Shapes /\ RowsFit /\ (Knows(q) => NoneOverdue(q))
         /\ now \in Nat /\ now \in Times /\ q.begun \in Nat /\ q.begun <= now /\ now <= q.begun + 1
         /\ q.target \in Plans /\ q.at \in Nat /\ q.at \in Dates /\ (q.at <= now \/ Early(q))
         /\ q.claim = None => q.at >= q.begun
         /\ q.holds # None => q.holds \in Ids /\ Active(q.holds) /\ Current = q.holds
         /\ q.claim # None => q.holds = q.claim /\ q.claim \in Ids /\ MonthStart(q.at)
<1>1. /\ q \in Request /\ Fits(q) /\ Shapes /\ RowsFit /\ (Knows(q) => NoneOverdue(q))
      /\ now \in Nat /\ now \in Times /\ q.begun \in Nat
  BY RequestTypes
<1>2. /\ q.begun <= now /\ now <= q.begun + 1
      /\ q.target \in Plans /\ q.at \in Nat /\ (q.at <= now \/ Early(q))
      /\ q.claim = None => q.at >= q.begun
      /\ q.claim # None => MonthStart(q.at)
  BY <1>1 DEF Fits, Timely, Switching
<1>3. /\ q.holds # None => q.holds \in Ids /\ Active(q.holds)
      /\ q.claim # None => q.holds = q.claim /\ q.claim \in Ids
  BY <1>1 DEF Fits, Holding, Switching
<1>4. q.holds # None => Current = q.holds
  BY <1>1, <1>3, CurrentIs
<1>5. q.at \in Dates
  <2>1. q.at \in Dates \cup {None} /\ q.at # None
    BY <1>1, <1>2, NoneIsNone DEF Request
  <2>2. QED
    BY <2>1
<1>6. QED
  BY <1>1, <1>2, <1>3, <1>4, <1>5

LEMMA SwitchedRows ==
  ASSUME BillingInv, NEW r \in Requests, NEW q, q = req[r], q.pc = "commit", Insertable(r),
         subs' = Switched(q), q.holds # None \/ q.target # Free
  PROVE  Replaced(q.holds, q.target, q.at) /\ Current = q.holds
<1>1. PICK h, g, t : h = q.holds /\ g = q.target /\ t = q.at
  OBVIOUS
<1>2. /\ g \in Plans /\ t \in Dates
      /\ h # None => h \in Ids /\ Active(h) /\ Current = h
      /\ subs \in Seq(Row) /\ RowsFit
  BY <1>1, CommitFacts DEF Shapes
<1>3. Current = h
  BY <1>1, <1>2 DEF Insertable
<1>4. \A j \in Ids : subs[j] \in Row /\ (j # h => subs[j].status = "canceled")
  BY <1>2, <1>3, CurrentIs DEF Active, Ids
<1>5. PICK closed : closed = IF h = None THEN subs ELSE [subs EXCEPT ![h] = Canceled(@, t)]
  OBVIOUS
<1>6. subs' = IF g = Free THEN closed ELSE Append(closed, Opened(g, t))
  BY <1>1, <1>5 DEF Switched, SwitchedAt
<1>7. /\ closed \in Seq(Row) /\ Len(closed) = Len(subs)
      /\ \A j \in Ids : /\ closed[j].plan = subs[j].plan /\ closed[j].created = subs[j].created
                        /\ closed[j].status = "canceled"
                        /\ j # h => closed[j] = subs[j]
                        /\ j = h => closed[j].ended = t
  <2>1. CASE h = None
    <3>1. \A j \in Ids : j # h
      BY <2>1, NoneIsNone DEF Ids
    <3>2. QED
      BY <1>2, <1>4, <1>5, <2>1, <3>1
  <2>2. CASE h # None
    <3>1. PICK x : x = Canceled(subs[h], t)
      OBVIOUS
    <3>2. subs[h] \in Row /\ h \in Ids
      BY <1>2, <1>4, <2>2
    <3>3. x \in Row
      BY <1>2, <3>1, <3>2 DEF Canceled, Row
    <3>4. /\ x.plan = subs[h].plan /\ x.created = subs[h].created
          /\ x.status = "canceled" /\ x.ended = t
      BY <3>1, <3>2 DEF Canceled, Row
    <3>5. closed = [subs EXCEPT ![h] = x]
      BY <1>5, <2>2, <3>1
    <3>6. closed \in Seq(Row) /\ Len(closed) = Len(subs) /\ \A j \in Ids : closed[j] = IF j = h THEN x ELSE subs[j]
      BY <1>2, <3>2, <3>3, <3>5 DEF Ids
    <3>7. QED
      BY <1>4, <3>4, <3>6
  <2>3. QED
    BY <2>1, <2>2
<1>8. CASE g = Free
  <2>1. subs' = closed /\ Ids' = Ids
    BY <1>6, <1>7, <1>8 DEF Ids
  <2>2. QED
    BY <1>1, <1>3, <1>7, <1>8, <2>1 DEF Replaced
<1>9. CASE g # Free
  <2>1. PICK x : x = Opened(g, t)
    OBVIOUS
  <2>2. x \in Row
    BY <1>2, <1>9, <2>1 DEF Opened, Row, Plans
  <2>3. subs' = Append(closed, x)
    BY <1>6, <1>9, <2>1
  <2>4. /\ subs' \in Seq(Row) /\ Len(subs') = Len(subs) + 1 /\ Len(subs) \in Nat
        /\ subs'[Len(subs) + 1] = x /\ \A j \in Ids : subs'[j] = closed[j]
    BY <1>2, <1>7, <2>2, <2>3 DEF Ids
  <2>5. /\ Ids \subseteq Ids' /\ \A j \in Ids' \ Ids : j = Len(subs) + 1
        /\ Len(subs) + 1 \in Ids' \ Ids
    BY <2>4 DEF Ids
  <2>6. QED
    BY <1>1, <1>3, <1>7, <1>9, <2>1, <2>4, <2>5 DEF Replaced
<1>10. QED
  BY <1>8, <1>9

\* No change waits on a row any more, and what is in force has changed.
LEMMA ReplacedRows ==
  ASSUME BillingInv, now' = now, Remembers,
         NEW h, NEW g \in Plans, NEW t \in Dates, Replaced(h, g, t), Current = h,
         ahead \subseteq ahead', Foreseen(t)',
         h # None \/ g # Free
  PROVE  /\ RowsFit' /\ \A j : j \in Ids' => ~Pending(j)'
         /\ held'[now] = None
<1>1. Shapes /\ RowsFit /\ now \in Times /\ t \in Nat
  BY DatesOf DEF BillingInv, Shapes
<1>2. ASSUME NEW j \in Ids PROVE ~Active(j)' /\ ~Pending(j)'
  BY DEF Replaced, Active, Pending
<1>3. ASSUME NEW j \in Ids' \ Ids
      PROVE  j = Len(subs) + 1 /\ subs'[j].created = t /\ Active(j)' /\ ~Pending(j)'
  <2>1. j = Len(subs) + 1 /\ subs'[j] = Opened(g, t)
    BY DEF Replaced
  <2>2. QED
    BY <2>1 DEF Opened, Active, Pending
<1>4. RowsFit'
  <2>0. \A x : Foreseen(x) => Foreseen(x)'
    BY <1>1, DatesOf, ForeseenKept
  <2>1. ASSUME NEW j \in Ids'
        PROVE  /\ Foreseen(subs[j].created)' /\ ~Pending(j)'
               /\ ~Active(j)' => subs'[j].ended \in Nat /\ Foreseen(subs[j].ended)'
    <3>1. CASE j \in Ids
      <4>1. CASE j = h
        <5>1. subs'[j].ended = t /\ subs'[j].created = subs[j].created /\ Foreseen(subs[j].created)
          BY <1>1, <3>1, <4>1 DEF Replaced, RowsFit
        <5>2. QED
          BY <1>1, <1>2, <2>0, <3>1, <5>1
      <4>2. CASE j # h
        <5>1. subs'[j] = subs[j] /\ ~Active(j)
          BY <1>1, <3>1, <4>2, CurrentIs DEF Replaced
        <5>2. QED
          BY <1>1, <1>2, <2>0, <3>1, <5>1 DEF RowsFit
      <4>3. QED
        BY <4>1, <4>2
    <3>2. CASE j \notin Ids
      BY <1>3, <3>2
    <3>3. QED
      BY <3>1, <3>2
  <2>2. \A i, j \in ActiveRows' : i = j
    BY <1>2, <1>3 DEF ActiveRows
  <2>3. QED
    BY <2>1, <2>2 DEF RowsFit
<1>5. Current' # Current
  <2>1. CASE h # None
    <3>1. h \in Ids /\ h \in Ids'
      BY <1>1, <2>1, CurrentIs DEF Replaced
    <3>2. QED
      BY <1>2, <1>4, <3>1, CurrentIsNow
  <2>2. CASE h = None
    <3>1. PICK j \in Ids' \ Ids : TRUE
      BY <2>2 DEF Replaced
    <3>2. Current' = j /\ j # None
      BY <1>3, <1>4, <3>1, CurrentIsNow, NoneIsNone DEF Ids
    <3>3. QED
      BY <2>2, <3>2
  <2>3. QED
    BY <2>1, <2>2
<1>6. InForce' # InForce
  BY <1>5 DEF InForce
<1>7. InForce' # None
  BY <1>4, InForceIsSome DEF Replaced
<1>8. held[now] # InForce'
  BY <1>6, <1>7 DEF BillingInv, HeldFits
<1>9. held'[now] = None
  BY <1>1, <1>8, HeldNow
<1>10. QED
  BY <1>2, <1>3, <1>4, <1>9

\* A month that is over keeps its stretches, unless the change is dated in it.
LEMMA SwitchedMonths ==
  ASSUME BillingInv, NEW r \in Requests, NEW q, q = req[r], q.pc = "commit",
         Replaced(q.holds, q.target, q.at), Current = q.holds,
         Notes(q),
         NEW m \in Months, Settled(m), m \notin late'
  PROVE  segmentsInMonth(m)' = segmentsInMonth(m)
<1>1. PICK h, g, t : h = q.holds /\ g = q.target /\ t = q.at
  OBVIOUS
<1>2. /\ q \in Request /\ Fits(q) /\ Shapes /\ RowsFit
      /\ now \in Nat /\ q.begun \in Nat /\ q.begun <= now /\ now <= q.begun + 1
      /\ g \in Plans /\ t \in Nat
      /\ q.claim = None => t >= q.begun
      /\ h # None => h \in Ids /\ Active(h)
      /\ q.claim # None => h = q.claim /\ q.claim \in Ids /\ MonthStart(t)
  BY <1>1, CommitFacts
<1>3. /\ EndOf(m) \in Nat /\ EndOf(m) <= now /\ m \in Nat /\ StartOf(m) \in Nat
      /\ StartOf(m) <= EndOf(m) /\ MonthStart(EndOf(m))
  <2>1. m \in Nat /\ EndOf(m) <= now /\ m + 1 \in Nat
    BY DatesOf DEF Settled
  <2>2. EndOf(m) = StartOf(m + 1) /\ EndOf(m) \in Nat /\ StartOf(m) \in Nat /\ StartOf(m) <= EndOf(m)
    BY <2>1, Starts
  <2>3. QED
    BY <2>1, <2>2 DEF MonthStart
<1>4. t >= EndOf(m)
  <2>1. CASE q.claim = None
    <3>1. SUFFICES ASSUME t < EndOf(m) PROVE m \in late'
      BY <1>2, <1>3
    <3>2. t + 1 = EndOf(m)
      BY <1>2, <1>3, <2>1, <3>1
    <3>3. MonthOf(t) = m
      BY <1>2, <1>3, <3>2, LastTick
    <3>4. QED
      BY <1>1, <1>3, <2>1, <3>3 DEF Notes
  <2>2. CASE q.claim # None /\ AsClaimed(q)
    <3>1. Pending(h) /\ subs[h].due = t
      BY <1>1, <1>2, <2>2, NoneIsNone DEF AsClaimed, Pending
    <3>2. QED
      BY <1>2, <2>2, <3>1 DEF Settled
  <2>3. CASE q.claim # None /\ ~AsClaimed(q)
    <3>1. Active(q.claim)
      BY <1>2, <2>3, NoneIsNone DEF Ids
    <3>2. q.begun <= t + 1
      BY <1>1, <1>2, <2>3, <3>1 DEF Fits, StaleSoon
    <3>3. t < EndOf(m) => t + 3 <= EndOf(m)
      BY <1>2, <1>3, <2>3, StartsApart
    <3>4. QED
      BY <1>2, <1>3, <3>2, <3>3
  <2>4. QED
    BY <2>1, <2>2, <2>3
<1>5. ASSUME NEW j \in Ids PROVE Stretch(subs'[j], m) = Stretch(subs[j], m)
  <2>1. CASE j # h
    BY <1>1, <2>1 DEF Replaced
  <2>2. CASE j = h
    <3>1. subs[j].status = "active" /\ subs'[j].status = "canceled" /\ subs'[j].ended = t
          /\ subs'[j].plan = subs[j].plan /\ subs'[j].created = subs[j].created
      <4>1. subs[j].status = "active"
        BY <1>2, <2>2, RowTypes, NoneIsNone DEF Active, Ids
      <4>2. QED
        BY <1>1, <2>2, <4>1 DEF Replaced
    <3>2. Least(t, EndOf(m)) = EndOf(m) /\ Least(EndOf(m), EndOf(m)) = EndOf(m)
      BY <1>2, <1>3, <1>4 DEF Least
    <3>3. QED
      BY <3>1, <3>2 DEF Stretch
  <2>3. QED
    BY <2>1, <2>2
<1>6. ASSUME NEW j \in Ids' \ Ids PROVE ~(Stretch(subs'[j], m).to > Stretch(subs'[j], m).from)
  <2>1. subs'[j].created = t /\ subs'[j].status = "active"
    BY <1>1 DEF Replaced, Opened
  <2>2. Greatest(t, StartOf(m)) = t
    BY <1>2, <1>3, <1>4 DEF Greatest
  <2>3. Least(EndOf(m), EndOf(m)) = EndOf(m)
    BY DEF Least
  <2>4. QED
    BY <1>2, <1>3, <1>4, <2>1, <2>2, <2>3 DEF Stretch
<1>7. Ids \subseteq Ids'
  BY DEF Replaced
<1>8. QED
  BY <1>5, <1>6, <1>7 DEF segmentsInMonth

\* A tick of which one plan was in force throughout, and of the next, is charged as before:
\* the change is dated after it, or was due by then and is now a row.
LEMMA SwitchedCharges ==
  ASSUME BillingInv, NEW r \in Requests, NEW q, q = req[r], q.pc = "commit", ~blind,
         Replaced(q.holds, q.target, q.at), Current = q.holds,
         NEW t \in Times, t + 1 < now, held[t] # None, held[t + 1] = held[t],
         NEW p, OnlyCharged(p, t)
  PROVE  OnlyCharged(p, t)'
<1>1. PICK h, g, a : h = q.holds /\ g = q.target /\ a = q.at
  OBVIOUS
<1>2. /\ q \in Request /\ Fits(q) /\ Shapes /\ RowsFit /\ (Knows(q) => NoneOverdue(q))
      /\ now \in Nat /\ q.begun \in Nat /\ q.begun <= now /\ now <= q.begun + 1
      /\ g \in Plans /\ a \in Nat
      /\ q.claim = None => a >= q.begun
      /\ h # None => h \in Ids /\ Active(h)
      /\ q.claim # None => h = q.claim /\ q.claim \in Ids
  BY <1>1, CommitFacts
<1>3. t \in Nat /\ t < q.begun
  BY <1>2, DatesOf
<1>4. /\ Ids \subseteq Ids' /\ \A j \in Ids : ~Active(j)' /\ subs'[j].plan = subs[j].plan
                                             /\ subs'[j].created = subs[j].created
      /\ h # None => subs'[h].ended = a
      /\ \A j \in Ids : j # h => subs'[j] = subs[j]
      /\ \A j \in Ids' \ Ids : /\ j = Len(subs) + 1 /\ g # Free /\ Active(j)' /\ subs'[j].created = a
                               /\ subs'[j].plan = g /\ subs'[j].target = None
      /\ g # Free => Len(subs) + 1 \in Ids' \ Ids
  BY <1>1, <1>2 DEF Replaced, Active, Opened
<1>5. ASSUME NEW j \in Ids, j # h, NEW x PROVE Charged(j, x, t)' <=> Charged(j, x, t)
  <2>1. subs'[j] = subs[j] /\ ~Active(j) /\ ~Active(j)'
    BY <1>1, <1>2, <1>4, <1>5, CurrentIs
  <2>2. QED
    BY <2>1 DEF Charged
<1>6. ASSUME NEW j \in Ids' \ Ids, NEW x
      PROVE  Charged(j, x, t)' <=> a <= t /\ x = g
  BY <1>4, NoneIsNone DEF Charged, Due
<1>7. CASE t < a /\ (h # None => ~Due(subs[h], t))
  <2>1. ASSUME NEW j \in Ids, NEW x PROVE Charged(j, x, t)' <=> Charged(j, x, t)
    <3>1. CASE j = h
      <4>1. Active(j) /\ ~Due(subs[j], t) /\ ~Active(j)' /\ subs'[j].ended = a /\ t < a
            /\ subs'[j].plan = subs[j].plan /\ subs'[j].created = subs[j].created
        BY <1>2, <1>4, <1>7, <3>1, NoneIsNone DEF Ids
      <4>2. QED
        BY <4>1 DEF Charged
    <3>2. QED
      BY <1>5, <3>1
  <2>2. ASSUME NEW j \in Ids' \ Ids, NEW x PROVE ~Charged(j, x, t)'
    BY <1>2, <1>3, <1>6, <1>7
  <2>3. CASE p = Free
    BY <1>4, <2>1, <2>2, <2>3 DEF OnlyCharged
  <2>4. CASE p # Free
    <3>1. PICK i \in Ids : \A j \in Ids : \A x \in Plans : Charged(j, x, t) <=> (j = i /\ x = p)
      BY <2>4 DEF OnlyCharged
    <3>2. \A j \in Ids' : \A x \in Plans : Charged(j, x, t)' <=> (j = i /\ x = p)
      BY <1>4, <2>1, <2>2, <3>1
    <3>3. QED
      BY <1>4, <2>4, <3>2 DEF OnlyCharged
  <2>5. QED
    BY <2>3, <2>4
<1>8. CASE q.claim = None
  <2>1. t < a
    BY <1>2, <1>3, <1>8
  <2>2. h # None => ~Due(subs[h], t)
    <3>1. SUFFICES ASSUME h # None, Pending(h) PROVE ~(subs[h].due <= t)
      BY <1>2 DEF Due, Pending
    <3>2. Knows(q) /\ h # q.claim
      BY <1>8, <3>1 DEF Knows
    <3>3. subs[h].due >= q.begun /\ subs[h].due \in Nat
      BY <1>2, <3>1, <3>2 DEF NoneOverdue, RowsFit
    <3>4. QED
      BY <1>2, <1>3, <3>3
  <2>3. QED
    BY <1>7, <2>1, <2>2
<1>9. CASE q.claim # None /\ AsClaimed(q)
  <2>1. h \in Ids /\ Active(h) /\ subs[h].target = g /\ subs[h].due = a /\ g # None /\ h # None
    BY <1>1, <1>2, <1>9, NoneIsNone DEF AsClaimed, Ids
  <2>2. Due(subs[h], t) <=> a <= t
    BY <2>1 DEF Due
  <2>3. CASE t < a
    BY <1>2, <1>3, <1>7, <2>2, <2>3
  <2>4. CASE a <= t
    <3>1. \A x : Charged(h, x, t) <=> x = g /\ g # Free
      BY <2>1, <2>2, <2>4 DEF Charged
    <3>2. \A x : ~Charged(h, x, t)'
      <4>1. ~Active(h)' /\ subs'[h].ended = a /\ ~(t < a)
        BY <1>2, <1>3, <1>4, <2>1, <2>4
      <4>2. QED
        BY <4>1 DEF Charged
    <3>3. CASE p = Free
      <4>1. g = Free
        BY <1>2, <2>1, <3>1, <3>3 DEF OnlyCharged
      <4>2. QED
        BY <1>4, <1>5, <3>2, <3>3, <4>1 DEF OnlyCharged
    <3>4. CASE p # Free
      <4>1. PICK i \in Ids : \A j \in Ids : \A x \in Plans : Charged(j, x, t) <=> (j = i /\ x = p)
        BY <3>4 DEF OnlyCharged
      <4>2. CASE g = Free
        <5>1. \A x \in Plans : ~Charged(h, x, t)
          BY <3>1, <4>2
        <5>2. \A j \in Ids' : j \in Ids
          BY <1>4, <4>2
        <5>3. \A j \in Ids' : \A x \in Plans : Charged(j, x, t)' <=> (j = i /\ x = p)
          BY <1>5, <3>2, <4>1, <5>1, <5>2
        <5>4. QED
          BY <1>4, <3>4, <5>3 DEF OnlyCharged
      <4>3. CASE g # Free
        <5>1. i = h /\ p = g
          BY <1>2, <2>1, <3>1, <4>1, <4>3
        <5>2. PICK n : n = Len(subs) + 1 /\ n \in Ids' \ Ids
          BY <1>4, <4>3
        <5>3. \A j \in Ids' : \A x \in Plans : Charged(j, x, t)' <=> (j = n /\ x = g)
          BY <1>4, <1>5, <1>6, <2>4, <3>2, <4>1, <5>1, <5>2
        <5>4. QED
          BY <3>4, <5>1, <5>2, <5>3 DEF OnlyCharged
      <4>4. QED
        BY <4>2, <4>3
    <3>5. QED
      BY <3>3, <3>4
  <2>5. QED
    BY <1>2, <1>3, <2>3, <2>4
<1>10. CASE q.claim # None /\ ~AsClaimed(q)
  <2>1. h \in Ids /\ Active(h) /\ h = q.claim
    BY <1>2, <1>10, NoneIsNone DEF Ids
  <2>2. /\ q.begun <= a + 1
        /\ \/ q.begun < a
           \/ held[a] = None
           \/ a + 1 <= now /\ held[a + 1] = None
        /\ Pending(h) => subs[h].due >= q.begun
    BY <1>1, <1>2, <1>10, <2>1 DEF Fits, StaleSoon
  <2>3. t # a
    BY <1>2, <1>3, <2>2
  <2>4. t < a
    BY <1>2, <1>3, <2>2, <2>3
  <2>5. ~Due(subs[h], t)
    <3>1. SUFFICES ASSUME Pending(h) PROVE ~(subs[h].due <= t)
      BY <2>1 DEF Due, Pending
    <3>2. subs[h].due \in Nat
      BY <1>2, <2>1, <3>1 DEF RowsFit
    <3>3. QED
      BY <1>2, <1>3, <2>2, <2>4, <3>1, <3>2
  <2>6. QED
    BY <1>7, <2>4, <2>5
<1>11. QED
  BY <1>8, <1>9, <1>10

\* A switch is committed, whatever its request goes on to.
LEMMA SwitchKeeps ==
  ASSUME BillingInv, Remembers, NEW r \in Requests, NEW q, q = req[r], q.pc = "commit",
         Insertable(r), subs' = Switched(q), now' = now, invoice' = invoice, asked' = asked,
         blind' \in BOOLEAN, blind => blind',
         Notes(q),
         NEW s \in Request, req' = [req EXCEPT ![r] = s], s.claim = None, s.holds = None,
         Timely(s), Holding(s), Asking(s),
         s.pc # "post", s.pc = "bill" => s.month \in Months /\ (EndOf(s.month) <= now \/ Early(s)),
         q.claim = None => Fits(s) /\ ~Knows(s)'
  PROVE  BillingInv'
<1>1. PICK h, g, t : h = q.holds /\ g = q.target /\ t = q.at
  OBVIOUS
<1>2. /\ q \in Request /\ Fits(q) /\ Shapes /\ RowsFit
      /\ now \in Nat /\ now \in Times /\ g \in Plans /\ t \in Dates /\ t \in Nat
      /\ q.claim # None => h = q.claim
      /\ t <= now \/ Early(q)
  BY <1>1, CommitFacts
<1>3. /\ late \subseteq late' /\ late' \in SUBSET Months /\ early' = early
      /\ ahead \subseteq ahead' /\ ahead' \in SUBSET Times
  BY DEF BillingInv, Shapes, Notes
<1>4. asked' \in 0 .. MaxAsked
  BY DEF BillingInv, Shapes
<1>5. CASE h = None /\ g = Free
  <2>1. subs' = subs
    BY <1>1, <1>5 DEF Switched
  <2>2. Still /\ Fits(s) /\ ~Knows(s)'
    BY <1>2, <1>3, <1>5, <2>1 DEF Still, BillingInv, Shapes
  <2>3. invoice' \in [Months -> (SUBSET Segment) \cup {None}]
    BY DEF BillingInv, Shapes
  <2>4. InvoicesFit'
    BY <1>3, <2>1 DEF BillingInv, InvoicesFit, Settled, Ids, Active, Pending, segmentsInMonth
  <2>5. QED
    BY <1>4, <2>2, <2>3, <2>4, StillKeeps
<1>6. CASE h # None \/ g # Free
  <2>1. Replaced(h, g, t) /\ Current = h
    BY <1>1, <1>6, SwitchedRows
  <2>2. RowsFit' /\ (\A j : j \in Ids' => ~Pending(j)') /\ held'[now] = None
    <3>1. Foreseen(t)'
      BY <1>1, <1>2, DatesOf DEF Foreseen, Notes, Times
    <3>2. QED
      BY <1>2, <1>3, <1>6, <2>1, <3>1, ReplacedRows
  <2>3. /\ Ids \subseteq Ids' /\ subs' \in Seq(Row)
        /\ \A j \in Ids : subs'[j].plan = subs[j].plan /\ ~Active(j)'
    BY <2>1 DEF Replaced, Active
  <2>4. ASSUME NEW m \in Months, Settled(m)
        PROVE  Settled(m)' /\ (m \notin late' => segmentsInMonth(m)' = segmentsInMonth(m))
    <3>1. Settled(m)'
      BY <2>2, <2>4 DEF Settled
    <3>2. m \notin late' => segmentsInMonth(m)' = segmentsInMonth(m)
      BY <1>1, <2>1, <2>4, SwitchedMonths
    <3>3. QED
      BY <3>1, <3>2
  <2>5. ASSUME NEW p PROVE NoneOverdue(p)'
    BY <2>2 DEF NoneOverdue
  <2>6. ASSUME NEW o \in Requests \ {r}, NEW p \in Request, p = req[o]
        PROVE  Holding(p)' /\ StaleSoon(p)' /\ (Knows(p) => NoneOverdue(p)')
    <3>1. Fits(p)
      BY <2>6, RequestTypes
    <3>2. p.holds = None
      <4>1. SUFFICES ASSUME p.holds # None PROVE FALSE
        OBVIOUS
      <4>2. p.holds = h
        BY <1>2, <2>1, <3>1, <4>1, CurrentIs DEF Fits, Holding
      <4>3. req[r].holds # None => p.holds # req[r].holds
        BY <2>6, RequestTypes
      <4>4. QED
        BY <1>1, <4>1, <4>2, <4>3
    <3>3. p.pc \in {"update", "commit"} => p.claim = None
      BY <3>1, <3>2 DEF Fits, Holding
    <3>4. Holding(p)'
      BY <2>3, <3>1, <3>2, <3>3 DEF Fits, Holding, Switching
    <3>5. StaleSoon(p)'
      BY <2>3, <3>1 DEF Fits, Holding, StaleSoon
    <3>6. QED
      BY <2>5, <3>4, <3>5
  <2>7. Fits(s)'
    <3>1. Timely(s)' /\ StaleSoon(s)'
      BY DEF Timely, Switching, StaleSoon
    <3>2. Holding(s)' /\ Asking(s)'
      BY <2>3 DEF Holding, Asking, Switching
    <3>3. BillFits(s)'
      BY <2>2 DEF BillFits, Settled
    <3>4. QED
      BY <3>1, <3>2, <3>3 DEF Fits
  <2>8. HeldFits'
    <3>1. ASSUME ~blind, NEW x \in Times \ ahead, x < now, held'[x] # None, held'[x + 1] = held'[x],
                 NEW p, p = held'[x][2]
          PROVE  OnlyCharged(p, x)'
      <4>1. x \in Nat /\ x + 1 \in Times /\ held'[x] = held[x]
        BY <1>2, <3>1, DatesOf, HeldNow, TimeAssumption DEF Times
      <4>2. x + 1 # now
        BY <2>2, <3>1
      <4>3. x + 1 < now /\ held[x + 1] = held[x]
        BY <1>2, <3>1, <4>1, <4>2, HeldNow
      <4>4. OnlyCharged(p, x)
        BY <3>1, <4>1, <4>3 DEF BillingInv, HeldFits
      <4>5. QED
        BY <1>1, <2>1, <3>1, <4>1, <4>3, <4>4, SwitchedCharges
    <3>2. QED
      BY <1>3, <2>2, <3>1 DEF HeldFits
  <2>9. QED
    BY <1>3, <1>4, <2>2, <2>3, <2>4, <2>5, <2>6, <2>7, <2>8, RowsKeep
<1>7. QED
  BY <1>5, <1>6

LEMMA CommitKeeps ==
  ASSUME BillingInv, Remembers, NEW r \in Requests, Commit(r) \/ CommitReplyLost(r)
  PROVE  BillingInv'
<1>1. PICK q : q = req[r]
  OBVIOUS
<1>2. q.pc = "commit"
  BY <1>1 DEF Commit, CommitReplyLost
<1>3. q \in Request /\ q.begun <= now /\ now <= q.begun + 1
  BY <1>1, <1>2, CommitFacts
<1>4. /\ Insertable(r) /\ subs' = Switched(q) /\ now' = now /\ invoice' = invoice /\ asked' = asked
      /\ Notes(q)
  BY <1>1 DEF Commit, CommitReplyLost
<1>5. CASE Commit(r)
  <2>1. PICK s : s = AfterSwitch(q)
    OBVIOUS
  <2>2. req' = [req EXCEPT ![r] = s] /\ blind' = blind
    BY <1>1, <1>5, <2>1 DEF Commit, Becomes
  <2>3. blind' \in BOOLEAN
    BY <2>2 DEF BillingInv, Shapes
  <2>4. CASE q.claim = None
    <3>1. s \in Request /\ s.holds = None /\ Reads(s)
      BY <1>3, <2>1, <2>4, AnsweringFits DEF AfterSwitch
    <3>2. Fits(s) /\ ~Knows(s)' /\ s.claim = None /\ s.pc = "read"
      BY <3>1, ReadsFits DEF Reads
    <3>3. QED
      BY <1>1, <1>2, <1>4, <2>2, <2>3, <3>1, <3>2, SwitchKeeps DEF Fits
  <2>5. CASE q.claim # None
    <3>1. s \in Request /\ Released(s)
      BY <1>1, <1>2, <2>1, <2>5, AfterDueReleases DEF AfterSwitch
    <3>2. /\ s.claim = None /\ s.holds = None /\ s.pc # "post"
          /\ s.pc = "bill" => s.month \in Months /\ (EndOf(s.month) <= now \/ Early(s))
      <4>1. s.begun \in Nat /\ s.begun <= now /\ now \in Nat
        BY <3>1, DatesOf DEF Released, Request, BillingInv, Shapes
      <4>2. \A m \in Months : EndOf(m) \in Nat
        BY DatesOf
      <4>3. QED
        BY <3>1, <4>1, <4>2 DEF Released, Early
    <3>3. Timely(s) /\ Holding(s) /\ Asking(s)
      BY <3>1 DEF Released, Timely, Switching, Holding, Asking
    <3>4. QED
      BY <1>1, <1>2, <1>4, <2>2, <2>3, <2>5, <3>1, <3>2, <3>3, SwitchKeeps
  <2>6. QED
    BY <2>4, <2>5
<1>6. CASE CommitReplyLost(r)
  <2>1. PICK s : s = Failed(q)
    OBVIOUS
  <2>2. /\ s \in Request /\ Fits(s) /\ s.holds = None /\ s.claim = None /\ s.sub = None
        /\ s.pc \in {"idle", "decide"}
    BY <1>1, <1>2, <2>1, FailedFits
  <2>3. req' = [req EXCEPT ![r] = s] /\ blind' = (blind \/ s.pc = "decide")
    BY <1>1, <1>6, <2>1 DEF CommitReplyLost, FailsWith, Becomes
  <2>4. blind' \in BOOLEAN /\ (blind => blind') /\ ~Knows(s)'
    BY <2>2, <2>3 DEF Knows, BillingInv, Shapes
  <2>5. QED
    BY <1>1, <1>2, <1>4, <2>2, <2>3, <2>4, SwitchKeeps DEF Fits
<1>7. QED
  BY <1>5, <1>6

----------------------------------------------------------------------------
(* The invariant holds.                                                    *)

LEMMA InitHolds == Init => BillingInv
<1>1. SUFFICES ASSUME Init PROVE BillingInv
  OBVIOUS
<1>2. now = FirstTime /\ now \in Times /\ now \in Nat /\ 0 \in Times /\ 0 \in Dates /\ 0 <= now
  <2>1. now = FirstTime /\ now \in Times /\ 0 \in Times
    BY <1>1, TimeAssumption DEF Init, Times
  <2>2. now \in Nat /\ 0 \in Dates
    BY <2>1, DatesOf
  <2>3. QED
    BY <2>1, <2>2
<1>3. /\ subs \in Seq(Row) /\ Len(subs) \in {0, 1}
      /\ \A i \in Ids : subs[i].created = 0 /\ subs[i].status = "active" /\ subs[i].target = None
  <2>1. PICK p \in Plans : subs = IF p = Free THEN <<>> ELSE <<Opened(p, 0)>>
    BY <1>1 DEF Init
  <2>2. CASE p = Free
    BY <2>1, <2>2 DEF Ids
  <2>3. CASE p # Free
    <3>1. Opened(p, 0) \in Row
      BY <1>2, <2>3 DEF Opened, Row, Plans
    <3>2. QED
      BY <2>1, <2>3, <3>1 DEF Ids, Opened
  <2>4. QED
    BY <2>2, <2>3
<1>4. RowsFit
  <2>1. \A i \in Ids : i = 1 /\ ~Pending(i) /\ Active(i)
    BY <1>3 DEF Ids, Pending, Active
  <2>2. Foreseen(0)
    BY <1>2, DatesOf DEF Foreseen
  <2>3. QED
    BY <1>2, <1>3, <2>1, <2>2 DEF RowsFit, ActiveRows
<1>5. InForce \in (Ids \cup {None}) \X Plans
  <2>1. Current = None \/ Current \in Ids
    BY <1>4, CurrentIs
  <2>2. Current # None => ~Due(subs[Current], now) /\ subs[Current].plan \in Plans
    <3>1. \A i \in Ids : subs[i].plan \in Plans
      <4>1. \A i \in Ids : subs[i] \in Row
        BY <1>3 DEF Ids
      <4>2. QED
        BY <4>1 DEF Row, Plans
    <3>2. QED
      BY <1>3, <2>1, <3>1 DEF Due
  <2>3. QED
    BY <2>1, <2>2 DEF InForce, PlanOf, Plans
<1>6. Idle \in Request
  BY <1>2 DEF Idle, Request, Plans
<1>7. /\ held \in [Times -> ((Ids \cup {None}) \X Plans) \cup {None}]
      /\ held[now] = InForce /\ \A t \in Times : t # now => held[t] = None
  BY <1>1, <1>2, <1>5 DEF Init
<1>8. Shapes
  BY <1>1, <1>2, <1>3, <1>6, <1>7, TimeAssumption DEF Init, Shapes
<1>9. RequestsFit
  <2>1. Timely(Idle) /\ Holding(Idle) /\ Asking(Idle) /\ StaleSoon(Idle) /\ BillFits(Idle)
    BY <1>2 DEF Idle, Timely, Switching, Holding, Asking, StaleSoon, BillFits
  <2>2. \A r \in Requests : req[r] = Idle
    BY <1>1 DEF Init
  <2>3. ~Knows(Idle) /\ Idle.holds = None
    BY DEF Knows, Idle
  <2>4. QED
    BY <2>1, <2>2, <2>3 DEF RequestsFit, Fits
<1>10. InvoicesFit
  BY <1>1 DEF Init, InvoicesFit
<1>11. HeldFits
  <2>1. \A t \in Times : t < now => held[t] = None
    BY <1>2, <1>7, DatesOf
  <2>2. QED
    BY <1>7, <2>1 DEF HeldFits
<1>12. QED
  BY <1>4, <1>8, <1>9, <1>10, <1>11 DEF BillingInv

LEMMA InvKept == BillingInv /\ [Next]_vars => BillingInv'
<1>1. SUFFICES ASSUME BillingInv, [Next]_vars PROVE BillingInv'
  OBVIOUS
<1>2. CASE Next
  <2>1. Remembers
    BY <1>2 DEF Next, Remembers
  <2>2. CASE Tick
    BY <1>1, <2>1, <2>2, TickKeeps
  <2>3. CASE \E r \in Requests : Begin(r) \/ Step(r) \/ Fails(r) \/ CommitReplyLost(r)
    <3>1. PICK r \in Requests : Begin(r) \/ Step(r) \/ Fails(r) \/ CommitReplyLost(r)
      BY <2>3
    <3>2. CASE Begin(r)
      BY <1>1, <2>1, <3>2, BeginKeeps
    <3>3. CASE Read(r) \/ Reread(r)
      BY <1>1, <2>1, <3>3, ReadKeeps
    <3>4. CASE SelectDue(r)
      BY <1>1, <2>1, <3>4, SelectDueKeeps
    <3>5. CASE Claim(r)
      BY <1>1, <2>1, <3>5, ClaimKeeps
    <3>6. CASE Update(r) \/ Wait(r)
      BY <1>1, <2>1, <3>6, UpdateKeeps
    <3>7. CASE Commit(r) \/ CommitReplyLost(r)
      BY <1>1, <2>1, <3>7, CommitKeeps
    <3>8. CASE Conflicts(r) \/ Fails(r)
      BY <1>1, <2>1, <3>8, FailsKeeps
    <3>9. CASE Decide(r)
      BY <1>1, <2>1, <3>9, DecideKeeps
    <3>10. CASE Schedule(r) \/ Clear(r)
      BY <1>1, <2>1, <3>10, WaitingKeeps
    <3>11. CASE Bill(r)
      BY <1>1, <2>1, <3>11, BillKeeps
    <3>12. CASE Post(r)
      BY <1>1, <2>1, <3>12, PostKeeps
    <3>13. QED
      BY <3>1, <3>2, <3>3, <3>4, <3>5, <3>6, <3>7, <3>8, <3>9, <3>10, <3>11, <3>12 DEF Step
  <2>4. QED
    BY <1>2, <2>2, <2>3 DEF Next, Act
<1>3. CASE UNCHANGED vars
  <2>1. /\ now' = now /\ subs' = subs /\ invoice' = invoice /\ req' = req /\ asked' = asked
        /\ held' = held /\ late' = late /\ early' = early /\ ahead' = ahead /\ blind' = blind
    BY <1>3 DEF vars, history
  <2>2. Shapes' /\ RowsFit' /\ InvoicesFit'
    <3>1. Shapes'
      BY <1>1, <2>1 DEF BillingInv, Shapes, Ids
    <3>2. RowsFit'
      BY <1>1, <2>1 DEF BillingInv, RowsFit, Foreseen, ActiveRows, Active, Pending, Ids
    <3>3. \A m : segmentsInMonth(m)' = segmentsInMonth(m) /\ Settled(m)' = Settled(m)
      BY <2>1 DEF segmentsInMonth, Settled, Pending, Active, Ids
    <3>4. QED
      BY <1>1, <2>1, <3>1, <3>2, <3>3 DEF BillingInv, InvoicesFit
  <2>3. HeldFits'
    <3>1. InForce' = InForce
      BY <2>1 DEF InForce, Current, ActiveRows, Active, Ids, PlanOf
    <3>2. ASSUME NEW t, NEW p PROVE OnlyCharged(p, t)' <=> OnlyCharged(p, t)
      BY <2>1 DEF OnlyCharged, Charged, Ids, Active
    <3>3. QED
      BY <1>1, <2>1, <3>1, <3>2 DEF BillingInv, HeldFits
  <2>4. RequestsFit'
    <3>1. ASSUME NEW o \in Requests
          PROVE  Fits(req[o])' /\ (Knows(req[o])' => NoneOverdue(req[o])')
      <4>1. PICK p : p = req[o] /\ p = req'[o]
        BY <2>1
      <4>2. Fits(p) /\ (Knows(p) => NoneOverdue(p))
        BY <1>1, <4>1, RequestTypes
      <4>3. Fits(p)' /\ (NoneOverdue(p)' <=> NoneOverdue(p)) /\ (Knows(p)' <=> Knows(p))
        BY <2>1, <4>2, SameFits DEF Knows
      <4>4. QED
        BY <4>1, <4>2, <4>3
    <3>2. QED
      BY <1>1, <2>1, <3>1 DEF BillingInv, RequestsFit
  <2>5. QED
    BY <2>2, <2>3, <2>4 DEF BillingInv
<1>4. QED
  BY <1>1, <1>2, <1>3

LEMMA InvHolds == Spec => []BillingInv
<1>1. Init => BillingInv
  BY InitHolds
<1>2. BillingInv /\ [Next]_vars => BillingInv'
  BY InvKept
<1>3. QED
  BY <1>1, <1>2, PTL DEF Spec

----------------------------------------------------------------------------
(* What a reader should know.                                              *)

\* Whatever the requests and jobs do, and however they fail, rows, requests and invoices
\* are well formed and at most one row is current (plans.ts, migrations 0022 and 0035).
THEOREM BillingTypeCorrect == Spec => []TypeOK
<1>1. ASSUME BillingInv PROVE TypeOK
  <2>1. Cardinality(ActiveRows) <= 1
    <3>1. CASE ActiveRows = {}
      BY <3>1, FS_EmptySet
    <3>2. CASE ActiveRows # {}
      <4>1. PICK i \in ActiveRows : ActiveRows = {i}
        BY <1>1, <3>2 DEF BillingInv, RowsFit
      <4>2. QED
        <5>1. Cardinality({i}) = 1
          BY FS_Singleton
        <5>2. QED
          BY <4>1, <5>1
    <3>3. QED
      BY <3>1, <3>2
  <2>2. QED
    BY <1>1, <2>1 DEF BillingInv, Shapes, TypeOK
<1>2. QED
  BY <1>1, InvHolds, PTL

\* A plan stays until the date of its change, whichever lookup, request, job or invoice run
\* of a month that is over applies the change: while a row has begun or ended ahead of the
\* clock, it is for a run of a month not over (applyDueScheduledChanges, switchNow,
\* generateInvoices).
THEOREM OnlyEarlyInvoicesEverEndPlansEarly == Spec => []OnlyEarlyInvoicesEndPlansEarly
<1>1. ASSUME BillingInv, now \notin ahead PROVE PlansStayUntilTheirDate
  <2>1. now \in Times /\ now \in Nat
    BY <1>1, DatesOf DEF BillingInv, Shapes
  <2>2. \A d \in Nat : Foreseen(d) => d <= now
    BY <1>1, <2>1 DEF Foreseen
  <2>3. \A i \in Ids : subs[i].created \in Nat
    BY <1>1, RowTypes DEF BillingInv
  <2>4. QED
    BY <1>1, <2>2, <2>3 DEF BillingInv, RowsFit, PlansStayUntilTheirDate
<1>2. BillingInv => OnlyEarlyInvoicesEndPlansEarly
  BY <1>1 DEF OnlyEarlyInvoicesEndPlansEarly
<1>3. QED
  BY <1>2, InvHolds, PTL

\* An invoice made by a run that began when its month was over stays what the rows say of
\* the month, whatever is done for other months, over or not, save for a change dated in it
\* and committed after it (generateInvoices).
THEOREM InvoicesAlwaysStayTrue == Spec => []InvoicesStayTrue
<1>1. BillingInv => InvoicesStayTrue
  BY DEF BillingInv, InvoicesFit, InvoicesStayTrue, InvoicesFitRows
<1>2. QED
  BY <1>1, InvHolds, PTL

LEMMA ChargesAre ==
  ASSUME Shapes, NEW t
  PROVE  \A c : c \in ChargesAt(t) <=> \E i \in Ids : \E x \in Plans : c = <<i, x>> /\ Charged(i, x, t)
<1>1. \A i \in Ids : subs[i].plan \in Plans /\ (subs[i].target \in Plans \/ ~Due(subs[i], t))
  BY RowTypes DEF Due
<1>2. QED
  BY <1>1 DEF ChargesAt, Charged, ActiveRows

\* Who was on one plan, unchanged, all through a tick and the next is charged for that tick
\* by that plan, once, whoever applied a change to it and however late; the ticks left out
\* are those ahead of which a run for a month not over has ended the plan (segmentsInMonth
\* with switchNow and generateInvoices).
THEOREM AlwaysChargedForWhatWasHeld == Spec => []ChargedForWhatWasHeld
<1>1. ASSUME BillingInv PROVE ChargedForWhatWasHeld
  <2>1. SUFFICES ASSUME ~blind, NEW t \in Times \ ahead, t + 1 < now, held[t] # None, held[t + 1] = held[t],
                        NEW plan, plan = held[t][2]
                 PROVE  IF plan = Free THEN ChargesAt(t) = {}
                        ELSE \E i \in Ids : ChargesAt(t) = {<<i, plan>>}
    BY DEF ChargedForWhatWasHeld, ChargedIn
  <2>2. Shapes /\ now \in Nat /\ t \in Nat /\ t < now
    BY <1>1, <2>1, DatesOf DEF BillingInv, Shapes
  <2>3. OnlyCharged(plan, t)
    BY <1>1, <2>1, <2>2 DEF BillingInv, HeldFits
  <2>4. plan \in Plans
    BY <2>1, <2>2 DEF Shapes
  <2>5. CASE plan = Free
    BY <2>2, <2>3, <2>5, ChargesAre DEF OnlyCharged
  <2>6. CASE plan # Free
    <3>1. PICK i \in Ids : \A j \in Ids : \A x \in Plans : Charged(j, x, t) <=> (j = i /\ x = plan)
      BY <2>3, <2>6 DEF OnlyCharged
    <3>2. \A c : c \in ChargesAt(t) <=> c = <<i, plan>>
      BY <2>2, <2>4, <3>1, ChargesAre
    <3>3. QED
      BY <2>6, <3>2
  <2>7. QED
    BY <2>5, <2>6
<1>2. QED
  BY <1>1, InvHolds, PTL

=============================================================================
