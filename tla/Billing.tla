------------------------------ MODULE Billing ------------------------------
(***************************************************************************)
(* One person's plan over time: the rows of subscriptions, the requests    *)
(* and jobs that change them, and the monthly invoices.                    *)
(*                                                                         *)
(* A change is a transaction that ends the current subscription and opens  *)
(* the next, both at a moment taken before the transaction began; a        *)
(* cheaper plan is only written down, and opened by whichever lookup or    *)
(* job comes first after its date.  Transactions run at READ COMMITTED: an *)
(* UPDATE waits for a row that another has locked and then looks again at  *)
(* that row only.                                                          *)
(***************************************************************************)
EXTENDS Integers, Sequences, FiniteSets

CONSTANTS
    Requests,     \* requests and jobs in flight at a time
    Free,         \* the plan of those without a subscription
    Paid,         \* the plans that cost something
    Price,        \* [Plans -> price of a month]
    MonthLength,  \* ticks in a month: three at least, as a request may span two
    FirstTime,    \* the tick the model begins at, the person on a plan since 0
    MaxTime,      \* bound: the last tick
    MaxAsked,     \* bound: changes of plan, and invoices of months not over, asked for
    None

Plans == Paid \cup {Free}

ASSUME PlansAssumption ==
    /\ Free \notin Paid
    /\ Price \in [Plans -> Nat]
    /\ Price[Free] = 0
    /\ \A p \in Paid : Price[p] > 0
ASSUME TimeAssumption ==
    /\ MonthLength \in Nat /\ MonthLength > 2
    /\ MaxTime \in Nat /\ FirstTime \in 0 .. MaxTime /\ MaxAsked \in Nat
ASSUME NoneAssumption ==
    None \notin Plans \cup Requests \cup Int \cup ((Nat \cup {None}) \X Plans)

VARIABLES
    now,       \* the clock, in ticks; no request lasts longer than one
    subs,      \* the rows of subscriptions, in the order of their insertion
    invoice,   \* [Months -> what the month's invoice charges, or None]
    req,       \* [Requests -> a request or job in flight]
    asked,     \* changes of plan, and invoices of months not over, asked for so far
    held,      \* history: [Times -> the row and plan in force all through the tick, or None]
    late,      \* history: months a change was dated in that took effect after them
    early,     \* history: months invoiced by a run that began before they were over
    ahead,     \* history: ticks for which such a run has ended a plan ahead of its date
    blind      \* history: was a change ever decided on a failed read?

history == <<late, early, ahead>>
vars == <<now, subs, invoice, req, asked, held, late, early, ahead, blind>>

----------------------------------------------------------------------------
(* Time and rows.                                                          *)

Times == 0 .. MaxTime
MonthOf(t) == t \div MonthLength
Months == 0 .. MonthOf(MaxTime)
StartOf(m) == m * MonthLength
EndOf(m) == (m + 1) * MonthLength
nextMonth(t) == EndOf(MonthOf(t))

\* Dates of the model: up to the 1st after the last tick.
Dates == 0 .. nextMonth(MaxTime)

Row == [plan : Paid, status : {"active", "canceled"}, created : Dates,
        ended : Dates \cup {None}, target : Plans \cup {None}, due : Dates \cup {None}]

Opened(plan, t) == [plan |-> plan, status |-> "active", created |-> t, ended |-> None,
                    target |-> None, due |-> None]

Ids == 1 .. Len(subs)

\* The row that is not canceled; the unique index allows one.
Active(i) == subs[i].status # "canceled"
ActiveRows == {i \in Ids : Active(i)}
Current == IF ActiveRows = {} THEN None ELSE CHOOSE i \in ActiveRows : TRUE

Due(row, t) == row.target # None /\ row.due <= t

PlanOf(i) == IF i = None THEN Free ELSE subs[i].plan

\* The row, and the plan a lookup answers now: what has come due counts.
InForce == <<Current, IF Current # None /\ Due(subs[Current], now)
                      THEN subs[Current].target ELSE PlanOf(Current)>>

\* The stretches of a month, one for each subscription that was open in it.
Least(a, b) == IF a < b THEN a ELSE b
Greatest(a, b) == IF a > b THEN a ELSE b
Stretch(row, m) ==
    [plan |-> row.plan, from |-> Greatest(row.created, StartOf(m)),
     to |-> Least(IF row.status = "active" THEN EndOf(m) ELSE row.ended, EndOf(m))]
segmentsInMonth(m) ==
    {s \in {Stretch(subs[i], m) : i \in Ids} : s.to > s.from}

Segment == [plan : Paid, from : Dates, to : Dates]

----------------------------------------------------------------------------
(* Requests.                                                               *)

Request ==
    [pc : {"idle", "read", "due", "claim", "update", "wait", "commit", "reread",
           "decide", "schedule", "clear", "bill", "post"},
     kind : {"lookup", "change", "job", "invoices"},
     begun : Times,                    \* when it began
     want : Plans \cup {None},         \* a change: the plan asked for
     when : {"auto", "now"},           \* ... as the customer expects it, or at once
     sub : Nat \cup {None},            \* ... the subscription it read, if any
     plan : Plans,                     \* ... and its plan
     target : Plans \cup {None},       \* the switch at hand: to which plan
     at : Dates \cup {None},           \* ... from when
     claim : Nat \cup {None},          \* ... as this row's waiting change
     seen : Nat \cup {None},           \* ... the row its UPDATE has found
     holds : Nat \cup {None},          \* ... the row it has locked
     month : Months \cup {None},       \* an invoice run: its month
     bill : SUBSET Segment]            \* ... and what it will charge

Idle == [pc |-> "idle", kind |-> "lookup", begun |-> 0, want |-> None,
         when |-> "auto", sub |-> None, plan |-> Free, target |-> None, at |-> None,
         claim |-> None, seen |-> None, holds |-> None, month |-> None, bill |-> {}]

Becomes(r, q) == req' = [req EXCEPT ![r] = q]

\* No other transaction has locked row i.
Unlocked(r, i) == \A o \in Requests \ {r} : req[o].holds # i

\* What a request does after a switch, or without one: a lookup has its answer, a
\* change goes on to read the row again, and an invoice run to its bills.
AfterDue(q) ==
    LET rest == [q EXCEPT !.target = None, !.at = None, !.claim = None,
                          !.seen = None, !.holds = None] IN
    CASE q.kind = "change"   -> [rest EXCEPT !.pc = "reread"]
      [] q.kind = "invoices" -> [rest EXCEPT !.pc = "bill"]
      [] OTHER               -> Idle

\* The last call of changePlan: a lookup for the answer.
Answering(q) == [Idle EXCEPT !.pc = "read", !.begun = q.begun]

AfterSwitch(q) == IF q.claim = None THEN Answering(q) ELSE AfterDue(q)

\* The person is on some plan, unchanged since tick 0.
Init ==
    /\ now = FirstTime
    /\ \E p \in Plans : subs = IF p = Free THEN <<>> ELSE <<Opened(p, 0)>>
    /\ invoice = [m \in Months |-> None]
    /\ req = [r \in Requests |-> Idle]
    /\ asked = 0
    /\ held = [t \in Times |-> IF t = FirstTime THEN InForce ELSE None]
    /\ late = {} /\ early = {} /\ ahead = {}
    /\ blind = FALSE

----------------------------------------------------------------------------
(* Requests and jobs begin.                                                *)

\* Any page or call that needs the person's plan.
Lookup(r) ==
    /\ req[r].pc = "idle"
    /\ Becomes(r, [Idle EXCEPT !.pc = "read", !.begun = now])
    /\ UNCHANGED <<now, subs, invoice, asked, history, blind>>

\* The administrator puts the person on a plan.
Change(r) ==
    /\ req[r].pc = "idle" /\ asked < MaxAsked
    /\ \E p \in Plans, when \in {"auto", "now"} :
        Becomes(r, [Idle EXCEPT !.pc = "read", !.kind = "change", !.begun = now,
                                !.want = p, !.when = when])
    /\ asked' = asked + 1
    /\ UNCHANGED <<now, subs, invoice, history, blind>>

\* The job of the 1st at 00:05.
ApplyDue(r) ==
    /\ req[r].pc = "idle"
    /\ Becomes(r, [Idle EXCEPT !.pc = "due", !.kind = "job", !.begun = now])
    /\ UNCHANGED <<now, subs, invoice, asked, history, blind>>

\* An invoice run for month m begins; any month may be asked for.
InvoiceRun(r, m, pc) ==
    /\ req[r].pc = "idle"
    /\ Becomes(r, [Idle EXCEPT !.pc = pc, !.kind = "invoices", !.begun = now, !.month = m])
    /\ IF now < EndOf(m) THEN asked < MaxAsked /\ asked' = asked + 1 ELSE asked' = asked
    /\ UNCHANGED <<now, subs, invoice, history, blind>>

\* Variant: the run does not apply the changes that fall due by the month's end.
BillUnapplied(r) == \E m \in Months : InvoiceRun(r, m, "bill")

\* The invoice run of the 1st at 04:20 (last month's), or an administrator's (any month's,
\* the running one and later ones among them).
GenerateInvoices(r) == \E m \in Months : InvoiceRun(r, m, "due")

----------------------------------------------------------------------------
(* subscriptionFor.                                                        *)

\* What the caller of subscriptionFor does with row i, or with none.
Knowing(q, i) ==
    IF q.kind = "change"
    THEN [q EXCEPT !.pc = "decide", !.sub = i, !.plan = PlanOf(i)]
    ELSE Idle

Read(r) ==
    LET q == req[r] IN
    /\ q.pc = "read"
    /\ Becomes(r, IF Current # None /\ Due(subs[Current], now)
                  THEN [q EXCEPT !.pc = "due"] ELSE Knowing(q, Current))
    /\ UNCHANGED <<now, subs, invoice, asked, history, blind>>

Reread(r) ==
    /\ req[r].pc = "reread"
    /\ Becomes(r, Knowing(req[r], Current))
    /\ UNCHANGED <<now, subs, invoice, asked, history, blind>>

\* Variant: a waiting change is applied to whoever asks, at its date or before.
SelectWaiting(r) ==
    LET q == req[r] IN
    /\ q.pc = "due"
    /\ Becomes(r, IF Current # None /\ subs[Current].target # None
                  THEN [q EXCEPT !.pc = "claim", !.claim = Current,
                                 !.target = subs[Current].target,
                                 !.at = subs[Current].due]
                  ELSE AfterDue(q))
    /\ UNCHANGED <<now, subs, invoice, asked, history, blind>>

\* applyDueScheduledChanges: SELECT of the waiting changes.  An invoice run asks
\* for those of its month's end.
SelectDue(r) ==
    LET q == req[r]
        until == IF q.kind = "invoices" THEN EndOf(q.month) ELSE now IN
    /\ q.pc = "due"
    /\ Becomes(r, IF Current # None /\ Due(subs[Current], until)
                  THEN [q EXCEPT !.pc = "claim", !.claim = Current,
                                 !.target = subs[Current].target,
                                 !.at = subs[Current].due]
                  ELSE AfterDue(q))
    /\ UNCHANGED <<now, subs, invoice, asked, history, blind>>

----------------------------------------------------------------------------
(* switchNow.                                                              *)

\* SELECT ... FOR UPDATE of the row whose change is to be applied.
Claim(r) ==
    LET q == req[r] IN
    /\ q.pc = "claim"
    /\ Unlocked(r, q.claim)
    /\ Becomes(r, IF Active(q.claim) /\ subs[q.claim].target # None
                  THEN [q EXCEPT !.pc = "update", !.holds = q.claim]
                  ELSE AfterDue(q))
    /\ UNCHANGED <<now, subs, invoice, asked, history, blind>>

\* UPDATE of the current row: found, and locked unless another has it.
Update(r) ==
    LET q == req[r] IN
    /\ q.pc = "update"
    /\ Becomes(r, IF Current = None \/ Unlocked(r, Current)
                  THEN [q EXCEPT !.pc = "commit", !.holds = Current]
                  ELSE [q EXCEPT !.pc = "wait", !.seen = Current])
    /\ UNCHANGED <<now, subs, invoice, asked, history, blind>>

\* The other transaction is over: the row is taken if it is still current.
Wait(r) ==
    LET q == req[r] IN
    /\ q.pc = "wait"
    /\ Unlocked(r, q.seen)
    /\ Becomes(r, [q EXCEPT !.pc = "commit", !.seen = None,
                            !.holds = IF Active(q.seen) THEN q.seen ELSE None])
    /\ UNCHANGED <<now, subs, invoice, asked, history, blind>>

\* Variant: a change takes effect when it is applied.
AppliedAt(q) == now

\* The moment a switch is dated.
SwitchedAt(q) == q.at

Canceled(row, t) == [row EXCEPT !.status = "canceled", !.ended = t,
                                !.target = None, !.due = None]

\* What the transaction writes: the end of the row it holds, and the next row.
Switched(q) ==
    LET t == SwitchedAt(q)
        closed == IF q.holds = None THEN subs
                  ELSE [subs EXCEPT ![q.holds] = Canceled(@, t)] IN
    IF q.target = Free THEN closed ELSE Append(closed, Opened(q.target, t))

\* Variant: no unique index on the current subscription.
InsertableAlways(r) == TRUE

\* The unique index: another current row, if any, must not be there (an insertion
\* waits for one that is being ended).
Insertable(r) ==
    \/ req[r].target = Free
    \/ Current \in {None, req[r].holds}

\* A request is an invoice run that began before its month was over.
Early(q) == q.kind = "invoices" /\ q.begun < EndOf(q.month)

\* What history keeps of a switch: the month it is dated in, if that is over, and the ticks
\* until its date.
Notes(q) ==
    /\ late' = IF q.claim = None THEN late \cup {m \in Months : m = MonthOf(q.at) /\ EndOf(m) <= now}
               ELSE late
    /\ ahead' = IF Early(q) THEN ahead \cup {t \in Times : now <= t /\ t < q.at} ELSE ahead
    /\ UNCHANGED early

\* INSERT of the next subscription, and COMMIT.
Commit(r) ==
    LET q == req[r] IN
    /\ q.pc = "commit"
    /\ Insertable(r)
    /\ subs' = Switched(q)
    /\ Notes(q)
    /\ Becomes(r, AfterSwitch(q))
    /\ UNCHANGED <<now, invoice, asked, blind>>

\* A statement fails: a lookup takes the plan for Free, everything else ends.
Failed(q) == IF q.kind = "change" /\ (q.pc \in {"read", "due", "reread"} \/ q.claim # None)
             THEN [Idle EXCEPT !.pc = "decide", !.kind = "change", !.begun = q.begun,
                               !.want = q.want, !.when = q.when]
             ELSE Idle

FailsWith(r) ==
    /\ Becomes(r, Failed(req[r]))
    /\ blind' = (blind \/ Failed(req[r]).pc = "decide")

Fails(r) ==
    /\ req[r].pc # "idle"
    /\ FailsWith(r)
    /\ UNCHANGED <<now, subs, invoice, asked, history>>

\* The INSERT violates the unique index.
Conflicts(r) ==
    LET q == req[r] IN
    /\ q.pc = "commit"
    /\ ~Insertable(r) /\ Unlocked(r, Current)
    /\ FailsWith(r)
    /\ UNCHANGED <<now, subs, invoice, asked, history>>

\* COMMIT succeeds and its answer is lost.
CommitReplyLost(r) ==
    LET q == req[r] IN
    /\ q.pc = "commit"
    /\ Insertable(r)
    /\ subs' = Switched(q)
    /\ Notes(q)
    /\ FailsWith(r)
    /\ UNCHANGED <<now, invoice, asked>>

----------------------------------------------------------------------------
(* changePlan.                                                             *)

\* The current plan again: a waiting change is dropped; a cheaper plan waits for
\* the 1st; any other change starts at once.
Decide(r) ==
    LET q == req[r] IN
    /\ q.pc = "decide"
    /\ Becomes(r,
         CASE q.plan = q.want /\ q.sub = None -> Answering(q)
           [] q.plan = q.want /\ q.sub # None -> [q EXCEPT !.pc = "clear"]
           [] q.when = "auto" /\ q.sub # None /\ Price[q.want] < Price[q.plan] ->
                [q EXCEPT !.pc = "schedule", !.at = nextMonth(now)]
           [] OTHER ->
                [q EXCEPT !.pc = "update", !.target = q.want, !.at = now])
    /\ UNCHANGED <<now, subs, invoice, asked, history, blind>>

Waiting(row, plan, t) == [row EXCEPT !.target = plan, !.due = t]

\* Each is an UPDATE by id, whatever has become of the row.
Schedule(r) ==
    LET q == req[r] IN
    /\ q.pc = "schedule"
    /\ Unlocked(r, q.sub)
    /\ subs' = [subs EXCEPT ![q.sub] = Waiting(@, q.want, q.at)]
    /\ Becomes(r, Answering(q))
    /\ UNCHANGED <<now, invoice, asked, history, blind>>

Clear(r) ==
    LET q == req[r] IN
    /\ q.pc = "clear"
    /\ Unlocked(r, q.sub)
    /\ subs' = [subs EXCEPT ![q.sub] = Waiting(@, None, None)]
    /\ Becomes(r, Answering(q))
    /\ UNCHANGED <<now, invoice, asked, history, blind>>

----------------------------------------------------------------------------
(* generateInvoices.                                                       *)

\* SELECT of the month's subscriptions.
Bill(r) ==
    LET q == req[r] IN
    /\ q.pc = "bill"
    /\ Becomes(r, IF segmentsInMonth(q.month) = {} THEN Idle
                  ELSE [q EXCEPT !.pc = "post", !.bill = segmentsInMonth(q.month)])
    /\ UNCHANGED <<now, subs, invoice, asked, history, blind>>

\* INSERT ... ON CONFLICT DO NOTHING.
Post(r) ==
    LET q == req[r] IN
    /\ q.pc = "post"
    /\ invoice' = [invoice EXCEPT ![q.month] = IF @ = None THEN q.bill ELSE @]
    /\ early' = IF invoice[q.month] = None /\ Early(q) THEN early \cup {q.month} ELSE early
    /\ Becomes(r, Idle)
    /\ UNCHANGED <<now, subs, asked, late, ahead, blind>>

----------------------------------------------------------------------------
(* Time, and the specification.                                            *)

Tick ==
    /\ now < MaxTime
    /\ \A r \in Requests : req[r].pc = "idle" \/ req[r].begun = now
    /\ now' = now + 1
    /\ UNCHANGED <<subs, invoice, req, asked, history, blind>>

Begin(r) == Lookup(r) \/ Change(r) \/ ApplyDue(r) \/ GenerateInvoices(r)

Step(r) ==
    \/ Read(r) \/ Reread(r) \/ SelectDue(r)
    \/ Claim(r) \/ Update(r) \/ Wait(r) \/ Commit(r) \/ Conflicts(r)
    \/ Decide(r) \/ Schedule(r) \/ Clear(r)
    \/ Bill(r) \/ Post(r)

Act ==
    \/ \E r \in Requests : Begin(r) \/ Step(r) \/ Fails(r) \/ CommitReplyLost(r)
    \/ Tick

\* History is kept of the plan in force after every step.
Next ==
    /\ Act
    /\ held' = [held EXCEPT ![now'] = IF now' # now \/ @ = InForce' THEN InForce' ELSE None]

Spec == Init /\ [][Next]_vars

----------------------------------------------------------------------------
(* Properties.                                                             *)

\* Rows, requests and invoices are well formed, and of the rows one is current
\* at most (plans.ts and migrations 0022 and 0035).
TypeOK ==
    /\ now \in Times
    /\ subs \in Seq(Row)
    /\ Cardinality(ActiveRows) <= 1
    /\ invoice \in [Months -> (SUBSET Segment) \cup {None}]
    /\ req \in [Requests -> Request]
    /\ asked \in 0 .. MaxAsked
    /\ held \in [Times -> ((Ids \cup {None}) \X Plans) \cup {None}]
    /\ late \in SUBSET Months /\ early \in SUBSET Months /\ ahead \in SUBSET Times
    /\ blind \in BOOLEAN

\* What is charged for tick t, by row: the paid plans of the rows that cover it, when
\* the change that is due (if one is) will be applied as of its date.
ChargesAt(t) ==
    {<<i, subs[i].plan>> : i \in {j \in Ids :
        /\ subs[j].created <= t
        /\ IF Active(j) THEN ~Due(subs[j], t) ELSE t < subs[j].ended}}
    \cup {<<i, subs[i].target>> : i \in {j \in ActiveRows :
                                       Due(subs[j], t) /\ subs[j].target # Free}}

\* Whether each of the ticks is charged for what was held in it.  A tick counts if the
\* row and plan were the same all through it and the next.
ChargedIn(ticks) ==
    \A t \in ticks :
        (t + 1 < now /\ held[t] # None /\ held[t + 1] = held[t]) =>
            LET plan == held[t][2] IN
            IF plan = Free THEN ChargesAt(t) = {}
            ELSE \E i \in Ids : ChargesAt(t) = {<<i, plan>>}

\* Who was on one plan, unchanged, all through a tick and the next is charged for
\* that tick by that plan, once, and not at all on Free, whichever lookup or job
\* applied a change, how late it ran, and what else was under way ("so the invoices
\* are exact even if the job runs late", plans.ts).  The ticks left out are those for
\* which a run for a month not over has applied a change too early (generateInvoices).
ChargedForWhatWasHeld == ~blind => ChargedIn(Times \ ahead)

\* ... and the same of every tick, as the comment has it; generateInvoices of the running
\* month breaks it.
ChargedAlways == ~blind => ChargedIn(Times)

\* No subscription begins or ends ahead of the clock ("a downgrade (a cheaper plan) starts
\* on the 1st of next month: the current plan, and everything it allows, stays until
\* then", plans.ts).  generateInvoices of the running month breaks it.
PlansStayUntilTheirDate ==
    \A i \in Ids : /\ subs[i].created <= now
                   /\ ~Active(i) => subs[i].ended <= now

\* A plan stays until the date of its change, whichever lookup, request, job or invoice
\* run of a month that is over applies the change, and however they overlap; while one has
\* begun or ended ahead of the clock, it is for an invoice run of a month not over
\* (applyDueScheduledChanges, switchNow, generateInvoices).
OnlyEarlyInvoicesEndPlansEarly == now \in ahead \/ PlansStayUntilTheirDate

\* Whether the invoices of these months are what the rows say of them.
InvoicesFitRows(months) ==
    \A m \in months : invoice[m] # None => invoice[m] = segmentsInMonth(m)

\* The invoice of a month, made by a run that began when the month was over, stays what
\* the rows say of that month: no waiting change applied later, no second run, no run for
\* another month, over or not, and no change of mind makes it wrong; only a change dated
\* in that month and committed after it does (generateInvoices).
InvoicesStayTrue == InvoicesFitRows(Months \ (late \cup early))

\* ... and the same of invoices made by runs for months not over, one of which is kept as
\* it is (ON CONFLICT DO NOTHING) when the plan changes later in the month ("charging each
\* plan for its own part of the month", plans.ts).
EarlyInvoicesStayTrue == InvoicesFitRows(Months \ late)

=============================================================================
