---------------------------- MODULE GatewayCalls ----------------------------
(***************************************************************************)
(* The calls that one person on the Free plan makes with gateway keys,     *)
(* during one month: the allowance is checked, the call is forwarded (or   *)
(* answered here), and the calls that went through are counted after the   *)
(* answer, by tasks that nobody waits for.                                 *)
(*                                                                         *)
(* A lookup of the plan that fails answers Free, so here it changes        *)
(* nothing.  A refused request leaves no trace and is not an action.       *)
(***************************************************************************)
EXTENDS UpstreamClient

CONSTANTS
    Desk,              \* the API that is answered by this server
    Market,            \* the backend whose analyses are metered
    servicePerMinute, totalPerMinute, servicePerMonth, totalPerMonth,
    includedAnalyses,
    CountedBefore      \* calls of each API, and analyses, that the month has already

METERED_SERVICES == Services \cup {Desk}
Meters == METERED_SERVICES \cup {"total", "analyses"}

ASSUME MeteredAssumption ==
    /\ IsFiniteSet(Services) /\ Desk \notin Services /\ Market \in Services
    /\ {"total", "analyses"} \cap METERED_SERVICES = {}
ASSUME LimitsAssumption ==
    {servicePerMinute, totalPerMinute, servicePerMonth, totalPerMonth, includedAnalyses}
        \subseteq Nat \ {0}

\* The model begins before the first notice of any sort is due.
eightyPercentOf(limit) == (4 * limit + 4) \div 5
ASSUME BeforeAssumption ==
    /\ CountedBefore \in Nat
    /\ \A limit \in {servicePerMonth, includedAnalyses} : CountedBefore < eightyPercentOf(limit)
    /\ CountedBefore * Cardinality(METERED_SERVICES) < eightyPercentOf(totalPerMonth)

VARIABLES
    minute,    \* api_usage: [METERED_SERVICES -> calls counted in this minute]
    month,     \* api_usage: [METERED_SERVICES -> calls counted in this month]
    analyses,  \* usage_meter: analyses counted in this month
    request,   \* [Calls -> a request and the tasks it has left]
    told,      \* history: [Meters \X Marks -> notices sent, no further than 2]
    unheard    \* history: has a count been read with another one's notice due, or been lost?

usage == <<minute, month, analyses>>
vars == <<upstream, minute, month, analyses, request, told, unheard>>

Marks == {80, 100}

Request ==
    [pc : {"idle", "analyses", "send", "upstream", "after"},
     service : METERED_SERVICES,
     analysis : BOOLEAN,                  \* is it POST /research/analyze?
     tally : {"no", "insert", "look"},    \* recordCall, once it is answered
     fresh : BOOLEAN,                     \* ... for the minute it still is
     meter : BOOLEAN]                     \* meterAnalysis is under way

Idle == [pc |-> "idle", service |-> Desk, analysis |-> FALSE,
         tally |-> "no", fresh |-> FALSE, meter |-> FALSE]

Init ==
    /\ UpstreamInit
    /\ minute = [s \in METERED_SERVICES |-> 0]
    /\ month = [s \in METERED_SERVICES |-> CountedBefore]
    /\ analyses = CountedBefore
    /\ request = [c \in Calls |-> Idle]
    /\ told = [x \in Meters \X Marks |-> 0]
    /\ unheard = FALSE

\* The calls of all APIs together, each the i-th of its API, and how many they are.
Counted(tally) == UNION {{s} \X (1 .. tally[s]) : s \in METERED_SERVICES}
Total(tally) == Cardinality(Counted(tally))

----------------------------------------------------------------------------
(* forward, and authenticateWithGatewayKey for the desk API.               *)

\* Variant: the limit of all APIs together is not looked at.
MayCallEach(s) ==
    /\ minute[s] < servicePerMinute
    /\ month[s] < servicePerMonth

\* callRefusal finds nothing.
MayCall(s) ==
    /\ minute[s] < servicePerMinute /\ Total(minute) < totalPerMinute
    /\ month[s] < servicePerMonth /\ Total(month) < totalPerMonth

Arrive(c) ==
    /\ request[c].pc = "idle"
    /\ \E s \in METERED_SERVICES, analysis \in BOOLEAN :
        /\ MayCall(s)
        /\ analysis => s = Market
        /\ request' = [request EXCEPT ![c] =
               [Idle EXCEPT !.pc = IF analysis THEN "analyses" ELSE "send",
                            !.service = s, !.analysis = analysis]]
    /\ UNCHANGED <<upstream, usage, told, unheard>>

\* analysisRefusal.
CheckAnalyses(c) ==
    /\ request[c].pc = "analyses"
    /\ request' = [request EXCEPT ![c] = IF analyses < includedAnalyses
                                         THEN [@ EXCEPT !.pc = "send"] ELSE Idle]
    /\ UNCHANGED <<upstream, usage, told, unheard>>

\* What an answer leaves to be done: a call that went through is counted.
Answered(q, ok) ==
    IF ok THEN [q EXCEPT !.pc = "after", !.tally = "insert", !.fresh = TRUE,
                         !.meter = q.analysis]
    ELSE Idle

\* The desk API's own answer, or reference data from the cache.
AnswerHere(c) ==
    /\ request[c].pc = "send"
    /\ request[c].service = Desk \/ ~request[c].analysis
    /\ \E ok \in BOOLEAN : request' = [request EXCEPT ![c] = Answered(@, ok)]
    /\ UNCHANGED <<upstream, usage, told, unheard>>

Forward(c) ==
    LET q == request[c] IN
    /\ q.pc = "send" /\ q.service # Desk
    /\ \E h \in Holders : Starts(c, q.service, h, ~q.analysis)
    /\ request' = [request EXCEPT ![c].pc = "upstream"]
    /\ UNCHANGED <<usage, told, unheard>>

\* The upstream client does not let it through, or the key has no backend key.
Unavailable(c) ==
    /\ request[c].pc = "send" /\ request[c].service # Desk
    /\ request' = [request EXCEPT ![c] = Idle]
    /\ UNCHANGED <<upstream, usage, told, unheard>>

Retry(c) ==
    /\ Retries(c)
    /\ UNCHANGED <<request, usage, told, unheard>>

\* The answer, of a status below 400 or not.
Answer(c) ==
    /\ Succeeds(c)
    /\ \E ok \in BOOLEAN : request' = [request EXCEPT ![c] = Answered(@, ok)]
    /\ UNCHANGED <<usage, told, unheard>>

Failure(c) ==
    /\ Fails(c) \/ Leaves(c)
    /\ request' = [request EXCEPT ![c] = Idle]
    /\ UNCHANGED <<usage, told, unheard>>

----------------------------------------------------------------------------
(* Counting.                                                               *)

\* The tasks of a request that are left; without any it is over.
Left(q) == IF q.tally = "no" /\ ~q.meter THEN Idle ELSE q

\* The mark a meter has just reached, if its count is exactly one of the two.
percentJustReached(count, limit) ==
    IF count = limit THEN {100}
    ELSE IF count = eightyPercentOf(limit) /\ eightyPercentOf(limit) < limit THEN {80} ELSE {}

Tell(reached) ==
    told' = [x \in Meters \X Marks |-> IF x \in reached /\ told[x] < 2 THEN told[x] + 1 ELSE told[x]]

\* recordCall: the two counts of one statement.
Tally(c) ==
    LET q == request[c] IN
    /\ q.tally = "insert"
    /\ month' = [month EXCEPT ![q.service] = @ + 1]
    /\ minute' = IF q.fresh THEN [minute EXCEPT ![q.service] = @ + 1] ELSE minute
    /\ request' = [request EXCEPT ![c].tally = "look", ![c].fresh = FALSE]
    /\ unheard' = (unheard \/ \E d \in Calls : request[d].tally = "look")
    /\ UNCHANGED <<upstream, analyses, told>>

\* Variant: a mark is reached by every count from it on.
ReachedByNow(s) == {x \in {s, "total"} \X Marks :
    (IF x[1] = s THEN month[s] ELSE Total(month)) * 100 >=
    (IF x[1] = s THEN servicePerMonth ELSE totalPerMonth) * x[2]}

\* The marks that checkMonthlyUsage finds reached.
Reached(s) == ({s} \X percentJustReached(month[s], servicePerMonth)) \cup
              ({"total"} \X percentJustReached(Total(month), totalPerMonth))

Look(c) ==
    LET q == request[c] IN
    /\ q.tally = "look"
    /\ Tell(Reached(q.service))
    /\ request' = [request EXCEPT ![c] = Left([@ EXCEPT !.tally = "no"])]
    /\ UNCHANGED <<upstream, usage, unheard>>

\* A statement of recordCall fails: the call goes uncounted, or the notice unsent.
TallyFails(c) ==
    /\ request[c].tally # "no"
    /\ request' = [request EXCEPT ![c] = Left([@ EXCEPT !.tally = "no", !.fresh = FALSE])]
    /\ unheard' = (unheard \/ request[c].tally = "look")
    /\ UNCHANGED <<upstream, usage, told>>

\* meterAnalysis: the statement answers with the count it has made.
Meter(c) ==
    /\ request[c].meter
    /\ analyses' = analyses + 1
    /\ Tell({"analyses"} \X percentJustReached(analyses + 1, includedAnalyses))
    /\ request' = [request EXCEPT ![c] = Left([@ EXCEPT !.meter = FALSE])]
    /\ UNCHANGED <<upstream, minute, month, unheard>>

MeterFails(c) ==
    /\ request[c].meter
    /\ request' = [request EXCEPT ![c] = Left([@ EXCEPT !.meter = FALSE])]
    /\ UNCHANGED <<upstream, usage, told, unheard>>

\* The minute is over: what is counted late is counted in its row, which nobody reads.
NewMinute ==
    /\ minute' = [s \in METERED_SERVICES |-> 0]
    /\ request' = [c \in Calls |-> [request[c] EXCEPT !.fresh = FALSE]]
    /\ UNCHANGED <<upstream, month, analyses, told, unheard>>

Cools(s) == Elapse(s) /\ UNCHANGED <<usage, request, told, unheard>>

----------------------------------------------------------------------------
(* The specification.                                                      *)

Ending(c) == Answer(c) \/ Failure(c)

Serve(c) ==
    \/ Arrive(c) \/ CheckAnalyses(c) \/ AnswerHere(c) \/ Forward(c) \/ Unavailable(c)
    \/ Retry(c) \/ Ending(c)

Count(c) == Tally(c) \/ Look(c) \/ TallyFails(c) \/ Meter(c) \/ MeterFails(c)

Next ==
    \/ \E c \in Calls : Serve(c) \/ Count(c)
    \/ \E s \in Services : Cools(s)
    \/ NewMinute

\* Every call ends (its timeout sees to it), and time passes.
Fairness ==
    /\ \A c \in Calls : WF_vars(Ending(c))
    /\ \A s \in Services : WF_vars(Cools(s))

Spec == Init /\ [][Next]_vars /\ Fairness

----------------------------------------------------------------------------
(* Properties.                                                             *)

TypeOK ==
    /\ UpstreamTypeOK
    /\ minute \in [METERED_SERVICES -> Nat]
    /\ month \in [METERED_SERVICES -> Nat]
    /\ analyses \in Nat
    /\ request \in [Calls -> Request]
    /\ told \in [Meters \X Marks -> 0 .. 2]
    /\ unheard \in BOOLEAN
    /\ \A c \in Calls : call[c] # None <=> request[c].pc = "upstream"

\* Requests that have passed the check, and are not counted or refused yet.
Passed(s) == {c \in Calls : request[c].service = s /\
                 (request[c].pc \in {"analyses", "send", "upstream"} \/ request[c].tally = "insert")}
PassedAll == UNION {Passed(s) : s \in METERED_SERVICES}

\* The limits are passed by no more than the requests there are at a time less one,
\* those included that wait to be counted: "that overshoot of one or two calls is
\* accepted" (allowance.ts, callRefusal and recordCall).
OvershootIsBounded ==
    LET over == Cardinality(Calls) - 1 IN
    /\ \A s \in METERED_SERVICES :
        /\ month[s] + Cardinality(Passed(s)) <= servicePerMonth + over
        /\ minute[s] <= servicePerMinute + over
    /\ Total(month) + Cardinality(PassedAll) <= totalPerMonth + over
    /\ Total(minute) <= totalPerMinute + over
    /\ analyses <= includedAnalyses + over

Limit(x) == CASE x = "total" -> totalPerMonth
              [] x = "analyses" -> includedAnalyses
              [] OTHER -> servicePerMonth
CountOf(x) == CASE x = "total" -> Total(month)
                [] x = "analyses" -> analyses
                [] OTHER -> month[x]
Mark(x, p) == IF p = 100 THEN Limit(x) ELSE eightyPercentOf(Limit(x))

\* The person is told of each mark once, as soon as the count that reached it is
\* looked at, when no two counts of calls overlap; of analyses, whatever overlaps
\* ("Checked against the exact new count, so each mark fires once", allowance.ts).
MarksFireOnce ==
    \A x \in Meters, p \in Marks :
        (x = "analyses" \/ (~unheard /\ \A c \in Calls : request[c].tally # "look")) =>
            told[<<x, p>>] = IF CountOf(x) >= Mark(x, p) /\ (p = 100 \/ Mark(x, p) < Limit(x))
                             THEN 1 ELSE 0

\* The same of calls whose counts overlap, which refute it.
EachMarkOnce == \A x \in Meters, p \in Marks : told[<<x, p>>] <= 1

\* A backend that is back is called again: whatever calls failed or were given up on,
\* the breaker lets a call through in the end (breakerState and trialInFlight).
BreakerLetsThrough ==
    \A s \in Services :
        []<>(breakerState(s) = "closed" \/ (breakerState(s) = "half-open" /\ ~trialInFlight[s]))

=============================================================================
