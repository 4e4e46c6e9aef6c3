--------------------------- MODULE UpstreamClient ---------------------------
(***************************************************************************)
(* How one process calls the backends: the ceilings on calls in flight,    *)
(* one retry for lookups, and a breaker for each backend that opens after  *)
(* failures in a row and then lets one call test the backend.              *)
(*                                                                         *)
(* Everything up to a call's first await, and everything from an answer to *)
(* the call's end, runs without interruption.  The sleep before a retry    *)
(* changes nothing, and a caller who leaves during it is noticed by the    *)
(* second attempt.                                                         *)
(***************************************************************************)
EXTENDS Integers, Sequences, FiniteSets

CONSTANTS
    Calls,                 \* calls at a time
    Services,              \* the backends
    Holders,               \* the gateway keys that call
    BREAKER_FAILURES,      \* failures in a row that open a breaker
    MaxInFlight,           \* ceiling on a backend's calls in flight
    MaxInFlightPerHolder,  \* ... and on one key's
    None

ASSUME CeilingsAssumption ==
    /\ BREAKER_FAILURES \in Nat \ {0}
    /\ MaxInFlight \in Nat \ {0} /\ MaxInFlightPerHolder \in Nat \ {0}

VARIABLES
    failures,       \* [Services -> failures in a row, no further than BREAKER_FAILURES]
    openUntil,      \* [Services -> no moment, one to come, or one that has passed]
    trialInFlight,  \* [Services -> is the one trial call under way?]
    inFlight,       \* [Slots -> calls counted as in flight]
    call            \* [Calls -> the call under way, or None]

upstream == <<failures, openUntil, trialInFlight, inFlight, call>>

Slots == {<<s>> : s \in Services} \cup (Services \X Holders)

\* Whether a call was let through to test the backend is history: "ours" as long as
\* the flag is its own, "lost" once another call has lowered it.
Call == [service : Services, holder : Holders, retryable : BOOLEAN,
         attempt : {1, 2}, trial : {"no", "ours", "lost"}]

ASSUME CallsAssumption == IsFiniteSet(Calls) /\ None \notin Call

InFlight == {c \in Calls : call[c] # None}
Of(x) == {c \in InFlight : x \in {<<call[c].service>>, <<call[c].service, call[c].holder>>}}

UpstreamInit ==
    /\ failures = [s \in Services |-> 0]
    /\ openUntil = [s \in Services |-> "never"]
    /\ trialInFlight = [s \in Services |-> FALSE]
    /\ inFlight = [x \in Slots |-> 0]
    /\ call = [c \in Calls |-> None]

breakerState(s) ==
    CASE openUntil[s] = "never"  -> "closed"
      [] openUntil[s] = "ahead"  -> "open"
      [] openUntil[s] = "passed" -> "half-open"

\* The fifteen seconds of an open breaker are over.
Elapse(s) ==
    /\ openUntil[s] = "ahead"
    /\ openUntil' = [openUntil EXCEPT ![s] = "passed"]
    /\ UNCHANGED <<failures, trialInFlight, inFlight, call>>

----------------------------------------------------------------------------
(* acquire and its release.                                                *)

Room(s, h) == /\ inFlight[<<s>>] < MaxInFlight
              /\ inFlight[<<s, h>>] < MaxInFlightPerHolder

acquire(s, h) ==
    inFlight' = [x \in Slots |-> IF x \in {<<s>>, <<s, h>>} THEN inFlight[x] + 1 ELSE inFlight[x]]

\* Variant: only the backend's count goes down.
releaseService(s, h) ==
    inFlight' = [x \in Slots |-> IF x = <<s>> THEN inFlight[x] - 1 ELSE inFlight[x]]

release(s, h) ==
    inFlight' = [x \in Slots |-> IF x \in {<<s>>, <<s, h>>} THEN inFlight[x] - 1 ELSE inFlight[x]]

----------------------------------------------------------------------------
(* callUpstream.                                                           *)

\* An open breaker, a full ceiling and, while half-open, a trial under way refuse the
\* call, and nothing has changed then.
Admits(s, h) ==
    /\ breakerState(s) # "open"
    /\ Room(s, h)
    /\ breakerState(s) = "half-open" => ~trialInFlight[s]

Starts(c, s, h, retryable) ==
    /\ call[c] = None
    /\ Admits(s, h)
    /\ acquire(s, h)
    /\ trialInFlight' = [trialInFlight EXCEPT ![s] = @ \/ breakerState(s) = "half-open"]
    /\ call' = [call EXCEPT ![c] =
                   [service |-> s, holder |-> h, retryable |-> retryable, attempt |-> 1,
                    trial |-> IF breakerState(s) = "half-open" THEN "ours" ELSE "no"]]
    /\ UNCHANGED <<failures, openUntil>>

\* The backend was busy or out of reach, and the lookup is tried a second time.
Retries(c) ==
    /\ call[c] # None /\ call[c].retryable /\ call[c].attempt = 1
    /\ call' = [call EXCEPT ![c].attempt = 2]
    /\ UNCHANGED <<failures, openUntil, trialInFlight, inFlight>>

\* The call is over; every path out of it lowers the flag, whoever has raised it.
Ends(c) ==
    LET s == call[c].service IN
    /\ release(s, call[c].holder)
    /\ call' = [d \in Calls |->
           IF d = c THEN None
           ELSE IF call[d] # None /\ call[d].service = s /\ call[d].trial = "ours"
                THEN [call[d] EXCEPT !.trial = "lost"]
           ELSE call[d]]

recordSuccess(s) ==
    /\ failures' = [failures EXCEPT ![s] = 0]
    /\ openUntil' = [openUntil EXCEPT ![s] = "never"]
    /\ trialInFlight' = [trialInFlight EXCEPT ![s] = FALSE]

\* Variant: a failure leaves the flag up.
recordFailureOnly(s) ==
    LET n == IF failures[s] < BREAKER_FAILURES THEN failures[s] + 1 ELSE failures[s] IN
    /\ failures' = [failures EXCEPT ![s] = n]
    /\ openUntil' = [openUntil EXCEPT ![s] = IF n >= BREAKER_FAILURES THEN "ahead" ELSE @]
    /\ UNCHANGED trialInFlight

recordFailure(s) ==
    LET n == IF failures[s] < BREAKER_FAILURES THEN failures[s] + 1 ELSE failures[s] IN
    /\ failures' = [failures EXCEPT ![s] = n]
    /\ openUntil' = [openUntil EXCEPT ![s] = IF n >= BREAKER_FAILURES THEN "ahead" ELSE @]
    /\ trialInFlight' = [trialInFlight EXCEPT ![s] = FALSE]

\* Any answer that is no failure of the backend, an error status below 500 included.
Succeeds(c) ==
    /\ call[c] # None
    /\ recordSuccess(call[c].service)
    /\ Ends(c)

\* A 500 or an answer too large at once, anything else when it is not tried again.
Fails(c) ==
    /\ call[c] # None
    /\ recordFailure(call[c].service)
    /\ Ends(c)

\* Variant: a caller who leaves changes nothing in the breaker.
LowersNothing(s) == UNCHANGED trialInFlight

Lowers(s) == trialInFlight' = [trialInFlight EXCEPT ![s] = FALSE]

\* The caller has left: no failure of the backend's.
Leaves(c) ==
    /\ call[c] # None
    /\ Lowers(call[c].service)
    /\ Ends(c)
    /\ UNCHANGED <<failures, openUntil>>

UpstreamNext ==
    \/ \E c \in Calls :
        \/ \E s \in Services, h \in Holders, retryable \in BOOLEAN : Starts(c, s, h, retryable)
        \/ Retries(c) \/ Succeeds(c) \/ Fails(c) \/ Leaves(c)
    \/ \E s \in Services : Elapse(s)

\* What the client does, whoever calls it.
UpstreamSpec == UpstreamInit /\ [][UpstreamNext]_upstream

----------------------------------------------------------------------------
(* Properties.                                                             *)

UpstreamTypeOK ==
    /\ failures \in [Services -> 0 .. BREAKER_FAILURES]
    /\ openUntil \in [Services -> {"never", "ahead", "passed"}]
    /\ trialInFlight \in [Services -> BOOLEAN]
    /\ inFlight \in [Slots -> Nat]
    /\ call \in [Calls -> Call \cup {None}]

\* The counts of calls in flight are those of the calls there are, and within the
\* ceilings: no refusal, retry, failure or caller who leaves keeps a place taken
\* (acquire and the finally of callUpstream).
PlacesAreReturned ==
    \A x \in Slots :
        /\ inFlight[x] = Cardinality(Of(x))
        /\ inFlight[x] <= IF Len(x) = 1 THEN MaxInFlight ELSE MaxInFlightPerHolder

\* While the flag of a trial is up, the one call that raised it is under way: the
\* breaker is not shut for good by a trial whose caller left, nor are two calls let
\* through unless an older call has lowered the flag (trialInFlight in callUpstream).
FlaggedTrialRuns ==
    \A s \in Services :
        Cardinality({c \in Of(<<s>>) : call[c].trial = "ours"}) = IF trialInFlight[s] THEN 1 ELSE 0

\* "exactly one call tests whether the backend is back" (client.ts).  The older calls
\* that end meanwhile refute it.
OneTrial ==
    \A s \in Services : Cardinality({c \in Of(<<s>>) : call[c].trial # "no"}) <= 1

=============================================================================
