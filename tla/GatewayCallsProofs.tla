------------------------- MODULE GatewayCallsProofs -------------------------
(***************************************************************************)
(* Proofs about UpstreamClient, for any calls, backends, keys and          *)
(* ceilings, and that GatewayCalls uses it as it is: its theorems hold of  *)
(* the whole gateway.                                                      *)
(***************************************************************************)
EXTENDS GatewayCalls, TLAPS, FiniteSetTheorems

----------------------------------------------------------------------------
(* Type correctness.                                                       *)

\* The slots a call takes a place in.
SlotsOf(s, h) == {<<s>>, <<s, h>>}

LEMMA SlotsOfACall ==
    ASSUME NEW s \in Services, NEW h \in Holders
    PROVE  /\ <<s>> \in Slots /\ <<s, h>> \in Slots
           /\ Len(<<s>>) = 1 /\ Len(<<s, h>>) = 2
BY DEF Slots

\* A call under way is a call.
LEMMA UnderWay ==
    ASSUME UpstreamTypeOK, NEW c \in Calls, call[c] # None
    PROVE  /\ call[c] \in Call
           /\ call[c].service \in Services /\ call[c].holder \in Holders
           /\ call[c].trial \in {"no", "ours", "lost"}
<1>1. call[c] \in Call
    BY DEF UpstreamTypeOK
<1>2. QED
    BY <1>1 DEF Call

\* The calls that take a place in a slot.
LEMMA InSlot ==
    ASSUME NEW x, NEW c
    PROVE  c \in Of(x) <=>
               /\ c \in Calls /\ call[c] # None
               /\ x \in SlotsOf(call[c].service, call[c].holder)
BY DEF Of, InFlight, SlotsOf

LEMMA OfIsFinite ==
    ASSUME NEW x
    PROVE  IsFiniteSet(Of(x)) /\ Cardinality(Of(x)) \in Nat
<1>1. Of(x) \subseteq Calls
    BY DEF Of, InFlight
<1>2. IsFiniteSet(Of(x))
    BY <1>1, CallsAssumption, FS_Subset
<1>3. QED
    BY <1>2, FS_CardinalityType

\* How a call that starts, is tried again or ends changes the calls there are.
Begun(c, s, h, retryable) ==
    [service |-> s, holder |-> h, retryable |-> retryable, attempt |-> 1,
     trial |-> IF breakerState(s) = "half-open" THEN "ours" ELSE "no"]

LEMMA BegunIsACall ==
    ASSUME NEW c \in Calls, NEW s \in Services, NEW h \in Holders, NEW retryable \in BOOLEAN
    PROVE  Begun(c, s, h, retryable) \in Call /\ Begun(c, s, h, retryable) # None
<1>1. Begun(c, s, h, retryable) \in Call
    BY DEF Begun, Call
<1>2. QED
    BY <1>1, CallsAssumption

LEMMA StartsShape ==
    ASSUME UpstreamTypeOK,
           NEW c \in Calls, NEW s \in Services, NEW h \in Holders, NEW retryable \in BOOLEAN,
           Starts(c, s, h, retryable)
    PROVE  /\ call[c] = None
           /\ call' = [call EXCEPT ![c] = Begun(c, s, h, retryable)]
           /\ call' \in [Calls -> Call \cup {None}]
<1>1. call' = [call EXCEPT ![c] = Begun(c, s, h, retryable)]
    BY DEF Starts, Begun
<1>2. call[c] = None
    BY DEF Starts
<1>3. call' \in [Calls -> Call \cup {None}]
    BY <1>1, BegunIsACall DEF UpstreamTypeOK
<1>4. QED
    BY <1>1, <1>2, <1>3

LEMMA RetriesShape ==
    ASSUME UpstreamTypeOK, NEW c \in Calls, Retries(c)
    PROVE  /\ call' \in [Calls -> Call \cup {None}]
           /\ \A d \in Calls :
                /\ call'[d] = None <=> call[d] = None
                /\ call[d] # None =>
                     /\ call'[d].service = call[d].service
                     /\ call'[d].holder = call[d].holder
                     /\ call'[d].trial = call[d].trial
<1>1. call[c] \in Call /\ call[c] # None
    BY UnderWay DEF Retries
<1>2. [call[c] EXCEPT !.attempt = 2] \in Call
    BY <1>1 DEF Call
<1>3. call' = [call EXCEPT ![c] = [call[c] EXCEPT !.attempt = 2]]
    BY DEF Retries
<1>4. [call[c] EXCEPT !.attempt = 2] # None
    BY <1>2, CallsAssumption
<1>5. /\ [call[c] EXCEPT !.attempt = 2].service = call[c].service
      /\ [call[c] EXCEPT !.attempt = 2].holder = call[c].holder
      /\ [call[c] EXCEPT !.attempt = 2].trial = call[c].trial
    BY <1>1 DEF Call
<1>6. call' \in [Calls -> Call \cup {None}]
    BY <1>2, <1>3 DEF UpstreamTypeOK
<1>7. ASSUME NEW d \in Calls
      PROVE  /\ call'[d] = None <=> call[d] = None
             /\ call[d] # None =>
                  /\ call'[d].service = call[d].service
                  /\ call'[d].holder = call[d].holder
                  /\ call'[d].trial = call[d].trial
    <2>1. CASE d = c
        <3>1. call'[d] = [call[c] EXCEPT !.attempt = 2]
            BY <1>3, <2>1 DEF UpstreamTypeOK
        <3>2. QED
            BY <3>1, <2>1, <1>1, <1>4, <1>5
    <2>2. CASE d # c
        <3>1. call'[d] = call[d]
            BY <1>3, <2>2 DEF UpstreamTypeOK
        <3>2. QED
            BY <3>1
    <2>3. QED
        BY <2>1, <2>2
<1>8. QED
    BY <1>6, <1>7

LEMMA EndsShape ==
    ASSUME UpstreamTypeOK, NEW c \in Calls, call[c] # None, Ends(c)
    PROVE  /\ call' \in [Calls -> Call \cup {None}]
           /\ call'[c] = None
           /\ \A d \in Calls \ {c} :
                /\ call'[d] = None <=> call[d] = None
                /\ call[d] # None =>
                     /\ call'[d].service = call[d].service
                     /\ call'[d].holder = call[d].holder
                     /\ call'[d].trial = IF call[d].service = call[c].service
                                            /\ call[d].trial = "ours"
                                         THEN "lost" ELSE call[d].trial
<1>1. call' = [d \in Calls |->
           IF d = c THEN None
           ELSE IF call[d] # None /\ call[d].service = call[c].service /\ call[d].trial = "ours"
                THEN [call[d] EXCEPT !.trial = "lost"]
           ELSE call[d]]
    BY DEF Ends
<1>2. ASSUME NEW d \in Calls, call[d] # None
      PROVE  /\ [call[d] EXCEPT !.trial = "lost"] \in Call
             /\ [call[d] EXCEPT !.trial = "lost"] # None
             /\ [call[d] EXCEPT !.trial = "lost"].service = call[d].service
             /\ [call[d] EXCEPT !.trial = "lost"].holder = call[d].holder
             /\ [call[d] EXCEPT !.trial = "lost"].trial = "lost"
    <2>1. call[d] \in Call
        BY <1>2, UnderWay
    <2>2. [call[d] EXCEPT !.trial = "lost"] \in Call
        BY <2>1 DEF Call
    <2>3. QED
        BY <2>1, <2>2, CallsAssumption DEF Call
<1>3. \A d \in Calls : call[d] \in Call \cup {None}
    BY DEF UpstreamTypeOK
<1>4. call' \in [Calls -> Call \cup {None}]
    BY <1>1, <1>2, <1>3
<1>5. call'[c] = None
    BY <1>1
<1>6. ASSUME NEW d \in Calls \ {c}
      PROVE  /\ call'[d] = None <=> call[d] = None
             /\ call[d] # None =>
                  /\ call'[d].service = call[d].service
                  /\ call'[d].holder = call[d].holder
                  /\ call'[d].trial = IF call[d].service = call[c].service
                                         /\ call[d].trial = "ours"
                                      THEN "lost" ELSE call[d].trial
    <2>1. CASE call[d] # None /\ call[d].service = call[c].service /\ call[d].trial = "ours"
        <3>1. call'[d] = [call[d] EXCEPT !.trial = "lost"]
            BY <1>1, <2>1
        <3>2. QED
            BY <3>1, <2>1, <1>2
    <2>2. CASE ~(call[d] # None /\ call[d].service = call[c].service /\ call[d].trial = "ours")
        <3>1. call'[d] = call[d]
            BY <1>1, <2>2
        <3>2. QED
            BY <3>1, <2>2
    <2>3. QED
        BY <2>1, <2>2
<1>7. QED
    BY <1>4, <1>5, <1>6


\* The calls that take a place in a slot, after each step.
LEMMA StartsPlaces ==
    ASSUME UpstreamTypeOK,
           NEW c \in Calls, NEW s \in Services, NEW h \in Holders, NEW retryable \in BOOLEAN,
           Starts(c, s, h, retryable), NEW x
    PROVE  Of(x)' = IF x \in SlotsOf(s, h) THEN Of(x) \cup {c} ELSE Of(x)
<1> DEFINE r == Begun(c, s, h, retryable)
<1>1. call[c] = None /\ call' = [call EXCEPT ![c] = r]
    BY StartsShape
<1>2. r # None /\ r.service = s /\ r.holder = h
    BY BegunIsACall DEF Begun
<1>3. call'[c] = r /\ \A d \in Calls \ {c} : call'[d] = call[d]
    BY <1>1 DEF UpstreamTypeOK
<1>4. c \in Of(x)' <=> x \in SlotsOf(s, h)
    BY <1>2, <1>3 DEF Of, InFlight, SlotsOf
<1>5. c \notin Of(x)
    BY <1>1 DEF Of, InFlight
<1>6. \A d \in Calls \ {c} : d \in Of(x)' <=> d \in Of(x)
    BY <1>3 DEF Of, InFlight
<1>7. Of(x) \subseteq Calls /\ Of(x)' \subseteq Calls
    BY DEF Of, InFlight
<1>8. QED
    BY <1>4, <1>5, <1>6, <1>7

LEMMA RetriesPlaces ==
    ASSUME UpstreamTypeOK, NEW c \in Calls, Retries(c), NEW x
    PROVE  Of(x)' = Of(x)
<1>1. \A d \in Calls :
        /\ call'[d] = None <=> call[d] = None
        /\ call[d] # None =>
             call'[d].service = call[d].service /\ call'[d].holder = call[d].holder
    BY RetriesShape
<1>2. \A d \in Calls : d \in Of(x)' <=> d \in Of(x)
    BY <1>1 DEF Of, InFlight
<1>3. Of(x) \subseteq Calls /\ Of(x)' \subseteq Calls
    BY DEF Of, InFlight
<1>4. QED
    BY <1>2, <1>3

LEMMA EndsPlaces ==
    ASSUME UpstreamTypeOK, NEW c \in Calls, call[c] # None, Ends(c), NEW x
    PROVE  Of(x)' = Of(x) \ {c}
<1>1. call'[c] = None /\ \A d \in Calls \ {c} :
        /\ call'[d] = None <=> call[d] = None
        /\ call[d] # None =>
             call'[d].service = call[d].service /\ call'[d].holder = call[d].holder
    BY EndsShape
<1>2. c \notin Of(x)'
    BY <1>1 DEF Of, InFlight
<1>3. \A d \in Calls \ {c} : d \in Of(x)' <=> d \in Of(x)
    BY <1>1 DEF Of, InFlight
<1>4. Of(x) \subseteq Calls /\ Of(x)' \subseteq Calls
    BY DEF Of, InFlight
<1>5. QED
    BY <1>2, <1>3, <1>4

----------------------------------------------------------------------------
(* The counts of calls in flight.                                          *)

\* A place is only given back by a call that has one.
LEMMA PlaceTaken ==
    ASSUME UpstreamTypeOK, PlacesAreReturned,
           NEW c \in Calls, call[c] # None,
           NEW x \in SlotsOf(call[c].service, call[c].holder)
    PROVE  c \in Of(x) /\ inFlight[x] - 1 \in Nat
<1>1. x \in Slots
    BY UnderWay, SlotsOfACall DEF SlotsOf
<1>2. c \in Of(x)
    BY InSlot
<1>3. Cardinality(Of(x)) # 0
    BY <1>2, OfIsFinite, FS_EmptySet
<1>4. inFlight[x] = Cardinality(Of(x))
    BY <1>1 DEF PlacesAreReturned
<1>5. QED
    BY <1>2, <1>3, <1>4, OfIsFinite

Ceiling(x) == IF Len(x) = 1 THEN MaxInFlight ELSE MaxInFlightPerHolder

LEMMA StartsKeepsCounts ==
    ASSUME UpstreamTypeOK, PlacesAreReturned,
           NEW c \in Calls, NEW s \in Services, NEW h \in Holders, NEW retryable \in BOOLEAN,
           Starts(c, s, h, retryable)
    PROVE  inFlight' \in [Slots -> Nat] /\ PlacesAreReturned'
<1>1. inFlight' = [x \in Slots |-> IF x \in SlotsOf(s, h) THEN inFlight[x] + 1 ELSE inFlight[x]]
    BY DEF Starts, acquire, SlotsOf
<1>2. inFlight[<<s>>] < MaxInFlight /\ inFlight[<<s, h>>] < MaxInFlightPerHolder
    BY DEF Starts, Admits, Room
<1>3. call[c] = None
    BY StartsShape
<1>4. \A x \in Slots : inFlight[x] \in Nat
    BY DEF UpstreamTypeOK
<1>5. inFlight' \in [Slots -> Nat]
    BY <1>1, <1>4
<1>6. ASSUME NEW x \in Slots
      PROVE  inFlight'[x] = Cardinality(Of(x)') /\ inFlight'[x] <= Ceiling(x)
    <2>1. inFlight[x] = Cardinality(Of(x)) /\ inFlight[x] <= Ceiling(x)
        BY DEF PlacesAreReturned, Ceiling
    <2>2. CASE x \in SlotsOf(s, h)
        <3>1. c \notin Of(x)
            BY <1>3, InSlot
        <3>2. Of(x)' = Of(x) \cup {c}
            BY <2>2, StartsPlaces
        <3>3. Cardinality(Of(x)') = Cardinality(Of(x)) + 1
            BY <3>1, <3>2, OfIsFinite, FS_AddElement
        <3>4. inFlight[x] < Ceiling(x)
            BY <1>2, <2>2, SlotsOfACall DEF SlotsOf, Ceiling
        <3>5. inFlight'[x] = inFlight[x] + 1
            BY <1>1, <2>2
        <3>6. Ceiling(x) \in Nat
            BY CeilingsAssumption DEF Ceiling
        <3>7. QED
            BY <2>1, <3>3, <3>4, <3>5, <3>6, <1>4
    <2>3. CASE x \notin SlotsOf(s, h)
        <3>1. Of(x)' = Of(x)
            BY <2>3, StartsPlaces
        <3>2. inFlight'[x] = inFlight[x]
            BY <1>1, <2>3
        <3>3. QED
            BY <2>1, <3>1, <3>2
    <2>4. QED
        BY <2>2, <2>3
<1>7. QED
    BY <1>5, <1>6 DEF PlacesAreReturned, Ceiling

LEMMA EndsKeepsCounts ==
    ASSUME UpstreamTypeOK, PlacesAreReturned, NEW c \in Calls, call[c] # None, Ends(c)
    PROVE  inFlight' \in [Slots -> Nat] /\ PlacesAreReturned'
<1>1. inFlight' = [x \in Slots |->
        IF x \in SlotsOf(call[c].service, call[c].holder) THEN inFlight[x] - 1 ELSE inFlight[x]]
    BY DEF Ends, release, SlotsOf
<1>2. \A x \in Slots : inFlight[x] \in Nat
    BY DEF UpstreamTypeOK
<1>3. inFlight' \in [Slots -> Nat]
    BY <1>1, <1>2, PlaceTaken
<1>4. ASSUME NEW x \in Slots
      PROVE  inFlight'[x] = Cardinality(Of(x)') /\ inFlight'[x] <= Ceiling(x)
    <2>1. inFlight[x] = Cardinality(Of(x)) /\ inFlight[x] <= Ceiling(x)
        BY DEF PlacesAreReturned, Ceiling
    <2>2. Ceiling(x) \in Nat
        BY CeilingsAssumption DEF Ceiling
    <2>3. Of(x)' = Of(x) \ {c}
        BY EndsPlaces
    <2>4. CASE x \in SlotsOf(call[c].service, call[c].holder)
        <3>1. c \in Of(x)
            BY <2>4, PlaceTaken
        <3>2. Cardinality(Of(x)') = Cardinality(Of(x)) - 1
            BY <3>1, <2>3, OfIsFinite, FS_RemoveElement
        <3>3. inFlight'[x] = inFlight[x] - 1
            BY <1>1, <2>4
        <3>4. QED
            BY <2>1, <2>2, <3>2, <3>3, <1>2
    <2>5. CASE x \notin SlotsOf(call[c].service, call[c].holder)
        <3>1. c \notin Of(x)
            BY <2>5, InSlot
        <3>2. Of(x)' = Of(x)
            BY <3>1, <2>3
        <3>3. inFlight'[x] = inFlight[x]
            BY <1>1, <2>5
        <3>4. QED
            BY <2>1, <3>2, <3>3
    <2>6. QED
        BY <2>4, <2>5
<1>5. QED
    BY <1>3, <1>4 DEF PlacesAreReturned, Ceiling

----------------------------------------------------------------------------
(* The flag of the trial.                                                  *)

\* The trials of a backend whose flag is their own.
Ours(s) == {c \in Of(<<s>>) : call[c].trial = "ours"}

LEMMA NoneOrOne ==
    ASSUME NEW S \in SUBSET Calls
    PROVE  /\ Cardinality(S) = 0 <=> S = {}
           /\ Cardinality(S) = 1 <=> \E c : S = {c}
<1>1. IsFiniteSet(S)
    BY CallsAssumption, FS_Subset
<1>2. QED
    BY <1>1, FS_EmptySet, FS_Singleton

\* FlaggedTrialRuns, in terms of who has raised the flag.
LEMMA FlagInSets ==
    ASSUME FlaggedTrialRuns, NEW s \in Services
    PROVE  IF trialInFlight[s] THEN \E c : Ours(s) = {c} ELSE Ours(s) = {}
<1>1. Ours(s) \subseteq Calls
    BY DEF Ours, Of, InFlight
<1>2. Cardinality(Ours(s)) = IF trialInFlight[s] THEN 1 ELSE 0
    BY DEF FlaggedTrialRuns, Ours
<1>3. QED
    BY <1>1, <1>2, NoneOrOne

LEMMA FlagFromSets ==
    ASSUME \A s \in Services :
             IF trialInFlight'[s] THEN \E c : Ours(s)' = {c} ELSE Ours(s)' = {}
    PROVE  FlaggedTrialRuns'
<1>1. ASSUME NEW s \in Services
      PROVE  Cardinality(Ours(s)') = IF trialInFlight'[s] THEN 1 ELSE 0
    <2>1. Ours(s)' \subseteq Calls
        BY DEF Ours, Of, InFlight
    <2>2. QED
        BY <2>1, NoneOrOne
<1>2. QED
    BY <1>1 DEF FlaggedTrialRuns, Ours

LEMMA OursAre ==
    ASSUME NEW s \in Services, NEW c
    PROVE  c \in Ours(s) <=>
               /\ c \in Calls /\ call[c] # None
               /\ call[c].service = s /\ call[c].trial = "ours"
<1>1. <<s>> \in SlotsOf(call[c].service, call[c].holder) <=> call[c].service = s
    BY DEF SlotsOf
<1>2. QED
    BY <1>1, InSlot DEF Ours

LEMMA StartsKeepsFlag ==
    ASSUME UpstreamTypeOK, FlaggedTrialRuns,
           NEW c \in Calls, NEW s \in Services, NEW h \in Holders, NEW retryable \in BOOLEAN,
           Starts(c, s, h, retryable)
    PROVE  trialInFlight' \in [Services -> BOOLEAN] /\ FlaggedTrialRuns'
<1> DEFINE r == Begun(c, s, h, retryable)
<1>1. call[c] = None /\ call' = [call EXCEPT ![c] = r]
    BY StartsShape
<1>2. /\ r # None /\ r.service = s
      /\ r.trial = "ours" <=> breakerState(s) = "half-open"
    BY BegunIsACall DEF Begun
<1>3. call'[c] = r /\ \A d \in Calls \ {c} : call'[d] = call[d]
    BY <1>1 DEF UpstreamTypeOK
<1>4. trialInFlight' = [trialInFlight EXCEPT ![s] = @ \/ breakerState(s) = "half-open"]
    BY DEF Starts
<1>5. breakerState(s) = "half-open" => ~trialInFlight[s]
    BY DEF Starts, Admits
<1>6. trialInFlight \in [Services -> BOOLEAN]
    BY DEF UpstreamTypeOK
<1>7. trialInFlight' \in [Services -> BOOLEAN]
    BY <1>4, <1>6
<1>8. ASSUME NEW t \in Services
      PROVE  IF trialInFlight'[t] THEN \E d : Ours(t)' = {d} ELSE Ours(t)' = {}
    <2>1. \A d : d \in Ours(t)' <=>
                   /\ d \in Calls /\ call'[d] # None
                   /\ call'[d].service = t /\ call'[d].trial = "ours"
        BY DEF Ours, Of, InFlight
    <2>2. c \notin Ours(t)
        BY <1>1, OursAre
    <2>3. \A d : d # c => (d \in Ours(t)' <=> d \in Ours(t))
        BY <1>3, <2>1, OursAre
    <2>4. IF trialInFlight[t] THEN \E d : Ours(t) = {d} ELSE Ours(t) = {}
        BY FlagInSets
    <2>5. CASE t = s /\ breakerState(s) = "half-open"
        <3>1. trialInFlight'[t]
            BY <1>4, <1>6, <2>5
        <3>2. Ours(t) = {}
            BY <1>5, <2>4, <2>5
        <3>3. c \in Ours(t)'
            BY <1>2, <1>3, <2>1, <2>5
        <3>4. Ours(t)' = {c}
            BY <2>3, <3>2, <3>3
        <3>5. QED
            BY <3>1, <3>4
    <2>6. CASE ~(t = s /\ breakerState(s) = "half-open")
        <3>1. trialInFlight'[t] = trialInFlight[t]
            BY <1>4, <1>6, <2>6
        <3>2. c \notin Ours(t)'
            BY <1>2, <1>3, <2>1, <2>6
        <3>3. Ours(t)' = Ours(t)
            BY <2>2, <2>3, <3>2
        <3>4. QED
            BY <2>4, <3>1, <3>3
    <2>7. QED
        BY <2>5, <2>6
<1>9. QED
    BY <1>7, <1>8, FlagFromSets

\* Every way a call ends lowers the flag of its backend, and leaves the others.
LEMMA EndsKeepsFlag ==
    ASSUME UpstreamTypeOK, FlaggedTrialRuns, NEW c \in Calls, call[c] # None, Ends(c),
           trialInFlight' = [trialInFlight EXCEPT ![call[c].service] = FALSE]
    PROVE  trialInFlight' \in [Services -> BOOLEAN] /\ FlaggedTrialRuns'
<1>1. trialInFlight \in [Services -> BOOLEAN] /\ call[c].service \in Services
    BY UnderWay DEF UpstreamTypeOK
<1>2. trialInFlight' \in [Services -> BOOLEAN]
    BY <1>1
<1>3. /\ call'[c] = None
      /\ \A d \in Calls \ {c} :
           /\ call'[d] = None <=> call[d] = None
           /\ call[d] # None =>
                /\ call'[d].service = call[d].service
                /\ call'[d].trial = IF call[d].service = call[c].service
                                       /\ call[d].trial = "ours"
                                    THEN "lost" ELSE call[d].trial
    BY EndsShape
<1>4. ASSUME NEW t \in Services
      PROVE  IF trialInFlight'[t] THEN \E d : Ours(t)' = {d} ELSE Ours(t)' = {}
    <2>1. \A d : d \in Ours(t)' <=>
                   /\ d \in Calls /\ call'[d] # None
                   /\ call'[d].service = t /\ call'[d].trial = "ours"
        BY DEF Ours, Of, InFlight
    <2>2. IF trialInFlight[t] THEN \E d : Ours(t) = {d} ELSE Ours(t) = {}
        BY FlagInSets
    <2>3. CASE t = call[c].service
        <3>1. ~trialInFlight'[t]
            BY <1>1, <2>3
        <3>2. \A d : d \notin Ours(t)'
            BY <1>3, <2>1, <2>3
        <3>3. QED
            BY <3>1, <3>2
    <2>4. CASE t # call[c].service
        <3>1. trialInFlight'[t] = trialInFlight[t]
            BY <1>1, <2>4
        <3>2. \A d : d \in Ours(t)' <=> d \in Ours(t)
            BY <1>3, <2>1, <2>4, OursAre
        <3>3. QED
            BY <2>2, <3>1, <3>2
    <2>5. QED
        BY <2>3, <2>4
<1>5. QED
    BY <1>2, <1>4, FlagFromSets

----------------------------------------------------------------------------
(* The theorems.                                                           *)

UpstreamInv == UpstreamTypeOK /\ PlacesAreReturned /\ FlaggedTrialRuns

LEMMA RowsAfterAnAnswer ==
    ASSUME UpstreamTypeOK, NEW s \in Services, recordSuccess(s) \/ recordFailure(s)
    PROVE  /\ failures' \in [Services -> 0 .. BREAKER_FAILURES]
           /\ openUntil' \in [Services -> {"never", "ahead", "passed"}]
           /\ trialInFlight' = [trialInFlight EXCEPT ![s] = FALSE]
<1>1. failures[s] \in 0 .. BREAKER_FAILURES /\ openUntil[s] \in {"never", "ahead", "passed"}
    BY DEF UpstreamTypeOK
<1>2. CASE recordSuccess(s)
    BY <1>2, CeilingsAssumption DEF recordSuccess, UpstreamTypeOK
<1>3. CASE recordFailure(s)
    <2> DEFINE n == IF failures[s] < BREAKER_FAILURES THEN failures[s] + 1 ELSE failures[s]
               u == IF n >= BREAKER_FAILURES THEN "ahead" ELSE openUntil[s]
    <2>1. /\ failures' = [failures EXCEPT ![s] = n]
          /\ openUntil' = [openUntil EXCEPT ![s] = u]
          /\ trialInFlight' = [trialInFlight EXCEPT ![s] = FALSE]
        BY <1>3 DEF recordFailure
    <2>2. n \in 0 .. BREAKER_FAILURES /\ u \in {"never", "ahead", "passed"}
        BY <1>1, CeilingsAssumption
    <2>3. QED
        BY <2>1, <2>2 DEF UpstreamTypeOK
<1>4. QED
    BY <1>2, <1>3

LEMMA UpstreamInitHolds == UpstreamInit => UpstreamInv
<1> SUFFICES ASSUME UpstreamInit PROVE UpstreamInv
    OBVIOUS
<1>1. UpstreamTypeOK
    BY CeilingsAssumption DEF UpstreamInit, UpstreamTypeOK
<1>2. \A x : Of(x) = {}
    BY DEF UpstreamInit, Of, InFlight
<1>3. PlacesAreReturned
    BY <1>2, FS_EmptySet, CeilingsAssumption DEF UpstreamInit, PlacesAreReturned
<1>4. FlaggedTrialRuns
    <2>1. \A s \in Services : {c \in Of(<<s>>) : call[c].trial = "ours"} = {}
        BY <1>2
    <2>2. QED
        BY <2>1, FS_EmptySet DEF UpstreamInit, FlaggedTrialRuns
<1>5. QED
    BY <1>1, <1>3, <1>4 DEF UpstreamInv

LEMMA EndKeepsInv ==
    ASSUME UpstreamInv, NEW c \in Calls, Succeeds(c) \/ Fails(c) \/ Leaves(c)
    PROVE  UpstreamInv'
<1>1. UpstreamTypeOK /\ PlacesAreReturned /\ FlaggedTrialRuns
    BY DEF UpstreamInv
<1>2. call[c] # None /\ Ends(c)
    BY DEF Succeeds, Fails, Leaves
<1>3. call[c].service \in Services
    BY <1>1, <1>2, UnderWay
<1>4. /\ failures' \in [Services -> 0 .. BREAKER_FAILURES]
      /\ openUntil' \in [Services -> {"never", "ahead", "passed"}]
      /\ trialInFlight' = [trialInFlight EXCEPT ![call[c].service] = FALSE]
    <2>1. CASE Succeeds(c)
        BY <2>1, <1>1, <1>3, RowsAfterAnAnswer DEF Succeeds
    <2>2. CASE Fails(c)
        BY <2>2, <1>1, <1>3, RowsAfterAnAnswer DEF Fails
    <2>3. CASE Leaves(c)
        BY <2>3, <1>1 DEF Leaves, Lowers, UpstreamTypeOK
    <2>4. QED
        BY <2>1, <2>2, <2>3
<1>5. call' \in [Calls -> Call \cup {None}]
    BY <1>1, <1>2, EndsShape
<1>6. inFlight' \in [Slots -> Nat] /\ PlacesAreReturned'
    BY <1>1, <1>2, EndsKeepsCounts
<1>7. trialInFlight' \in [Services -> BOOLEAN] /\ FlaggedTrialRuns'
    BY <1>1, <1>2, <1>4, EndsKeepsFlag
<1>8. QED
    BY <1>4, <1>5, <1>6, <1>7 DEF UpstreamInv, UpstreamTypeOK

LEMMA RetryKeepsInv ==
    ASSUME UpstreamInv, NEW c \in Calls, Retries(c)
    PROVE  UpstreamInv'
<1>1. UpstreamTypeOK /\ PlacesAreReturned /\ FlaggedTrialRuns
    BY DEF UpstreamInv
<1>2. UNCHANGED <<failures, openUntil, trialInFlight, inFlight>>
    BY DEF Retries
<1>3. UpstreamTypeOK'
    BY <1>1, <1>2, RetriesShape DEF UpstreamTypeOK
<1>4. \A x : Of(x)' = Of(x)
    BY <1>1, RetriesPlaces
<1>5. PlacesAreReturned'
    BY <1>1, <1>2, <1>4 DEF PlacesAreReturned
<1>6. \A s \in Services : Ours(s)' = Ours(s)
    <2>1. \A d \in Calls : call[d] # None => call'[d].trial = call[d].trial
        BY <1>1, RetriesShape
    <2>2. \A s \in Services : \A d \in Of(<<s>>) : d \in Calls /\ call[d] # None
        BY InSlot
    <2>3. QED
        BY <1>4, <2>1, <2>2 DEF Ours
<1>7. FlaggedTrialRuns'
    BY <1>1, <1>2, <1>6, FlagInSets, FlagFromSets
<1>8. QED
    BY <1>3, <1>5, <1>7 DEF UpstreamInv

LEMMA StartKeepsInv ==
    ASSUME UpstreamInv,
           NEW c \in Calls, NEW s \in Services, NEW h \in Holders, NEW retryable \in BOOLEAN,
           Starts(c, s, h, retryable)
    PROVE  UpstreamInv'
<1>1. UpstreamTypeOK /\ PlacesAreReturned /\ FlaggedTrialRuns
    BY DEF UpstreamInv
<1>2. UNCHANGED <<failures, openUntil>>
    BY DEF Starts
<1>3. call' \in [Calls -> Call \cup {None}]
    BY <1>1, StartsShape
<1>4. inFlight' \in [Slots -> Nat] /\ PlacesAreReturned'
    BY <1>1, StartsKeepsCounts
<1>5. trialInFlight' \in [Services -> BOOLEAN] /\ FlaggedTrialRuns'
    BY <1>1, StartsKeepsFlag
<1>6. QED
    BY <1>1, <1>2, <1>3, <1>4, <1>5 DEF UpstreamInv, UpstreamTypeOK

LEMMA ElapseKeepsInv ==
    ASSUME UpstreamInv, NEW s \in Services, Elapse(s)
    PROVE  UpstreamInv'
<1>1. UNCHANGED <<failures, trialInFlight, inFlight, call>>
    BY DEF Elapse
<1>2. openUntil' = [openUntil EXCEPT ![s] = "passed"]
    BY DEF Elapse
<1>3. UpstreamTypeOK'
    BY <1>1, <1>2 DEF UpstreamInv, UpstreamTypeOK
<1>4. PlacesAreReturned' /\ FlaggedTrialRuns'
    BY <1>1 DEF UpstreamInv, PlacesAreReturned, FlaggedTrialRuns, Of, InFlight
<1>5. QED
    BY <1>3, <1>4 DEF UpstreamInv

LEMMA UpstreamInvIsKept == UpstreamInv /\ [UpstreamNext]_upstream => UpstreamInv'
<1> SUFFICES ASSUME UpstreamInv, [UpstreamNext]_upstream PROVE UpstreamInv'
    OBVIOUS
<1>1. CASE \E c \in Calls, s \in Services, h \in Holders, retryable \in BOOLEAN :
             Starts(c, s, h, retryable)
    BY <1>1, StartKeepsInv
<1>2. CASE \E c \in Calls : Retries(c)
    BY <1>2, RetryKeepsInv
<1>3. CASE \E c \in Calls : Succeeds(c) \/ Fails(c) \/ Leaves(c)
    BY <1>3, EndKeepsInv
<1>4. CASE \E s \in Services : Elapse(s)
    BY <1>4, ElapseKeepsInv
<1>5. CASE UNCHANGED upstream
    BY <1>5 DEF upstream, UpstreamInv, UpstreamTypeOK, PlacesAreReturned, FlaggedTrialRuns,
                Of, InFlight
<1>6. QED
    BY <1>1, <1>2, <1>3, <1>4, <1>5 DEF UpstreamNext

\* Whatever calls the client serves, its breaker, its counts and its flags keep their
\* ranges (callUpstream, acquire and release).
THEOREM UpstreamTypeCorrect == UpstreamSpec => []UpstreamTypeOK
<1>1. UpstreamInv => UpstreamTypeOK
    BY DEF UpstreamInv
<1>2. QED
    BY <1>1, UpstreamInitHolds, UpstreamInvIsKept, PTL DEF UpstreamSpec

\* However many calls, backends and keys there are, the counts of acquire and release
\* are those of the calls in flight, and stay within the ceilings.
THEOREM PlacesAreAlwaysReturned == UpstreamSpec => []PlacesAreReturned
<1>1. UpstreamInv => PlacesAreReturned
    BY DEF UpstreamInv
<1>2. QED
    BY <1>1, UpstreamInitHolds, UpstreamInvIsKept, PTL DEF UpstreamSpec

\* However calls overlap, a flag that is up (trialInFlight of callUpstream) is that of
\* exactly one call under way.
THEOREM FlaggedTrialAlwaysRuns == UpstreamSpec => []FlaggedTrialRuns
<1>1. UpstreamInv => FlaggedTrialRuns
    BY DEF UpstreamInv
<1>2. QED
    BY <1>1, UpstreamInitHolds, UpstreamInvIsKept, PTL DEF UpstreamSpec

----------------------------------------------------------------------------
(* The gateway's steps are the client's, or leave the client alone.        *)

RequestsFit == request \in [Calls -> Request]

\* A request that is overwritten with a request.
LEMMA Overwritten ==
    ASSUME RequestsFit, NEW c \in Calls, NEW q \in Request,
           request' = [request EXCEPT ![c] = q]
    PROVE  RequestsFit'
BY DEF RequestsFit

LEMMA IdleFits ==
    ASSUME NEW c \in Calls, NEW s \in METERED_SERVICES,
           NEW analysis \in BOOLEAN, NEW pc \in {"analyses", "send"}
    PROVE  [Idle EXCEPT !.pc = pc, !.service = s, !.analysis = analysis] \in Request
<1>1. Desk \in METERED_SERVICES
    BY DEF METERED_SERVICES
<1>2. QED
    BY <1>1 DEF Idle, Request

LEMMA StepsOfARequest ==
    ASSUME NEW q \in Request, NEW ok \in BOOLEAN, NEW pc \in {"send", "upstream"}
    PROVE  /\ Idle \in Request /\ Answered(q, ok) \in Request
           /\ [q EXCEPT !.pc = pc] \in Request
           /\ [q EXCEPT !.tally = "look", !.fresh = FALSE] \in Request
           /\ Left([q EXCEPT !.tally = "no"]) \in Request
           /\ Left([q EXCEPT !.tally = "no", !.fresh = FALSE]) \in Request
           /\ Left([q EXCEPT !.meter = FALSE]) \in Request
           /\ [q EXCEPT !.fresh = FALSE] \in Request
<1>1. q.service \in METERED_SERVICES /\ q.analysis \in BOOLEAN
    BY DEF Request
<1>2. Idle \in Request
    BY DEF Idle, Request, METERED_SERVICES
<1>3. ASSUME NEW tally \in {"no", "look"}, NEW fresh \in BOOLEAN
      PROVE  [q EXCEPT !.tally = tally, !.fresh = fresh] \in Request
    BY DEF Request
<1>4. [q EXCEPT !.tally = "no"] \in Request /\ [q EXCEPT !.meter = FALSE] \in Request
    BY DEF Request
<1>5. [q EXCEPT !.pc = pc] \in Request /\ [q EXCEPT !.fresh = FALSE] \in Request
    BY DEF Request
<1>6. Answered(q, ok) \in Request
    <2>1. [q EXCEPT !.pc = "after", !.tally = "insert", !.fresh = TRUE, !.meter = q.analysis]
            \in Request
        BY <1>1 DEF Request
    <2>2. QED
        BY <1>2, <2>1 DEF Answered
<1>7. \A p \in Request : Left(p) \in Request
    BY <1>2 DEF Left
<1>8. QED
    BY <1>2, <1>3, <1>4, <1>5, <1>6, <1>7

LEMMA RequestFits ==
    ASSUME RequestsFit, NEW c \in Calls
    PROVE  request[c] \in Request
BY DEF RequestsFit

LEMMA ServeKeepsRequests ==
    ASSUME RequestsFit, NEW c \in Calls, Serve(c)
    PROVE  RequestsFit'
<1>1. CASE Arrive(c)
    <2>1. PICK s \in METERED_SERVICES, analysis \in BOOLEAN :
            request' = [request EXCEPT ![c] =
               [Idle EXCEPT !.pc = IF analysis THEN "analyses" ELSE "send",
                            !.service = s, !.analysis = analysis]]
        BY <1>1 DEF Arrive
    <2>2. PICK pc \in {"analyses", "send"} : pc = IF analysis THEN "analyses" ELSE "send"
        OBVIOUS
    <2>3. QED
        BY <2>1, <2>2, IdleFits, Overwritten
<1>2. CASE CheckAnalyses(c)
    <2>1. \/ request' = [request EXCEPT ![c] = [request[c] EXCEPT !.pc = "send"]]
          \/ request' = [request EXCEPT ![c] = Idle]
        BY <1>2 DEF CheckAnalyses
    <2>2. QED
        BY <2>1, RequestFits, StepsOfARequest, Overwritten
<1>3. CASE AnswerHere(c) \/ Answer(c)
    <2>1. PICK ok \in BOOLEAN : request' = [request EXCEPT ![c] = Answered(request[c], ok)]
        BY <1>3 DEF AnswerHere, Answer
    <2>2. QED
        BY <2>1, RequestFits, StepsOfARequest, Overwritten
<1>4. CASE Forward(c)
    <2>1. request' = [request EXCEPT ![c] = [request[c] EXCEPT !.pc = "upstream"]]
        BY <1>4 DEF Forward
    <2>2. QED
        BY <2>1, RequestFits, StepsOfARequest, Overwritten
<1>5. CASE Unavailable(c) \/ Failure(c)
    <2>1. request' = [request EXCEPT ![c] = Idle]
        BY <1>5 DEF Unavailable, Failure
    <2>2. QED
        BY <2>1, RequestFits, StepsOfARequest, Overwritten
<1>6. CASE Retry(c)
    BY <1>6 DEF Retry, RequestsFit
<1>7. QED
    BY <1>1, <1>2, <1>3, <1>4, <1>5, <1>6 DEF Serve, Ending

LEMMA CountKeepsRequests ==
    ASSUME RequestsFit, NEW c \in Calls, Count(c)
    PROVE  RequestsFit'
<1> DEFINE q == request[c]
<1>1. CASE Tally(c)
    <2>1. request' = [request EXCEPT ![c] = [request[c] EXCEPT !.tally = "look", !.fresh = FALSE]]
        BY <1>1, RequestFits DEF Tally, RequestsFit, Request
    <2>2. QED
        BY <2>1, RequestFits, StepsOfARequest, Overwritten
<1>2. CASE Look(c)
    <2>1. request' = [request EXCEPT ![c] = Left([request[c] EXCEPT !.tally = "no"])]
        BY <1>2 DEF Look
    <2>2. QED
        BY <2>1, RequestFits, StepsOfARequest, Overwritten
<1>3. CASE TallyFails(c)
    <2>1. request' = [request EXCEPT ![c] = Left([request[c] EXCEPT !.tally = "no", !.fresh = FALSE])]
        BY <1>3 DEF TallyFails
    <2>2. QED
        BY <2>1, RequestFits, StepsOfARequest, Overwritten
<1>4. CASE Meter(c) \/ MeterFails(c)
    <2>1. request' = [request EXCEPT ![c] = Left([request[c] EXCEPT !.meter = FALSE])]
        BY <1>4 DEF Meter, MeterFails
    <2>2. QED
        BY <2>1, RequestFits, StepsOfARequest, Overwritten
<1>5. QED
    BY <1>1, <1>2, <1>3, <1>4 DEF Count

LEMMA ServeIsTheClients ==
    ASSUME RequestsFit, NEW c \in Calls, Serve(c)
    PROVE  [UpstreamNext]_upstream
<1>1. CASE Arrive(c) \/ CheckAnalyses(c) \/ AnswerHere(c) \/ Unavailable(c)
    BY <1>1 DEF Arrive, CheckAnalyses, AnswerHere, Unavailable
<1>2. CASE Forward(c)
    <2>1. PICK h \in Holders : /\ request[c].service # Desk
                              /\ Starts(c, request[c].service, h, ~request[c].analysis)
        BY <1>2 DEF Forward
    <2>2. /\ request[c].service \in Services
          /\ (~request[c].analysis) \in BOOLEAN
        BY <2>1, RequestFits DEF Request, METERED_SERVICES
    <2>3. QED
        BY <2>1, <2>2 DEF UpstreamNext
<1>3. CASE Retry(c)
    BY <1>3 DEF Retry, UpstreamNext
<1>4. CASE Answer(c)
    BY <1>4 DEF Answer, UpstreamNext
<1>5. CASE Failure(c)
    BY <1>5 DEF Failure, UpstreamNext
<1>6. QED
    BY <1>1, <1>2, <1>3, <1>4, <1>5 DEF Serve, Ending

LEMMA NextIsTheClients ==
    RequestsFit /\ [Next]_vars => RequestsFit' /\ [UpstreamNext]_upstream
<1> SUFFICES ASSUME RequestsFit, [Next]_vars
             PROVE  RequestsFit' /\ [UpstreamNext]_upstream
    OBVIOUS
<1>1. CASE \E c \in Calls : Serve(c)
    BY <1>1, ServeKeepsRequests, ServeIsTheClients
<1>2. CASE \E c \in Calls : Count(c)
    <2>1. UNCHANGED upstream
        BY <1>2 DEF Count, Tally, Look, TallyFails, Meter, MeterFails
    <2>2. QED
        BY <1>2, <2>1, CountKeepsRequests
<1>3. CASE \E s \in Services : Cools(s)
    BY <1>3 DEF Cools, UpstreamNext, RequestsFit
<1>4. CASE NewMinute
    <2>1. UNCHANGED upstream /\ request' = [c \in Calls |-> [request[c] EXCEPT !.fresh = FALSE]]
        BY <1>4 DEF NewMinute
    <2>2. \A c \in Calls : [request[c] EXCEPT !.fresh = FALSE] \in Request
        BY RequestFits, StepsOfARequest
    <2>3. QED
        BY <2>1, <2>2 DEF RequestsFit
<1>5. CASE UNCHANGED vars
    BY <1>5 DEF vars, RequestsFit
<1>6. QED
    BY <1>1, <1>2, <1>3, <1>4, <1>5 DEF Next

\* What the gateway does with the backends (forward) is what the client does, whoever
\* calls it: each of its steps is one of callUpstream's or leaves the client alone.
THEOREM GatewayImplementsClient == Spec => UpstreamSpec
<1>1. Init => RequestsFit /\ UpstreamInit
    <2>1. ASSUME NEW c \in Calls PROVE Idle \in Request
        BY DEF Idle, Request, METERED_SERVICES
    <2>2. QED
        BY <2>1 DEF Init, RequestsFit
<1>2. QED
    BY <1>1, NextIsTheClients, PTL DEF Spec, UpstreamSpec

\* So no call of the gateway's keeps a place, or a ceiling, that is another one's.
THEOREM GatewayReturnsPlaces == Spec => []PlacesAreReturned
BY GatewayImplementsClient, PlacesAreAlwaysReturned, PTL

----------------------------------------------------------------------------
(* The types of the gateway, and where a request is while a call of it is  *)
(* under way or it is counted.                                             *)

CountersFit ==
    /\ minute \in [METERED_SERVICES -> Nat]
    /\ month \in [METERED_SERVICES -> Nat]
    /\ analyses \in Nat
    /\ told \in [Meters \X Marks -> 0 .. 2]
    /\ unheard \in BOOLEAN

InStep == \A c \in Calls : call[c] # None <=> request[c].pc = "upstream"

\* Only what has been answered is counted.
AfterFit ==
    \A c \in Calls : request[c].tally # "no" \/ request[c].meter => request[c].pc = "after"

GatewayInv == UpstreamInv /\ RequestsFit /\ CountersFit /\ InStep /\ AfterFit

LEMMA GatewayInitHolds == Init => GatewayInv
<1> SUFFICES ASSUME Init PROVE GatewayInv
    OBVIOUS
<1>1. UpstreamInv
    BY UpstreamInitHolds DEF Init
<1>2. Idle \in Request
    BY DEF Idle, Request, METERED_SERVICES
<1>3. CountedBefore \in Nat
    BY BeforeAssumption
<1>4. CountersFit
    <2>1. /\ minute \in [METERED_SERVICES -> Nat] /\ month \in [METERED_SERVICES -> Nat]
          /\ analyses \in Nat
        BY <1>3 DEF Init
    <2>2. told \in [Meters \X Marks -> 0 .. 2]
        BY DEF Init
    <2>3. unheard \in BOOLEAN
        BY DEF Init
    <2>4. QED
        BY <2>1, <2>2, <2>3 DEF CountersFit
<1>5. QED
    BY <1>1, <1>2, <1>4 DEF Init, UpstreamInit, GatewayInv, RequestsFit, InStep, AfterFit, Idle

LEMMA CountersKept ==
    ASSUME GatewayInv, [Next]_vars
    PROVE  CountersFit'
<1>1. CASE \E c \in Calls : Serve(c) \/ TallyFails(c) \/ MeterFails(c)
    BY <1>1 DEF Serve, Ending, Arrive, CheckAnalyses, AnswerHere, Forward, Unavailable, Retry,
                Answer, Failure, TallyFails, MeterFails, usage, GatewayInv, CountersFit
<1>2. CASE (\E s \in Services : Cools(s)) \/ UNCHANGED vars
    BY <1>2 DEF Cools, vars, usage, GatewayInv, CountersFit
<1>3. CASE NewMinute
    BY <1>3 DEF NewMinute, GatewayInv, CountersFit
<1>4. CASE \E c \in Calls : Tally(c)
    <2>1. PICK c \in Calls : Tally(c)
        BY <1>4
    <2>2. request[c].service \in METERED_SERVICES
        BY RequestFits DEF GatewayInv, Request
    <2>3. QED
        BY <2>1, <2>2 DEF Tally, GatewayInv, CountersFit
<1>5. CASE \E c \in Calls : Look(c) \/ Meter(c)
    <2>1. UNCHANGED <<minute, month, unheard>> /\ analyses' \in Nat
        BY <1>5 DEF Look, Meter, usage, GatewayInv, CountersFit
    <2>2. PICK reached : Tell(reached)
        BY <1>5 DEF Look, Meter
    <2>3. told' \in [Meters \X Marks -> 0 .. 2]
        BY <2>2 DEF Tell, GatewayInv, CountersFit
    <2>4. QED
        BY <2>1, <2>3 DEF GatewayInv, CountersFit
<1>6. QED
    BY <1>1, <1>2, <1>3, <1>4, <1>5 DEF Next, Count

LEMMA InStepKept ==
    ASSUME GatewayInv, [Next]_vars
    PROVE  InStep' /\ AfterFit'
<1>1. ASSUME NEW c \in Calls, UNCHANGED call,
             Arrive(c) \/ CheckAnalyses(c) \/ AnswerHere(c) \/ Unavailable(c) \/ Count(c)
      PROVE  InStep' /\ AfterFit'
    <2>1. /\ \A d \in Calls \ {c} : request'[d] = request[d]
          /\ request'[c].pc # "upstream" /\ request[c].pc # "upstream"
          /\ request'[c].tally # "no" \/ request'[c].meter => request'[c].pc = "after"
        <3>1. /\ request[c] \in Request /\ request = [d \in Calls |-> request[d]]
              /\ request[c].tally # "no" \/ request[c].meter => request[c].pc = "after"
            BY RequestFits DEF GatewayInv, AfterFit, RequestsFit
        <3>2. CASE Arrive(c)
            <4>1. PICK s \in METERED_SERVICES, analysis \in BOOLEAN :
                    request' = [request EXCEPT ![c] =
                        [Idle EXCEPT !.pc = IF analysis THEN "analyses" ELSE "send",
                                     !.service = s, !.analysis = analysis]]
                BY <3>2 DEF Arrive
            <4>2. request[c].pc = "idle"
                BY <3>2 DEF Arrive
            <4>3. QED
                BY <3>1, <4>1, <4>2 DEF Idle
        <3>9. CASE Unavailable(c)
            BY <3>1, <3>9 DEF Unavailable, Idle
        <3>3. CASE CheckAnalyses(c)
            BY <3>1, <3>3 DEF CheckAnalyses, Idle, Request
        <3>4. CASE AnswerHere(c)
            BY <3>1, <3>4 DEF AnswerHere, Answered, Idle, Request
        <3>5. CASE Tally(c)
            BY <3>1, <3>5 DEF Tally, Request
        <3>6. CASE Look(c)
            <4>1. request[c].pc = "after" /\ request' =
                    [request EXCEPT ![c] = Left([request[c] EXCEPT !.tally = "no"])]
                BY <3>1, <3>6 DEF Look
            <4>2. QED
                BY <3>1, <4>1 DEF Left, Idle, Request
        <3>10. CASE TallyFails(c)
            <4>1. request[c].pc = "after" /\ request' =
                    [request EXCEPT ![c] = Left([request[c] EXCEPT !.tally = "no", !.fresh = FALSE])]
                BY <3>1, <3>10 DEF TallyFails
            <4>2. QED
                BY <3>1, <4>1 DEF Left, Idle, Request
        <3>7. CASE Meter(c) \/ MeterFails(c)
            BY <3>1, <3>7 DEF Meter, MeterFails, Left, Idle, Request
        <3>8. QED
            BY <1>1, <3>2, <3>3, <3>4, <3>5, <3>6, <3>7, <3>9, <3>10 DEF Count
    <2>2. QED
        BY <1>1, <2>1 DEF GatewayInv, InStep, AfterFit, RequestsFit
<1>2. ASSUME NEW c \in Calls, Forward(c)
      PROVE  InStep' /\ AfterFit'
    <2>1. request[c].service \in Services
        BY <1>2, RequestFits DEF GatewayInv, Forward, Request, METERED_SERVICES
    <2>2. PICK s \in Services, h \in Holders, retryable \in BOOLEAN : Starts(c, s, h, retryable)
        BY <1>2, <2>1 DEF Forward
    <2>3. PICK b : b # None /\ call' = [call EXCEPT ![c] = b]
        BY <2>2, StartsShape, BegunIsACall DEF GatewayInv, UpstreamInv
    <2>4. QED
        BY <1>2, <2>3 DEF Forward, GatewayInv, UpstreamInv, UpstreamTypeOK, InStep, AfterFit,
                          RequestsFit, Request
<1>3. ASSUME NEW c \in Calls, Retry(c)
      PROVE  InStep' /\ AfterFit'
    <2>1. \A d \in Calls : call'[d] # None <=> call[d] # None
        BY <1>3, RetriesShape DEF Retry, GatewayInv, UpstreamInv
    <2>2. QED
        BY <1>3, <2>1 DEF Retry, GatewayInv, InStep, AfterFit
<1>4. ASSUME NEW c \in Calls, Ending(c)
      PROVE  InStep' /\ AfterFit'
    <2>1. Ends(c) /\ call[c] # None
        BY <1>4 DEF Ending, Answer, Failure, Succeeds, Fails, Leaves
    <2>2. \A d \in Calls : call'[d] # None <=> d # c /\ call[d] # None
        BY <2>1, EndsShape DEF GatewayInv, UpstreamInv
    <2>3. PICK q : q.pc # "upstream" /\ (q.tally # "no" \/ q.meter => q.pc = "after")
                   /\ request' = [request EXCEPT ![c] = q]
        <3>1. request[c] \in Request
            BY RequestFits DEF GatewayInv
        <3>2. CASE Answer(c)
            BY <3>1, <3>2 DEF Answer, Answered, Idle, Request
        <3>3. CASE Failure(c)
            BY <3>3 DEF Failure, Idle
        <3>4. QED
            BY <1>4, <3>2, <3>3 DEF Ending
    <2>4. QED
        BY <2>2, <2>3 DEF GatewayInv, InStep, AfterFit, RequestsFit
<1>5. CASE NewMinute
    BY <1>5 DEF NewMinute, upstream, GatewayInv, InStep, AfterFit, RequestsFit, Request
<1>6. CASE (\E s \in Services : Cools(s)) \/ UNCHANGED vars
    BY <1>6 DEF Cools, Elapse, vars, upstream, GatewayInv, InStep, AfterFit
<1>7. \A c \in Calls : Arrive(c) \/ CheckAnalyses(c) \/ AnswerHere(c) \/ Unavailable(c) \/ Count(c)
                         => UNCHANGED call
    BY DEF Arrive, CheckAnalyses, AnswerHere, Unavailable, Count, Tally, Look, TallyFails, Meter,
           MeterFails, upstream
<1>8. QED
    BY <1>1, <1>2, <1>3, <1>4, <1>5, <1>6, <1>7 DEF Next, Serve

LEMMA GatewayInvIsKept == GatewayInv /\ [Next]_vars => GatewayInv'
<1> SUFFICES ASSUME GatewayInv, [Next]_vars PROVE GatewayInv'
    OBVIOUS
<1>1. RequestsFit' /\ UpstreamInv'
    BY NextIsTheClients, UpstreamInvIsKept DEF GatewayInv
<1>2. QED
    BY <1>1, CountersKept, InStepKept DEF GatewayInv

\* Requests, counts and notices keep their ranges, and a call is under way upstream
\* just as long as its request says so (forward, recordCall, meterAnalysis).
THEOREM GatewayTypeCorrect == Spec => []TypeOK
<1>1. GatewayInv => TypeOK
    BY DEF GatewayInv, UpstreamInv, RequestsFit, CountersFit, InStep, TypeOK
<1>2. QED
    BY <1>1, GatewayInitHolds, GatewayInvIsKept, PTL DEF Spec

----------------------------------------------------------------------------
(* How far the limits are passed (callRefusal, recordCall, meterAnalysis). *)
(* What is counted and the requests that are still to be counted are seen  *)
(* together: counting moves a request from the one to the other, and only  *)
(* below the limit does one more come in.                                  *)

Within(n, S, limit) == n + Cardinality(S) <= limit + Cardinality(Calls) - 1

Serving(q) == q.pc \in {"analyses", "send", "upstream"}
ToCount(q) == Serving(q) \/ q.tally = "insert"
ToCountNow(q) == Serving(q) \/ (q.tally = "insert" /\ q.fresh)
ToMeter(q) == q.meter \/ (q.analysis /\ q.pc \in {"send", "upstream"})

\* Requests still to be counted in this minute, and analyses still to be counted.
Fresh(s) == {c \in Calls : request[c].service = s /\ ToCountNow(request[c])}
FreshAll == UNION {Fresh(s) : s \in METERED_SERVICES}
Metering == {c \in Calls : ToMeter(request[c])}

OvershootInv ==
    /\ IsFiniteSet(Counted(month)) /\ IsFiniteSet(Counted(minute))
    /\ \A s \in METERED_SERVICES : /\ Within(month[s], Passed(s), servicePerMonth)
                                   /\ Within(minute[s], Fresh(s), servicePerMinute)
    /\ Within(Total(month), PassedAll, totalPerMonth)
    /\ Within(Total(minute), FreshAll, totalPerMinute)
    /\ Within(analyses, Metering, includedAnalyses)

\* How a count and the requests S still to be counted may go on to m and T.
Follows(n, S, m, T, limit) ==
    \/ m = n /\ T \subseteq S
    \/ m = n + 1 /\ \E c \in S : T \subseteq S \ {c}
    \/ m < limit

LEMMA FollowsKeeps ==
    ASSUME NEW n \in Nat, NEW m \in Nat, NEW limit \in Nat,
           NEW S \in SUBSET Calls, NEW T \in SUBSET Calls,
           Within(n, S, limit), Follows(n, S, m, T, limit)
    PROVE  Within(m, T, limit)
<1>1. /\ IsFiniteSet(Calls) /\ IsFiniteSet(S) /\ IsFiniteSet(T)
      /\ Cardinality(S) \in Nat /\ Cardinality(T) \in Nat /\ Cardinality(Calls) \in Nat
    BY CallsAssumption, FS_Subset, FS_CardinalityType
<1>2. CASE m = n /\ T \subseteq S
    BY <1>1, <1>2, FS_Subset DEF Within
<1>3. CASE m = n + 1 /\ \E c \in S : T \subseteq S \ {c}
    <2>1. PICK c \in S : T \subseteq S \ {c}
        BY <1>3
    <2>2. IsFiniteSet(S \ {c}) /\ Cardinality(S \ {c}) = Cardinality(S) - 1
        BY <1>1, <2>1, FS_RemoveElement
    <2>3. Cardinality(T) <= Cardinality(S \ {c})
        BY <2>1, <2>2, FS_Subset
    <2>4. QED
        BY <1>1, <1>3, <2>2, <2>3 DEF Within
<1>4. CASE m < limit
    <2>1. Cardinality(T) <= Cardinality(Calls)
        BY <1>1, FS_Subset
    <2>2. QED
        BY <1>1, <1>4, <2>1 DEF Within
<1>5. QED
    BY <1>2, <1>3, <1>4 DEF Follows

\* One more call of an API is one more of all of them.
LEMMA OneMoreCounted ==
    ASSUME NEW tally \in [METERED_SERVICES -> Nat], NEW s \in METERED_SERVICES,
           IsFiniteSet(Counted(tally))
    PROVE  LET more == [tally EXCEPT ![s] = @ + 1] IN
           /\ IsFiniteSet(Counted(more)) /\ Total(tally) \in Nat
           /\ Total(more) = Total(tally) + 1
<1>1. PICK more : more = [tally EXCEPT ![s] = tally[s] + 1]
    OBVIOUS
<1>2. PICK n \in Nat : n = tally[s] + 1
    OBVIOUS
<1>3. ASSUME NEW t \in METERED_SERVICES, NEW i
      PROVE  i \in 1 .. more[t] <=> i \in 1 .. tally[t] \/ (t = s /\ i = n)
    BY <1>1, <1>2
<1>4. Counted(more) = Counted(tally) \cup {<<s, n>>}
    <2>1. ASSUME NEW x PROVE x \in Counted(more) <=>
                             \E t \in METERED_SERVICES : \E i \in 1 .. more[t] : x = <<t, i>>
        BY DEF Counted
    <2>2. ASSUME NEW x PROVE x \in Counted(tally) <=>
                             \E t \in METERED_SERVICES : \E i \in 1 .. tally[t] : x = <<t, i>>
        BY DEF Counted
    <2>3. QED
        BY <1>3, <2>1, <2>2
<1>5. <<s, n>> \notin Counted(tally)
    BY <1>2 DEF Counted
<1>6. PICK counted, x : counted = Counted(tally) /\ x = <<s, n>>
    OBVIOUS
<1>7. /\ IsFiniteSet(counted \cup {x}) /\ Cardinality(counted) \in Nat
      /\ Cardinality(counted \cup {x}) = Cardinality(counted) + 1
    BY <1>5, <1>6, FS_AddElement, FS_CardinalityType
<1>8. IsFiniteSet(Counted(more)) /\ Total(tally) \in Nat /\ Total(more) = Total(tally) + 1
    BY <1>4, <1>6, <1>7 DEF Total
<1>9. QED
    BY <1>1, <1>8

\* Where every API has the same count, their sum is a product.
LEMMA EvenlyCounted ==
    ASSUME NEW n \in Nat
    PROVE  LET tally == [s \in METERED_SERVICES |-> n] IN
           /\ IsFiniteSet(Counted(tally))
           /\ Cardinality(METERED_SERVICES) \in Nat
           /\ Total(tally) = Cardinality(METERED_SERVICES) * n
<1>1. IsFiniteSet(METERED_SERVICES)
    BY MeteredAssumption, FS_AddElement DEF METERED_SERVICES
<1>2. IsFiniteSet(1 .. n) /\ Cardinality(1 .. n) = n
    BY FS_Interval
<1>3. Counted([s \in METERED_SERVICES |-> n]) = METERED_SERVICES \X (1 .. n)
    BY DEF Counted
<1>4. QED
    BY <1>1, <1>2, <1>3, FS_Product, FS_CardinalityType DEF Total

LEMMA TotalAtFirst ==
    ASSUME Init
    PROVE  /\ IsFiniteSet(Counted(month)) /\ Total(month) \in Nat
           /\ Total(month) < eightyPercentOf(totalPerMonth)
<1>1. CountedBefore \in Nat
    BY BeforeAssumption
<1>2. IsFiniteSet(Counted(month)) /\ Cardinality(METERED_SERVICES) \in Nat
      /\ Total(month) = Cardinality(METERED_SERVICES) * CountedBefore
    BY <1>1, EvenlyCounted DEF Init
<1>3. CountedBefore * Cardinality(METERED_SERVICES) < eightyPercentOf(totalPerMonth)
    BY BeforeAssumption
<1>4. PICK total \in Nat : total = CountedBefore * Cardinality(METERED_SERVICES)
    BY <1>1, <1>2
<1>5. Total(month) = total
    BY <1>1, <1>2, <1>4
<1>6. QED
    BY <1>2, <1>3, <1>4, <1>5

LEMMA OvershootInitHolds == Init => OvershootInv
<1> SUFFICES ASSUME Init PROVE OvershootInv
    OBVIOUS
<1>1. /\ servicePerMinute \in Nat \ {0} /\ totalPerMinute \in Nat \ {0}
      /\ servicePerMonth \in Nat \ {0} /\ totalPerMonth \in Nat \ {0}
      /\ includedAnalyses \in Nat \ {0}
    BY LimitsAssumption
<1>2. \A limit \in Nat \ {0} : eightyPercentOf(limit) \in Nat /\ eightyPercentOf(limit) <= limit
    BY DEF eightyPercentOf
<1>3. /\ CountedBefore \in Nat
      /\ CountedBefore < servicePerMonth /\ CountedBefore < includedAnalyses
    BY <1>1, <1>2, BeforeAssumption
<1>4. /\ IsFiniteSet(Counted(month)) /\ Total(month) \in Nat /\ Total(month) < totalPerMonth
    BY <1>1, <1>2, TotalAtFirst
<1>5. IsFiniteSet(Counted(minute)) /\ Total(minute) = 0
    <2>1. IsFiniteSet(Counted(minute)) /\ Cardinality(METERED_SERVICES) \in Nat
          /\ Total(minute) = Cardinality(METERED_SERVICES) * 0
        BY EvenlyCounted DEF Init
    <2>2. QED
        BY <2>1
<1>6. /\ \A s \in METERED_SERVICES : Passed(s) = {} /\ Fresh(s) = {}
      /\ PassedAll = {} /\ FreshAll = {} /\ Metering = {}
    BY DEF Init, Idle, Passed, PassedAll, Fresh, FreshAll, Metering, Serving, ToCountNow, ToMeter
<1>7. ASSUME NEW n \in Nat, NEW limit \in Nat, n < limit PROVE Within(n, {}, limit)
    BY <1>7, FS_EmptySet, CallsAssumption, FS_CardinalityType DEF Within
<1>8. \A s \in METERED_SERVICES : month[s] = CountedBefore /\ minute[s] = 0
    BY DEF Init
<1>9. analyses = CountedBefore
    BY DEF Init
<1>10. QED
    BY <1>1, <1>3, <1>4, <1>5, <1>6, <1>7, <1>8, <1>9 DEF OvershootInv

\* Passed and PassedAll, by what the requests are.
LEMMA PassedIs ==
    ASSUME NEW s
    PROVE  Passed(s) = {c \in Calls : request[c].service = s /\ ToCount(request[c])}
BY DEF Passed, ToCount, Serving

OvershootFollows ==
    /\ IsFiniteSet(Counted(month')) /\ IsFiniteSet(Counted(minute'))
    /\ \A s \in METERED_SERVICES :
        /\ Follows(month[s], Passed(s), month'[s], Passed(s)', servicePerMonth)
        /\ Follows(minute[s], Fresh(s), minute'[s], Fresh(s)', servicePerMinute)
    /\ Follows(Total(month), PassedAll, Total(month'), PassedAll', totalPerMonth)
    /\ Follows(Total(minute), FreshAll, Total(minute'), FreshAll', totalPerMinute)
    /\ Follows(analyses, Metering, analyses', Metering', includedAnalyses)

LEMMA OvershootFollowed ==
    ASSUME GatewayInv, GatewayInv', OvershootInv, OvershootFollows
    PROVE  OvershootInv'
<1>1. /\ servicePerMinute \in Nat /\ totalPerMinute \in Nat
      /\ servicePerMonth \in Nat /\ totalPerMonth \in Nat /\ includedAnalyses \in Nat
    BY LimitsAssumption
<1>2. /\ IsFiniteSet(Counted(month)) /\ IsFiniteSet(Counted(minute))
      /\ IsFiniteSet(Counted(month')) /\ IsFiniteSet(Counted(minute'))
    BY DEF OvershootInv, OvershootFollows
<1>3. /\ Total(month) \in Nat /\ Total(month') \in Nat
      /\ Total(minute) \in Nat /\ Total(minute') \in Nat
    BY <1>2, FS_CardinalityType DEF Total
<1>4. /\ \A s \in METERED_SERVICES : /\ month[s] \in Nat /\ month'[s] \in Nat
                                     /\ minute[s] \in Nat /\ minute'[s] \in Nat
      /\ analyses \in Nat /\ analyses' \in Nat
    BY DEF GatewayInv, CountersFit
<1>5. /\ \A s : Passed(s) \subseteq Calls /\ Passed(s)' \subseteq Calls
      /\ \A s : Fresh(s) \subseteq Calls /\ Fresh(s)' \subseteq Calls
      /\ Metering \subseteq Calls /\ Metering' \subseteq Calls
    BY DEF Passed, Fresh, Metering
<1>6. /\ PassedAll \subseteq Calls /\ PassedAll' \subseteq Calls
      /\ FreshAll \subseteq Calls /\ FreshAll' \subseteq Calls
    BY <1>5 DEF PassedAll, FreshAll
<1>7. ASSUME NEW s \in METERED_SERVICES
      PROVE  /\ Within(month'[s], Passed(s)', servicePerMonth)
             /\ Within(minute'[s], Fresh(s)', servicePerMinute)
    BY <1>1, <1>4, <1>5, FollowsKeeps DEF OvershootInv, OvershootFollows
<1>8. /\ Within(Total(month'), PassedAll', totalPerMonth)
      /\ Within(Total(minute'), FreshAll', totalPerMinute)
      /\ Within(analyses', Metering', includedAnalyses)
    BY <1>1, <1>3, <1>4, <1>5, <1>6, FollowsKeeps DEF OvershootInv, OvershootFollows
<1>9. QED
    BY <1>2, <1>7, <1>8 DEF OvershootInv, Within, Total, Counted

\* A request that goes on from q to r adds nothing to what is still to be counted.
Lighter(q, r) ==
    /\ ToCount(r) => ToCount(q) /\ r.service = q.service
    /\ ToCountNow(r) => ToCountNow(q) /\ r.service = q.service
    /\ ToMeter(r) => ToMeter(q)

LEMMA LighterSteps ==
    ASSUME NEW q \in Request, q.tally # "no" \/ q.meter => q.pc = "after"
    PROVE  /\ Lighter(q, q) /\ Lighter(q, Idle)
           /\ q.pc = "send" => Lighter(q, [q EXCEPT !.pc = "upstream"])
           /\ q.pc \in {"send", "upstream"} => \A ok \in BOOLEAN : Lighter(q, Answered(q, ok))
           /\ Lighter(q, Left([q EXCEPT !.tally = "no"]))
           /\ Lighter(q, Left([q EXCEPT !.tally = "no", !.fresh = FALSE]))
           /\ Lighter(q, Left([q EXCEPT !.meter = FALSE]))
           /\ Lighter(q, [q EXCEPT !.fresh = FALSE])
<1> USE DEF Lighter, ToCount, ToCountNow, ToMeter, Serving, Idle, Request
<1>1. Lighter(q, q) /\ Lighter(q, Idle) /\ Lighter(q, [q EXCEPT !.fresh = FALSE])
    OBVIOUS
<1>2. q.pc = "send" => Lighter(q, [q EXCEPT !.pc = "upstream"])
    OBVIOUS
<1>3. ASSUME q.pc \in {"send", "upstream"}, NEW ok \in BOOLEAN
      PROVE  Lighter(q, Answered(q, ok))
    BY <1>1, <1>3 DEF Answered
<1>4. Lighter(q, [q EXCEPT !.tally = "no"]) /\ Lighter(q, [q EXCEPT !.meter = FALSE])
    OBVIOUS
<1>5. Lighter(q, [q EXCEPT !.tally = "no", !.fresh = FALSE])
    OBVIOUS
<1>6. QED
    BY <1>1, <1>2, <1>3, <1>4, <1>5 DEF Left

LEMMA LighterAt ==
    ASSUME RequestsFit, NEW c \in Calls, NEW r, Lighter(request[c], r),
           request' = [request EXCEPT ![c] = r]
    PROVE  \A d \in Calls : Lighter(request[d], request'[d])
BY DEF RequestsFit, Lighter

\* Then no set of requests to be counted grows.
LEMMA LighterSets ==
    ASSUME \A d \in Calls : Lighter(request[d], request'[d])
    PROVE  /\ \A s : Passed(s)' \subseteq Passed(s) /\ Fresh(s)' \subseteq Fresh(s)
           /\ PassedAll' \subseteq PassedAll /\ FreshAll' \subseteq FreshAll
           /\ Metering' \subseteq Metering
<1>1. ASSUME NEW s PROVE Passed(s)' \subseteq Passed(s) /\ Fresh(s)' \subseteq Fresh(s)
    BY DEF Lighter, Passed, Fresh, ToCount, ToCountNow, Serving
<1>2. Metering' \subseteq Metering
    BY DEF Lighter, Metering, ToMeter
<1>3. QED
    BY <1>1, <1>2 DEF PassedAll, FreshAll

LEMMA LighterFollows ==
    ASSUME OvershootInv, \A d \in Calls : Lighter(request[d], request'[d]), UNCHANGED usage
    PROVE  OvershootFollows
BY LighterSets DEF OvershootInv, OvershootFollows, Follows, usage

\* The steps that add nothing.
LEMMA LightSteps ==
    ASSUME GatewayInv, NEW c \in Calls,
           \/ AnswerHere(c) \/ Forward(c) \/ Unavailable(c) \/ Retry(c) \/ Ending(c)
           \/ Look(c) \/ TallyFails(c) \/ MeterFails(c)
    PROVE  /\ \A d \in Calls : Lighter(request[d], request'[d])
           /\ UNCHANGED usage
<1> DEFINE q == request[c]
<1>1. q \in Request /\ RequestsFit /\ (q.tally # "no" \/ q.meter => q.pc = "after")
    BY RequestFits DEF GatewayInv, AfterFit
<1>2. CASE Retry(c)
    <2>1. UNCHANGED <<request, usage>>
        BY <1>2 DEF Retry
    <2>2. \A d \in Calls : Lighter(request[d], request[d])
        BY LighterSteps, RequestFits DEF GatewayInv, AfterFit
    <2>3. QED
        BY <2>1, <2>2
<1>3. ASSUME NEW r, Lighter(q, r), request' = [request EXCEPT ![c] = r], UNCHANGED usage
      PROVE  (\A d \in Calls : Lighter(request[d], request'[d])) /\ UNCHANGED usage
    BY <1>1, <1>3, LighterAt
<1>4. CASE AnswerHere(c) \/ Answer(c)
    <2>1. PICK ok \in BOOLEAN : request' = [request EXCEPT ![c] = Answered(q, ok)]
        BY <1>4 DEF AnswerHere, Answer
    <2>2. q.pc \in {"send", "upstream"} /\ UNCHANGED usage
        BY <1>4 DEF AnswerHere, Answer, Succeeds, GatewayInv, InStep
    <2>3. Lighter(q, Answered(q, ok))
        BY <1>1, <2>2, LighterSteps
    <2>4. QED
        BY <1>3, <2>1, <2>2, <2>3
<1>5. CASE Forward(c)
    <2>1. /\ q.pc = "send" /\ UNCHANGED usage
          /\ request' = [request EXCEPT ![c] = [q EXCEPT !.pc = "upstream"]]
        BY <1>1, <1>5 DEF Forward, RequestsFit, Request
    <2>2. QED
        BY <1>1, <1>3, <2>1, LighterSteps
<1>6. CASE Unavailable(c) \/ Failure(c)
    <2>1. request' = [request EXCEPT ![c] = Idle] /\ UNCHANGED usage
        BY <1>6 DEF Unavailable, Failure
    <2>2. QED
        BY <1>1, <1>3, <2>1, LighterSteps
<1>7. CASE Look(c)
    <2>1. request' = [request EXCEPT ![c] = Left([q EXCEPT !.tally = "no"])] /\ UNCHANGED usage
        BY <1>7 DEF Look
    <2>2. QED
        BY <1>1, <1>3, <2>1, LighterSteps
<1>8. CASE TallyFails(c)
    <2>1. /\ request' = [request EXCEPT ![c] = Left([q EXCEPT !.tally = "no", !.fresh = FALSE])]
          /\ UNCHANGED usage
        BY <1>8 DEF TallyFails
    <2>2. QED
        BY <1>1, <1>3, <2>1, LighterSteps
<1>9. CASE MeterFails(c)
    <2>1. request' = [request EXCEPT ![c] = Left([q EXCEPT !.meter = FALSE])] /\ UNCHANGED usage
        BY <1>9 DEF MeterFails
    <2>2. QED
        BY <1>1, <1>3, <2>1, LighterSteps
<1>10. QED
    BY <1>2, <1>4, <1>5, <1>6, <1>7, <1>8, <1>9 DEF Ending

\* A request comes in below the limits, and so do the analyses of one.
LEMMA ArriveFollows ==
    ASSUME GatewayInv, OvershootInv, NEW c \in Calls, Arrive(c)
    PROVE  OvershootFollows
<1>1. PICK s \in METERED_SERVICES, analysis \in BOOLEAN :
        /\ MayCall(s)
        /\ request' = [request EXCEPT ![c] =
               [Idle EXCEPT !.pc = IF analysis THEN "analyses" ELSE "send",
                            !.service = s, !.analysis = analysis]]
    BY DEF Arrive
<1>2. PICK r : r = [Idle EXCEPT !.pc = IF analysis THEN "analyses" ELSE "send",
                                !.service = s, !.analysis = analysis]
    OBVIOUS
<1>3. r.service = s /\ ~ToMeter(r)
    BY <1>2 DEF ToMeter, Idle
<1>4. request = [d \in Calls |-> request[d]] /\ request' = [request EXCEPT ![c] = r]
    BY <1>1, <1>2 DEF GatewayInv, RequestsFit
<1>5. request'[c] = r /\ \A d \in Calls \ {c} : request'[d] = request[d]
    BY <1>4
<1>6. UNCHANGED usage
    BY DEF Arrive
<1>7. ASSUME NEW t \in METERED_SERVICES, t # s
      PROVE  Passed(t)' \subseteq Passed(t) /\ Fresh(t)' \subseteq Fresh(t)
    BY <1>3, <1>5, <1>7 DEF Passed, Fresh
<1>8. Metering' \subseteq Metering
    BY <1>3, <1>5 DEF Metering
<1>9. /\ month'[s] < servicePerMonth /\ minute'[s] < servicePerMinute
      /\ Total(month') < totalPerMonth /\ Total(minute') < totalPerMinute
    BY <1>1, <1>6 DEF MayCall, usage
<1>10. QED
    BY <1>6, <1>7, <1>8, <1>9 DEF OvershootInv, OvershootFollows, Follows, usage

LEMMA CheckFollows ==
    ASSUME GatewayInv, OvershootInv, NEW c \in Calls, CheckAnalyses(c)
    PROVE  OvershootFollows
<1> DEFINE q == request[c]
<1>1. q \in Request /\ RequestsFit /\ q.pc = "analyses" /\ UNCHANGED usage
    BY RequestFits DEF GatewayInv, CheckAnalyses
<1>2. CASE analyses < includedAnalyses
    <2>1. request' = [request EXCEPT ![c] = [q EXCEPT !.pc = "send"]]
        BY <1>2 DEF CheckAnalyses
    <2>2. request'[c] = [q EXCEPT !.pc = "send"]
          /\ \A d \in Calls \ {c} : request'[d] = request[d]
        BY <1>1, <2>1 DEF RequestsFit
    <2>3. \A s : Passed(s)' \subseteq Passed(s) /\ Fresh(s)' \subseteq Fresh(s)
        BY <1>1, <2>2 DEF Passed, Fresh, ToCountNow, Serving, Request
    <2>4. PassedAll' \subseteq PassedAll /\ FreshAll' \subseteq FreshAll
        BY <2>3 DEF PassedAll, FreshAll
    <2>5. analyses' < includedAnalyses
        BY <1>1, <1>2 DEF usage
    <2>6. QED
        BY <1>1, <2>3, <2>4, <2>5 DEF OvershootInv, OvershootFollows, Follows, usage
<1>3. CASE ~(analyses < includedAnalyses)
    <2>1. request' = [request EXCEPT ![c] = Idle]
        BY <1>3 DEF CheckAnalyses
    <2>2. Lighter(q, Idle)
        BY DEF Lighter, ToCount, ToCountNow, ToMeter, Serving, Idle
    <2>3. QED
        BY <1>1, <2>1, <2>2, LighterAt, LighterFollows
<1>4. QED
    BY <1>2, <1>3

\* A call is counted: it moves from what is to be counted to the count.
LEMMA TallyFollows ==
    ASSUME GatewayInv, OvershootInv, NEW c \in Calls, Tally(c)
    PROVE  OvershootFollows
<1>1. PICK q \in Request : q = request[c]
    BY RequestFits DEF GatewayInv
<1>2. PICK s \in METERED_SERVICES : s = q.service
    BY DEF Request
<1>3. /\ q.tally = "insert" /\ q.pc = "after"
      /\ month' = [month EXCEPT ![s] = month[s] + 1]
      /\ minute' = IF q.fresh THEN [minute EXCEPT ![s] = minute[s] + 1] ELSE minute
      /\ UNCHANGED analyses
    BY <1>1, <1>2 DEF Tally, GatewayInv, AfterFit
<1>4. /\ \A d \in Calls \ {c} : request'[d] = request[d]
      /\ request'[c] = [q EXCEPT !.tally = "look", !.fresh = FALSE]
    BY <1>1 DEF Tally, GatewayInv, RequestsFit, Request
<1>5. /\ ~ToCount(request'[c]) /\ ~ToCountNow(request'[c])
      /\ ToMeter(request'[c]) => ToMeter(q)
      /\ ToCount(q) /\ (q.fresh => ToCountNow(q))
    BY <1>3, <1>4 DEF ToCount, ToCountNow, ToMeter, Serving, Request
<1>6. /\ \A t : Passed(t)' \subseteq Passed(t) \ {c} /\ Fresh(t)' \subseteq Fresh(t) \ {c}
      /\ c \in Passed(s) /\ (q.fresh => c \in Fresh(s))
    BY <1>1, <1>2, <1>4, <1>5 DEF Passed, Fresh, ToCount, ToCountNow, Serving
<1>7. /\ PassedAll' \subseteq PassedAll \ {c} /\ FreshAll' \subseteq FreshAll \ {c}
      /\ c \in PassedAll /\ (q.fresh => c \in FreshAll)
    BY <1>6 DEF PassedAll, FreshAll
<1>8. Metering' \subseteq Metering
    BY <1>1, <1>4, <1>5 DEF Metering
<1>9. month \in [METERED_SERVICES -> Nat] /\ minute \in [METERED_SERVICES -> Nat]
    BY DEF GatewayInv, CountersFit
<1>10. IsFiniteSet(Counted(month')) /\ Total(month') = Total(month) + 1
    BY <1>3, <1>9, OneMoreCounted DEF OvershootInv
<1>11. /\ IsFiniteSet(Counted(minute'))
       /\ q.fresh => Total(minute') = Total(minute) + 1
       /\ ~q.fresh => minute' = minute
    BY <1>3, <1>9, OneMoreCounted DEF OvershootInv
<1>12. ASSUME NEW t \in METERED_SERVICES
       PROVE  Follows(month[t], Passed(t), month'[t], Passed(t)', servicePerMonth)
    BY <1>3, <1>6, <1>9 DEF Follows
<1>13. ASSUME NEW t \in METERED_SERVICES
       PROVE  Follows(minute[t], Fresh(t), minute'[t], Fresh(t)', servicePerMinute)
    <2>1. CASE q.fresh
        BY <1>3, <1>6, <1>9, <2>1 DEF Follows
    <2>2. CASE ~q.fresh
        BY <1>3, <1>6, <2>2 DEF Follows
    <2>3. QED
        BY <2>1, <2>2
<1>14. Follows(Total(month), PassedAll, Total(month'), PassedAll', totalPerMonth)
    BY <1>7, <1>10 DEF Follows
<1>15. Follows(Total(minute), FreshAll, Total(minute'), FreshAll', totalPerMinute)
    <2>1. CASE q.fresh
        BY <1>7, <1>11, <2>1 DEF Follows
    <2>2. CASE ~q.fresh
        BY <1>7, <1>11, <2>2 DEF Follows
    <2>3. QED
        BY <2>1, <2>2
<1>16. Follows(analyses, Metering, analyses', Metering', includedAnalyses)
    BY <1>3, <1>8 DEF Follows
<1>17. QED
    BY <1>10, <1>11, <1>12, <1>13, <1>14, <1>15, <1>16 DEF OvershootFollows

\* And so does an analysis.
LEMMA MeterFollows ==
    ASSUME GatewayInv, OvershootInv, NEW c \in Calls, Meter(c)
    PROVE  OvershootFollows
<1>1. PICK q \in Request : q = request[c]
    BY RequestFits DEF GatewayInv
<1>2. /\ q.meter /\ q.pc = "after" /\ UNCHANGED <<month, minute>> /\ analyses' = analyses + 1
      /\ request' = [request EXCEPT ![c] = Left([q EXCEPT !.meter = FALSE])]
    BY <1>1 DEF Meter, GatewayInv, AfterFit
<1>3. PICK r : r = Left([q EXCEPT !.meter = FALSE])
    OBVIOUS
<1>4. ~ToMeter(r)
    BY <1>2, <1>3 DEF ToMeter, Left, Idle, Request
<1>5. \A d \in Calls : Lighter(request[d], request'[d])
    <2>1. Lighter(request[c], r)
        BY <1>1, <1>2, <1>3, LighterSteps
    <2>2. QED
        BY <1>2, <1>3, <2>1, LighterAt DEF GatewayInv
<1>6. c \in Metering /\ Metering' \subseteq Metering \ {c}
    <2>1. request'[c] = r /\ \A d \in Calls \ {c} : request'[d] = request[d]
        BY <1>2, <1>3 DEF GatewayInv, RequestsFit
    <2>2. ToMeter(request[c])
        BY <1>1, <1>2 DEF ToMeter
    <2>3. QED
        BY <1>4, <2>1, <2>2 DEF Metering
<1>7. QED
    BY <1>2, <1>5, <1>6, LighterSets DEF OvershootInv, OvershootFollows, Follows

\* A new minute begins below its limits.
LEMMA MinuteFollows ==
    ASSUME GatewayInv, OvershootInv, NewMinute
    PROVE  OvershootFollows
<1>1. /\ minute' = [s \in METERED_SERVICES |-> 0] /\ UNCHANGED <<month, analyses>>
      /\ request' = [d \in Calls |-> [request[d] EXCEPT !.fresh = FALSE]]
    BY DEF NewMinute
<1>2. ASSUME NEW d \in Calls PROVE Lighter(request[d], request'[d])
    <2>1. Lighter(request[d], [request[d] EXCEPT !.fresh = FALSE])
        BY LighterSteps, RequestFits DEF GatewayInv, AfterFit
    <2>2. QED
        BY <1>1, <2>1
<1>3. /\ \A s : Passed(s)' \subseteq Passed(s)
      /\ PassedAll' \subseteq PassedAll /\ Metering' \subseteq Metering
    BY <1>2, LighterSets
<1>4. IsFiniteSet(Counted(minute')) /\ Total(minute') = 0
    <2>1. IsFiniteSet(Counted(minute')) /\ Cardinality(METERED_SERVICES) \in Nat
          /\ Total(minute') = Cardinality(METERED_SERVICES) * 0
        BY <1>1, EvenlyCounted
    <2>2. QED
        BY <2>1
<1>5. servicePerMinute > 0 /\ totalPerMinute > 0
    BY LimitsAssumption
<1>6. QED
    BY <1>1, <1>3, <1>4, <1>5 DEF OvershootInv, OvershootFollows, Follows

LEMMA OvershootIsKept ==
    ASSUME GatewayInv, GatewayInv', OvershootInv, [Next]_vars
    PROVE  OvershootInv'
<1>1. CASE \E c \in Calls : Serve(c) \/ Count(c)
    <2>1. PICK c \in Calls : Serve(c) \/ Count(c)
        BY <1>1
    <2>2. CASE Arrive(c) \/ CheckAnalyses(c) \/ Tally(c) \/ Meter(c)
        BY <2>2, ArriveFollows, CheckFollows, TallyFollows, MeterFollows, OvershootFollowed
    <2>3. CASE \/ AnswerHere(c) \/ Forward(c) \/ Unavailable(c) \/ Retry(c) \/ Ending(c)
               \/ Look(c) \/ TallyFails(c) \/ MeterFails(c)
        BY <2>3, LightSteps, LighterFollows, OvershootFollowed
    <2>4. QED
        BY <2>1, <2>2, <2>3 DEF Serve, Count
<1>2. CASE NewMinute
    BY <1>2, MinuteFollows, OvershootFollowed
<1>3. CASE (\E s \in Services : Cools(s)) \/ UNCHANGED vars
    <2>1. UNCHANGED <<request, usage>>
        BY <1>3 DEF Cools, vars, usage
    <2>2. \A d \in Calls : Lighter(request[d], request[d])
        BY LighterSteps, RequestFits DEF GatewayInv, AfterFit
    <2>3. \A d \in Calls : Lighter(request[d], request'[d])
        BY <2>1, <2>2
    <2>4. QED
        BY <2>1, <2>3, LighterFollows, OvershootFollowed
<1>4. QED
    BY <1>1, <1>2, <1>3 DEF Next

LEMMA OvershootBounds ==
    ASSUME GatewayInv, OvershootInv
    PROVE  OvershootIsBounded
<1>1. /\ servicePerMinute \in Nat /\ totalPerMinute \in Nat
      /\ servicePerMonth \in Nat /\ totalPerMonth \in Nat /\ includedAnalyses \in Nat
      /\ Cardinality(Calls) \in Nat
    BY LimitsAssumption, CallsAssumption, FS_CardinalityType
<1>2. ASSUME NEW n \in Nat, NEW S \in SUBSET Calls, NEW limit \in Nat, Within(n, S, limit)
      PROVE  n <= limit + (Cardinality(Calls) - 1)
    <2>1. Cardinality(S) \in Nat
        BY CallsAssumption, FS_Subset, FS_CardinalityType
    <2>2. QED
        BY <1>1, <1>2, <2>1 DEF Within
<1>3. /\ \A s \in METERED_SERVICES : minute[s] \in Nat
      /\ analyses \in Nat /\ Total(minute) \in Nat
    BY FS_CardinalityType DEF GatewayInv, CountersFit, OvershootInv, Total
<1>4. /\ \A s \in METERED_SERVICES : Fresh(s) \in SUBSET Calls
      /\ FreshAll \in SUBSET Calls /\ Metering \in SUBSET Calls
    BY DEF Fresh, FreshAll, Metering
<1>5. \A s \in METERED_SERVICES : minute[s] <= servicePerMinute + (Cardinality(Calls) - 1)
    BY <1>1, <1>2, <1>3, <1>4 DEF OvershootInv
<1>6. /\ Total(minute) <= totalPerMinute + (Cardinality(Calls) - 1)
      /\ analyses <= includedAnalyses + (Cardinality(Calls) - 1)
    BY <1>1, <1>2, <1>3, <1>4 DEF OvershootInv
<1>7. /\ \A s \in METERED_SERVICES :
            month[s] + Cardinality(Passed(s)) <= servicePerMonth + (Cardinality(Calls) - 1)
      /\ Total(month) + Cardinality(PassedAll) <= totalPerMonth + (Cardinality(Calls) - 1)
    BY <1>1 DEF OvershootInv, Within
<1>8. QED
    BY <1>5, <1>6, <1>7 DEF OvershootIsBounded

\* However the requests of a person overlap, and whatever of counting them fails or
\* comes late, no limit is passed by more than the requests there are at a time less
\* one (allowance.ts, callRefusal and recordCall).
THEOREM OvershootIsAlwaysBounded == Spec => []OvershootIsBounded
<1>1. Init => GatewayInv /\ OvershootInv
    BY GatewayInitHolds, OvershootInitHolds
<1>2. GatewayInv /\ OvershootInv /\ [Next]_vars => GatewayInv' /\ OvershootInv'
    BY GatewayInvIsKept, OvershootIsKept
<1>3. GatewayInv /\ OvershootInv => OvershootIsBounded
    BY OvershootBounds
<1>4. QED
    BY <1>1, <1>2, <1>3, PTL DEF Spec

----------------------------------------------------------------------------
(* The notices of a mark (checkMonthlyUsage, meterAnalysis).  What has     *)
(* been told of a meter follows from the last count of it that was looked  *)
(* at: the count itself, or one less while one request has yet to look.    *)

Reaches(n, limit, p) ==
    IF p = 100 THEN n >= limit
    ELSE n >= eightyPercentOf(limit) /\ eightyPercentOf(limit) < limit

Due(x, p, n) == IF Reaches(n, Limit(x), p) THEN 1 ELSE 0

Looking(c) == request[c].tally = "look"
Unseen(x) == \E c \in Calls : Looking(c) /\ x \in {request[c].service, "total"}
Seen(x) == IF Unseen(x) THEN CountOf(x) - 1 ELSE CountOf(x)

MarksInv ==
    /\ \A p \in Marks : told[<<"analyses", p>>] = Due("analyses", p, analyses)
    /\ ~unheard =>
         /\ \A c, d \in Calls : Looking(c) /\ Looking(d) => c = d
         /\ \A x \in Meters \ {"analyses"}, p \in Marks : told[<<x, p>>] = Due(x, p, Seen(x))

LEMMA EightyPercent ==
    ASSUME NEW limit \in Nat \ {0}
    PROVE  eightyPercentOf(limit) \in 1 .. limit
BY DEF eightyPercentOf

LEMMA LimitsAreNumbers ==
    /\ \A x \in METERED_SERVICES : x \notin {"total", "analyses"} /\ Limit(x) = servicePerMonth
    /\ Limit("total") = totalPerMonth /\ Limit("analyses") = includedAnalyses
    /\ \A x \in Meters : Limit(x) \in Nat \ {0}
<1>1. \A x \in METERED_SERVICES : x \notin {"total", "analyses"}
    BY MeteredAssumption
<1>2. /\ servicePerMonth \in Nat \ {0} /\ totalPerMonth \in Nat \ {0}
      /\ includedAnalyses \in Nat \ {0}
    BY LimitsAssumption
<1>3. QED
    BY <1>1, <1>2 DEF Limit, Meters

LEMMA CountsAreNumbers ==
    ASSUME GatewayInv, OvershootInv
    PROVE  /\ \A x \in METERED_SERVICES : CountOf(x) = month[x]
           /\ CountOf("total") = Total(month) /\ CountOf("analyses") = analyses
           /\ \A x \in Meters : CountOf(x) \in Nat
<1>1. \A x \in METERED_SERVICES : x \notin {"total", "analyses"} /\ month[x] \in Nat
    BY LimitsAreNumbers DEF GatewayInv, CountersFit
<1>2. Total(month) \in Nat /\ analyses \in Nat
    BY FS_CardinalityType DEF OvershootInv, Total, GatewayInv, CountersFit
<1>3. QED
    BY <1>1, <1>2 DEF CountOf, Meters

\* A mark is just reached by the one count that reaches it when the one before did not.
LEMMA JustReached ==
    ASSUME NEW n \in Nat, NEW limit \in Nat \ {0}, NEW p \in Marks
    PROVE  /\ p \in percentJustReached(n, limit) <=>
                  Reaches(n, limit, p) /\ ~Reaches(n - 1, limit, p)
           /\ Reaches(n - 1, limit, p) => Reaches(n, limit, p)
<1>1. PICK e \in 1 .. limit : e = eightyPercentOf(limit)
    BY EightyPercent
<1>2. CASE p = 100
    BY <1>1, <1>2 DEF percentJustReached, Reaches
<1>3. CASE p = 80
    BY <1>1, <1>3 DEF percentJustReached, Reaches
<1>4. QED
    BY <1>2, <1>3 DEF Marks

LEMMA TellOnce ==
    ASSUME CountersFit, NEW reached, Tell(reached),
           NEW x \in Meters, NEW p \in Marks, NEW n \in Nat,
           told[<<x, p>>] = Due(x, p, n - 1),
           <<x, p>> \in reached <=> p \in percentJustReached(n, Limit(x))
    PROVE  told'[<<x, p>>] = Due(x, p, n)
<1>1. told'[<<x, p>>] = IF <<x, p>> \in reached /\ told[<<x, p>>] < 2
                        THEN told[<<x, p>>] + 1 ELSE told[<<x, p>>]
    BY DEF Tell
<1>2. Limit(x) \in Nat \ {0}
    BY LimitsAreNumbers
<1>3. /\ <<x, p>> \in reached <=> Reaches(n, Limit(x), p) /\ ~Reaches(n - 1, Limit(x), p)
      /\ Reaches(n - 1, Limit(x), p) => Reaches(n, Limit(x), p)
    BY <1>2, JustReached
<1>4. QED
    BY <1>1, <1>3 DEF Due

LEMMA MarksInitHold ==
    ASSUME Init, GatewayInv, OvershootInv
    PROVE  MarksInv
<1>1. \A c \in Calls : ~Looking(c)
    BY DEF Init, Idle, Looking
<1>2. \A x \in Meters, p \in Marks : told[<<x, p>>] = 0
    BY DEF Init
<1>3. \A limit \in {servicePerMonth, includedAnalyses} : CountedBefore < eightyPercentOf(limit)
    BY BeforeAssumption
<1>4. \A x \in METERED_SERVICES : month[x] = CountedBefore
    BY DEF Init
<1>5. analyses = CountedBefore
    BY DEF Init
<1>6. ASSUME NEW x \in Meters PROVE CountOf(x) < eightyPercentOf(Limit(x))
    BY <1>3, <1>4, <1>5, TotalAtFirst, LimitsAreNumbers, CountsAreNumbers DEF Meters
<1>7. ASSUME NEW x \in Meters, NEW p \in Marks PROVE Due(x, p, CountOf(x)) = 0
    <2>1. Limit(x) \in Nat \ {0} /\ CountOf(x) \in Nat
        BY LimitsAreNumbers, CountsAreNumbers
    <2>2. PICK e \in 1 .. Limit(x) : e = eightyPercentOf(Limit(x))
        BY <2>1, EightyPercent
    <2>3. QED
        BY <1>6, <2>1, <2>2 DEF Due, Reaches, Marks
<1>8. "analyses" \in Meters /\ CountOf("analyses") = analyses
    BY CountsAreNumbers DEF Meters
<1>9. \A x : Seen(x) = CountOf(x)
    BY <1>1 DEF Seen, Unseen
<1>10. QED
    BY <1>1, <1>2, <1>7, <1>8, <1>9 DEF MarksInv

\* No request comes to look at a count, or ceases to.
LooksKept ==
    \A d \in Calls : /\ request'[d].tally = "look" <=> request[d].tally = "look"
                     /\ request[d].tally = "look" => request'[d].service = request[d].service

LEMMA LooksKeptAt ==
    ASSUME RequestsFit, NEW c \in Calls, NEW r, request' = [request EXCEPT ![c] = r],
           r.tally = "look" <=> request[c].tally = "look",
           request[c].tally = "look" => r.service = request[c].service
    PROVE  LooksKept
BY DEF RequestsFit, LooksKept

\* The steps that neither count calls nor look at what is counted.
LEMMA StepsThatKeepLooks ==
    ASSUME GatewayInv, NEW c \in Calls,
           \/ Arrive(c) \/ CheckAnalyses(c) \/ AnswerHere(c) \/ Forward(c) \/ Unavailable(c)
           \/ Retry(c) \/ Ending(c) \/ Meter(c) \/ MeterFails(c)
    PROVE  LooksKept
<1> DEFINE q == request[c]
<1>1. q \in Request /\ RequestsFit /\ (q.tally # "no" \/ q.meter => q.pc = "after")
    BY RequestFits DEF GatewayInv, AfterFit
<1>2. ASSUME NEW r, request' = [request EXCEPT ![c] = r], r.tally # "look", q.pc # "after"
      PROVE  LooksKept
    BY <1>1, <1>2, LooksKeptAt
<1>3. CASE Arrive(c)
    <2>1. PICK s \in METERED_SERVICES, analysis \in BOOLEAN :
            request' = [request EXCEPT ![c] =
               [Idle EXCEPT !.pc = IF analysis THEN "analyses" ELSE "send",
                            !.service = s, !.analysis = analysis]]
        BY <1>3 DEF Arrive
    <2>2. PICK r : r = [Idle EXCEPT !.pc = IF analysis THEN "analyses" ELSE "send",
                                    !.service = s, !.analysis = analysis]
        OBVIOUS
    <2>3. r.tally = "no" /\ q.pc = "idle"
        BY <1>3, <2>2 DEF Arrive, Idle
    <2>4. QED
        BY <1>2, <2>1, <2>2, <2>3
<1>4. CASE CheckAnalyses(c)
    <2>1. PICK r : r = (IF analyses < includedAnalyses THEN [q EXCEPT !.pc = "send"] ELSE Idle)
        OBVIOUS
    <2>2. request' = [request EXCEPT ![c] = r] /\ q.pc = "analyses"
        BY <1>4, <2>1 DEF CheckAnalyses
    <2>3. r.tally = "no"
        BY <1>1, <2>1, <2>2 DEF Idle, Request
    <2>4. QED
        BY <1>2, <2>2, <2>3
<1>5. CASE AnswerHere(c) \/ Answer(c)
    <2>1. PICK ok \in BOOLEAN : request' = [request EXCEPT ![c] = Answered(q, ok)]
        BY <1>5 DEF AnswerHere, Answer
    <2>2. q.pc \in {"send", "upstream"}
        BY <1>5 DEF AnswerHere, Answer, Succeeds, GatewayInv, InStep
    <2>3. PICK r : r = Answered(q, ok)
        OBVIOUS
    <2>4. r.tally # "look"
        BY <1>1, <2>3 DEF Answered, Idle, Request
    <2>5. QED
        BY <1>2, <2>1, <2>2, <2>3, <2>4
<1>6. CASE Forward(c)
    <2>1. q.pc = "send" /\ request' = [request EXCEPT ![c] = [q EXCEPT !.pc = "upstream"]]
        BY <1>1, <1>6 DEF Forward, RequestsFit, Request
    <2>2. PICK r : r = [q EXCEPT !.pc = "upstream"]
        OBVIOUS
    <2>3. r.tally = "no"
        BY <1>1, <2>1, <2>2 DEF Request
    <2>4. QED
        BY <1>2, <2>1, <2>2, <2>3
<1>7. CASE Unavailable(c) \/ Failure(c)
    <2>1. request' = [request EXCEPT ![c] = Idle] /\ q.pc \in {"send", "upstream"}
        BY <1>7 DEF Unavailable, Failure, Fails, Leaves, GatewayInv, InStep
    <2>2. Idle.tally = "no"
        BY DEF Idle
    <2>3. QED
        BY <1>2, <2>1, <2>2
<1>8. CASE Meter(c) \/ MeterFails(c)
    <2>1. PICK r : r = Left([q EXCEPT !.meter = FALSE])
        OBVIOUS
    <2>2. request' = [request EXCEPT ![c] = r]
        BY <1>8, <2>1 DEF Meter, MeterFails
    <2>3. /\ r.tally = "look" <=> q.tally = "look"
          /\ q.tally = "look" => r.service = q.service
        BY <1>1, <2>1 DEF Left, Idle, Request
    <2>4. QED
        BY <1>1, <2>2, <2>3, LooksKeptAt
<1>9. CASE Retry(c)
    BY <1>9 DEF Retry, LooksKept
<1>10. QED
    BY <1>3, <1>4, <1>5, <1>6, <1>7, <1>8, <1>9 DEF Ending

LEMMA SeenKept ==
    ASSUME LooksKept, UNCHANGED <<month, unheard>>
    PROVE  /\ \A x : Unseen(x)' <=> Unseen(x)
           /\ \A x : x # "analyses" => Seen(x)' = Seen(x)
           /\ \A d \in Calls : Looking(d)' <=> Looking(d)
<1>1. \A d \in Calls : Looking(d)' <=> Looking(d)
    BY DEF LooksKept, Looking
<1>2. \A x : Unseen(x)' <=> Unseen(x)
    BY DEF LooksKept, Looking, Unseen
<1>3. ASSUME NEW x, x # "analyses" PROVE CountOf(x)' = CountOf(x)
    BY <1>3 DEF CountOf, Total, Counted
<1>4. QED
    BY <1>1, <1>2, <1>3 DEF Seen

\* So nothing is told, and nothing was to be.
LEMMA MarksOfQuietSteps ==
    ASSUME MarksInv, LooksKept, UNCHANGED <<month, analyses, told, unheard>>
    PROVE  MarksInv'
<1>1. \A p \in Marks : told'[<<"analyses", p>>] = Due("analyses", p, analyses')
    BY DEF MarksInv
<1>2. ASSUME ~unheard'
      PROVE  /\ \A c, d \in Calls : Looking(c)' /\ Looking(d)' => c = d
             /\ \A x \in Meters \ {"analyses"}, p \in Marks : told'[<<x, p>>] = Due(x, p, Seen(x)')
    BY <1>2, SeenKept DEF MarksInv
<1>3. QED
    BY <1>1, <1>2 DEF MarksInv, Due, Reaches, Limit

\* An analysis is counted and told of in one step, by the count that it makes.
LEMMA MarksOfMeter ==
    ASSUME GatewayInv, OvershootInv, MarksInv, NEW c \in Calls, Meter(c)
    PROVE  MarksInv'
<1>1. /\ UNCHANGED <<month, unheard>> /\ analyses' = analyses + 1
      /\ Tell({"analyses"} \X percentJustReached(analyses + 1, includedAnalyses))
    BY DEF Meter
<1>2. LooksKept
    BY StepsThatKeepLooks
<1>3. PICK reached : reached = {"analyses"} \X percentJustReached(analyses + 1, includedAnalyses)
    OBVIOUS
<1>4. Tell(reached) /\ CountersFit /\ analyses \in Nat
    BY <1>1, <1>3 DEF GatewayInv, CountersFit
<1>5. ASSUME NEW p \in Marks PROVE told'[<<"analyses", p>>] = Due("analyses", p, analyses')
    <2>1. "analyses" \in Meters /\ Limit("analyses") = includedAnalyses
        BY LimitsAreNumbers DEF Meters
    <2>2. PICK n \in Nat : n = analyses + 1 /\ n - 1 = analyses
        BY <1>4
    <2>3. told[<<"analyses", p>>] = Due("analyses", p, n - 1)
        BY <2>2 DEF MarksInv
    <2>4. <<"analyses", p>> \in reached <=> p \in percentJustReached(n, Limit("analyses"))
        BY <1>3, <2>1, <2>2
    <2>5. told'[<<"analyses", p>>] = Due("analyses", p, n)
        BY <1>4, <2>1, <2>3, <2>4, TellOnce
    <2>6. QED
        BY <1>1, <2>2, <2>5
<1>6. ASSUME NEW x \in Meters \ {"analyses"}, NEW p \in Marks
      PROVE  told'[<<x, p>>] = told[<<x, p>>]
    <2>1. <<x, p>> \notin reached
        BY <1>3
    <2>2. QED
        BY <1>4, <2>1 DEF Tell
<1>7. ASSUME ~unheard'
      PROVE  /\ \A a, b \in Calls : Looking(a)' /\ Looking(b)' => a = b
             /\ \A x \in Meters \ {"analyses"}, p \in Marks : told'[<<x, p>>] = Due(x, p, Seen(x)')
    BY <1>1, <1>2, <1>6, <1>7, SeenKept DEF MarksInv
<1>8. QED
    BY <1>5, <1>7 DEF MarksInv, Due, Reaches, Limit

\* A count of calls is made: one request has it to look at, and only that one.
LEMMA MarksOfTally ==
    ASSUME GatewayInv, OvershootInv, MarksInv, NEW c \in Calls, Tally(c)
    PROVE  MarksInv'
<1>1. PICK q \in Request : q = request[c]
    BY RequestFits DEF GatewayInv
<1>2. PICK s \in METERED_SERVICES : s = q.service
    BY DEF Request
<1>3. /\ month' = [month EXCEPT ![s] = month[s] + 1] /\ UNCHANGED <<analyses, told>>
      /\ unheard' = (unheard \/ \E d \in Calls : Looking(d))
    BY <1>1, <1>2 DEF Tally, Looking
<1>4. /\ \A d \in Calls \ {c} : request'[d] = request[d]
      /\ request'[c].tally = "look" /\ request'[c].service = s
    BY <1>1, <1>2 DEF Tally, GatewayInv, RequestsFit, Request
<1>5. \A p \in Marks : told'[<<"analyses", p>>] = Due("analyses", p, analyses')
    BY <1>3 DEF MarksInv
<1>6. ASSUME ~unheard'
      PROVE  /\ \A a, b \in Calls : Looking(a)' /\ Looking(b)' => a = b
             /\ \A x \in Meters \ {"analyses"}, p \in Marks : told'[<<x, p>>] = Due(x, p, Seen(x)')
    <2>1. ~unheard /\ \A d \in Calls : ~Looking(d)
        BY <1>3, <1>6
    <2>2. \A d \in Calls : Looking(d)' <=> d = c
        BY <1>4, <2>1 DEF Looking
    <2>3. \A x : Unseen(x)' <=> x \in {s, "total"}
        BY <1>4, <2>2 DEF Unseen
    <2>4. \A x : Seen(x) = CountOf(x)
        BY <2>1 DEF Seen, Unseen
    <2>5. month \in [METERED_SERVICES -> Nat] /\ s \notin {"total", "analyses"}
        BY LimitsAreNumbers DEF GatewayInv, CountersFit
    <2>6. Total(month') = Total(month) + 1 /\ Total(month) \in Nat
        BY <1>3, <2>5, OneMoreCounted DEF OvershootInv
    <2>7. CountOf("total")' = CountOf("total") + 1 /\ CountOf("total") \in Nat
        BY <2>6 DEF CountOf, Total, Counted
    <2>8. CountOf(s)' = CountOf(s) + 1 /\ CountOf(s) \in Nat
        BY <1>3, <2>5 DEF CountOf
    <2>9. ASSUME NEW x \in METERED_SERVICES, x # s PROVE CountOf(x)' = CountOf(x)
        BY <1>3, <2>5, <2>9, LimitsAreNumbers DEF CountOf
    <2>10. ASSUME NEW x \in Meters \ {"analyses"} PROVE Seen(x)' = Seen(x)
        <3>1. CASE x \in {s, "total"}
            BY <2>3, <2>4, <2>7, <2>8, <3>1 DEF Seen
        <3>2. CASE x \notin {s, "total"}
            <4>1. x \in METERED_SERVICES /\ x # s /\ ~Unseen(x)'
                BY <2>3, <3>2 DEF Meters
            <4>2. QED
                BY <2>4, <2>9, <4>1 DEF Seen
        <3>3. QED
            BY <3>1, <3>2
    <2>11. QED
        BY <1>3, <2>1, <2>2, <2>10 DEF MarksInv
<1>7. QED
    BY <1>5, <1>6 DEF MarksInv, Due, Reaches, Limit

\* The request looks at it, and tells what that count has just reached.
LEMMA MarksOfLook ==
    ASSUME GatewayInv, OvershootInv, MarksInv, NEW c \in Calls, Look(c)
    PROVE  MarksInv'
<1>1. PICK q \in Request : q = request[c]
    BY RequestFits DEF GatewayInv
<1>2. PICK s \in METERED_SERVICES : s = q.service
    BY DEF Request
<1>3. PICK reached : reached = Reached(s)
    OBVIOUS
<1>4. /\ UNCHANGED <<month, analyses, unheard>> /\ Tell(reached)
      /\ q.tally = "look"
      /\ request' = [request EXCEPT ![c] = Left([q EXCEPT !.tally = "no"])]
    BY <1>1, <1>2, <1>3 DEF Look, usage
<1>5. /\ \A d \in Calls \ {c} : request'[d] = request[d]
      /\ request'[c].tally = "no"
    <2>1. Left([q EXCEPT !.tally = "no"]).tally = "no"
        BY <1>1 DEF Left, Idle, Request
    <2>2. QED
        BY <1>4, <2>1 DEF GatewayInv, RequestsFit
<1>6. CountersFit /\ s \notin {"total", "analyses"}
    BY LimitsAreNumbers DEF GatewayInv
<1>7. \A x, p : <<x, p>> \in reached <=>
                   \/ x = s /\ p \in percentJustReached(month[s], servicePerMonth)
                   \/ x = "total" /\ p \in percentJustReached(Total(month), totalPerMonth)
    BY <1>3 DEF Reached
<1>8. ASSUME NEW p \in Marks PROVE told'[<<"analyses", p>>] = Due("analyses", p, analyses')
    <2>1. <<"analyses", p>> \notin reached /\ "analyses" \in Meters
        BY <1>6, <1>7 DEF Meters
    <2>2. told'[<<"analyses", p>>] = told[<<"analyses", p>>]
        BY <1>4, <2>1 DEF Tell
    <2>3. QED
        BY <1>4, <2>2 DEF MarksInv
<1>9. ASSUME ~unheard'
      PROVE  /\ \A a, b \in Calls : Looking(a)' /\ Looking(b)' => a = b
             /\ \A x \in Meters \ {"analyses"}, p \in Marks : told'[<<x, p>>] = Due(x, p, Seen(x)')
    <2>1. ~unheard /\ Looking(c) /\ \A d \in Calls : Looking(d) => d = c
        BY <1>1, <1>4, <1>9 DEF MarksInv, Looking
    <2>2. \A d \in Calls : ~Looking(d)'
        BY <1>5, <2>1 DEF Looking
    <2>3. \A x : Unseen(x) <=> x \in {s, "total"}
        BY <1>1, <1>2, <2>1 DEF Unseen
    <2>4. ASSUME NEW x \in Meters \ {"analyses"} PROVE Seen(x)' = CountOf(x)
        <3>1. CountOf(x)' = CountOf(x)
            BY <1>4 DEF CountOf, Total, Counted
        <3>2. QED
            BY <2>2, <3>1 DEF Seen, Unseen
    <2>5. ASSUME NEW x \in Meters \ {"analyses"}, NEW p \in Marks
          PROVE  told'[<<x, p>>] = Due(x, p, CountOf(x))
        <3>1. told[<<x, p>>] = Due(x, p, Seen(x))
            BY <2>1 DEF MarksInv
        <3>2. CASE x \in {s, "total"}
            <4>1. PICK n \in Nat : n = CountOf(x)
                BY CountsAreNumbers
            <4>2. Seen(x) = n - 1
                BY <2>3, <3>2, <4>1 DEF Seen
            <4>3. <<x, p>> \in reached <=> p \in percentJustReached(n, Limit(x))
                BY <1>6, <1>7, <3>2, <4>1, CountsAreNumbers, LimitsAreNumbers
            <4>4. told[<<x, p>>] = Due(x, p, n - 1)
                BY <3>1, <4>2
            <4>5. told'[<<x, p>>] = Due(x, p, n)
                BY <1>4, <1>6, <4>3, <4>4, TellOnce
            <4>6. QED
                BY <4>1, <4>5
        <3>3. CASE x \notin {s, "total"}
            <4>1. <<x, p>> \notin reached /\ ~Unseen(x)
                BY <1>7, <2>3, <3>3
            <4>2. told'[<<x, p>>] = told[<<x, p>>]
                BY <1>4, <4>1 DEF Tell
            <4>3. QED
                BY <3>1, <4>1, <4>2 DEF Seen
        <3>4. QED
            BY <3>2, <3>3
    <2>6. QED
        BY <2>2, <2>4, <2>5
<1>10. QED
    BY <1>8, <1>9 DEF MarksInv, Due, Reaches, Limit

LEMMA MarksAreKept ==
    ASSUME GatewayInv, OvershootInv, MarksInv, [Next]_vars
    PROVE  MarksInv'
<1>1. ASSUME NEW c \in Calls, Serve(c) \/ MeterFails(c) PROVE MarksInv'
    <2>1. LooksKept
        BY <1>1, StepsThatKeepLooks DEF Serve
    <2>2. UNCHANGED <<month, analyses, told, unheard>>
        BY <1>1 DEF Serve, Ending, Arrive, CheckAnalyses, AnswerHere, Forward, Unavailable, Retry,
                    Answer, Failure, MeterFails, usage
    <2>3. QED
        BY <2>1, <2>2, MarksOfQuietSteps
<1>2. ASSUME NEW c \in Calls, TallyFails(c) PROVE MarksInv'
    <2>1. PICK q \in Request : q = request[c]
        BY RequestFits DEF GatewayInv
    <2>2. /\ UNCHANGED <<month, analyses, told>> /\ q.tally # "no"
          /\ unheard' = (unheard \/ q.tally = "look")
          /\ request' = [request EXCEPT ![c] = Left([q EXCEPT !.tally = "no", !.fresh = FALSE])]
        BY <1>2, <2>1 DEF TallyFails, usage
    <2>3. CASE q.tally = "look"
        <3>1. unheard' = TRUE
            BY <2>2, <2>3
        <3>2. QED
            BY <2>2, <3>1 DEF MarksInv, Due, Reaches, Limit
    <2>4. CASE q.tally # "look"
        <3>1. PICK r : r = Left([q EXCEPT !.tally = "no", !.fresh = FALSE])
            OBVIOUS
        <3>2. r.tally = "no"
            BY <2>1, <3>1 DEF Left, Idle, Request
        <3>3. LooksKept
            BY <2>1, <2>2, <2>4, <3>1, <3>2, LooksKeptAt DEF GatewayInv
        <3>4. unheard' = unheard
            BY <2>2, <2>4 DEF GatewayInv, CountersFit
        <3>5. QED
            BY <2>2, <3>3, <3>4, MarksOfQuietSteps
    <2>5. QED
        BY <2>3, <2>4
<1>3. CASE NewMinute
    <2>1. LooksKept
        BY <1>3 DEF NewMinute, LooksKept, GatewayInv, RequestsFit, Request
    <2>2. QED
        BY <1>3, <2>1, MarksOfQuietSteps DEF NewMinute
<1>4. CASE (\E s \in Services : Cools(s)) \/ UNCHANGED vars
    BY <1>4, MarksOfQuietSteps DEF Cools, vars, usage, LooksKept
<1>5. QED
    BY <1>1, <1>2, <1>3, <1>4, MarksOfTally, MarksOfLook, MarksOfMeter DEF Next, Count

LEMMA MarksFire ==
    ASSUME OvershootInv, GatewayInv, MarksInv
    PROVE  MarksFireOnce
<1> SUFFICES ASSUME NEW x \in Meters, NEW p \in Marks,
                    x = "analyses" \/ (~unheard /\ \A c \in Calls : request[c].tally # "look")
             PROVE  told[<<x, p>>] = IF CountOf(x) >= Mark(x, p) /\ (p = 100 \/ Mark(x, p) < Limit(x))
                                     THEN 1 ELSE 0
    BY DEF MarksFireOnce
<1>1. told[<<x, p>>] = Due(x, p, CountOf(x))
    <2>1. CASE x = "analyses"
        BY <2>1, CountsAreNumbers DEF MarksInv
    <2>2. CASE x # "analyses"
        BY <2>2 DEF MarksInv, Seen, Unseen, Looking
    <2>3. QED
        BY <2>1, <2>2
<1>2. QED
    BY <1>1 DEF Due, Reaches, Mark

\* Each mark is told once: of analyses whatever overlaps, and of calls as long as no
\* two counts of calls overlap and none is lost (checkMonthlyUsage, meterAnalysis).
THEOREM MarksAlwaysFireOnce == Spec => []MarksFireOnce
<1>1. Init => GatewayInv /\ OvershootInv /\ MarksInv
    BY GatewayInitHolds, OvershootInitHolds, MarksInitHold
<1>2. GatewayInv /\ OvershootInv /\ MarksInv /\ [Next]_vars
        => GatewayInv' /\ OvershootInv' /\ MarksInv'
    BY GatewayInvIsKept, OvershootIsKept, MarksAreKept
<1>3. GatewayInv /\ OvershootInv /\ MarksInv => MarksFireOnce
    BY MarksFire
<1>4. QED
    BY <1>1, <1>2, <1>3, PTL DEF Spec

=============================================================================
