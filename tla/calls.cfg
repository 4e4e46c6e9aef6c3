CONSTANTS
 Calls={c1,c2} Services={"market"} Holders={h1,h2} None=None
 BREAKER_FAILURES=2 MaxInFlight=2 MaxInFlightPerHolder=1
 Desk="desk" Market="market"
 servicePerMinute=1 totalPerMinute=2 servicePerMonth=5 totalPerMonth=9 includedAnalyses=5 CountedBefore=3
SPECIFICATION Spec
INVARIANTS PlacesAreReturned FlaggedTrialRuns OvershootIsBounded MarksFireOnce
PROPERTY BreakerLetsThrough
CHECK_DEADLOCK FALSE
