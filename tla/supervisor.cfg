CONSTANTS
 Workers={w1,w2,w3} MaxTimers=2
SPECIFICATION FairSupervisorSpec
INVARIANTS NoGap
PROPERTIES CrashesAreMended ControlEnds
CHECK_DEADLOCK FALSE
