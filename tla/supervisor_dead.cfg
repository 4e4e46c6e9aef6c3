CONSTANTS
 Workers={w1,w2,w3} MaxTimers=2
SPECIFICATION FairSupervisorSpec
PROPERTY DeadWorkersAreReplaced
CHECK_DEADLOCK FALSE
