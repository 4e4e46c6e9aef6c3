CONSTANTS
 Mails={m1} Runs={r1} LIMIT=1 Backoffs=3 MaxAborts=0 OutrunsClaim=FALSE Nothing=Nothing
SPECIFICATION OutboxSpec
INVARIANT DroppedAfterTheBackoffs
CHECK_DEADLOCK FALSE
