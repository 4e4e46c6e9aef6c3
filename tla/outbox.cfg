CONSTANTS
 Mails={m1,m2} Runs={r1,r2} LIMIT=2 Backoffs=1 MaxAborts=1 OutrunsClaim=TRUE Nothing=Nothing
SPECIFICATION OutboxSpec
INVARIANTS ArrivesOnce TriesAreBounded
PROPERTY OutboxEmpties
CHECK_DEADLOCK FALSE
