CONSTANTS
 Requests={r1,r2} Payloads={p,q} LongDelays=FALSE None=None
SPECIFICATION Spec
INVARIANT ReplaysOwnAnswer
