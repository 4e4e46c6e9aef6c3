CONSTANTS
 Requests={r1,r2,r3} Payloads={p} LongDelays=FALSE None=None
SPECIFICATION Spec
INVARIANT NeverTwoAtATime
