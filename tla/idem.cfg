CONSTANTS
 Requests={r1,r2} Payloads={p,q} LongDelays=TRUE None=None
SPECIFICATION FairSpec
INVARIANTS OnlyOneExecutes ReplaysFit
PROPERTY KeysAreNotWedged
