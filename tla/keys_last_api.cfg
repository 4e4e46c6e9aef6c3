CONSTANTS
 Keys={k1} Services={registry,desk} Brokered={registry} Backends={b1,b2} Requests={h1,h2}
 MaxKeys=1 Batch=2 CommitReplyLost=FALSE None=None
SPECIFICATION Spec
INVARIANTS KeyKeepsAnApi
CHECK_DEADLOCK FALSE
