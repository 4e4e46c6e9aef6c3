CONSTANTS
 Keys={k1} Services={registry,desk} Brokered={registry} Backends={b1,b2} Requests={h1,h2}
 MaxKeys=1 Batch=1 CommitReplyLost=FALSE None=None
SPECIFICATION Spec
INVARIANTS TypeOK GrantedKeysWork OnlyTheDeadAreRevoked
PROPERTY CredentialLifeCycle
SYMMETRY Interchangeable
CHECK_DEADLOCK FALSE
