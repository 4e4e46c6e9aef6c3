CONSTANTS
 Keys={k1} Services={registry,desk} Brokered={registry} Backends={b1} Requests={h1}
 MaxKeys=1 Batch=2 CommitReplyLost=TRUE None=None
SPECIFICATION FairSpec
PROPERTY EndedKeysLoseTheirCredentials RemovedGrantsLoseTheirCredentials
CHECK_DEADLOCK FALSE
