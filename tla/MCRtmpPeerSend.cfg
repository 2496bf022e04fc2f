\* No publish while still publishing; a ReturnData write may fail
\* (the client has gone) also while the peer is Publishing, so the
\* .expect at peer.rs:121 may panic with a core session held.
CONSTANTS
    p1 = p1
    p2 = p2
    k1 = k1
    k2 = k2
    Peers <- MCPeers
    KeyVals <- MCKeyVals
    MaxChunks <- MCMaxChunks
    MaxBatch <- MCMaxBatch
    MaxPublishes <- MCMaxPublishes
    DoublePublish = FALSE
    ResetWhilePublishing = TRUE

SPECIFICATION Spec

INVARIANT SessionsOwned

\* Once every connection has ended the server waits for the next one.
CHECK_DEADLOCK FALSE
