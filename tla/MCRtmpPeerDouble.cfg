\* A client may publish again on a connection that is still publishing
\* (peer.rs 159-169 then gets DuplicatedCreation); a write to a client
\* fails only before it has a core session.
CONSTANTS
    p1 = p1
    p2 = p2
    k1 = k1
    k2 = k2
    Peers <- MCPeers
    KeyVals <- MCKeyVals
    MaxChunks <- MCMaxChunks
    MaxBatch <- MCMaxBatch
    MaxPublishes <- MCMaxPublishes
    DoublePublish = TRUE
    ResetWhilePublishing = FALSE

SPECIFICATION Spec

INVARIANT SessionsOwned

\* Once every connection has ended the server waits for the next one.
CHECK_DEADLOCK FALSE
