\* Well-behaved clients: no publish while still publishing, and a
\* ReturnData write fails (the client has gone) only before the peer
\* has a core session.
CONSTANTS
    p1 = p1
    p2 = p2
    k1 = k1
    k2 = k2
    Peers <- MCPeers
    KeyVals <- MCKeyVals
    MaxChunks <- MCMaxChunks
    MaxBatch <- MCMaxBatch
    MaxPublishes <- MCMaxPublishes
    DoublePublish = FALSE
    ResetWhilePublishing = FALSE

SPECIFICATION Spec

INVARIANTS
    TypeOK
    SessionsOwned

PROPERTY
    EveryConnectionWindsDown

\* Once every connection has ended the server waits for the next one.
CHECK_DEADLOCK FALSE
