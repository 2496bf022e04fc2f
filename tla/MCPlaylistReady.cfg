\* The default 1 s target with a pre-roll of one 10 s segment, one connection.
CONSTANTS
    TargetMs <- MCTarget1s
    SampleRate <- MCSampleRate
    Prerole <- MCPrerole
    MaxFrames <- MCMaxFramesLong
    MaxConns <- MCMaxConnsOne
    MaxIoErrors <- MCNoIoErrors

SPECIFICATION Spec

INVARIANT
    ReadyHlsSentOnce

\* The publisher sends a bounded number of frames; after the last one the
\* writer waits on its subscription.
CHECK_DEADLOCK FALSE
