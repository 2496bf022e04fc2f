\* A 2 s target, inside the clamp range; no pre-roll, one connection.
CONSTANTS
    TargetMs <- MCTarget2s
    SampleRate <- MCSampleRate
    Prerole <- MCNoPrerole
    MaxFrames <- MCMaxFramesLong
    MaxConns <- MCMaxConnsOne
    MaxIoErrors <- MCNoIoErrors

SPECIFICATION Spec

PROPERTY
    ReadyOnlyAtSixTargets

\* The publisher sends a bounded number of frames; after the last one the
\* writer waits on its subscription.
CHECK_DEADLOCK FALSE
