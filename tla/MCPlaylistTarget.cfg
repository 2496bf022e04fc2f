\* A 10 s target, above the clamp range; no pre-roll, one connection.
CONSTANTS
    TargetMs <- MCTarget10s
    SampleRate <- MCSampleRate
    Prerole <- MCNoPrerole
    MaxFrames <- MCMaxFramesLong
    MaxConns <- MCMaxConnsOne
    MaxIoErrors <- MCNoIoErrors

SPECIFICATION Spec

INVARIANT
    SegmentsFitTarget

\* The publisher sends a bounded number of frames; after the last one the
\* writer waits on its subscription.
CHECK_DEADLOCK FALSE
