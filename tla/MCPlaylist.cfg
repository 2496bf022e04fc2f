\* The default 1 s target, a 10 s pre-roll, one reconnection, one failed write.
CONSTANTS
    TargetMs <- MCTarget1s
    SampleRate <- MCSampleRate
    Prerole <- MCPrerole
    MaxFrames <- MCMaxFrames
    MaxConns <- MCMaxConns
    MaxIoErrors <- MCMaxIoErrors

SPECIFICATION Spec

INVARIANTS
    TypeOK
    DurationAccounted
    SegmentsFitTarget
    DemuxTimestampsMatchReference
    DemuxPacedToClock
    TsPacketsFit
    TsContinuityAcrossSegments
    TsSegmentsOpenWithPcr
    RtmpFramesCounted
    RtmpSamplesCarryLastConfig
    HlsSequenceContinues
    HlsServiceDiesOnlyOnStepBack
    RecordedFramesMatchReference
    RecordMessagesMatchOutcome
    StatCountsMatchSessions
    StatSessionRemovedOnceOutputsEnd

\* The publisher sends a bounded number of frames; after the last one the
\* writer waits on its subscription.
CHECK_DEADLOCK FALSE
