----------------------------- MODULE MCPlaylist -----------------------------
(***************************************************************************)
(* Bounds for checking Playlist with TLC.                                  *)
(*   MCTarget*     the configured hls_target_duration: the default 1 s,    *)
(*                 2 s inside the clamp range, 10 s above it.              *)
(*   MCPrerole     a pre-roll of one 10 s segment, the usual HLS segment   *)
(*                 length, so the playlist is trimmed after a few cuts.    *)
(*   MCMaxFrames   200 frames (about 4.3 s) per connection: four cuts and  *)
(*                 the first trim; 600 for the runs that need 12 s.        *)
(*   MCMaxConns    2: one reconnection, so one discontinuity.              *)
(***************************************************************************)
EXTENDS Playlist

MCTarget1s == 1000
MCTarget2s == 2000
MCTarget10s == 10000
MCSampleRate == 48000
MCPrerole == <<10000>>
MCNoPrerole == <<>>
MCMaxFrames == 200
MCMaxFramesLong == 600
MCMaxConns == 2
MCMaxConnsOne == 1
MCMaxIoErrors == 1
MCNoIoErrors == 0

(***************************************************************************)
(* The ADTS demuxer that feeds the writer, checked over every run of up to *)
(* three receiver calls: a read timeout (empty run), one or three 48 kHz   *)
(* stereo frames, a bad header between two frames, a truncated frame, a    *)
(* 44.1 kHz frame, and a frame at an unsupported 32 kHz before a 48 kHz    *)
(* mono one.  The instants reach a starvation of 1 s, more than two       *)
(* filler batches (20 frames are about 427 ms at 48 kHz).                 *)
(***************************************************************************)
MCAdts(kind, freq, chan) == [kind |-> kind, freq |-> freq, chan |-> chan]
MCF48 == MCAdts("frame", 48000, 2)
MCDemuxChunks ==
    {<<>>, <<MCF48>>, <<MCF48, MCF48, MCF48>>, <<MCF48, MCAdts("bad", 0, 0), MCF48>>,
     <<MCAdts("short", 0, 0)>>, <<MCAdts("frame", 44100, 2)>>,
     <<MCAdts("frame", 32000, 2), MCAdts("frame", 48000, 1)>>}
MCDemuxTimes == {0, 20000, 450000, 1000000}

Demux == INSTANCE AdtsDemuxer WITH Chunks <- MCDemuxChunks, Times <- MCDemuxTimes, MaxCalls <- 3

(***************************************************************************)
(* The link between the writer's run and the pure checks below: the frame  *)
(* the writer handles carries the demuxer's stamp, read with               *)
(* Timestamp::as_millis as handle_aac_audio reads it.  Each pure check is  *)
(* conjoined with it, so that it is an invariant of the writer's states.   *)
(***************************************************************************)
WriterFrameStamped ==
    frame >= 0 => FrameTs(frame) = Demux!as_millis(Demux!Ratio(ADTS_FRAME_SAMPLES * frame, SampleRate))

\* AdtsDemuxer's DemuxTimestampsMatchReference: the i-th sample returned on
\* a connection is stamped i x 1024 / its frequency.
DemuxTimestampsMatchReference == WriterFrameStamped /\ Demux!DemuxTimestampsMatchReference

\* AdtsDemuxer's DemuxPacedToClock: handle_bytes returns no sample early and
\* keeps the returned stream within 20 frames of the wall clock.
DemuxPacedToClock == WriterFrameStamped /\ Demux!DemuxPacedToClock

(***************************************************************************)
(* The writer's TS buffer, checked over every run of up to four samples:   *)
(* a short frame, one just over the first packet's payload, and the        *)
(* largest AAC frame of 48 kHz stereo (9 packets, so the counter wraps);   *)
(* each sample cuts nothing, cuts a segment, or cuts one whose file fails. *)
(***************************************************************************)
Ts == INSTANCE TransportStream WITH FrameSizes <- {100, 163, 1536}, MaxSteps <- 4

\* TransportStream's TsPacketsFit: every packet of a frame fits 188 bytes
\* and the packets carry the whole frame.
TsPacketsFit == WriterFrameStamped /\ Ts!TsPacketsFit

\* TransportStream's TsContinuityAcrossSegments: the audio continuity
\* counter runs on across segment files unless a file was lost.
TsContinuityAcrossSegments == WriterFrameStamped /\ Ts!TsContinuityAcrossSegments

\* TransportStream's TsSegmentsOpenWithPcr: a segment file after a written
\* one opens with the PCR adaptation field.
TsSegmentsOpenWithPcr == WriterFrameStamped /\ Ts!TsSegmentsOpenWithPcr

\* The RTMP audio path over every sequence of up to four tags drawn from a
\* 48 kHz stereo ASC, a 44.1 kHz mono ASC, an ASC without a frequency and a
\* body that is no ASC.
MCPayloads ==
    {[valid |-> TRUE, freq |-> 48000, chans |-> 2],
     [valid |-> TRUE, freq |-> 44100, chans |-> 1],
     [valid |-> TRUE, freq |-> 0, chans |-> 2],
     [valid |-> FALSE, freq |-> 0, chans |-> 0]}

Rtmp == INSTANCE RtmpAudio WITH Payloads <- MCPayloads, MaxTags <- 4

\* RtmpHandle counts exactly the frames it sends and stops at the first
\* tag that must fail (RtmpAudio!RtmpFramesCounted).
RtmpFramesCounted == WriterFrameStamped /\ Rtmp!RtmpFramesCounted

\* Every RTMP sample carries the ASC, rate and channels of the last
\* sequence header (RtmpAudio!RtmpSamplesCarryLastConfig).
RtmpSamplesCarryLastConfig == WriterFrameStamped /\ Rtmp!RtmpSamplesCarryLastConfig

\* The HLS service's sequence map over every run of up to four CreateSession
\* events of two names, at the default two-hour ttl, with wall-clock
\* readings on both sides of the 7800 s horizon and able to step back.
HlsSeq == INSTANCE HlsSequence WITH Names <- {"a", "b"}, Clock <- {1000, 5000, 8800, 8801},
                                   TtlSecs <- 7200, MaxEvents <- 4

\* A reconnect continues the name's file numbering while its entry is held
\* (HlsSequence!HlsSequenceContinues).
HlsSequenceContinues == WriterFrameStamped /\ HlsSeq!HlsSequenceContinues

\* The HLS service dies exactly on a clock step back over a held entry
\* (HlsSequence!HlsServiceDiesOnlyOnStepBack).
HlsServiceDiesOnlyOnStepBack == WriterFrameStamped /\ HlsSeq!HlsServiceDiesOnlyOnStepBack

\* The MP4 recorder over every stream of up to three samples from two
\* connections, in a supported format, at an unsupported rate and with a
\* channel count ChannelConfig rejects, under every I/O outcome.
Rec == INSTANCE Recorder WITH Sids <- {0, 1},
                              Formats <- {[rate |-> 48000, chans |-> 2],
                                          [rate |-> 32000, chans |-> 2],
                                          [rate |-> 44100, chans |-> 0]},
                              MaxSamples <- 3

\* The MP4 holds exactly the current connection's written frames, stamped
\* gaplessly (Recorder!RecordedFramesMatchReference).
RecordedFramesMatchReference == WriterFrameStamped /\ Rec!RecordedFramesMatchReference

\* StartRecord, the renamed file and CompleteRecord follow the recorder's
\* outcome (Recorder!RecordMessagesMatchOutcome).
RecordMessagesMatchOutcome == WriterFrameStamped /\ Rec!RecordMessagesMatchOutcome


\* The stats service's loop over every arrival order of one session's
\* events: an SRT or RTMP ingest, a writer that reports ready up to twice,
\* a recorder, each having sent any prefix of its stream.
Stat == INSTANCE StatSessions WITH Protocols <- {"srt", "rtmp"}, MaxReady <- 2

\* The stats counters equal the sessions they count, in every arrival
\* order (StatSessions!StatCountsMatchSessions).
StatCountsMatchSessions == WriterFrameStamped /\ Stat!StatCountsMatchSessions

\* A stats session leaves the map once its outputs end
\* (StatSessions!StatSessionRemovedOnceOutputsEnd).
StatSessionRemovedOnceOutputsEnd == WriterFrameStamped /\ Stat!StatSessionRemovedOnceOutputsEnd

=============================================================================
