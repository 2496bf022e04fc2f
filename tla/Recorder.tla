------------------------------ MODULE Recorder ------------------------------
(***************************************************************************)
(* The MP4 recorder of one session (echo-record recorder.rs), built with   *)
(* the "record" feature: a second CreateSession trigger whose Recorder     *)
(* reads the session's sample bus like the HLS writer.  Recorder::run      *)
(* makes a temp file, and on the first sample that passes the sid          *)
(* watermark starts the MP4 writer with a track at that sample's rate and  *)
(* sends StartRecord; every later sample of more than 7 bytes becomes an   *)
(* MP4 sample stamped by a frame counter.  When recv() fails (the bus      *)
(* closed or lagged) the MP4 is finished, renamed to {name}.mp4 and        *)
(* CompleteRecord is sent; a recorder that got nothing removes its temp    *)
(* file.  An Err returned by run() panics the spawned task                 *)
(* (recorder.run().await.unwrap() in service.rs 49): the recording ends.  *)
(*                                                                         *)
(* A sample is abstracted to its sid, rate and channel count, whether it   *)
(* is longer than the 7-byte ADTS header, and whether its write succeeds.  *)
(* The I/O of the temp file, of the MP4 start and of the finish are one   *)
(* outcome each, and so is the wall-clock reading taken after the rename.  *)
(* A panic's effect on the temp file (NamedTempFile removes it on unwind) *)
(* depends on the build's panic strategy and is left out; the recorder's  *)
(* sends to the manager are taken to succeed.                             *)
(***************************************************************************)
EXTENDS Naturals, Sequences, SequencesExt

CONSTANTS
    Sids,        \* connection ids a sample may carry
    Formats,     \* [rate, chans] of the samples
    MaxSamples   \* longest sample stream examined

ADTS_FRAME_SAMPLES == 1024

Samples == [sid : Sids, fmt : Formats, long : BOOLEAN, wok : BOOLEAN]

\* The outcome of the I/O steps run() takes with `?`, and whether the clock
\* has not stepped back since begin_time when duration_since is unwrapped.
Io == [tmp : BOOLEAN, start : BOOLEAN, finish : BOOLEAN, clock : BOOLEAN]

\* Recorder::create: no MP4 writer, timestamp 0; has_recv and sid of run().
InitialRecorder ==
    [phase |-> "run", has_recv |-> FALSE, sid |-> 0, track |-> 0, timestamp |-> 0,
     frames |-> <<>>, msgs |-> <<>>, file |-> "tmp"]

Panic(r) == [r EXCEPT !.phase = "panic"]

\* The first sample's setup (recorder.rs 80-132): File::create and
\* async_write_start, then the SampleFreqIndex of the rate (only 48000 and
\* 44100, else bail!), ChannelConfig::try_from(channels) and add_track.
\* Mutant: any other rate taken as 48000.
start_recording_any_rate(r, s, io) ==
    IF ~io.start \/ s.fmt.chans \notin 1..7 THEN Panic(r)
    ELSE [r EXCEPT !.track = s.fmt.rate, !.msgs = Append(@, "StartRecord"),
                   !.has_recv = TRUE]

start_recording(r, s, io) ==
    IF ~io.start \/ s.fmt.rate \notin {48000, 44100} \/ s.fmt.chans \notin 1..7
    THEN Panic(r)
    ELSE [r EXCEPT !.track = s.fmt.rate, !.msgs = Append(@, "StartRecord"),
                   !.has_recv = TRUE]

\* handle_aac_audio (recorder.rs 177-193): a sample of more than 7 bytes
\* is written stamped with the frame counter, which advances only when the
\* write succeeds (the error is logged by run()).
handle_aac_audio(r, s) ==
    IF s.long /\ r.track # 0 /\ s.wok
    THEN [r EXCEPT !.frames = Append(@, [start |-> r.timestamp, sample |-> s]),
                   !.timestamp = @ + ADTS_FRAME_SAMPLES]
    ELSE r

\* Mutant: the watermark never raised.
recv_sample_no_watermark(r, s, io) ==
    IF r.phase # "run" THEN r
    ELSE LET r1 == IF r.has_recv THEN r ELSE start_recording(r, s, io)
         IN  IF r1.phase # "run" THEN r1 ELSE handle_aac_audio(r1, s)

\* One turn of run()'s loop with recv() Ok (recorder.rs 73-137): the sid
\* watermark, the setup on the first sample, handle_sample.
recv_sample(r, s, io) ==
    IF r.phase # "run" \/ s.sid < r.sid THEN r
    ELSE LET r0 == [r EXCEPT !.sid = s.sid]
             r1 == IF r0.has_recv THEN r0 ELSE start_recording(r0, s, io)
         IN  IF r1.phase # "run" THEN r1 ELSE handle_aac_audio(r1, s)

\* recv() fails (recorder.rs 139-172): async_write_end and the rename, then
\* duration_since(begin_time).unwrap() and CompleteRecord; or, with nothing
\* received, remove_file of the temp file.
finish(r, io) ==
    CASE r.phase # "run"             -> r
      [] ~io.finish                  -> Panic(r)
      [] r.has_recv /\ ~io.clock     -> Panic([r EXCEPT !.file = "mp4"])
      [] r.has_recv                  -> [r EXCEPT !.phase = "done", !.file = "mp4",
                                                  !.msgs = Append(@, "CompleteRecord")]
      [] OTHER                       -> [r EXCEPT !.phase = "done", !.file = "none"]

\* Recorder::run over a stream of samples (tempfile_in first, line 58-61).
Run(io, ss) ==
    IF ~io.tmp THEN Panic(InitialRecorder)
    ELSE finish(FoldLeft(LAMBDA r, s : recv_sample(r, s, io), InitialRecorder, ss), io)

Streams == BoundedSeq(Samples, MaxSamples)

(***************************************************************************)
(* Reference, from the stream alone.                                       *)
(***************************************************************************)
\* Sample k is not older than any connection seen before it.
Current(ss, k) == \A j \in 1..(k - 1) : ss[j].sid <= ss[k].sid

Supported(f) == f.rate \in {48000, 44100} /\ f.chans \in 1..7

\* The samples that reach the MP4 file, in order.
Recorded(ss) == SelectSeq(ss, LAMBDA s : s.long /\ s.wok)

\* The samples that pass the watermark, in order.
CurrentSamples(ss) ==
    [i \in 1..Cardinality({k \in 1..Len(ss) : Current(ss, k)}) |->
        ss[SetToSortSeq({k \in 1..Len(ss) : Current(ss, k)}, <)[i]]]

(***************************************************************************)
(* Properties.                                                             *)
(***************************************************************************)

\* The MP4 holds exactly the samples of the newest connection seen so far
\* that carry more than an ADTS header and were written, in order, with
\* start times 0, 1024, 2048, ... on the timescale of the first sample,
\* whatever the samples' own timestamps and whatever writes failed.
RecordedFramesMatchReference ==
    \A io \in Io, ss \in Streams :
        LET r == Run(io, ss) IN
        r.phase = "done" =>
            LET ref == Recorded(CurrentSamples(ss)) IN
            /\ Len(r.frames) = Len(ref)
            /\ \A k \in 1..Len(ref) :
                  r.frames[k].sample = ref[k]
                  /\ r.frames[k].start = ADTS_FRAME_SAMPLES * (k - 1)
            /\ r.frames # <<>> => r.track = ss[1].fmt.rate

\* StartRecord is sent exactly when the first sample (the watermark starts
\* at 0, so it is always current) has a
\* supported rate and channel count and the MP4 could be started;
\* {name}.mp4 exists exactly when, in addition, the MP4 was finished and
\* renamed; CompleteRecord follows only if the clock has not stepped back
\* since the recording began, so a panic at recorder.rs 149 leaves a
\* finished file the manager never hears of.  The task ends without a
\* panic only with both messages sent or with no sample received.
RecordMessagesMatchOutcome ==
    \A io \in Io, ss \in Streams :
        LET r == Run(io, ss)
            started == io.tmp /\ ss # <<>> /\ io.start /\ Supported(ss[1].fmt)
            renamed == started /\ io.finish
        IN  /\ r.msgs = IF ~started THEN <<>>
                        ELSE IF renamed /\ io.clock THEN <<"StartRecord", "CompleteRecord">>
                        ELSE <<"StartRecord">>
            /\ (r.file = "mp4") = renamed
            /\ (r.phase = "done") =
                  (io.tmp /\ io.finish /\ (ss = <<>> \/ (started /\ io.clock)))
=============================================================================
