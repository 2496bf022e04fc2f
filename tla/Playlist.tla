------------------------------ MODULE Playlist ------------------------------
(***************************************************************************)
(* One HLS writer cutting the audio it receives into segments and keeping  *)
(* its live playlist (echo-hls writer.rs and m3u8.rs).                      *)
(*                                                                         *)
(* The writer sees the AAC samples of the publish, connection after        *)
(* connection: every SRT connection has its own AdtsDemuxer, whose sample  *)
(* timestamps are frame_count * 1024 / sample_rate and so start again at   *)
(* 0 on every reconnection (adts_demuxer.rs 88-103).  handle_aac_audio      *)
(* cuts a segment when a timestamp reaches next_write, or when timestamps  *)
(* go backwards (a discontinuity); write_segment writes the .ts file and   *)
(* add_media_segment appends the segment to the playlist, trimming the     *)
(* oldest one first when the playlist is full, rewrites the manifest and   *)
(* reports whether the playlist became Ready or NotReady.                  *)
(*                                                                         *)
(* Abstracted: the bytes of the segments and the manifest, file names and  *)
(* media_sequence (they only name files), and the cleaner items, which     *)
(* HlsStorage models.  Times are milliseconds as in the code.              *)
(***************************************************************************)
EXTENDS Integers, Sequences, SequencesExt

CONSTANTS
    TargetMs,     \* config.hls_target_duration in ms, as configured
    SampleRate,   \* the AAC sample rate of the publish
    Prerole,      \* durations (ms) of the pre-roll playlist's segments
    MaxFrames,    \* frames per connection the publisher sends
    MaxConns,     \* connections of the publish
    MaxIoErrors   \* failed file writes

ASSUME TargetMs >= 22 /\ SampleRate \in {44100, 48000}

AAC_FRAME_DURATION == 22
ADTS_FRAME_SAMPLES == 1024
INVALID_TIMESTAMP_MS == -1   \* u64::MAX in the code: "no sample yet"

\* Timestamp::as_millis of the n-th frame of a connection.
FrameTs(n) == (ADTS_FRAME_SAMPLES * n * 1000) \div SampleRate

\* Playlist::new (m3u8.rs 49-64): the clamped target and the derived bounds.
tar_dur == IF TargetMs < 1000 THEN 1000 ELSE IF TargetMs > 8000 THEN 8000 ELSE TargetMs
playlist_duration == (12000 * 1000) \div tar_dur
playlist_min_duration == (6000 * 1000) \div tar_dur

\* Writer::create (writer.rs 55): from the configured, unclamped target.
write_interval == TargetMs - AAC_FRAME_DURATION

Segment == [duration : Nat, prerole : BOOLEAN, discontinuity : BOOLEAN]

SumDurations(segs) == FoldLeft(LAMBDA acc, seg : acc + seg.duration, 0, segs)

\* prerole_dur (service.rs 53-56).
prerole_dur == FoldLeft(LAMBDA acc, d : acc + d, 0, Prerole)

VARIABLES
    next_write, last_timestamp, prev_timestamp, discontinuity,  \* Writer
    playlist,    \* Playlist: [segments, current_duration, state]
    readySent,   \* ReadyHlsSession messages sent to the manager
    conn,        \* the connection whose samples arrive
    frame,       \* index of its last frame handled, -1 before the first
    ioErrors     \* file writes that have failed

vars == <<next_write, last_timestamp, prev_timestamp, discontinuity,
          playlist, readySent, conn, frame, ioErrors>>

TypeOK ==
    /\ next_write \in Nat
    /\ last_timestamp \in Nat
    /\ prev_timestamp \in Nat \cup {INVALID_TIMESTAMP_MS}
    /\ discontinuity \in BOOLEAN
    /\ playlist.segments \in Seq(Segment)
    /\ playlist.current_duration \in Nat
    /\ playlist.state \in {"NotReady", "Ready"}
    /\ readySent \in Nat
    /\ conn \in 0..MaxConns - 1
    /\ frame \in -1..MaxFrames - 1
    /\ ioErrors \in 0..MaxIoErrors

\* Writer::create and Playlist::new: the playlist starts as the pre-roll
\* (HlsService sums its durations into prerole_dur, service.rs 53-56).
Init ==
    /\ next_write = write_interval
    /\ last_timestamp = 0
    /\ prev_timestamp = INVALID_TIMESTAMP_MS
    /\ discontinuity = TRUE
    /\ playlist = [segments |-> [i \in 1..Len(Prerole) |->
                                  [duration |-> Prerole[i], prerole |-> TRUE,
                                   discontinuity |-> FALSE]],
                   current_duration |-> prerole_dur,
                   state |-> "NotReady"]
    /\ readySent = 0
    /\ conn = 0
    /\ frame = -1
    /\ ioErrors = 0

-----------------------------------------------------------------------------
(* Playlist (m3u8.rs)                                                      *)

\* Mutant: only the segments that get a path to delete are subtracted.
schedule_for_deletion_live_only(p, amount) ==
    [p EXCEPT !.segments = SubSeq(@, amount + 1, Len(@)),
              !.current_duration = @ - SumDurations(SelectSeq(SubSeq(p.segments, 1, amount),
                                                              LAMBDA seg : ~seg.prerole))]

\* schedule_for_deletion (m3u8.rs 83-101): drain the first `amount`
\* segments and subtract their durations (the Chunks item is HlsStorage's).
schedule_for_deletion(p, amount) ==
    [p EXCEPT !.segments = SubSeq(@, amount + 1, Len(@)),
              !.current_duration = @ - SumDurations(SubSeq(p.segments, 1, amount))]

\* add_media_segment (m3u8.rs 103-146) on playlist p; updated is whether
\* atomic_update succeeded.  The result is the new playlist and the value
\* returned: "Ready", "NotReady", "Unchanged" or "Err".
add_media_segment(p, duration, disc, updated) ==
    LET p1 == IF p.current_duration >= playlist_duration
                 THEN schedule_for_deletion(p, 1) ELSE p
        p2 == [p1 EXCEPT !.current_duration = @ + duration,
                         !.segments = Append(@, [duration |-> duration, prerole |-> FALSE,
                                                 discontinuity |-> disc])]
        full == p2.current_duration >= playlist_min_duration
    IN  CASE ~updated -> [pl |-> p2, res |-> "Err"]
          [] full /\ p2.state = "NotReady" -> [pl |-> [p2 EXCEPT !.state = "Ready"], res |-> "Ready"]
          [] ~full /\ p2.state = "Ready" -> [pl |-> [p2 EXCEPT !.state = "NotReady"], res |-> "NotReady"]
          [] OTHER -> [pl |-> p2, res |-> "Unchanged"]

-----------------------------------------------------------------------------
(* Writer (writer.rs)                                                      *)

\* The samples that can arrive next: the connection's next frame, or the
\* first frame of a new connection once this one has sent something.
NextSamples ==
    LET more == IF frame + 1 < MaxFrames THEN {[c |-> conn, f |-> frame + 1]} ELSE {}
        again == IF conn + 1 < MaxConns /\ frame >= 0 THEN {[c |-> conn + 1, f |-> 0]} ELSE {}
    IN  more \cup again

\* handle_aac_audio's two conditions (writer.rs 180-183).
ReachesNextWrite(ts) == ts >= next_write
GoesBackwards(ts) == prev_timestamp # INVALID_TIMESTAMP_MS /\ ts < prev_timestamp

\* The timestamp write_segment is called with: the sample's, or for a
\* discontinuity the previous sample's plus one frame.
SegmentEnd(ts) == IF ReachesNextWrite(ts) THEN ts ELSE prev_timestamp + AAC_FRAME_DURATION

\* Mutants: last_timestamp moved only by a regular cut; next_write never
\* restarted.
LastAfterRegularCut(ts, disc) == IF disc THEN last_timestamp ELSE ts
NextWriteAlwaysAdvances(disc) == next_write + write_interval

\* last_timestamp after a cut (writer.rs 191-193).
LastAfterCut(ts, disc) == ts

\* next_write after write_segment (writer.rs 165-169).
NextWriteAfterCut(disc) == IF disc THEN write_interval ELSE next_write + write_interval

\* A sample that cuts nothing: it is buffered and becomes prev_timestamp.
HandleFrame ==
    \E nxt \in NextSamples :
        LET ts == FrameTs(nxt.f) IN
        /\ ~ReachesNextWrite(ts) /\ ~GoesBackwards(ts)
        /\ prev_timestamp' = ts
        /\ conn' = nxt.c /\ frame' = nxt.f
        /\ UNCHANGED <<next_write, last_timestamp, discontinuity, playlist, readySent, ioErrors>>

(***************************************************************************)
(* A sample that cuts a segment and write_segment gets as far as           *)
(* add_media_segment (writer.rs 119-174): the duration is the span since   *)
(* last_timestamp, the segment is tagged with the discontinuity flag of    *)
(* the previous cut, a Ready result sends ReadyHlsSession; then next_write *)
(* advances or restarts, and handle_aac_audio moves last_timestamp and     *)
(* prev_timestamp to the sample.  A failed manifest update (atomic_update) *)
(* returns Err, which write_segment ignores.                               *)
(***************************************************************************)
CutSegment ==
    \E nxt \in NextSamples, updated \in BOOLEAN :
        LET ts == FrameTs(nxt.f)
            disc == ~ReachesNextWrite(ts)
            added == add_media_segment(playlist, SegmentEnd(ts) - last_timestamp,
                                       discontinuity, updated)
        IN
        /\ ReachesNextWrite(ts) \/ GoesBackwards(ts)
        /\ updated \/ ioErrors < MaxIoErrors
        /\ playlist' = added.pl
        /\ readySent' = IF added.res = "Ready" THEN readySent + 1 ELSE readySent
        /\ next_write' = NextWriteAfterCut(disc)
        /\ discontinuity' = disc
        /\ last_timestamp' = LastAfterCut(ts, disc)
        /\ prev_timestamp' = ts
        /\ ioErrors' = IF updated THEN ioErrors ELSE ioErrors + 1
        /\ conn' = nxt.c /\ frame' = nxt.f

\* File::create or write_all of the .ts file fails: write_segment returns
\* Err before touching the playlist, and handle_aac_audio returns it before
\* updating the timestamps or buffering the sample.
CutFailed ==
    \E nxt \in NextSamples :
        LET ts == FrameTs(nxt.f) IN
        /\ ReachesNextWrite(ts) \/ GoesBackwards(ts)
        /\ ioErrors < MaxIoErrors
        /\ ioErrors' = ioErrors + 1
        /\ conn' = nxt.c /\ frame' = nxt.f
        /\ UNCHANGED <<next_write, last_timestamp, prev_timestamp, discontinuity,
                       playlist, readySent>>

Next == HandleFrame \/ CutSegment \/ CutFailed

Spec == Init /\ [][Next]_vars

-----------------------------------------------------------------------------
(***************************************************************************)
(* current_duration is the total duration of the segments in the playlist, *)
(* through every trim and append.  It is kept by hand (+= in               *)
(* add_media_segment, -= in schedule_for_deletion, started at prerole_dur  *)
(* by the HLS service); if it ran ahead of the segments, the trim          *)
(* `segments.drain(..1)` would panic on an empty playlist, and if it fell  *)
(* behind, `current_duration -= seg.duration` would panic on underflow.    *)
(***************************************************************************)
DurationAccounted == playlist.current_duration = SumDurations(playlist.segments)

(***************************************************************************)
(* No live segment is longer than the target duration the playlist         *)
(* advertises (EXT-X-TARGETDURATION, the clamped tar_dur), as HLS requires *)
(* after rounding EXTINF to whole seconds.  Segment cutting in             *)
(* handle_aac_audio and the restart of next_write after a discontinuity    *)
(* decide every segment's length.                                          *)
(***************************************************************************)
RoundToSeconds(ms) == (ms + 500) \div 1000
SegmentsFitTarget ==
    \A i \in 1..Len(playlist.segments) :
        ~playlist.segments[i].prerole =>
            RoundToSeconds(playlist.segments[i].duration) <= (tar_dur + 999) \div 1000

(***************************************************************************)
(* The manager is told once that the stream's HLS playlist is ready: the   *)
(* spec's readiness scenario expects exactly one ReadyHlsSession, sent at  *)
(* the first crossing of playlist_min_duration.                            *)
(***************************************************************************)
ReadyHlsSentOnce == readySent <= 1

(***************************************************************************)
(* ReadyHlsSession is sent only when the playlist holds at least six       *)
(* target durations of media (playlist_min_duration = 6 x T in the spec).  *)
(***************************************************************************)
ReadyOnlyAtSixTargets ==
    [][readySent' > readySent => playlist'.current_duration >= 6 * tar_dur]_vars

====
