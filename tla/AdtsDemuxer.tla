----------------------------- MODULE AdtsDemuxer -----------------------------
(***************************************************************************)
(* The SRT receiver's ADTS demuxer (echo-transfer adts_demuxer.rs): every  *)
(* packet the receiver reads, and every read timeout once the connection  *)
(* has started (an empty run, receiver.rs 138-140), goes through           *)
(* handle_bytes, which parses ADTS frames into timestamped samples, pads   *)
(* a starved stream with silent filler frames and releases the samples    *)
(* whose media time has passed on the wall clock.                          *)
(*                                                                         *)
(* handle_bytes is a pure function of the demuxer and its input, so it is  *)
(* an operator here.  A byte run is a sequence of tokens: a whole ADTS     *)
(* frame by its header's sampling frequency and channel configuration, a   *)
(* header AdtsHeader::from_bytes refuses, or a frame whose frame_length    *)
(* runs past the end of the run.  Payload bytes are left out.  Wall-clock  *)
(* instants are microseconds.  The properties are checked over every run  *)
(* of at most MaxCalls calls made of the given chunks at the given times.  *)
(***************************************************************************)
EXTENDS Naturals, Sequences, SequencesExt

CONSTANTS
    Chunks,   \* byte runs, as token sequences, a call may get
    Times,    \* wall-clock instants (microseconds) a call may happen at
    MaxCalls  \* calls per checked run

ADTS_FRAME_SAMPLES == 1024
ADTS_FILLER_THRESHOD == 20
MICROS_PER_SEC == 1000000

\* Header tokens: sampling frequency (0 for an index with none) and the
\* 3-bit channel configuration.
Frame(freq, chan) == [kind |-> "frame", freq |-> freq, chan |-> chan]
BadHeader == [kind |-> "bad", freq |-> 0, chan |-> 0]
Truncated == [kind |-> "short", freq |-> 0, chan |-> 0]

\* A Timestamp or Duration: the ratio n / d, and as_micros (data.rs 39-46,
\* 100-107), the u64 floor of n * 10^6 / d.  It is taken by long division,
\* a factor 1000 at a time, so that no intermediate leaves TLC's integers.
Ratio(n, d) == [n |-> n, d |-> d]
MulDivMicros(n, d) ==
    LET r1 == (n % d) * 1000
        r2 == (r1 % d) * 1000
    IN  (n \div d) * MICROS_PER_SEC + (r1 \div d) * 1000 + r2 \div d
as_micros(r) == IF r.n > 0 THEN MulDivMicros(r.n, r.d) ELSE 0
as_millis(r) == IF r.n > 0 THEN (r.n * 1000) \div r.d ELSE 0

\* Bytes 0..3 of an ADTS header: sync word, layer and protection, then
\* profile, frequency index and the HIGH bit of the channel configuration.
\* current_config starts as [0; 3], which no header (first byte 0xff)
\* matches.
ConfigKey(h) == <<h.freq, h.chan \div 4>>
NoConfig == <<0, 8>>

\* AdtsDemuxer::new (adts_demuxer.rs 46-62).
InitDemuxer ==
    [config |-> NoConfig, started |-> FALSE, start |-> 0,
     media_ts |-> Ratio(0, 0), frame_count |-> 0, filler_count |-> 0,
     bad_count |-> 0, sample_freq |-> 0, channels |-> 0, queue |-> <<>>]

\* set_config (68-86): ChannelConfiguration 1..7 maps to 1..7 channels (7.1
\* as 7), the object-type-specific 0 to 0.  frame_dur is 1024 / sample_freq
\* from here on, so it is not kept separately.
set_config(d, h) ==
    [d EXCEPT !.config = ConfigKey(h), !.sample_freq = h.freq, !.channels = h.chan]
frame_dur(d) == Ratio(ADTS_FRAME_SAMPLES, d.sample_freq)

\* is_valid_config (105-113).
is_valid_config(d) == <<d.sample_freq, d.channels>> \in {48000, 44100} \X {1, 2}

\* Mutant: the timestamp taken after frame_count is incremented.
push_payload_late(d, filler) ==
    LET ts == Ratio(ADTS_FRAME_SAMPLES * (d.frame_count + 1), d.sample_freq) IN
    [d EXCEPT !.media_ts = ts, !.frame_count = @ + 1,
              !.queue = Append(@, [ts |-> ts, freq |-> d.sample_freq,
                                   channels |-> d.channels, filler |-> filler])]

\* push_payload (88-103); filler marks the samples push_empty_payload makes.
push_payload(d, filler) ==
    LET ts == Ratio(ADTS_FRAME_SAMPLES * d.frame_count, d.sample_freq) IN
    [d EXCEPT !.media_ts = ts, !.frame_count = @ + 1,
              !.queue = Append(@, [ts |-> ts, freq |-> d.sample_freq,
                                   channels |-> d.channels, filler |-> filler])]

(***************************************************************************)
(* The parse loop of handle_bytes (144-201): a refused header or a frame   *)
(* running past the run counts in bad_count and ends the run; a header     *)
(* whose first three bytes differ from current_config is adopted; a frame  *)
(* in a valid configuration starts the clock if it has not started and is  *)
(* queued, any other is dropped.                                           *)
(***************************************************************************)
RECURSIVE parse(_, _, _)
parse(d, toks, now) ==
    IF toks = <<>> THEN d
    ELSE LET h == Head(toks) IN
         IF h.kind # "frame" THEN [d EXCEPT !.bad_count = @ + 1]
         ELSE LET d1 == IF ConfigKey(h) # d.config THEN set_config(d, h) ELSE d
                  d2 == IF d1.started THEN d1 ELSE [d1 EXCEPT !.started = TRUE, !.start = now]
              IN  IF is_valid_config(d1)
                     THEN parse(push_payload(d2, FALSE), Tail(toks), now)
                     ELSE parse(d1, Tail(toks), now)

\* push_empty_payload (115-132) ADTS_FILLER_THRESHOD times; the
\* configuration is valid wherever it is called.
RECURSIVE push_fillers(_, _)
push_fillers(d, k) == IF k = 0 THEN d ELSE push_fillers(push_payload(d, TRUE), k - 1)

\* Mutant: one batch of fillers at most, an `if` for the `while`.
fill_once(d, system_ts, starving) ==
    IF system_ts > as_micros(d.media_ts) + ADTS_FILLER_THRESHOD * as_micros(frame_dur(d))
       THEN push_fillers([d EXCEPT !.filler_count = IF starving THEN @ ELSE @ + ADTS_FILLER_THRESHOD],
                         ADTS_FILLER_THRESHOD)
       ELSE d

(***************************************************************************)
(* The filler loop (206-219): while the wall clock is more than 20 frames  *)
(* past the last queued frame, queue 20 silent frames; they are counted in *)
(* filler_count only when the call brought data.                           *)
(***************************************************************************)
RECURSIVE fill(_, _, _)
fill(d, system_ts, starving) ==
    IF system_ts > as_micros(d.media_ts) + ADTS_FILLER_THRESHOD * as_micros(frame_dur(d))
       THEN fill(push_fillers([d EXCEPT !.filler_count = IF starving THEN @ ELSE @ + ADTS_FILLER_THRESHOD],
                              ADTS_FILLER_THRESHOD),
                 system_ts, starving)
       ELSE d

\* The release loop (221-234): queued samples leave in order while their
\* media time is before the wall clock.
RECURSIVE drain(_, _, _)
drain(d, system_ts, out) ==
    IF d.queue # <<>> /\ system_ts > as_micros(Head(d.queue).ts)
       THEN drain([d EXCEPT !.queue = Tail(@)], system_ts, Append(out, Head(d.queue)))
       ELSE [demuxer |-> d, out |-> out]

(***************************************************************************)
(* handle_bytes (138-238) on a run of tokens at wall-clock instant now:    *)
(* the demuxer after the call, the samples it returns, and system_ts.      *)
(***************************************************************************)
handle_bytes(d, toks, now) ==
    LET p == parse(d, toks, now)
        system_ts == now - p.start
        f == IF is_valid_config(p) THEN fill(p, system_ts, toks = <<>>) ELSE p
    IN  IF ~p.started
           THEN [demuxer |-> p, out |-> <<>>, system_ts |-> 0]
           ELSE LET r == drain(f, system_ts, <<>>)
                IN  [demuxer |-> r.demuxer, out |-> r.out, system_ts |-> system_ts]

-----------------------------------------------------------------------------
(* Runs of calls, as the receiver makes them on one connection             *)

\* A call: a chunk at an instant; a run: calls at non-decreasing instants.
Calls == [chunk : Chunks, now : Times]
Runs == {r \in UNION {[1..n -> Calls] : n \in 1..MaxCalls} :
            \A i \in 1..Len(r) - 1 : r[i].now <= r[i + 1].now}

\* The results of the calls of run r, in order, from AdtsDemuxer::new.
Results(r) ==
    LET step(acc, c) ==
            LET d == IF acc = <<>> THEN InitDemuxer ELSE Last(acc).demuxer
            IN  Append(acc, handle_bytes(d, c.chunk, c.now))
    IN  FoldLeft(step, <<>>, r)

\* Every sample the first k calls of r returned, in order.
Emitted(res, k) == FlattenSeq([i \in 1..k |-> res[i].out])

\* The valid frames of r share one sampling frequency.
SingleRate(r) ==
    \A i, j \in 1..Len(r) :
        \A a \in ToSet(r[i].chunk), b \in ToSet(r[j].chunk) :
            a.kind = "frame" /\ b.kind = "frame" /\ a.freq \in {48000, 44100}
                /\ b.freq \in {48000, 44100} => a.freq = b.freq

-----------------------------------------------------------------------------
(***************************************************************************)
(* The i-th sample the demuxer returns on a connection carries the         *)
(* timestamp i x 1024 / its sampling frequency, counting from 0 (spec.md   *)
(* 4.4, Timestamping), whatever mixes in: silent fillers pushed by the    *)
(* filler loop, samples held back by the release loop across calls, bad    *)
(* headers and truncated frames, frames dropped in an invalid              *)
(* configuration, and changes of configuration.  The writer derives its    *)
(* segment boundaries from these timestamps.                               *)
(***************************************************************************)
DemuxTimestampsMatchReference ==
    \A r \in Runs :
        LET out == Emitted(Results(r), Len(r)) IN
        \A i \in 1..Len(out) : out[i].ts = Ratio(ADTS_FRAME_SAMPLES * (i - 1), out[i].freq)

(***************************************************************************)
(* On a connection at one sampling frequency, handle_bytes paces the       *)
(* stream to the wall clock from both sides: no sample is returned before *)
(* its media time has passed (system_ts), and after a call in a valid      *)
(* configuration, data or read timeout, the samples returned so far reach  *)
(* to within 20 frames of system_ts, however long the publisher starved    *)
(* or however far ahead of the clock it sent.                              *)
(***************************************************************************)
DemuxPacedToClock ==
    \A r \in Runs : SingleRate(r) =>
        LET res == Results(r) IN
        \A k \in 1..Len(r) :
            LET out == Emitted(res, k)
                d == res[k].demuxer
            IN  /\ \A s \in ToSet(res[k].out) : as_micros(s.ts) < res[k].system_ts
                /\ d.started /\ is_valid_config(d) /\ out # <<>> =>
                      res[k].system_ts - as_micros(Last(out).ts)
                          <= ADTS_FILLER_THRESHOD * as_micros(frame_dur(d))
====
