----------------------------- MODULE RtmpAudio -----------------------------
(***************************************************************************)
(* The audio path of an RTMP publisher: RtmpHandle::handle_event on        *)
(* AudioDataReceived (echo-rtmp rtmp.rs) and the AacCoder it drives        *)
(* (echo-codec aac.rs).  A sequence header installs an AudioSpecific-      *)
(* Configuration (ASC); a raw AAC frame is wrapped in ADTS with the        *)
(* installed ASC and sent as a MediaSample stamped                         *)
(* Timestamp::new(1024 * frame_count, sample_rate).                        *)
(*                                                                         *)
(* A tag is abstracted to its kind and to what its body parses to when it  *)
(* is read as an ASC (the ASC parser is not in the repository): a record   *)
(* [valid, freq, chans], freq 0 standing for sampling_frequency None.      *)
(* ADTS framing is abstracted to the ASC it uses.  One tag is handled per  *)
(* handle_bytes call; an Err ends the connection (RtmpPeer's "bad"), so a  *)
(* run stops at the first failing tag.                                     *)
(***************************************************************************)
EXTENDS Naturals, Sequences, SequencesExt

CONSTANTS
    Payloads,   \* what a tag body parses to as an ASC
    MaxTags     \* longest tag sequence examined

ADTS_FRAME_SAMPLES == 1024

\* AacCoder's State::Initializing; Ready(asc) is the (valid) asc itself.
Initializing == [valid |-> FALSE, freq |-> 0, chans |-> 0]

Tags ==
    {[kind |-> k, body |-> p] : k \in {"header", "raw"}, p \in Payloads}
    \cup {[kind |-> "badflv", body |-> Initializing]}

\* RtmpHandle::default together with AacCoder::default.
InitialHandle ==
    [coder |-> Initializing, sample_rate |-> 48000, channels |-> 2,
     frame_count |-> 0, ok |-> TRUE, out |-> <<>>]

\* AacCoder::set_asc: try_into()? and only then state = Ready(asc).
set_asc(h, p) == IF p.valid THEN [h EXCEPT !.coder = p] ELSE h

\* Mutant: the frequency taken without the Some check (None zeroes the rate).
HandleHeader_no_some(h, p) ==
    IF p.valid
    THEN [set_asc(h, p) EXCEPT !.sample_rate = p.freq, !.channels = p.chans]
    ELSE h

\* The is_sequence_header branch: on Ok take the frequency when there is one
\* and always the channel configuration; on Err only log.  Returns Ok.
HandleHeader(h, p) ==
    IF p.valid
    THEN [set_asc(h, p) EXCEPT
            !.sample_rate = IF p.freq # 0 THEN p.freq ELSE @,
            !.channels    = p.chans]
    ELSE h

\* FormatReader<Raw>::read_format: Ready gives Some(raw); Initializing tries
\* the payload itself as an ASC and gives None, or the parse error.
read_format(h, p) ==
    IF h.coder.valid THEN [h |-> h, res |-> "some"]
    ELSE IF p.valid  THEN [h |-> set_asc(h, p), res |-> "none"]
    ELSE [h |-> h, res |-> "err"]

\* FormatWriter<AudioDataTransportStream>::write_format: wraps the frame with
\* the ASC of Ready.  Its Initializing arm (NotInitialized) cannot be taken
\* after read_format returned Some.
write_format(h) == h.coder

\* Mutant: frame_count also advanced when read_format gives None.
HandleRaw_count_none(h, p, i) ==
    LET r == read_format(h, p) IN
    CASE r.res = "some" ->
            [h EXCEPT
               !.out = Append(@, [ts    |-> <<ADTS_FRAME_SAMPLES * h.frame_count,
                                              h.sample_rate>>,
                                  rate  |-> h.sample_rate,
                                  chans |-> h.channels,
                                  asc   |-> write_format(h),
                                  at    |-> i]),
               !.frame_count = @ + 1]
      [] r.res = "none" -> [r.h EXCEPT !.frame_count = @ + 1]
      [] r.res = "err"  -> [h EXCEPT !.ok = FALSE]

\* The raw-frame branch: read_format(..)?, write_format(..)?, emit the
\* sample, frame_count += 1.
HandleRaw(h, p, i) ==
    LET r == read_format(h, p) IN
    CASE r.res = "some" ->
            [h EXCEPT
               !.out = Append(@, [ts    |-> <<ADTS_FRAME_SAMPLES * h.frame_count,
                                              h.sample_rate>>,
                                  rate  |-> h.sample_rate,
                                  chans |-> h.channels,
                                  asc   |-> write_format(h),
                                  at    |-> i]),
               !.frame_count = @ + 1]
      [] r.res = "none" -> r.h
      [] r.res = "err"  -> [h EXCEPT !.ok = FALSE]

\* handle_event on AudioDataReceived for tag t, the i-th tag; an FLV tag
\* that does not parse is an Err.  Nothing is handled after an Err.
handle_audio(h, t, i) ==
    IF ~h.ok THEN h
    ELSE CASE t.kind = "badflv" -> [h EXCEPT !.ok = FALSE]
           [] t.kind = "header" -> HandleHeader(h, t.body)
           [] t.kind = "raw"    -> HandleRaw(h, t.body, i)

HandleTags(tags) ==
    FoldLeft(LAMBDA h, e : handle_audio(h, e[2], e[1]), InitialHandle,
             [j \in 1..Len(tags) |-> <<j, tags[j]>>])

TagSeqs == BoundedSeq(Tags, MaxTags)

(***************************************************************************)
(* Reference: what spec.md says of the audio path, computed from the tag   *)
(* sequence alone.                                                         *)
(***************************************************************************)
Before(tags, j, P(_)) == {k \in 1..(j - 1) : P(tags[k])}

ValidHeader(t) == t.kind = "header" /\ t.body.valid
ValidRaw(t)    == t.kind = "raw" /\ t.body.valid

\* An ASC is installed before tag j: a valid header, or a raw frame that
\* parsed as one while the coder was initializing.
Configured(tags, j) == Before(tags, j, ValidHeader) \cup Before(tags, j, ValidRaw) # {}

\* The tag that fails: an unparsable FLV tag, or a raw frame arriving with
\* no ASC installed whose body is no ASC either.
Fails(tags, j) ==
    \/ tags[j].kind = "badflv"
    \/ tags[j].kind = "raw" /\ ~tags[j].body.valid /\ ~Configured(tags, j)

\* How many tags are handled without an Err before the connection ends.
Handled(tags) ==
    LET bad == {j \in 1..Len(tags) : Fails(tags, j)}
    IN  IF bad = {} THEN Len(tags) ELSE Min(bad) - 1

\* The tags that become samples: raw frames handled once configured.
SampleTags(tags) ==
    SetToSortSeq({j \in 1..Handled(tags) :
                    tags[j].kind = "raw" /\ Configured(tags, j)}, <)

\* The installed ASC at tag j: the last valid header, else the first raw
\* frame that parsed as an ASC.
InstalledAt(tags, j) ==
    LET hs == Before(tags, j, ValidHeader) IN
    IF hs # {} THEN tags[Max(hs)].body
    ELSE tags[Min(Before(tags, j, ValidRaw))].body

\* sample_rate and channels at tag j: the last valid header that has them.
RateAt(tags, j) ==
    LET hs == Before(tags, j, LAMBDA t : ValidHeader(t) /\ t.body.freq # 0)
    IN  IF hs = {} THEN 48000 ELSE tags[Max(hs)].body.freq

ChannelsAt(tags, j) ==
    LET hs == Before(tags, j, ValidHeader)
    IN  IF hs = {} THEN 2 ELSE tags[Max(hs)].body.chans

(***************************************************************************)
(* Properties.                                                             *)
(***************************************************************************)

\* Every raw frame handled after an ASC is installed, and no other tag,
\* becomes a sample, in order; sample k is stamped 1024 * (k - 1), so no
\* frame is skipped or counted twice by frame_count; and the handler ends
\* in an Err exactly at the first tag that must fail (an unparsable FLV tag,
\* or raw AAC before any usable ASC).
RtmpFramesCounted ==
    \A tags \in TagSeqs :
        LET h == HandleTags(tags)  ref == SampleTags(tags) IN
        /\ h.ok = (Handled(tags) = Len(tags))
        /\ Len(h.out) = Len(ref)
        /\ \A k \in 1..Len(ref) :
              /\ h.out[k].at = ref[k]
              /\ h.out[k].ts[1] = ADTS_FRAME_SAMPLES * (k - 1)

\* Every sample is wrapped in ADTS with the ASC installed when its frame
\* arrived (the last valid sequence header, else the first raw payload
\* taken as an ASC) and carries the sample rate (also its timescale) and
\* channel count of the last valid sequence header that set them, the
\* defaults 48000 and 2 before one.
RtmpSamplesCarryLastConfig ==
    \A tags \in TagSeqs :
        LET h == HandleTags(tags) IN
        \A k \in 1..Len(h.out) :
            LET j == h.out[k].at IN
            /\ h.out[k].asc = InstalledAt(tags, j)
            /\ h.out[k].rate = RateAt(tags, j)
            /\ h.out[k].ts[2] = RateAt(tags, j)
            /\ h.out[k].chans = ChannelsAt(tags, j)
=============================================================================
