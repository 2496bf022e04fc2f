--------------------------- MODULE TransportStream ---------------------------
(***************************************************************************)
(* The HLS writer's MPEG-TS buffer (echo-codec mpegts transport_stream.rs) *)
(* as the writer drives it (echo-hls writer.rs): handle_aac_audio pushes  *)
(* every sample with push_audio, flagged is_first when it opens a segment; *)
(* write_segment drains the buffer through write, behind a PAT and a PMT,  *)
(* into the segment's file, whose creation may fail.                      *)
(*                                                                         *)
(* A TS packet is kept by what the properties tell apart: PID, continuity  *)
(* counter, whether it opens a PES (header with PTS) and carries the PCR   *)
(* adaptation field, and its payload size.  PTS values are left out: the   *)
(* 33-bit clock exceeds TLC's integers.  The properties are checked over   *)
(* every run of at most MaxSteps samples of the given sizes.               *)
(***************************************************************************)
EXTENDS Naturals, Sequences, SequencesExt

CONSTANTS
    FrameSizes,  \* ADTS frame sizes (bytes) a sample may have
    MaxSteps     \* samples per checked run

PAT_PID == 0
PMT_PID == 4096        \* 0x1000
AUDIO_ES_PID == 257    \* 0x101
TS_PAYLOAD_MAX_SIZE == 184   \* payload::Bytes::MAX_SIZE: 188 minus the 4-byte header
ADAPTATION_FIELD_SIZE == 8
PES_HEADER_SIZE == 14

\* Mutant: the first payload sized without the adaptation field.
FIRST_PAYLOAD_MAX_SIZE_NO_AF == TS_PAYLOAD_MAX_SIZE - PES_HEADER_SIZE

\* push_audio's FIRST_PAYLOAD_MAX_SIZE (transport_stream.rs 62-65).
FIRST_PAYLOAD_MAX_SIZE == TS_PAYLOAD_MAX_SIZE - ADAPTATION_FIELD_SIZE - PES_HEADER_SIZE

Packet(pid, cc, pes, pcr, size) == [pid |-> pid, cc |-> cc, pes |-> pes, pcr |-> pcr, size |-> size]

\* TransportStream::new (22-24, 149-156).
InitStream == [audio_continuity_counter |-> 0, packets |-> <<>>]

\* The continuations of push_audio (122-141): full payloads while the frame
\* lasts, the counter incremented modulo 16 per packet.
RECURSIVE raw_packets(_, _)
raw_packets(remaining, cc) ==
    IF remaining = 0 THEN <<>>
    ELSE LET len == IF remaining < TS_PAYLOAD_MAX_SIZE THEN remaining ELSE TS_PAYLOAD_MAX_SIZE
         IN  <<Packet(AUDIO_ES_PID, cc, FALSE, FALSE, len)>> \o raw_packets(remaining - len, (cc + 1) % 16)

\* Mutant: the header's counter left at default_ts_header's 0 (line 83 lost).
push_audio_from_zero(t, is_first, size) ==
    LET first == IF size < FIRST_PAYLOAD_MAX_SIZE THEN size ELSE FIRST_PAYLOAD_MAX_SIZE
        rest == raw_packets(size - first, 1)
    IN  [audio_continuity_counter |-> (1 + Len(rest)) % 16,
         packets |-> t.packets \o <<Packet(AUDIO_ES_PID, 0, TRUE, is_first, first)>> \o rest]

(***************************************************************************)
(* push_audio (52-146): the first packet opens the PES and takes at most   *)
(* FIRST_PAYLOAD_MAX_SIZE bytes, with the PCR and random-access            *)
(* adaptation field when is_first; the rest follow as raw payloads; the    *)
(* stream's counter continues from the last packet.                       *)
(***************************************************************************)
push_audio(t, is_first, size) ==
    LET first == IF size < FIRST_PAYLOAD_MAX_SIZE THEN size ELSE FIRST_PAYLOAD_MAX_SIZE
        cc == t.audio_continuity_counter
        rest == raw_packets(size - first, (cc + 1) % 16)
    IN  [audio_continuity_counter |-> (cc + 1 + Len(rest)) % 16,
         packets |-> t.packets \o <<Packet(AUDIO_ES_PID, cc, TRUE, is_first, first)>> \o rest]

\* write (26-50): PAT and PMT, each with counter 0, then the drained packets.
write(t) ==
    [stream |-> [t EXCEPT !.packets = <<>>],
     bytes |-> <<Packet(PAT_PID, 0, FALSE, FALSE, 0), Packet(PMT_PID, 0, FALSE, FALSE, 0)>>
               \o t.packets]

-----------------------------------------------------------------------------
(* The writer's use of the buffer                                          *)

\* A sample: its frame size and what handle_aac_audio does before pushing
\* it: nothing, a cut whose file is written, or a cut whose File::create
\* or write_all fails.
Steps == [size : FrameSizes, cut : {"none", "ok", "failed"}]

\* Mutant: the sample that opens a segment pushed without first_frame.
handle_sample_no_first(acc, s) ==
    IF s.cut = "none"
       THEN [acc EXCEPT !.stream = push_audio(@, FALSE, s.size)]
       ELSE LET w == write(acc.stream) IN
            IF s.cut = "ok"
               THEN [stream |-> push_audio(w.stream, FALSE, s.size),
                     files |-> Append(acc.files, [written |-> TRUE, packets |-> w.bytes])]
               ELSE [stream |-> w.stream,
                     files |-> Append(acc.files, [written |-> FALSE, packets |-> <<>>])]

(***************************************************************************)
(* One sample through handle_aac_audio (writer.rs 176-202) and, on a cut,  *)
(* write_segment (119-128).  The buffer is drained into a Vec before the   *)
(* file is created, so a failed cut loses the buffered packets, and       *)
(* handle_aac_audio returns the error before pushing the sample.           *)
(***************************************************************************)
handle_sample(acc, s) ==
    IF s.cut = "none"
       THEN [acc EXCEPT !.stream = push_audio(@, FALSE, s.size)]
       ELSE LET w == write(acc.stream) IN
            IF s.cut = "ok"
               THEN [stream |-> push_audio(w.stream, TRUE, s.size),
                     files |-> Append(acc.files, [written |-> TRUE, packets |-> w.bytes])]
               ELSE [stream |-> w.stream,
                     files |-> Append(acc.files, [written |-> FALSE, packets |-> <<>>])]

Runs == UNION {[1..n -> Steps] : n \in 1..MaxSteps}

\* The segment files a writer leaves after run r, written or failed (the
\* buffer's tail waits for the next cut).
Files(r) == FoldLeft(handle_sample, [stream |-> InitStream, files |-> <<>>], r).files

\* The audio counters of the files in order; a failed file leaves a mark.
AudioCounters(files) ==
    LET counters(f) ==
            IF f.written
               THEN LET a == SelectSeq(f.packets, LAMBDA p : p.pid = AUDIO_ES_PID)
                    IN  [k \in 1..Len(a) |-> [cc |-> a[k].cc, after_loss |-> FALSE]]
               ELSE <<[cc |-> 0, after_loss |-> TRUE]>>
    IN  FlattenSeq([i \in 1..Len(files) |-> counters(files[i])])

\* Bytes a packet takes: header, adaptation field, PES header, payload.
PacketBytes(p) ==
    4 + (IF p.pcr THEN ADAPTATION_FIELD_SIZE ELSE 0) + (IF p.pes THEN PES_HEADER_SIZE ELSE 0) + p.size

-----------------------------------------------------------------------------
(***************************************************************************)
(* push_audio splits every frame into TS packets of at most 188 bytes,     *)
(* counting the PCR adaptation field of a segment's first packet and the   *)
(* PES header, and the payloads carry the whole frame: no byte is lost or  *)
(* spilled over by the FIRST_PAYLOAD_MAX_SIZE arithmetic.                  *)
(***************************************************************************)
TsPacketsFit ==
    \A size \in FrameSizes, is_first \in BOOLEAN :
        LET pk == push_audio(InitStream, is_first, size).packets IN
        /\ \A i \in 1..Len(pk) : PacketBytes(pk[i]) <= 188
        /\ FoldLeft(LAMBDA acc, p : acc + p.size, 0, pk) = size

(***************************************************************************)
(* A player reading the segments in order sees the audio PID's continuity  *)
(* counter go up by one, modulo 16, from packet to packet, inside a file  *)
(* and from one file to the next: the counter is kept in the stream for    *)
(* the writer's lifetime while write drains the packets at every cut.      *)
(* Only a failed segment file, whose packets are lost, breaks the count.   *)
(***************************************************************************)
TsContinuityAcrossSegments ==
    \A r \in Runs :
        LET c == AudioCounters(Files(r)) IN
        \A k \in 1..Len(c) - 1 :
            ~c[k].after_loss /\ ~c[k + 1].after_loss => c[k + 1].cc = (c[k].cc + 1) % 16

(***************************************************************************)
(* A segment file that follows a written one opens its audio with a PES    *)
(* packet carrying the PCR and random-access adaptation field: the sample  *)
(* that caused the previous cut was pushed with first_frame after write    *)
(* drained the buffer, so it heads the next file.  A writer's first file,  *)
(* and a file after a failed one (whose cutting sample was never pushed),  *)
(* open without it (writer.rs 179).                                        *)
(***************************************************************************)
TsSegmentsOpenWithPcr ==
    \A r \in Runs :
        LET f == Files(r) IN
        \A k \in 2..Len(f) :
            f[k].written /\ f[k - 1].written =>
                LET a == SelectSeq(f[k].packets, LAMBDA p : p.pid = AUDIO_ES_PID)
                IN  a # <<>> /\ a[1].pes /\ a[1].pcr
====
