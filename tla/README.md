# TLA+ models of echo

This directory holds TLA+ models of the echo audio-streaming server, with the
TLC configurations that check them. Sources are under `../src`. Every module
is translated from the Rust source: `PROJECT.json` maps each definition to the
lines it models (`map`), lists the runs, the mutants that show each checked
property can fail, the findings, and the hazards of the code.

## The system and how its parts interact

echo-server's `main` spawns one task per service. They talk only through
tokio channels.

* **Session manager** (`echo-core/session/manager.rs`). One task reads
  `ManageMessage`s from an unbounded FIFO queue and handles each one to
  completion. It owns the registry `id -> (SessionHandle, broadcast
  sender)` and the trigger lists per event kind, spawns a session instance
  on `CreateSession`, and fans every event out to the triggers registered
  for its kind.
* **Session instance** (`instance.rs`). One task per session drains the
  session's media queue. Each `Sample` is published on a 64-slot broadcast
  channel (the *sample bus*), but only while a subscriber lives.
  `EndOfSample` ends the task.
* **SRT ingest session** (`echo-transfer/session.rs`, `receiver.rs`).
  `EchoSession` is one task per SRT publish. In a loop it polls its control
  queue and its receivers' close events, then waits 500 ms for a connection.
  The first connection creates the core session; every later one sends
  `ResumeSession` and asks the previous receiver to close. With no receiver
  left, the session pauses (`PauseSession`). After `connection_timeout` idle,
  or on a teardown `Shutdown`, it drains its receivers for at most 20 turns.
  Then it sends `EndOfSample` and `ReleaseSession`. Each `SrtReceiver` is a
  task that forwards its connection's samples, tagged with the connection's
  `sid`, into the core session. It stops on disconnect, on a failed send or
  on `read_timeout`, and then reports its close.
* **HLS** (`echo-hls/service.rs`, `writer.rs`, `m3u8.rs`,
  `session_cleaner.rs`). The HLS service registers a `CreateSession`
  trigger. For each event it starts a `Writer` on the bus subscription the
  manager made during dispatch. The writer reads until `recv()` fails, then
  releases its playlist, and the cleaner later sends `ReleaseHlsSession`.
  Before creating a writer, the service gives it a starting file number
  from a per-name map. A reconnect continues 100000 above the previous
  publish. Entries older than ttl + 600 s are dropped, and a wall clock
  that steps back makes the loop panic.
* **Transfer HTTP service** (`echo-transfer/service.rs`). `publish` pops a
  port from the pool, records an *avatar* (port, last reported state,
  message sender) and spawns the EchoSession. `teardown`, `pause` and
  `resume` send a message through the avatar. `background_service` applies
  the sessions' SessionEvents in arrival order: Terminated drops the avatar
  and pushes the port back.
* **RTMP ingest** (`echo-rtmp/peer.rs`, `rtmp.rs`). One `Peer` task per TCP
  connection reads a chunk, turns it into a batch of events and handles
  them in order. A publish sends a keyed `CreateSession`, checked against
  the stream keys of `AuthorizeSession`. Unpublish, a leave or an expired
  key disconnects, which sends `EndOfSample` and `ReleaseSession`.
  Audio tags go through an `AacCoder` (`echo-codec/aac.rs`). A sequence
  header installs an ASC, and with it the sample rate and the channel
  count. A raw frame is wrapped in ADTS and sent, stamped
  `1024 x frame_count / sample_rate`. Raw AAC before any header is itself
  tried as an ASC.
* **Storage of the HLS output.** Each stream name has a directory under
  `hls_root_dir`. The writer creates it (`create_dir_all`) and writes
  segments and the manifest into it. On release the playlist schedules the
  segments, the manifest and the directory for timed deletion by the
  cleaner.
* **ADTS demuxer** (`echo-transfer/adts_demuxer.rs`). Each receiver owns
  one. `handle_bytes` runs on every packet, and on every read timeout once
  the connection has started. It parses ADTS frames, stamps the i-th frame
  `i x 1024 / freq`, and pushes 20 silent fillers at a time while the wall
  clock is more than 20 frames ahead. It returns the queued samples whose
  time has passed.
* **MPEG-TS buffer** (`echo-codec/mpegts/transport_stream.rs`). The writer
  pushes every sample into it with `push_audio`, and `write_segment`
  drains it behind a PAT and a PMT into each segment file.
* **Configuration** (`echo-core/config.rs`). `Config::check` refuses a
  port range with `min >= max` or outside 6970..49150; `TransferService`
  takes that rule as an `ASSUME` on its `Ports`, so the pool always holds
  at least two ports.
* **MP4 recorder** (`echo-record`, compiled in only with the `record`
  cargo feature and run when `record_enabled` is set). A second
  CreateSession trigger spawns one `Recorder` per session. It reads the bus
  with the HLS writer's sid watermark. On the first sample it starts an
  MP4 track at that sample's rate (only 48000 and 44100 are accepted) and
  sends StartRecord. It writes every later frame stamped by a frame
  counter. When `recv()` fails, it renames its temp file to `{name}.mp4`
  and sends CompleteRecord. An `Err` from `run()` panics the task.
* **Stats service** (`echo-stat`, commented out in `main`). It registers
  triggers for the fan-out events. It keeps a map from session id to a
  `Session` of optional times, and a `Count` of open inputs and outputs.
  A session leaves the map when its ingest is released and every output
  it saw start has ended. A session's events come from the manager, the
  ingest, the HLS writer (through the cleaner) and the recorder, and they
  interleave in the manager's queue.
* Not modelled:
  the ASC and ADTS byte formats (not in the repository), and configuration
  loading. See `PROJECT.json`
  `components` for the reasons.

## Modules

| module | models | state | actions |
|---|---|---|---|
| `SessionManager` | manager.rs `process_message`, `run` | `inbox` (queue), `registry`, `hlsTrig`, `hist` (kinds handled per id), `inst`, `reply` | `CreateSession`, `ReleaseSession`, `FanOut(k)`, `RegisterTrigger` |
| `SessionInstance` | instance.rs `Session` | `media` (queue per id), `bus` (every sid sent on the broadcast) | `HandleSample`, `HandleEndOfSample` |
| `HlsWriter` | hls service.rs, writer.rs `run`, m3u8.rs `release`, session_cleaner.rs | `wr` (subscription, cursor, sid watermark, `has_recv`, Ready), `cleaner`, `hlsUp` | `HlsStart`, `HlsCreateWriter`, `HlsCreateFailed`, `WriterRecv`, `WriterLagged`, `WriterClosed`, `CleanerRelease` |
| `SrtSession` | session.rs `run`, `run_inner`, `create_core_session`; receiver.rs `run`; service.rs `teardown` | `ss` (loop location, SessionState, handle, receiver_count, ready_time set, next sid, current receiver_handler, drain turn), `rcv` (per receiver: running, close requested, got_close, has_started, starving), `ctl`, `closeq` | `Poll`, `Accept`, `Created`, `IdleTick`, `ConnTimeout`, `ListenError`, `DrainRecv`, `DrainSend`, `Exit`, `Teardown`, `RecvPacket`, `RecvDisconnect`, `RecvStarve`, `RecvReadTimeout` |
| `EchoCore` | main.rs: all of the above as concurrent tasks | all variables | every component action; `Fairness`; properties |
| `MCEchoCore` | bounds for TLC | | |
| `SessionLifecycle` | spec.md 3 and 4.3: the states a session reports | `state` per id | `Step(i, to)` along the lifecycle's edges |
| `Playlist` | writer.rs `handle_aac_audio`, `write_segment`; m3u8.rs `Playlist::new`, `add_media_segment`, `schedule_for_deletion` | writer cursors (`next_write`, `last_timestamp`, `prev_timestamp`, `discontinuity`), `playlist` (segments, `current_duration`, Ready state), `readySent`, the sample source (`conn`, `frame`), `ioErrors` | `HandleFrame`, `CutSegment`, `CutFailed` |
| `TransferService` | echo-transfer service.rs `publish`, `teardown`, `pause_v4`, `resume_v4`, `background_service`, `state_v4`; session.rs reports | `pool`, `avatars`, `life` (each task's lifecycle state), `msgs`, `events` | `Publish`, `PublishRejected`, `Teardown`, `Pause`, `Resume`, `SessionStep`, `SessionMessage`, `SessionEnd`, `Background` |
| `RtmpPeer` | peer.rs `Peer::run`, `handle_event`, `disconnect`; rtmp.rs `handle_bytes`; manager.rs keyed `CreateSession`, `ReleaseSession`, `AuthorizeSession` | per peer: `hs`, `pst`, `pc`, `pend` (batch), `expd`, `chunks`, `pubs`, `cpub`, `reply`; manager: `mq`, `keys`, `registry`, `live` | `Read`, `ReadEnd`, `HandleEvent`, `ReturnDataFailed`, `Await`, `BatchDone`, `MgrCreate`, `MgrRelease`, `Authorize`, `Expire` |
| `HlsStorage` | writer.rs `create`, `write_segment`; m3u8.rs `release`; session_cleaner.rs `run`, `remove_item` | `now` (ms), `dir`, `files`, per writer `wst`, `nextw`, `window`, `broken`; the cleaner's `items` | `Create`, `WriteSegment`, `Release`, `RemoveItem`, `Tick` |
| `AdtsDemuxer` | adts_demuxer.rs `new`, `set_config`, `push_payload`, `push_empty_payload`, `handle_bytes`; data.rs `as_micros`, `as_millis`; receiver.rs `handle_bytes` | operators only: a demuxer record (config, clock start, `media_ts`, counters, queue) | `handle_bytes` = `parse`, then `fill`, then `drain`; `Results` folds it over a run of calls |
| `TransportStream` | transport_stream.rs `push_audio`, `write`; writer.rs `write_segment`'s drain-then-create | operators only: the counter and the buffered packets | `push_audio`, `write`; `handle_sample` for one sample through the writer, `Files` over a run |
| `RtmpAudio` | rtmp.rs `handle_event` (AudioDataReceived), `RtmpHandle::default`; aac.rs `AacCoder` `set_asc`, `read_format`, `write_format` | operators only: a handle record (coder state, `sample_rate`, `channels`, `frame_count`, Err flag, samples sent) | `handle_audio` = `HandleHeader` or `HandleRaw`; `HandleTags` folds it over a tag sequence |
| `Recorder` | recorder.rs `Recorder::create`, `run`, `handle_sample`, `handle_aac_audio`; record service.rs's `unwrap` of `run()` | operators only: a recorder record (phase, `has_recv`, `sid`, track rate, `timestamp`, frames written, messages sent, file) | `recv_sample` (watermark, `start_recording`, `handle_aac_audio`); `finish`; `Run` folds the loop over a sample stream under one I/O outcome |
| `StatSessions` | echo-stat service.rs `Service::run`'s event loop; session.rs `Session` methods, `Count` | operators only: the stats record (one session's entry or its absence, the counts) | one `On...` operator per event arm; `handle_event` dispatches; `HandleEvents` folds it over an arrival order; `Arrivals` builds every order the manager's FIFO allows |
| `HlsSequence` | hls service.rs `Service::run`'s CreateSession loop: the per-name sequence map | operators only: the map `hs` (name -> seq, begin_time), whether the task is alive, the seqs handed to writers | `handle_create` (seq, `store`, the cleanup loop with its panic and `expired`); `HandleEvents` folds it over a run of events |
| `MCPlaylist`, `MCTransferService`, `MCRtmpPeer`, `MCHlsStorage` | bounds for TLC | | |

`SessionLifecycle` is the abstract specification. `EchoCore` checks that the
states `SrtSession` reports implement it (`ReportsFollowLifecycle`, with
`Terminated` once the task is done). `TransferService` checks that the state
`state_v4` answers from the avatars implements it
(`AnswersFollowLifecycle`). Both use `INSTANCE SessionLifecycle WITH state
<- ...` as the refinement mapping.

`RtmpPeer`'s `handle_bytes` is a fold (`FoldLeft`) over the RTMP messages
of one chunk. It gives the handshake outcome, the batch of events and the
new handle state, so a whole `handle_input` call is one step. `HlsStorage`
has an explicit millisecond clock. `Tick` advances it to the next cleaner
deadline or segment cut, or by `Quantum` when nothing is due sooner, so
publishes may start and end on a `Quantum` grid between deadlines. Its segments all last `write_interval` and it holds no
pre-roll segment, so its trim compares the window's length times
`write_interval` with `playlist_duration`. `Playlist` checks the trim with
the actual durations and the pre-roll.

A step of `SrtSession` is the code between two awaits. `Poll` is the
non-blocking start of a loop turn. The accept wait resolves as `Accept`,
`IdleTick`, `ConnTimeout` or `ListenError`. `Created` resumes after the
`CreateSession` reply. A receiver step is one socket await's outcome plus
the next turn's close poll. So a close requested during an await is seen one
turn late, as in the code.

Abstractions:

* A sample is its `sid`, and a packet carries one sample.
* Starvation may emit up to `MaxFill` filler samples.
* Elapsed time is a free choice, constrained by fairness.
* Reasons, props, keys and the SessionEvents to the transfer service are
  left out.
* The playlist's Ready/NotReady report is a free choice on each handled
  sample.

## Runs

| run | cfg | bounds | checks | result |
|---|---|---|---|---|
| `core_safety` | `MCEchoCore.cfg` | 1 session, 2 connections, 1 packet each, no fillers, 2 drain turns, bus 8 | `TypeOK`, `ReceiverCountAccurate`, `ManagerHistoryOrdered` | holds (945k states, under 1 min) |
| `core_liveness` | `MCEchoCoreLive.cfg` | 1 session, 1 connection, 1 packet, 1 filler, 2 drain turns, bus 1 | `EverySessionWindsDown` | holds |
| `writer_lag` | `MCEchoCoreLag.cfg` | as `core_liveness` | `WriterOutlivesIngest` | **violated** |
| `playlist_safety` | `MCPlaylist.cfg` | 1 s target, 10 s pre-roll, 2 connections of 200 frames, 1 failed write; demuxer runs of up to 3 calls; TS runs of up to 4 samples; RTMP audio runs of up to 4 tags; HLS sequence runs of up to 4 events; recorder streams of up to 3 samples; every arrival order of one stats session's events | `TypeOK`, `DurationAccounted`, `SegmentsFitTarget`, `DemuxTimestampsMatchReference`, `DemuxPacedToClock`, `TsPacketsFit`, `TsContinuityAcrossSegments`, `TsSegmentsOpenWithPcr`, `RtmpFramesCounted`, `RtmpSamplesCarryLastConfig`, `HlsSequenceContinues`, `HlsServiceDiesOnlyOnStepBack`, `RecordedFramesMatchReference`, `RecordMessagesMatchOutcome`, `StatCountsMatchSessions`, `StatSessionRemovedOnceOutputsEnd` | holds (267k states, about 15 s) |
| `playlist_ready_once` | `MCPlaylistReady.cfg` | 1 s target, 10 s pre-roll, 600 frames | `ReadyHlsSentOnce` | **violated** |
| `playlist_six_targets` | `MCPlaylistSixT.cfg` | 2 s target, 600 frames | `ReadyOnlyAtSixTargets` | **violated** |
| `playlist_target_clamp` | `MCPlaylistTarget.cfg` | 10 s target, 600 frames | `SegmentsFitTarget` | **violated** |
| `transfer_ports` | `MCTransferService.cfg` | 3 sessions, 2 ports, 1 message each, 2 queued reports | `TypeOK`, `PortOwnership`, `PortsComeBack`, `AnswersFollowLifecycle` | holds (490k states, about 2 min) |
| `rtmp_sessions` | `MCRtmpPeer.cfg` | 2 peers, 2 keys, 2 chunks of 2 messages, 2 publishes | `TypeOK`, `SessionsOwned`, `EveryConnectionWindsDown` | holds (716k states, about 1 min) |
| `rtmp_double_publish` | `MCRtmpPeerDouble.cfg` | as `rtmp_sessions`, with a second publish while publishing | `SessionsOwned` | **violated** |
| `rtmp_send_panic` | `MCRtmpPeerSend.cfg` | as `rtmp_sessions`, with a reset while publishing | `SessionsOwned` | **violated** |
| `hls_dir_race` | `MCHlsStorage.cfg` | 2 publishes of one name, 8 s target, 2 segments each, 1 s grid, 24 s | `DirectoryOutlivesPublish` | **violated** |

What the properties say:

* `ReceiverCountAccurate`: EchoSession's `receiver_count` equals the running
  receivers plus the queued close events.
* `ManagerHistoryOrdered`: per id, the manager handles Create first, at most
  one Release, and no Pause, Resume or InputQualityReport after it.
* `ReportsFollowLifecycle`: the reported states of each session only move
  along SessionLifecycle's edges.
* `DurationAccounted`: the playlist's `current_duration` equals the sum of
  its segments' durations through every trim and append.
* `SegmentsFitTarget`: no segment is longer, rounded to seconds, than the
  EXT-X-TARGETDURATION the playlist advertises.
* `PortOwnership`: every port is either in the pool or held by exactly one
  avatar, and every running session task has its avatar.
* `PortsComeBack`: an ended session's avatar is eventually removed and its
  port returned.
* `AnswersFollowLifecycle`: what `state_v4` answers only moves along the
  lifecycle's edges.
* `SessionsOwned`: a core session the RTMP peer created is live exactly
  while its peer owns it, and a registry entry is owned or its release is
  queued.
* `EveryConnectionWindsDown`: every RTMP peer ends, leaving no registry
  entry and no live instance.
* `DirectoryOutlivesPublish`: no HLS writer finds its stream directory gone.
* `DemuxTimestampsMatchReference`: the i-th sample the demuxer returns on a
  connection is stamped `i x 1024 / freq`, spec.md's reference. This holds
  across fillers, samples held back between calls, bad and truncated frames,
  dropped invalid configurations and rate changes.
* `DemuxPacedToClock`: at one sampling rate, no sample is returned before
  its time. After a call in a valid configuration, the returned stream
  reaches within 20 frames of the wall clock.
* `TsPacketsFit`: every packet of a frame fits in 188 bytes, counting the
  PCR adaptation field and the PES header, and the packets carry the whole
  frame.
* `TsContinuityAcrossSegments`: the audio continuity counter goes up by one
  (mod 16) from packet to packet, across segment files, except after a
  segment file that failed.
* `TsSegmentsOpenWithPcr`: a segment file that follows a written one opens
  its audio with a PES packet that carries the PCR adaptation field. The
  writer's first file, and a file after a failed one, are excluded: the
  code gives them no PCR (`writer.rs:179`; see the hazards).
* `RtmpFramesCounted`: the RTMP audio path turns exactly the raw frames
  that arrive after an ASC is installed into samples, in order. The k-th
  sample is stamped `1024 x (k - 1)`. The handler fails exactly at an
  unparsable FLV tag, or at raw AAC that arrives before any usable ASC and
  is no ASC itself. The reference is computed from the tag sequence alone.
* `RtmpSamplesCarryLastConfig`: each RTMP sample is wrapped with the ASC
  installed when its frame arrived. That is the last valid sequence header,
  or else the raw payload taken as an ASC. The sample also carries the rate
  (its timescale too) and the channel count of the last valid header that
  set them, or 48000 and 2 before one. A header whose ASC has no frequency
  keeps the old rate.
* `HlsSequenceContinues`: the HLS service numbers a writer's files from
  100000 above the previous publish of the name while that entry is held,
  and from 0 otherwise. Every publish refreshes the entry's begin_time,
  and an entry expires only once a later CreateSession finds it more than
  ttl + 600 s old. spec.md 4.6 says "last_seq + 100000". The code adds to
  the previous publish's first number, not its last.
* `HlsServiceDiesOnlyOnStepBack`: the `unwrap` at service.rs:178 ends the
  HLS service exactly when a CreateSession reads a wall clock earlier than
  another name's held entry. A step back over the event's own name is
  harmless, because its entry is replaced before the loop. A step back
  over an expired entry is harmless too.
* `RecordedFramesMatchReference`: the MP4 holds exactly those samples that
  are not older than the newest connection seen, are longer than the
  7-byte ADTS header, and were written without error, in order. They are
  stamped 0, 1024, 2048, ... on the first sample's timescale. A failed
  write does not advance the counter, so the timeline closes over it.
* `RecordMessagesMatchOutcome`: StartRecord is sent exactly when the first
  sample has a supported rate and channel count and the MP4 could be
  started. `{name}.mp4` exists exactly when the MP4 was also finished and
  renamed. CompleteRecord follows only if the wall clock has not stepped
  back. The `unwrap` at recorder.rs:149 runs after the rename, so a step
  back leaves a finished file that the manager never hears of.
* `StatCountsMatchSessions`: in every order in which one session's events
  can reach the stats loop, each counter equals the number of held
  sessions in the state it counts. These are an input not yet released, an
  HLS output ready and not released, and a recording started and not
  completed. So no usize counter goes below zero, even for a writer that
  releases without ever being ready.
* `StatSessionRemovedOnceOutputsEnd`: the session leaves the stats map
  exactly when, after some event, its ingest has been released and every
  output whose start arrived has ended. Once all senders are done, it is
  gone, except when the recorder panicked between StartRecord and
  CompleteRecord. That session, and its recording count, then stay for
  good. A ReadyHlsSession that arrives after the session is gone is not
  counted.
* The thirteen pure checks are operators over every bounded run, evaluated once
  by TLC. `MCPlaylist` conjoins each with `WriterFrameStamped`, so that each
  is an invariant of the writer's states. `WriterFrameStamped` says that the
  frame the writer handles carries the demuxer's stamp in milliseconds.
* `EverySessionWindsDown`: eventually the ingest task is done, the id is out
  of the registry, the instance and the writer have ended, a writer that
  handled a sample has had its ReleaseHlsSession handled, and the manager's
  queue is empty.

Why these bounds are enough:

* Two connections give a reconnect: a ResumeSession, a close request to the
  old receiver, and samples of two connections interleaved on the bus.
  Samples from the old connection reach the writer after the new one's, and
  the watermark branch fires.
* Two drain turns let the drain both end early and run out.
* A bus of 8 cannot be overrun with these bounds. A bus of 1 is overrun by
  the second unread sample, which is the 64-slot bus behind a stalled writer.
* The liveness run uses 1 connection: with 2 connections it takes
  minutes. Fillers are off in the safety run for the same reason.

* `transfer_ports` has two ports for three sessions, so the pool runs dry
  (two ports is the smallest range `Config::check` accepts)
  and a freed port is handed to a later publish while the old session's
  reports may still be queued.
* `rtmp_sessions` has two keys, so a re-authorization makes the old key
  mismatch. A batch of two messages can hold an unpublish and a publish, or
  a sample after the key expired.
* In `hls_dir_race` the first publish may end at any grid point, including
  after it cut both its segments, and the race still happens.
* The demuxer runs combine 7 chunks (a read timeout; 1 or 3 frames; a bad
  header between frames; a truncated frame; a 44.1 kHz frame; an
  unsupported 32 kHz frame before a 48 kHz mono one) with 4 instants up to
  1 s, over at most 3 calls. A 1 s starvation needs more than two filler
  batches, so the `while` of the filler loop matters.
* The TS runs use frames of 100, 163 and 1536 bytes. 163 is one byte over
  the first packet's payload, and 1536 takes 9 packets, so the counter
  wraps within four samples. Each sample cuts nothing, cuts a segment, or
  cuts one whose file fails.
* The RTMP audio runs are all sequences of up to 4 tags. A tag is a
  header or a raw frame whose body parses as a 48 kHz stereo ASC, a
  44.1 kHz mono ASC, an ASC without a frequency, or no ASC; or it is an
  unparsable FLV tag. Four tags are enough for a bootstrap from a raw
  frame, a header that replaces it, a rate change between two samples, a
  frequency-less header, and a failure after samples were sent.
* The HLS sequence runs are all sequences of up to 4 CreateSession events
  of two names, at the default 7200 s ttl. The clock readings are 1000,
  5000, 8800 and 8801 s. 8800 - 1000 is exactly the 7800 s horizon, and
  8801 - 1000 is one second past it, so both sides of the expiry compare
  occur. Any decreasing pair of readings is a clock step back.
* The recorder streams are all sequences of up to 3 samples from
  connections 0 and 1, under all 16 outcomes of the temp file, the MP4
  start, the finish and the clock. A sample is 48 kHz stereo, 32 kHz (a
  rate the recorder refuses), or 44.1 kHz with channel configuration 0
  (which `ChannelConfig` refuses). It is longer or not longer than the
  ADTS header, and its write succeeds or fails. Three samples are enough
  for a stale sample between two current ones.
* The stats runs use one session id: other ids touch other entries and
  only add to the counts. The ingest sends a quality report and
  ReleaseSession. The writer sends up to two ReadyHlsSession (the
  playlist can fall back to NotReady) and then ReleaseHlsSession. The
  recorder sends StartRecord and CompleteRecord. Each sender has sent any
  prefix of its stream, and the three are merged in every order after
  CreateSession0, which the manager sends before any writer or recorder
  of the session exists.
* The Playlist runs use 600 frames (about 12.8 s of audio) where a
  property needs a full window.

CHECK_DEADLOCK is FALSE because the model really stops. Once every modelled
publish has wound down, the server's tasks wait on empty queues.

## Fairness

`EchoCore.Fairness` gives weak fairness to every server task: the manager,
each instance, the HLS service, each writer, the cleaner, EchoSession's
steps, and each receiver's timeout step. The code gives them this, since
they are tokio tasks that run while they have input.

* A receiver with no packets reaches its read timeout: weak fairness on
  `RecvReadTimeout`.
* An idle EchoSession reaches `connection_timeout`: strong fairness on
  `ConnTimeout`. The loop looks at the clock only at the end of each accept
  turn, so the step is enabled only intermittently, but once the timeout has
  passed, every such turn breaks the loop.
* The publisher (connections, packets, disconnects, listener errors) and the
  HTTP caller (teardown) get no fairness.
* `TransferService.Fairness` gives weak fairness to `background_service`
  and to each task's message loop. Clients, and the reasons a task ends on
  its own, get none.
* `RtmpPeer.Fairness` gives weak fairness to the manager's create and
  release and to each peer's event handling, await and read end. A read
  always ends, at the latest at `rtmp_connection_timeout`. Clients, the
  HTTP authorization and the clock get none.

## Findings

Each violation run is a disagreement between the code and spec.md, a code
comment or the HLS standard. `PROJECT.json` `findings` gives the details.

* `writer_lag` (writer.rs:94). `Writer::run` loops on `while let
  Ok(sample)`, so the broadcast's `Err(Lagged)` ends the writer while the
  session is still registered. The writer releases the playlist and sends
  ReleaseHlsSession, and the live session's HLS output stops. spec.md 4.7
  says a lagging subscriber sees a lag signal and keeps receiving the
  retained suffix. `echo-record/recorder.rs:73` has the same loop.
* `playlist_ready_once` (m3u8.rs:139). The Ready state is not latched. A
  trim that drops the playlist below the minimum makes the next crossing
  send ReadyHlsSession again. With a 10 s pre-roll and the default 1 s
  target this happens on every publish. spec.md 4.6 has Ready only on the
  first crossing.
* `playlist_six_targets` (m3u8.rs:63). The window, minimum and cache
  durations are 12000*1000/T, 6000*1000/T and 38000*1000/T ms. These
  equal 12T, 6T and 38T only for T = 1 s. With T = 2 s the playlist is
  Ready holding two segments.
* `playlist_target_clamp` (writer.rs:55). `write_interval` comes from the
  unclamped configured target, while the playlist advertises the target
  clamped to 1-8 s. A 10 s target gives 10 s segments in an 8 s playlist.
* `rtmp_double_publish` (peer.rs:167). A failed `CreateSession`
  (DuplicatedCreation for a second publish on the same connection, or
  KeyMismatch) leaves `Peer::run` through `?` without `disconnect()`. The
  first core session is never released.
* `rtmp_send_panic` (peer.rs:121). Writing ReturnData to a client that
  reset the connection panics through `.expect`, again without
  `disconnect()`.
* `hls_dir_race` (session_cleaner.rs:90). `release` schedules
  `remove_dir` of the stream directory at cache + 2 x min duration, which
  is 6.25 s for an 8 s target. A republish of the name within that time
  recreates the directory, but its first segment comes only 7.978 s later.
  The directory is still empty when the cleaner fires, so it is removed,
  and every later `File::create` of the new writer fails. The error is
  only logged, and nothing recreates the directory. The comment at
  session_cleaner.rs:89 and spec.md (Cleaner) expect a restarted session's
  directory to be non-empty, so that the removal fails.

## Not modelled, and the next steps

* **PTS values**: `make_timestamp` reduces modulo `Pts::MAX`, and spec.md
  says modulo 2^33. The crate that defines `Pts::MAX` is not in the
  repository, and 33-bit values exceed TLC's integers.
* **Payload bytes**: the demuxer's channel-count detection looks only at
  header bytes 0..3. A mono/stereo switch therefore goes unseen, which
  affects only the filler bytes.
* **Segment content against EXTINF**: after a failed segment file, the next
  segment holds no audio but spans the lost time. Checking this needs the
  TS buffer inside `Playlist`'s state.
* **Concurrent publishes of one name**: two live writers of the same name
  share `playlist.m3u8`. `HlsStorage` lets publishes of a name follow one
  another.
* **Failure paths**: what follows an HLS service panic (`HlsSequence`
  pins when it happens): every later CreateSession fails its trigger send
  (manager.rs:188) and leaks its registry entry. `EchoCore` keeps the HLS
  trigger alive.
* **Sequence overflow**: the u32 `seq + 100000` wraps after 42950 chained
  republishes of one name, far beyond the chains of four that are checked.
* **Recorder, around `run()`**: the record service's trigger loop is the
  HLS service's, and `prepare_record_directory` is file-system I/O. Two
  recorders of one name both rename to `{name}.mp4`, and `record_append`
  is never read, so the recording that finishes last wins. The fold
  follows one recorder, so that race is not checked. A panic's effect on
  the temp file depends on the build's panic strategy: `NamedTempFile`
  removes it on unwind. So it is left out. spec.md's "the .tmp file is
  left behind" when the writer fails mid-stream does not match the code.
  There a failed write is only logged, and the recording is still
  renamed at the end. Whether a build enables the `record` feature is not
  known, because the repository has no Cargo manifest.
* **Stats service, around its loop**: the startup's seven RegisterTrigger
  sends are not modelled, and a session that falls between two of them is
  half-seen. The warp routes and the count logger only read, and sysinfo
  is host I/O, so they are not modelled either.
* **Authorization triggers**: the manager's AuthorizeSession branch that
  consults `EventKind::AuthorizeSession` triggers (manager.rs 99-118)
  never runs, because no service registers such a trigger. The `?` that
  would drop the responder, and the `unwrap` in `authorize` that it would
  panic, therefore cannot be reached. The key check that does run is
  `RtmpPeer`'s `Authorize`.
* **Codec submodules**: the
  ASC parser and the ADTS writer that `AacCoder` calls are submodules that
  are not in the repository: an ASC is a token `[valid, freq, chans]`, so
  whether the ADTS header agrees with a sample's rate after raw-frame
  bootstrapping is not checked. Configuration loading is I/O;
  of `Config::check` only the port rule constrains a modelled state.
