----------------------------- MODULE HlsWriter -----------------------------
(***************************************************************************)
(* The HLS side of a session (echo-hls): the HLS service registers its     *)
(* CreateSession trigger with the manager and, for every CreateSession     *)
(* event, creates a Writer on the subscription the manager made for it     *)
(* (service.rs); the Writer reads the session's sample bus until recv()    *)
(* fails, then releases its playlist, which hands a Session item to the    *)
(* session cleaner; when that item's delay expires the cleaner sends       *)
(* ReleaseHlsSession to the manager (session_cleaner.rs).                  *)
(*                                                                         *)
(* wr[id] is the subscription and the writer reading from it:              *)
(*   st    "none" no subscription (none made, or dropped with a writer     *)
(*         that could not be created), "sub" subscribed and no writer yet, *)
(*         "run" writer running, "done" writer ended;                      *)
(*   pos   index in bus[id] of the next sample recv() returns;             *)
(*   sid   the writer's connection watermark; has  has_recv;               *)
(*   ready the playlist's PlaylistState is Ready.                          *)
(* Segment cutting depends on timestamps, which this module abstracts: a   *)
(* handled sample may or may not make add_media_segment report a state    *)
(* change (the playlist arithmetic is the subject of Playlist).            *)
(***************************************************************************)
EXTENDS Naturals, Sequences

CONSTANTS Sessions, MaxSid, BusCap

VARIABLES
    wr,        \* id -> the subscription and its writer
    bus,       \* id -> sids of every sample sent on the session's broadcast
    inst,      \* id -> state of the session instance task
    registry,  \* ids in the manager's registry
    inbox,     \* the manager's queue
    cleaner,   \* ids whose CleanerItem::Session is waiting in the DelayQueue
    hlsUp      \* the HLS service has started and sent RegisterTrigger

Sids == 0..MaxSid
WriterState == [st : {"none", "sub", "run", "done"}, pos : Nat, sid : Sids,
                has : BOOLEAN, ready : BOOLEAN]
NoWriter == [st |-> "none", pos |-> 1, sid |-> 0, has |-> FALSE, ready |-> FALSE]

TypeOK ==
    /\ wr \in [Sessions -> WriterState]
    /\ cleaner \subseteq Sessions
    /\ hlsUp \in BOOLEAN

Init ==
    /\ wr = [s \in Sessions |-> NoWriter]
    /\ cleaner = {}
    /\ hlsUp = FALSE

\* Index in bus[id] of the oldest sample the channel still retains.
Oldest(id) == IF Len(bus[id]) > BusCap THEN Len(bus[id]) - BusCap + 1 ELSE 1

\* Every sender of the broadcast is gone: the instance task's, and the
\* clone kept in the manager's registry entry.
BusClosed(id) == id \notin registry /\ inst[id] # "running"

\* HlsService::run (service.rs 127-135) registers the CreateSession trigger.
HlsStart ==
    /\ ~hlsUp
    /\ hlsUp' = TRUE
    /\ inbox' = Append(inbox, [k |-> "Register", id |-> "hls"])
    /\ UNCHANGED <<wr, bus, inst, registry, cleaner>>

\* A CreateSession event (service.rs 142-170): Writer::create succeeds and
\* the writer task is spawned, or prepare_stream_directory fails and the
\* event, with its subscription, is dropped.
HlsCreateWriter(id) ==
    /\ wr[id].st = "sub"
    /\ wr' = [wr EXCEPT ![id].st = "run"]
    /\ UNCHANGED <<bus, inst, registry, inbox, cleaner, hlsUp>>

HlsCreateFailed(id) ==
    /\ wr[id].st = "sub"
    /\ wr' = [wr EXCEPT ![id].st = "none"]
    /\ UNCHANGED <<bus, inst, registry, inbox, cleaner, hlsUp>>

(***************************************************************************)
(* One turn of Writer::run's loop with recv() returning Ok (writer.rs      *)
(* 94-105): a sample of an older connection is skipped, a newer one raises *)
(* the watermark; then handle_sample, whose add_media_segment may make the *)
(* playlist Ready (ReadyHlsSession is sent, writer.rs 140-150), NotReady   *)
(* again (nothing is sent), or leave it unchanged.                         *)
(***************************************************************************)
WriterRecv(id) ==
    LET w == wr[id]
        sid == bus[id][w.pos]
    IN
    /\ w.st = "run"
    /\ w.pos <= Len(bus[id])
    /\ w.pos >= Oldest(id)
    /\ IF sid < w.sid
          THEN /\ wr' = [wr EXCEPT ![id].pos = @ + 1]
               /\ UNCHANGED inbox
          ELSE \E nowReady \in BOOLEAN :
                 /\ wr' = [wr EXCEPT ![id] = [w EXCEPT !.pos = @ + 1, !.sid = sid,
                                                       !.has = TRUE, !.ready = nowReady]]
                 /\ inbox' = IF nowReady /\ ~w.ready
                                THEN Append(inbox, [k |-> "ReadyHls", id |-> id])
                                ELSE inbox
    /\ UNCHANGED <<bus, inst, registry, cleaner, hlsUp>>

\* The loop ends and, if a sample was ever handled, Playlist::release
\* (m3u8.rs 184-218) schedules the Session item for the cleaner.
WriterExit(id) ==
    /\ wr' = [wr EXCEPT ![id].st = "done"]
    /\ cleaner' = IF wr[id].has THEN cleaner \cup {id} ELSE cleaner
    /\ UNCHANGED <<bus, inst, registry, inbox, hlsUp>>

\* recv() fails with Lagged: the writer has fallen more than BusCap samples
\* behind.  `while let Ok(..)` treats it like the end of the stream.
WriterLagged(id) ==
    /\ wr[id].st = "run"
    /\ wr[id].pos < Oldest(id)
    /\ WriterExit(id)

\* recv() fails with Closed: every retained sample is read, no sender left.
WriterClosed(id) ==
    /\ wr[id].st = "run"
    /\ wr[id].pos > Len(bus[id])
    /\ BusClosed(id)
    /\ WriterExit(id)

\* The DelayQueue yields the Session item (session_cleaner.rs, remove_item):
\* ReleaseHlsSession is sent to the manager.
CleanerRelease(id) ==
    /\ id \in cleaner
    /\ cleaner' = cleaner \ {id}
    /\ inbox' = Append(inbox, [k |-> "ReleaseHls", id |-> id])
    /\ UNCHANGED <<wr, bus, inst, registry, hlsUp>>

Next ==
    \/ HlsStart
    \/ \E id \in Sessions :
          \/ HlsCreateWriter(id) \/ HlsCreateFailed(id)
          \/ WriterRecv(id) \/ WriterLagged(id) \/ WriterClosed(id)
          \/ CleanerRelease(id)

=============================================================================
