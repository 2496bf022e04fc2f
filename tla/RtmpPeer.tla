------------------------------ MODULE RtmpPeer ------------------------------
(***************************************************************************)
(* RTMP ingest (echo-rtmp): one Peer task per TCP connection.  The peer    *)
(* reads a chunk (with rtmp_connection_timeout), hands it to its           *)
(* RtmpHandle, which turns the RTMP messages in it into a batch of Events, *)
(* and then handles the batch in order: ReturnData is written back to the *)
(* client, AcquireSession sends a keyed CreateSession to the manager and   *)
(* awaits the reply, SendSample forwards to the core session, and          *)
(* ReleaseSession / LeaveSession disconnect.  The part of the session      *)
(* manager RTMP relies on (stream keys from AuthorizeSession, the keyed    *)
(* CreateSession with its DuplicatedCreation and KeyMismatch replies, and  *)
(* ReleaseSession) is modelled with it, over one stream name.             *)
(*                                                                         *)
(* The RTMP messages of a chunk are abstracted to what the handle does     *)
(* with them: a control message answered by the server session, publish   *)
(* with a stream key, an audio tag, unpublish, and input that makes       *)
(* handle_bytes fail (bad handshake, empty app name, invalid input, a      *)
(* rejected request, a malformed FLV or AAC tag).                          *)
(***************************************************************************)
EXTENDS Naturals, Sequences, FiniteSets, SequencesExt

CONSTANTS
    Peers,         \* connection ids from id_gen
    KeyVals,       \* stream keys rand_string(8) can produce
    MaxChunks,     \* chunks a client sends on one connection
    MaxBatch,      \* RTMP messages in one chunk
    MaxPublishes,  \* publish commands a client sends on one connection
    DoublePublish, \* whether a client publishes again while still publishing
    ResetWhilePublishing \* whether a client resets its connection while it
                         \* has a core session (at other times it always may)

VARIABLES
    hs,        \* RtmpHandle.state
    pst,       \* Peer.state: "Initializing", "Publishing", "Disconnecting"
    pc,        \* where Peer::run is: "read", "events", "await", "done", "failed"
    pend,      \* the events of the current batch not yet handled
    expd,      \* Peer.exp_time: "none", "live" or "past"
    chunks,    \* chunks read so far
    pubs,      \* publish commands sent so far
    cpub,      \* the client has published and not yet unpublished
    mq,        \* the manager's FIFO queue (the part RTMP peers send)
    reply,     \* the CreateSession oneshot of each peer
    keys,      \* session_keys for the stream name
    registry,  \* the manager's sessions map (ids)
    live       \* id -> core session instances not yet sent EndOfSample

vars == <<hs, pst, pc, pend, expd, chunks, pubs, cpub, mq, reply, keys, registry, live>>

NoKey == "nokey"
Ended == {"done", "failed"}

\* An RTMP message of a chunk, as the handle sees it.
Msgs == {[m |-> "control", key |-> NoKey], [m |-> "audio", key |-> NoKey],
         [m |-> "unpublish", key |-> NoKey], [m |-> "bad", key |-> NoKey]}
        \cup {[m |-> "publish", key |-> k] : k \in KeyVals}

\* rtmp::Event.
Events == {[e |-> x, key |-> NoKey] : x \in {"ReturnData", "SendSample", "ReleaseSession",
                                          "LeaveSession"}}
          \cup {[e |-> "AcquireSession", key |-> k] : k \in KeyVals}
Ev(x) == [e |-> x, key |-> NoKey]

\* The manager's messages; Authorize is the HTTP publish of an RTMP stream.
MgrMsgs == [kind : {"Create"}, id : Peers, key : KeyVals] \cup [kind : {"Release"}, id : Peers]

\* A CreateSession reply; "okPast" is Ok with an expiry that has passed.
Replies == {"none", "ok", "okPast", "dup", "mismatch"}

TypeOK ==
    /\ hs \in [Peers -> {"HandshakePending", "Ready", "Publishing", "Finished"}]
    /\ pst \in [Peers -> {"Initializing", "Publishing", "Disconnecting"}]
    /\ pc \in [Peers -> {"read", "events", "await"} \cup Ended]
    /\ pend \in [Peers -> Seq(Events)]
    /\ expd \in [Peers -> {"none", "live", "past"}]
    /\ chunks \in [Peers -> 0..MaxChunks]
    /\ pubs \in [Peers -> 0..MaxPublishes]
    /\ cpub \in [Peers -> BOOLEAN]
    /\ mq \in Seq(MgrMsgs)
    /\ reply \in [Peers -> Replies]
    /\ keys \in [key : KeyVals \cup {NoKey}, fresh : BOOLEAN]
    /\ registry \subseteq Peers
    /\ live \in [Peers -> 0..MaxPublishes]

\* Peer::new and RtmpHandle::default for every connection; no key issued.
Init ==
    /\ hs = [p \in Peers |-> "HandshakePending"]
    /\ pst = [p \in Peers |-> "Initializing"]
    /\ pc = [p \in Peers |-> "read"]
    /\ pend = [p \in Peers |-> <<>>]
    /\ expd = [p \in Peers |-> "none"]
    /\ chunks = [p \in Peers |-> 0]
    /\ pubs = [p \in Peers |-> 0]
    /\ cpub = [p \in Peers |-> FALSE]
    /\ mq = <<>>
    /\ reply = [p \in Peers |-> "none"]
    /\ keys = [key |-> NoKey, fresh |-> FALSE]
    /\ registry = {}
    /\ live = [p \in Peers |-> 0]

-----------------------------------------------------------------------------
(* RtmpHandle::handle_bytes                                                *)

\* One raised ServerSessionEvent in handle_event and handle_results (rtmp.rs
\* 154-255), on the result so far: publish emits AcquireSession and then
\* the accepted request's response, unpublish LeaveSession and
\* ReleaseSession, an audio tag a sample; a failure stops the batch.  The
\* client side of the fold records whether it published twice.
HandleMsg(acc, x) ==
    IF ~acc.ok THEN acc
    ELSE CASE x.m = "control" -> [acc EXCEPT !.evs = Append(@, Ev("ReturnData"))]
           [] x.m = "audio" -> [acc EXCEPT !.evs = Append(@, Ev("SendSample"))]
           [] x.m = "publish" ->
                 [acc EXCEPT !.evs = @ \o <<[e |-> "AcquireSession", key |-> x.key],
                                           Ev("ReturnData")>>,
                             !.hs = "Publishing", !.double = @ \/ acc.cpub,
                             !.cpub = TRUE]
           [] x.m = "unpublish" ->
                 [acc EXCEPT !.evs = @ \o <<Ev("LeaveSession"), Ev("ReleaseSession")>>,
                             !.hs = "Finished", !.cpub = FALSE]
           [] x.m = "bad" -> [acc EXCEPT !.ok = FALSE]

\* handle_bytes (rtmp.rs 82-142) on a chunk: while the handshake is pending
\* the chunk is handshake bytes (in progress, complete with the RTMP
\* messages that follow it, or invalid); afterwards it is RTMP messages.
\* On completion the session is initialised (its first response is
\* returned) and the state set to Ready after the remaining messages.
handle_bytes(h, hsk, msgs, cp) ==
    LET start == [ok |-> TRUE, evs |-> <<>>, hs |-> h, double |-> FALSE, cpub |-> cp]
        run(acc) == FoldLeft(HandleMsg, acc, msgs)
    IN  IF h # "HandshakePending" THEN run(start)
        ELSE CASE hsk = "progress" -> [start EXCEPT !.evs = <<Ev("ReturnData")>>]
               [] hsk = "invalid" -> [start EXCEPT !.ok = FALSE]
               [] hsk = "complete" ->
                    LET r == run([start EXCEPT !.evs = <<Ev("ReturnData"), Ev("ReturnData")>>])
                    IN  IF r.ok THEN [r EXCEPT !.hs = "Ready"] ELSE r

\* The chunks a client may send: up to MaxBatch RTMP messages.
Batches == UNION {[1..n -> Msgs] : n \in 1..MaxBatch}
PublishCount(msgs) == Cardinality({i \in DOMAIN msgs : msgs[i].m = "publish"})

-----------------------------------------------------------------------------
(* Peer::run                                                               *)

\* Mutant: the state changes, but EndOfSample and ReleaseSession are not sent.
disconnect_state_only(p) ==
    /\ pst' = [pst EXCEPT ![p] = "Disconnecting"]
    /\ UNCHANGED <<live, mq>>

\* Mutant: the Publishing test dropped.
disconnect_unconditional(p) ==
    /\ live' = [live EXCEPT ![p] = @ - 1]
    /\ mq' = Append(mq, [kind |-> "Release", id |-> p])
    /\ pst' = [pst EXCEPT ![p] = "Disconnecting"]

(***************************************************************************)
(* Peer::disconnect (peer.rs 183-204): a publishing peer sends EndOfSample *)
(* to its core session and ReleaseSession to the manager; in every state   *)
(* the peer becomes Disconnecting.                                          *)
(***************************************************************************)
disconnect(p) ==
    /\ IF pst[p] = "Publishing"
          THEN /\ live' = [live EXCEPT ![p] = @ - 1]
               /\ mq' = Append(mq, [kind |-> "Release", id |-> p])
          ELSE UNCHANGED <<live, mq>>
    /\ pst' = [pst EXCEPT ![p] = "Disconnecting"]

\* The top of the loop (peer.rs 58-112) reads a chunk while Initializing or
\* Publishing and hands it to the handle; if handle_bytes fails, the peer
\* disconnects, and the next turn of the loop returns.
Read(p) ==
    /\ pc[p] = "read"
    /\ chunks[p] < MaxChunks
    /\ \E hsk \in {"progress", "complete", "invalid"}, msgs \in Batches \cup {<<>>} :
          LET r == handle_bytes(hs[p], hsk, msgs, cpub[p])
          IN  /\ (hs[p] = "HandshakePending") = (hsk # "progress" /\ hsk # "invalid" => TRUE)
              \* handshake bytes carry RTMP messages only when they complete
              \* it; after the handshake hsk is unused and fixed
              /\ IF hs[p] = "HandshakePending"
                    THEN hsk # "complete" => msgs = <<>>
                    ELSE hsk = "complete" /\ msgs # <<>>
              /\ pubs[p] + PublishCount(msgs) <= MaxPublishes
              /\ DoublePublish \/ ~r.double
              /\ chunks' = [chunks EXCEPT ![p] = @ + 1]
              /\ pubs' = [pubs EXCEPT ![p] = @ + PublishCount(msgs)]
              /\ cpub' = [cpub EXCEPT ![p] = r.cpub]
              /\ hs' = [hs EXCEPT ![p] = r.hs]
              /\ IF r.ok
                    THEN /\ pend' = [pend EXCEPT ![p] = r.evs]
                         /\ pc' = [pc EXCEPT ![p] = "events"]
                         /\ UNCHANGED <<pst, live, mq>>
                    ELSE /\ disconnect(p)
                         /\ pc' = [pc EXCEPT ![p] = "done"]
                         /\ UNCHANGED pend
    /\ UNCHANGED <<expd, reply, keys, registry>>

\* The peer's Event handling, one event at a time (handle_event, peer.rs
\* 115-181): ReturnData is written to the client; SendSample goes to the
\* core session while Publishing and disconnects once exp_time has
\* passed; AcquireSession sends CreateSession and awaits the reply;
\* ReleaseSession and LeaveSession disconnect.
HandleEvent(p) ==
    /\ pc[p] = "events"
    /\ pend[p] # <<>>
    /\ LET ev == Head(pend[p]) IN
       CASE ev.e = "ReturnData" ->
              /\ pend' = [pend EXCEPT ![p] = Tail(@)]
              /\ UNCHANGED <<pst, pc, live, mq, reply>>
         [] ev.e = "SendSample" ->
              /\ pend' = [pend EXCEPT ![p] = Tail(@)]
              /\ IF expd[p] = "past" THEN disconnect(p) ELSE UNCHANGED <<pst, live, mq>>
              /\ UNCHANGED <<pc, reply>>
         [] ev.e = "AcquireSession" ->
              /\ pend' = [pend EXCEPT ![p] = Tail(@)]
              /\ mq' = Append(mq, [kind |-> "Create", id |-> p, key |-> ev.key])
              /\ pc' = [pc EXCEPT ![p] = "await"]
              /\ UNCHANGED <<pst, live, reply>>
         [] ev.e \in {"ReleaseSession", "LeaveSession"} ->
              /\ pend' = [pend EXCEPT ![p] = Tail(@)]
              /\ disconnect(p)
              /\ UNCHANGED <<pc, reply>>
    /\ UNCHANGED <<hs, expd, chunks, pubs, cpub, keys, registry>>

\* Writing ReturnData fails because the client has gone: `.expect` panics,
\* and the task ends without disconnecting (peer.rs 117-122).
ReturnDataFailed(p) ==
    /\ pst[p] = "Publishing" => ResetWhilePublishing
    /\ pc[p] = "events"
    /\ pend[p] # <<>>
    /\ Head(pend[p]).e = "ReturnData"
    /\ pc' = [pc EXCEPT ![p] = "failed"]
    /\ UNCHANGED <<hs, pst, pend, expd, chunks, pubs, cpub, mq, reply, keys, registry, live>>

\* The CreateSession reply (peer.rs 159-169): Ok makes the peer Publishing
\* with the key's expiry; an error returns Err from run at once.
Await(p) ==
    /\ pc[p] = "await"
    /\ reply[p] # "none"
    /\ reply' = [reply EXCEPT ![p] = "none"]
    /\ IF reply[p] \in {"ok", "okPast"}
          THEN /\ pst' = [pst EXCEPT ![p] = "Publishing"]
               /\ expd' = [expd EXCEPT ![p] = IF reply[p] = "ok" THEN "live" ELSE "past"]
               /\ pc' = [pc EXCEPT ![p] = "events"]
          ELSE /\ pc' = [pc EXCEPT ![p] = "failed"]
               /\ UNCHANGED <<pst, expd>>
    /\ UNCHANGED <<hs, pend, chunks, pubs, cpub, mq, keys, registry, live>>

\* The batch is done; the loop returns once the peer is Disconnecting.
BatchDone(p) ==
    /\ pc[p] = "events"
    /\ pend[p] = <<>>
    /\ pc' = [pc EXCEPT ![p] = IF pst[p] = "Disconnecting" THEN "done" ELSE "read"]
    /\ UNCHANGED <<hs, pst, pend, expd, chunks, pubs, cpub, mq, reply, keys, registry, live>>

\* The read ends without data: the client closed the connection (Ok(None)),
\* the read failed, or rtmp_connection_timeout elapsed (peer.rs 80-100).
ReadEnd(p) ==
    /\ pc[p] = "read"
    /\ disconnect(p)
    /\ pc' = [pc EXCEPT ![p] = "done"]
    /\ UNCHANGED <<hs, pend, expd, chunks, pubs, cpub, reply, keys, registry>>

-----------------------------------------------------------------------------
(* SessionManager, the part RTMP uses (manager.rs)                         *)

\* CreateSession with a key (manager.rs 129-217): DuplicatedCreation if the
\* id is registered; otherwise the key must be the stored, unexpired one,
\* and the session is registered, its instance spawned, Ok replied.
MgrCreate ==
    /\ mq # <<>>
    /\ Head(mq).kind = "Create"
    /\ LET m == Head(mq) IN
       IF m.id \in registry
          THEN /\ reply' = [reply EXCEPT ![m.id] = "dup"]
               /\ UNCHANGED <<registry, live>>
          ELSE IF m.key = keys.key /\ keys.fresh
                  THEN /\ registry' = registry \cup {m.id}
                       /\ live' = [live EXCEPT ![m.id] = @ + 1]
                       /\ reply' = [reply EXCEPT ![m.id] = "ok"]
                  ELSE /\ reply' = [reply EXCEPT ![m.id] = "mismatch"]
                       /\ UNCHANGED <<registry, live>>
    /\ mq' = Tail(mq)
    /\ UNCHANGED <<hs, pst, pc, pend, expd, chunks, pubs, cpub, keys>>

\* ReleaseSession (manager.rs 247-263) removes the registry entry.
MgrRelease ==
    /\ mq # <<>>
    /\ Head(mq).kind = "Release"
    /\ registry' = registry \ {Head(mq).id}
    /\ mq' = Tail(mq)
    /\ UNCHANGED <<hs, pst, pc, pend, expd, chunks, pubs, cpub, reply, keys, live>>

\* AuthorizeSession after the triggers accept (manager.rs 93-127): a new
\* random key, valid for session_ttl, replaces the stored one.
Authorize ==
    /\ \E k \in KeyVals : keys' = [key |-> k, fresh |-> TRUE]
    /\ UNCHANGED <<hs, pst, pc, pend, expd, chunks, pubs, cpub, mq, reply, registry, live>>

\* Time passes the stored key's expiry, and with it every expiry issued
\* earlier: the peers' exp_time and the ones in replies not yet read.
Expire ==
    /\ keys.fresh
    /\ keys' = [keys EXCEPT !.fresh = FALSE]
    /\ expd' = [p \in Peers |-> IF expd[p] = "live" THEN "past" ELSE expd[p]]
    /\ reply' = [p \in Peers |-> IF reply[p] = "ok" THEN "okPast" ELSE reply[p]]
    /\ UNCHANGED <<hs, pst, pc, pend, chunks, pubs, cpub, mq, registry, live>>

Next ==
    \/ MgrCreate \/ MgrRelease \/ Authorize \/ Expire
    \/ \E p \in Peers :
          \/ Read(p) \/ ReadEnd(p) \/ HandleEvent(p) \/ ReturnDataFailed(p)
          \/ Await(p) \/ BatchDone(p)

\* The manager and every peer task run while they have work; a read ends
\* at the latest after rtmp_connection_timeout.  Clients, the HTTP publish
\* and the clock get no fairness.
Fairness ==
    /\ WF_vars(MgrCreate) /\ WF_vars(MgrRelease)
    /\ \A p \in Peers :
          /\ WF_vars(ReadEnd(p)) /\ WF_vars(HandleEvent(p))
          /\ WF_vars(Await(p)) /\ WF_vars(BatchDone(p))

Spec == Init /\ [][Next]_vars /\ Fairness

-----------------------------------------------------------------------------
(***************************************************************************)
(* Every core session an RTMP peer created has an owner that will end it:  *)
(* while its instance has not been sent EndOfSample, the peer task is      *)
(* alive and Publishing (or about to become so on reading the Ok reply),   *)
(* and while the id is registered, the peer either owns the session or    *)
(* has queued its ReleaseSession.  Peer::run leaves through `?` on an     *)
(* error, so only a disconnect() on every exit path releases the session;  *)
(* an orphan stays registered, and its instance and HLS writer run, for    *)
(* the life of the server.                                                 *)
(***************************************************************************)
Owns(p) ==
    \/ pst[p] = "Publishing" /\ pc[p] \notin Ended
    \/ pc[p] = "await" /\ reply[p] \in {"ok", "okPast"}

ReleaseQueued(p) == \E i \in DOMAIN mq : mq[i] = [kind |-> "Release", id |-> p]

SessionsOwned ==
    \A p \in Peers :
        /\ live[p] = (IF Owns(p) THEN 1 ELSE 0)
        /\ p \in registry => Owns(p) \/ ReleaseQueued(p)

(***************************************************************************)
(* Every RTMP connection winds down: the peer task ends (the read timeout  *)
(* bounds every wait for the client), the manager has removed its id from  *)
(* the registry and its core session has been sent EndOfSample.           *)
(***************************************************************************)
EveryConnectionWindsDown ==
    \A p \in Peers : <>[](pc[p] \in Ended /\ p \notin registry /\ live[p] = 0)

====
