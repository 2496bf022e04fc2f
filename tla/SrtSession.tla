---------------------------- MODULE SrtSession ----------------------------
(***************************************************************************)
(* The SRT ingest session (echo-transfer/src/session.rs, EchoSession) and  *)
(* the receivers it spawns, one per accepted connection                    *)
(* (echo-transfer/src/receiver.rs, SrtReceiver).                           *)
(*                                                                         *)
(* EchoSession is one task.  Each turn of run_inner's loop polls the       *)
(* control queue and the close-event queue without waiting (Poll), then    *)
(* waits up to 500 ms for a connection (Accept, IdleTick, ConnTimeout,     *)
(* ListenError).  After the loop it drains its receivers for at most 20    *)
(* turns (DrainRecv, DrainSend), and run() then tells the core session it  *)
(* is over (Exit).  Each receiver loops on its socket, forwarding samples  *)
(* into the core session's media queue until the socket is closed, a send *)
(* fails or the read timeout expires, and reports its close on closeq.     *)
(*                                                                         *)
(* Data is abstracted: a packet carries one sample, tagged with the        *)
(* receiver's sid; the quality report is only "present or not"; reasons    *)
(* and the SessionEvents sent to the transfer service are left out.        *)
(* Time is abstracted: whether a timeout has elapsed is a free choice,     *)
(* constrained by fairness in EchoCore.                                    *)
(***************************************************************************)
EXTENDS Integers, Sequences, FiniteSets

CONSTANTS
    Sessions,    \* SRT publishes, one EchoSession each
    MaxConn,     \* connections the publisher makes to one session
    MaxPackets,  \* packets a connection delivers
    MaxFill,     \* starvation filler samples one receiver may emit
    DrainIters   \* turns of the drain loop (20 in session.rs 306)

VARIABLES
    ss,       \* s -> the EchoSession task's state
    rcv,      \* s -> sid -> the SrtReceiver of that connection
    ctl,      \* s -> the SessionMessage queue from the transfer service
    closeq,   \* s -> the close-event queue: TRUE for Some(quality), FALSE for None
    inbox,    \* the manager's queue
    reply,    \* s -> the reply to CreateSession
    media,    \* s -> the core session's MediaMessage queue
    inst      \* s -> state of the core session's instance task

Sids == 0..(MaxConn - 1)
NoSid == -1
Pcs == {"poll", "await", "creating", "drainRecv", "drainSend", "exit", "done"}
SessionStates == {"Init", "Ready", "Publishing", "Paused"}

EchoState == [pc : Pcs, st : SessionStates, handle : BOOLEAN, rcount : 0..MaxConn,
              ready : BOOLEAN, sid : 0..MaxConn, handler : Sids \cup {NoSid},
              iter : 0..DrainIters, td : BOOLEAN]
ReceiverState == [st : {"idle", "run", "done"}, req : BOOLEAN, got : BOOLEAN,
                  started : BOOLEAN, starving : BOOLEAN,
                  left : 0..MaxPackets, fill : 0..MaxFill]

TypeOK ==
    /\ ss \in [Sessions -> EchoState]
    /\ rcv \in [Sessions -> [Sids -> ReceiverState]]
    /\ ctl \in [Sessions -> Seq({"Shutdown"})]
    /\ closeq \in [Sessions -> Seq(BOOLEAN)]

Init ==
    /\ ss = [s \in Sessions |->
               [pc |-> "poll", st |-> "Init", handle |-> FALSE, rcount |-> 0,
                ready |-> FALSE, sid |-> 0, handler |-> NoSid, iter |-> 0, td |-> FALSE]]
    /\ rcv = [s \in Sessions |-> [k \in Sids |->
               [st |-> "idle", req |-> FALSE, got |-> FALSE, started |-> FALSE,
                starving |-> FALSE, left |-> MaxPackets, fill |-> MaxFill]]]
    /\ ctl = [s \in Sessions |-> <<>>]
    /\ closeq = [s \in Sessions |-> <<>>]

Msg(k, s) == [k |-> k, id |-> s]

\* run_inner has returned: its close_receiver and receiver_handler are gone.
Returned(s) == ss[s].pc \in {"exit", "done"}

\* Mutant: receiver_count is decremented only for a close event that
\* carries a quality, as if the decrement sat inside `if let Some(..)`.
PollCountsOnlyQuality(s) ==
    LET e == ss[s]
        took == closeq[s] # <<>>
        quality == took /\ Head(closeq[s])
        count == IF quality THEN e.rcount - 1 ELSE e.rcount
        idle == count = 0 /\ ~e.ready
        pause == idle /\ e.handle /\ e.st # "Paused"
        inbox1 == IF quality THEN Append(inbox, Msg("Quality", s)) ELSE inbox
    IN
    /\ e.pc = "poll"
    /\ IF ctl[s] # <<>>
          THEN /\ ctl' = [ctl EXCEPT ![s] = Tail(@)]
               /\ ss' = [ss EXCEPT ![s].pc = "drainRecv"]
               /\ UNCHANGED <<closeq, inbox>>
          ELSE /\ closeq' = IF took THEN [closeq EXCEPT ![s] = Tail(@)] ELSE closeq
               /\ inbox' = IF pause THEN Append(inbox1, Msg("Pause", s)) ELSE inbox1
               /\ ss' = [ss EXCEPT ![s] =
                          [e EXCEPT !.pc = "await", !.rcount = count,
                                    !.ready = e.ready \/ idle,
                                    !.st = CASE idle /\ ~e.handle -> "Ready"
                                             [] pause             -> "Paused"
                                             [] OTHER             -> e.st]]
               /\ UNCHANGED ctl
    /\ UNCHANGED <<rcv, reply, media, inst>>

\* Mutant: the idle branch pauses without asking whether a core session
\* exists (the `session_handle.is_none()` test dropped).
PollPausesWithoutSession(s) ==
    LET e == ss[s]
        took == closeq[s] # <<>>
        quality == took /\ Head(closeq[s])
        count == IF took THEN e.rcount - 1 ELSE e.rcount
        idle == count = 0 /\ ~e.ready
        pause == idle /\ e.st # "Paused"
        inbox1 == IF quality THEN Append(inbox, Msg("Quality", s)) ELSE inbox
    IN
    /\ e.pc = "poll"
    /\ IF ctl[s] # <<>>
          THEN /\ ctl' = [ctl EXCEPT ![s] = Tail(@)]
               /\ ss' = [ss EXCEPT ![s].pc = "drainRecv"]
               /\ UNCHANGED <<closeq, inbox>>
          ELSE /\ closeq' = IF took THEN [closeq EXCEPT ![s] = Tail(@)] ELSE closeq
               /\ inbox' = IF pause THEN Append(inbox1, Msg("Pause", s)) ELSE inbox1
               /\ ss' = [ss EXCEPT ![s] =
                          [e EXCEPT !.pc = "await", !.rcount = count,
                                    !.ready = e.ready \/ idle,
                                    !.st = IF pause THEN "Paused" ELSE e.st]]
               /\ UNCHANGED ctl
    /\ UNCHANGED <<rcv, reply, media, inst>>

(***************************************************************************)
(* Poll: the non-blocking part of one loop turn (session.rs 140-212).  A   *)
(* Shutdown on the control queue breaks the loop.  Otherwise one close     *)
(* event, if any, decrements receiver_count and, when it carries a         *)
(* quality, sends InputQualityReport; then, if no receiver is left and the *)
(* idle clock is not running, it starts, and the session becomes Ready     *)
(* (no core session yet) or Paused, sending PauseSession.                  *)
(***************************************************************************)
Poll(s) ==
    LET e == ss[s]
        took == closeq[s] # <<>>
        quality == took /\ Head(closeq[s])
        count == IF took THEN e.rcount - 1 ELSE e.rcount
        idle == count = 0 /\ ~e.ready
        pause == idle /\ e.handle /\ e.st # "Paused"
        inbox1 == IF quality THEN Append(inbox, Msg("Quality", s)) ELSE inbox
    IN
    /\ e.pc = "poll"
    /\ IF ctl[s] # <<>>
          THEN /\ ctl' = [ctl EXCEPT ![s] = Tail(@)]
               /\ ss' = [ss EXCEPT ![s].pc = "drainRecv"]
               /\ UNCHANGED <<closeq, inbox>>
          ELSE /\ closeq' = IF took THEN [closeq EXCEPT ![s] = Tail(@)] ELSE closeq
               /\ inbox' = IF pause THEN Append(inbox1, Msg("Pause", s)) ELSE inbox1
               /\ ss' = [ss EXCEPT ![s] =
                          [e EXCEPT !.pc = "await", !.rcount = count,
                                    !.ready = e.ready \/ idle,
                                    !.st = CASE idle /\ ~e.handle -> "Ready"
                                             [] pause             -> "Paused"
                                             [] OTHER             -> e.st]]
               /\ UNCHANGED ctl
    /\ UNCHANGED <<rcv, reply, media, inst>>

(***************************************************************************)
(* The rest of an accepted connection (session.rs 239-277), once the core  *)
(* session exists: the previous receiver is told to close, the session is  *)
(* Publishing, and a receiver with the next sid is spawned.                *)
(***************************************************************************)
SpawnReceiver(s, e) ==
    LET k == e.sid IN
    /\ ss' = [ss EXCEPT ![s] = [e EXCEPT !.pc = "poll", !.handle = TRUE,
                                         !.st = "Publishing", !.handler = k,
                                         !.sid = k + 1, !.rcount = @ + 1,
                                         !.ready = FALSE]]
    /\ rcv' = IF e.handler = NoSid
                 THEN [rcv EXCEPT ![s][k].st = "run"]
                 ELSE [rcv EXCEPT ![s][k].st = "run", ![s][e.handler].req = TRUE]

\* A connection is accepted (session.rs 217-237).  Without a core session,
\* create_core_session sends CreateSession and waits for the reply;
\* otherwise ResumeSession is sent, whatever the current state.
Accept(s) ==
    /\ ss[s].pc = "await"
    /\ ss[s].sid < MaxConn
    /\ IF ss[s].handle
          THEN /\ inbox' = Append(inbox, Msg("Resume", s))
               /\ SpawnReceiver(s, ss[s])
          ELSE /\ inbox' = Append(inbox, Msg("Create", s))
               /\ ss' = [ss EXCEPT ![s].pc = "creating"]
               /\ UNCHANGED rcv
    /\ UNCHANGED <<ctl, closeq, reply, media, inst>>

\* create_core_session gets Ok(session_handle) (session.rs 383-387).
Created(s) ==
    /\ ss[s].pc = "creating"
    /\ reply[s] = "ok"
    /\ reply' = [reply EXCEPT ![s] = "none"]
    /\ SpawnReceiver(s, ss[s])
    /\ UNCHANGED <<ctl, closeq, inbox, media, inst>>

\* The 500 ms accept timeout with the idle clock not yet past
\* connection_timeout (session.rs 289-302) ...
IdleTick(s) ==
    /\ ss[s].pc = "await"
    /\ ss' = [ss EXCEPT ![s].pc = "poll"]
    /\ UNCHANGED <<rcv, ctl, closeq, inbox, reply, media, inst>>

\* ... and past it: the loop breaks.
ConnTimeout(s) ==
    /\ ss[s].pc = "await"
    /\ ss[s].ready
    /\ ss' = [ss EXCEPT ![s].pc = "drainRecv"]
    /\ UNCHANGED <<rcv, ctl, closeq, inbox, reply, media, inst>>

\* The multiplexed listener yields an error or ends: run_inner returns Err
\* without draining (session.rs 279-286).
ListenError(s) ==
    /\ ss[s].pc = "await"
    /\ ss' = [ss EXCEPT ![s].pc = "exit"]
    /\ UNCHANGED <<rcv, ctl, closeq, inbox, reply, media, inst>>

(***************************************************************************)
(* The drain loop (session.rs 306-347).  DrainRecv is a turn's wait of at  *)
(* most 500 ms for a close event; it returns at once when one is queued.   *)
(* DrainSend is the rest of the turn: while receivers remain, the current  *)
(* one is told to close, and if it is already gone run_inner returns Err.  *)
(* After DrainIters turns the loop ends (the four final polls of the       *)
(* listener, 349-352, only discard connections).                           *)
(***************************************************************************)
\* Mutant: the drain loop runs one turn too many (0..=20).
DrainRecvOneMore(s) ==
    LET e == ss[s] IN
    /\ e.pc = "drainRecv"
    /\ IF e.rcount = 0 \/ e.iter > DrainIters
          THEN /\ ss' = [ss EXCEPT ![s].pc = "exit"]
               /\ UNCHANGED <<closeq, inbox>>
          ELSE /\ ss' = [ss EXCEPT ![s].pc = "drainSend",
                                   ![s].rcount = IF closeq[s] # <<>> THEN @ - 1 ELSE @]
               /\ closeq' = IF closeq[s] # <<>> THEN [closeq EXCEPT ![s] = Tail(@)] ELSE closeq
               /\ inbox' = IF closeq[s] # <<>> /\ Head(closeq[s])
                              THEN Append(inbox, Msg("Quality", s)) ELSE inbox
    /\ UNCHANGED <<rcv, ctl, reply, media, inst>>

DrainRecv(s) ==
    LET e == ss[s] IN
    /\ e.pc = "drainRecv"
    /\ IF e.rcount = 0 \/ e.iter = DrainIters
          THEN /\ ss' = [ss EXCEPT ![s].pc = "exit"]
               /\ UNCHANGED <<closeq, inbox>>
          ELSE /\ ss' = [ss EXCEPT ![s].pc = "drainSend",
                                   ![s].rcount = IF closeq[s] # <<>> THEN @ - 1 ELSE @]
               /\ closeq' = IF closeq[s] # <<>> THEN [closeq EXCEPT ![s] = Tail(@)] ELSE closeq
               /\ inbox' = IF closeq[s] # <<>> /\ Head(closeq[s])
                              THEN Append(inbox, Msg("Quality", s)) ELSE inbox
    /\ UNCHANGED <<rcv, ctl, reply, media, inst>>

DrainSend(s) ==
    LET e == ss[s]
        signal == e.rcount > 0 /\ e.handler # NoSid
    IN
    /\ e.pc = "drainSend"
    /\ ss' = [ss EXCEPT ![s] =
               [e EXCEPT !.iter = @ + 1,
                         !.handler = IF signal THEN NoSid ELSE @,
                         !.pc = IF signal /\ rcv[s][e.handler].st = "done"
                                   THEN "exit" ELSE "drainRecv"]]
    /\ rcv' = IF signal /\ rcv[s][e.handler].st = "run"
                 THEN [rcv EXCEPT ![s][e.handler].req = TRUE] ELSE rcv
    /\ UNCHANGED <<ctl, closeq, inbox, reply, media, inst>>

\* Mutant: run() ends the core session's media stream but forgets to
\* send ReleaseSession.
ExitWithoutRelease(s) ==
    /\ ss[s].pc = "exit"
    /\ ss' = [ss EXCEPT ![s].pc = "done"]
    /\ media' = IF ss[s].handle THEN [media EXCEPT ![s] = Append(@, [t |-> "EOS"])] ELSE media
    /\ UNCHANGED <<rcv, ctl, closeq, inbox, reply, inst>>

\* EchoSession::run after run_inner (session.rs 69-100): with a core
\* session, EndOfSample goes to its media queue and ReleaseSession to the
\* manager.
Exit(s) ==
    /\ ss[s].pc = "exit"
    /\ ss' = [ss EXCEPT ![s].pc = "done"]
    /\ media' = IF ss[s].handle THEN [media EXCEPT ![s] = Append(@, [t |-> "EOS"])] ELSE media
    /\ inbox' = IF ss[s].handle THEN Append(inbox, Msg("Release", s)) ELSE inbox
    /\ UNCHANGED <<rcv, ctl, closeq, reply, inst>>

\* The transfer service's teardown sends Shutdown on the control queue
\* (service.rs teardown); the HTTP caller may do so once per session.
Teardown(s) ==
    /\ ~ss[s].td
    /\ ss[s].pc # "done"
    /\ ss' = [ss EXCEPT ![s].td = TRUE]
    /\ ctl' = [ctl EXCEPT ![s] = Append(@, "Shutdown")]
    /\ UNCHANGED <<rcv, closeq, inbox, reply, media, inst>>

(***************************************************************************)
(* SrtReceiver::run (receiver.rs 79-158).  A loop turn polls the close     *)
(* request (Ok once sent, Closed once the requester is dropped with        *)
(* run_inner) and then awaits handle_socket for at most MAX_READ_INTERVAL *)
(* with the polled value; a request sent during the await is only seen by  *)
(* the next turn's poll.  Each step below is one await's outcome followed  *)
(* by the next turn's poll, so r.got is the value this outcome was read    *)
(* with.  A receiver whose loop ends reports Some quality if it ever       *)
(* handled a packet, None otherwise, unless run_inner has returned and the *)
(* close-event queue is gone.                                              *)
(***************************************************************************)
Signalled(s, k) ==
    rcv[s][k].got \/ rcv[s][k].req \/ (Returned(s) /\ ss[s].handler = k)

\* Forwarding one sample: the send fails once the instance task is gone.
SendSample(s, k) ==
    IF inst[s] = "running"
       THEN media' = [media EXCEPT ![s] = Append(@, [t |-> "Sample", sid |-> k])]
       ELSE UNCHANGED media

ReportClose(s, quality) ==
    closeq' = IF Returned(s) THEN closeq ELSE [closeq EXCEPT ![s] = Append(@, quality)]

\* A packet arrives (handle_socket Ok; receiver.rs 161-182, 100-106): it is
\* dropped after a close request, otherwise its sample is sent, and a failed
\* send closes the receiver.
RecvPacket(s, k) ==
    LET r == rcv[s][k]
        fails == ~r.got /\ inst[s] # "running"
    IN
    /\ r.st = "run"
    /\ r.left > 0
    /\ IF r.got THEN UNCHANGED media ELSE SendSample(s, k)
    /\ rcv' = [rcv EXCEPT ![s][k] = [r EXCEPT !.got = Signalled(s, k), !.left = @ - 1,
                                         !.starving = FALSE,
                                         !.started = @ \/ ~fails,
                                         !.st = IF fails THEN "done" ELSE "run"]]
    /\ IF fails THEN ReportClose(s, r.started) ELSE UNCHANGED closeq
    /\ UNCHANGED <<ss, ctl, inbox, reply, inst>>

\* The socket reports the peer gone, or an SRT error (receiver.rs 107-122).
RecvDisconnect(s, k) ==
    /\ rcv[s][k].st = "run"
    /\ rcv' = [rcv EXCEPT ![s][k].st = "done"]
    /\ ReportClose(s, rcv[s][k].started)
    /\ UNCHANGED <<ss, ctl, inbox, reply, media, inst>>

\* A read that times out (receiver.rs 129-141): the first starts the
\* starvation clock (RecvStarve), one past read_timeout closes the receiver
\* (RecvReadTimeout).  Either way a started receiver that has no close
\* request runs the demuxer on no input, which may emit a filler sample;
\* a failed send is ignored.
Starve(s, k, r) ==
    \E emit \in IF r.started /\ ~rcv[s][k].got /\ r.fill > 0 THEN {FALSE, TRUE} ELSE {FALSE} :
        /\ IF emit THEN SendSample(s, k) ELSE UNCHANGED media
        /\ rcv' = [rcv EXCEPT ![s][k] = IF emit THEN [r EXCEPT !.fill = @ - 1] ELSE r]

RecvStarve(s, k) ==
    LET r == [rcv[s][k] EXCEPT !.got = Signalled(s, k), !.starving = TRUE] IN
    /\ rcv[s][k].st = "run"
    /\ Starve(s, k, r)
    /\ UNCHANGED <<ss, ctl, closeq, inbox, reply, inst>>

RecvReadTimeout(s, k) ==
    LET r == [rcv[s][k] EXCEPT !.st = "done"] IN
    /\ rcv[s][k].st = "run"
    /\ rcv[s][k].starving
    /\ Starve(s, k, r)
    /\ ReportClose(s, r.started)
    /\ UNCHANGED <<ss, ctl, inbox, reply, inst>>

Next ==
    \E s \in Sessions :
        \/ Poll(s) \/ Accept(s) \/ Created(s) \/ IdleTick(s) \/ ConnTimeout(s)
        \/ ListenError(s) \/ DrainRecv(s) \/ DrainSend(s) \/ Exit(s) \/ Teardown(s)
        \/ \E k \in Sids :
              \/ RecvPacket(s, k) \/ RecvDisconnect(s, k)
              \/ RecvStarve(s, k) \/ RecvReadTimeout(s, k)

=============================================================================

