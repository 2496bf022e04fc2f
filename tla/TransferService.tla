--------------------------- MODULE TransferService ---------------------------
(***************************************************************************)
(* The transfer service's HTTP control plane and its bookkeeping of SRT    *)
(* sessions (echo-transfer service.rs): publish takes a port from the      *)
(* shared pool, records an avatar (name, port, last reported state,        *)
(* message sender) and spawns the EchoSession task; teardown, pause and    *)
(* resume send a SessionMessage to the task through the avatar;            *)
(* background_service applies the SessionEvents the tasks report, and on  *)
(* Terminated drops the avatar and pushes its port back onto the pool.     *)
(*                                                                         *)
(* The EchoSession tasks appear here by what the service sees of them:     *)
(* they step through the lifecycle of SessionLifecycle, reporting every    *)
(* state, read their messages, and end (SrtSession is the detailed model   *)
(* of a task, checked against the same lifecycle in EchoCore).             *)
(* Authorization, session props, the HTTP cookie and forwarding to another *)
(* node are abstracted: a request either passes them or is refused.        *)
(***************************************************************************)
EXTENDS Naturals, Sequences, FiniteSets, SequencesExt

CONSTANTS
    Ids,      \* session ids that id_gen hands to publish requests
    Ports,    \* echo_srt_min_port..echo_srt_max_port
    MaxMsgs,  \* control messages a client sends to one session
    MaxQueued \* bound on state reports queued for background_service

VARIABLES
    pool,     \* ports: the VecDeque of free ports
    avatars,  \* sessions: id -> EchoSessionAvatar, or NoAvatar
    life,     \* id -> "unborn", "rejected", or the EchoSession task's state
    msgs,     \* id -> SessionMessages queued for the task
    events    \* SessionEvents queued for background_service

vars == <<pool, avatars, life, msgs, events>>

\* Config::check (echo-core config.rs 194-208) on the SRT port range: the
\* server refuses to start otherwise, so the pool holds two ports at least.
PortRangeValid(min, max) == min < max /\ min >= 6970 /\ max <= 49150
ASSUME \E min, max \in Ports : PortRangeValid(min, max) /\ Ports = min..max

LC == INSTANCE SessionLifecycle WITH state <- life

\* No entry in the sessions map (a record, so that it compares with avatars).
NoAvatar == [port |-> 0, state |-> "none"]
Avatar == [port : Ports, state : LC!States \ {"Terminated"}]
Kinds == {"Pause", "Resume", "Shutdown"}
Live == LC!States \ {"Terminated"}

TypeOK ==
    /\ pool \in Seq(Ports)
    /\ avatars \in [Ids -> Avatar \cup {NoAvatar}]
    /\ life \in [Ids -> {"unborn", "rejected"} \cup LC!States]
    /\ msgs \in [Ids -> Seq(Kinds)]
    /\ events \in Seq([id : Ids, state : LC!States])

\* Service::run (service.rs 855-858): every port of the range, in order.
Init ==
    /\ pool = SetToSortSeq(Ports, <)
    /\ avatars = [i \in Ids |-> NoAvatar]
    /\ life = [i \in Ids |-> "unborn"]
    /\ msgs = [i \in Ids |-> <<>>]
    /\ events = <<>>

-----------------------------------------------------------------------------
(* HTTP handlers                                                           *)

\* The pool after publish takes its front port (service.rs 364-371).
TakePort(p) == Tail(p)

(***************************************************************************)
(* publish (service.rs 345-426) for a request that passes authorization:   *)
(* the front port is popped, the avatar inserted in state Init, and the    *)
(* EchoSession task spawned.                                               *)
(***************************************************************************)
Publish(id) ==
    /\ life[id] = "unborn"
    /\ pool # <<>>
    /\ pool' = TakePort(pool)
    /\ avatars' = [avatars EXCEPT ![id] = [port |-> Head(pool), state |-> "Init"]]
    /\ life' = [life EXCEPT ![id] = "Init"]
    /\ UNCHANGED <<msgs, events>>

\* publish answers an error: authorize refused the request (service.rs
\* 197-267), or the pool is empty ("no available port").
PublishRejected(id) ==
    /\ life[id] = "unborn"
    /\ life' = [life EXCEPT ![id] = "rejected"]
    /\ UNCHANGED <<pool, avatars, msgs, events>>

(***************************************************************************)
(* teardown, pause_v4 and resume_v4 (service.rs 511-728) from the client   *)
(* holding the session's cookie: with the avatar still present, the        *)
(* message is sent to the task, which fails (and is only logged) once the  *)
(* task has ended.  Without the avatar nothing is sent.                    *)
(***************************************************************************)
Control(id, kind) ==
    /\ life[id] \notin {"unborn", "rejected"}
    /\ avatars[id] # NoAvatar
    /\ Len(msgs[id]) < MaxMsgs
    /\ life[id] # "Terminated"
    /\ msgs' = [msgs EXCEPT ![id] = Append(@, kind)]
    /\ UNCHANGED <<pool, avatars, life, events>>

\* teardown sends Shutdown (service.rs 511-579), pause_v4 Pause (604-665),
\* resume_v4 Resume (667-728).
Teardown(id) == Control(id, "Shutdown")
Pause(id) == Control(id, "Pause")
Resume(id) == Control(id, "Resume")

-----------------------------------------------------------------------------
(* The EchoSession tasks, as the service sees them                         *)

\* Mutant: reports queued in front of the earlier ones.
ReportFront(id, st) == <<[id |-> id, state |-> st]>> \o events

\* send_session_event (session.rs 102-111) with the task's new state.
Report(id, st) == Append(events, [id |-> id, state |-> st])

\* The task changes state and reports it: Ready or Paused in the idle
\* branch (session.rs 181-209), Publishing on a connection (237-241).
SessionStep(id, to) ==
    /\ life[id] \in Live
    /\ to \in Live
    /\ LC!Allowed(life[id], to)
    /\ Len(events) < MaxQueued
    /\ life' = [life EXCEPT ![id] = to]
    /\ events' = Report(id, to)
    /\ UNCHANGED <<pool, avatars, msgs>>

\* run_inner returns and run() reports Terminated (session.rs 69-80);
\* the listener was dropped with run_inner.
End(id) ==
    /\ life' = [life EXCEPT ![id] = "Terminated"]
    /\ events' = Report(id, "Terminated")

\* The main loop's try_recv on its messages (session.rs 140-152): Pause
\* and Resume are kept as the reason of the next report, Shutdown ends it.
SessionMessage(id) ==
    /\ life[id] \in Live
    /\ msgs[id] # <<>>
    /\ msgs' = [msgs EXCEPT ![id] = Tail(@)]
    /\ IF Head(msgs[id]) = "Shutdown"
          THEN End(id)
          ELSE UNCHANGED <<life, events>>
    /\ UNCHANGED <<pool, avatars>>

\* The task ends for its own reasons: the connection timeout, a listener
\* that fails to bind or errs, a failed core session creation.
SessionEnd(id) ==
    /\ life[id] \in Live
    /\ End(id)
    /\ UNCHANGED <<pool, avatars, msgs>>

-----------------------------------------------------------------------------
(* background_service                                                      *)

\* Mutant: Terminated handled like any other state.
ApplyEventAsState(e) ==
    /\ avatars' = IF avatars[e.id] # NoAvatar
                     THEN [avatars EXCEPT ![e.id].state = e.state] ELSE avatars
    /\ UNCHANGED pool

\* Mutant: Terminated returns the port but leaves the avatar in place.
ApplyEventKeepAvatar(e) ==
    IF e.state = "Terminated" /\ avatars[e.id] # NoAvatar
       THEN /\ pool' = Append(pool, avatars[e.id].port)
            /\ UNCHANGED avatars
       ELSE /\ avatars' = IF avatars[e.id] # NoAvatar /\ e.state # "Terminated"
                             THEN [avatars EXCEPT ![e.id].state = e.state] ELSE avatars
            /\ UNCHANGED pool

\* One SessionEvent (service.rs 823-839): Terminated removes the avatar
\* and pushes its port back; any other state is recorded in the avatar.
ApplyEvent(e) ==
    IF e.state = "Terminated"
       THEN IF avatars[e.id] # NoAvatar
               THEN /\ avatars' = [avatars EXCEPT ![e.id] = NoAvatar]
                    /\ pool' = Append(pool, avatars[e.id].port)
               ELSE UNCHANGED <<avatars, pool>>
       ELSE /\ avatars' = IF avatars[e.id] # NoAvatar
                             THEN [avatars EXCEPT ![e.id].state = e.state] ELSE avatars
            /\ UNCHANGED pool

Background ==
    /\ events # <<>>
    /\ ApplyEvent(Head(events))
    /\ events' = Tail(events)
    /\ UNCHANGED <<life, msgs>>

Next ==
    \/ Background
    \/ \E id \in Ids :
          \/ Publish(id) \/ PublishRejected(id)
          \/ Teardown(id) \/ Pause(id) \/ Resume(id)
          \/ \E to \in Live : SessionStep(id, to)
          \/ SessionMessage(id) \/ SessionEnd(id)

\* background_service and every task's main loop keep running; clients
\* and the reasons a task ends on its own get no fairness.
Fairness ==
    /\ WF_vars(Background)
    /\ \A id \in Ids : WF_vars(SessionMessage(id))

Spec == Init /\ [][Next]_vars /\ Fairness

-----------------------------------------------------------------------------
(***************************************************************************)
(* Every port of the range is in exactly one place, the free pool or the   *)
(* avatar of one session, and every session task still running (and so     *)
(* possibly still bound to its port) has its avatar.  publish pops the     *)
(* port, background_service pushes it back only on the Terminated report   *)
(* run() sends after the listener is dropped; a port in two places would   *)
(* be handed to a second publish while the first still listens on it.      *)
(***************************************************************************)
Holders(p) == {id \in Ids : avatars[id] # NoAvatar /\ avatars[id].port = p}
PortOwnership ==
    /\ \A p \in Ports : Cardinality({i \in 1..Len(pool) : pool[i] = p}) + Cardinality(Holders(p)) = 1
    /\ \A id \in Ids : life[id] \in Live => avatars[id] # NoAvatar

(***************************************************************************)
(* A session that has ended gives its port back: background_service        *)
(* eventually handles its Terminated report, drops the avatar and returns  *)
(* the port to the pool.  Otherwise the pool drains and every publish      *)
(* fails with "no available port".                                         *)
(***************************************************************************)
PortsComeBack == \A id \in Ids : life[id] = "Terminated" ~> avatars[id] = NoAvatar

(***************************************************************************)
(* What state_v4 answers follows the session lifecycle: read from the      *)
(* avatar while it exists and Terminated once background_service removed   *)
(* it, the state a client sees only moves along the edges of               *)
(* SessionLifecycle.  The avatar lags the task by the queued reports, and  *)
(* only the FIFO order of the event channel keeps a late Ready from        *)
(* overwriting Publishing or a report from reviving a removed avatar.      *)
(***************************************************************************)
AnsweredState(id) ==
    CASE life[id] \in {"unborn", "rejected"} -> "Init"
      [] avatars[id] # NoAvatar -> avatars[id].state
      [] OTHER -> "Terminated"

Answered == INSTANCE SessionLifecycle WITH state <- [id \in Ids |-> AnsweredState(id)]

AnswersFollowLifecycle == Answered!Spec

====
