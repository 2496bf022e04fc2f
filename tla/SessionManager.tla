--------------------------- MODULE SessionManager ---------------------------
(***************************************************************************)
(* The Session Manager task (echo-core/src/session/manager.rs): a single   *)
(* task that takes ManageMessages off one unbounded FIFO queue and handles *)
(* each one to completion before the next.  It owns the registry of live   *)
(* sessions (id -> (SessionHandle, OutgoingBroadcast)) and the per-kind    *)
(* trigger lists, spawns the per-session instance task and fans events out *)
(* to the registered triggers.                                             *)
(*                                                                         *)
(* Stream keys and session props are left out here: the SRT path creates  *)
(* sessions without a key and props only travel as event payloads.  The   *)
(* only trigger registered in a server built without the "record" feature *)
(* (echo-server/main.rs; the stats service is commented out) is the HLS    *)
(* service's CreateSession trigger, so the other kinds fan out to nobody:  *)
(* handling them is recorded in the history variable hist and changes      *)
(* nothing else.                                                           *)
(***************************************************************************)
EXTENDS Naturals, Sequences

CONSTANTS Sessions      \* ids minted by the IdGenerator for SRT publishes

VARIABLES
    inbox,     \* the manager's ManageMessage queue
    registry,  \* ids present in the sessions map
    hlsTrig,   \* the HLS service's CreateSession trigger is registered
    hist,      \* id -> kinds of the messages the manager handled for it
    inst,      \* id -> state of the per-session instance task
    wr,        \* id -> the HLS writer bound to the session (see HlsWriter)
    reply      \* id -> the oneshot reply to CreateSession

Kinds == {"Create", "Pause", "Resume", "Release", "ReadyHls", "ReleaseHls", "Quality"}

Msg(k, id) == [k |-> k, id |-> id]
RegisterMsg == [k |-> "Register", id |-> "hls"]

TypeOK ==
    /\ inbox \in Seq([k : Kinds, id : Sessions] \cup {RegisterMsg})
    /\ registry \subseteq Sessions
    /\ hlsTrig \in BOOLEAN
    /\ hist \in [Sessions -> Seq(Kinds)]
    /\ inst \in [Sessions -> {"none", "running", "ended"}]
    /\ reply \in [Sessions -> {"none", "ok"}]

Init ==
    /\ inbox = <<>>
    /\ registry = {}
    /\ hlsTrig = FALSE
    /\ hist = [s \in Sessions |-> <<>>]
    /\ inst = [s \in Sessions |-> "none"]
    /\ reply = [s \in Sessions |-> "none"]

\* The message at the head of the queue is taken and recorded for its id.
Take(k) ==
    /\ inbox # <<>>
    /\ Head(inbox).k = k
    /\ inbox' = Tail(inbox)
    /\ hist' = [hist EXCEPT ![Head(inbox).id] = Append(@, k)]

(***************************************************************************)
(* CreateSession (manager.rs 129-218).  The SRT ingest session sends no    *)
(* key, and ids come from one atomic generator, so the DuplicatedCreation  *)
(* and KeyMismatch branches are not reachable from SRT.  The id is put in  *)
(* the registry, every CreateSession trigger gets a fresh subscriber of    *)
(* the broadcast (the HLS writer, subscribed before the instance task is   *)
(* spawned, so it sees every sample), the instance task is spawned and the *)
(* handle is sent back.                                                    *)
(***************************************************************************)
CreateSession ==
    LET id == Head(inbox).id IN
    /\ Take("Create")
    /\ registry' = registry \cup {id}
    /\ wr' = IF hlsTrig
                THEN [wr EXCEPT ![id] = [@ EXCEPT !.st = "sub", !.pos = 1]]
                ELSE wr
    /\ inst' = [inst EXCEPT ![id] = "running"]
    /\ reply' = [reply EXCEPT ![id] = "ok"]
    /\ UNCHANGED hlsTrig

\* ReleaseSession (manager.rs 247-263): the registry entry, and with it the
\* registry's clones of the SessionHandle and of the broadcast sender, goes.
ReleaseSession ==
    /\ Take("Release")
    /\ registry' = registry \ {Head(inbox).id}
    /\ UNCHANGED <<hlsTrig, inst, wr, reply>>

\* PauseSession, ResumeSession, ReadyHlsSession, ReleaseHlsSession and
\* InputQualityReport (manager.rs 219-246, 264-291, 318-331): a props
\* snapshot and a fan-out to the triggers of that kind, of which none is
\* registered.
FanOut(k) ==
    /\ Take(k)
    /\ UNCHANGED <<registry, hlsTrig, inst, wr, reply>>

\* RegisterTrigger (manager.rs 332-336), here the HLS CreateSession trigger.
RegisterTrigger ==
    /\ inbox # <<>>
    /\ Head(inbox) = RegisterMsg
    /\ inbox' = Tail(inbox)
    /\ hlsTrig' = TRUE
    /\ UNCHANGED <<registry, hist, inst, wr, reply>>

Next ==
    \/ CreateSession
    \/ ReleaseSession
    \/ \E k \in {"Pause", "Resume", "ReadyHls", "ReleaseHls", "Quality"} : FanOut(k)
    \/ RegisterTrigger

=============================================================================
