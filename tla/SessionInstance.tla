-------------------------- MODULE SessionInstance --------------------------
(***************************************************************************)
(* The per-session instance task (echo-core/src/session/instance.rs) and   *)
(* the sample bus it publishes on, a tokio broadcast channel of capacity   *)
(* 64.  The task drains its MediaMessage queue (media) in order: a Sample  *)
(* is published on the bus when at least one subscriber is alive, and      *)
(* EndOfSample ends the task, dropping its broadcast sender.               *)
(*                                                                         *)
(* A published sample is its connection id (sid), the only part of it the *)
(* subscribers' control depends on.  bus[id] is every sample ever sent on  *)
(* the channel; the channel itself only retains the last BusCap of them,   *)
(* which is what a subscriber's lag is judged against (HlsWriter).         *)
(***************************************************************************)
EXTENDS Naturals, Sequences

CONSTANTS Sessions, MaxSid

VARIABLES
    media,   \* id -> the instance's MediaMessage queue
    inst,    \* id -> "none" | "running" | "ended"
    bus,     \* id -> sids of every sample sent on the broadcast
    wr       \* id -> the HLS writer subscribed to the bus (see HlsWriter)

Sids == 0..MaxSid
MediaMsg == [t : {"Sample"}, sid : Sids] \cup [t : {"EOS"}]

TypeOK ==
    /\ media \in [Sessions -> Seq(MediaMsg)]
    /\ bus \in [Sessions -> Seq(Sids)]

Init ==
    /\ media = [s \in Sessions |-> <<>>]
    /\ bus = [s \in Sessions |-> <<>>]

\* receiver_count() of the broadcast: the HLS writer's subscription is the
\* only one; it lives from CreateSession until the writer ends or fails.
HasSubscriber(id) == wr[id].st \in {"sub", "run"}

(***************************************************************************)
(* Session::handle_message for a Sample (instance.rs 44-53 with            *)
(* set_cache 59-67 and broadcast_sample 69-78): the audio cache is data    *)
(* and not modelled; the sample is sent only if receiver_count() != 0,     *)
(* and a failing send is only logged.                                      *)
(***************************************************************************)
HandleSample(id) ==
    /\ inst[id] = "running"
    /\ media[id] # <<>>
    /\ Head(media[id]).t = "Sample"
    /\ media' = [media EXCEPT ![id] = Tail(@)]
    /\ bus' = IF HasSubscriber(id)
                 THEN [bus EXCEPT ![id] = Append(@, Head(media[id]).sid)]
                 ELSE bus
    /\ UNCHANGED <<inst, wr>>

\* EndOfSample (instance.rs 54-56): closing is set and run() returns,
\* dropping the task's receiver of media and its broadcast sender.
HandleEndOfSample(id) ==
    /\ inst[id] = "running"
    /\ media[id] # <<>>
    /\ Head(media[id]).t = "EOS"
    /\ media' = [media EXCEPT ![id] = Tail(@)]
    /\ inst' = [inst EXCEPT ![id] = "ended"]
    /\ UNCHANGED <<bus, wr>>

Next == \E id \in Sessions : HandleSample(id) \/ HandleEndOfSample(id)

=============================================================================
