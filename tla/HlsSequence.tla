---------------------------- MODULE HlsSequence ----------------------------
(***************************************************************************)
(* The HLS service's per-name sequence map (echo-hls service.rs 137-194).  *)
(* For every CreateSession event the trigger loop reads the wall clock,    *)
(* gives the writer the name's stored seq + 100000 (0 for a name it does   *)
(* not hold), stores (seq, begin_time) for the name, creates the writer,   *)
(* and then walks the map: begin_time.duration_since(entry).unwrap()       *)
(* panics when an entry is later than begin_time (the wall clock stepped   *)
(* back), and entries older than ttl_max_duration + 600 s are removed.  A  *)
(* panic ends the HLS service task (main.rs spawns it), so no later event  *)
(* is handled.                                                             *)
(*                                                                         *)
(* Wall-clock readings are whole seconds (the code compares as_secs()).    *)
(* The writer only receives seq, which Writer::create makes the first .ts  *)
(* file number (writer.rs 81, 122).                                        *)
(***************************************************************************)
EXTENDS Naturals, Sequences, SequencesExt, TLC

CONSTANTS
    Names,      \* stream names
    Clock,      \* wall-clock readings (seconds) an event may see
    TtlSecs,    \* config.ttl_max_duration.as_secs()
    MaxEvents   \* longest run of CreateSession events examined

SEQ_STEP == 100000

\* The map is kept only while it is at most this old (service.rs 179).
Horizon == TtlSecs + 600

Events == [name : Names, now : Clock]

InitialService == [hs |-> <<>>, alive |-> TRUE, out |-> <<>>]

\* Mutant: an expired entry kept while its age equals the horizon plus one.
expired_off_by_one(hs, now) == {n \in DOMAIN hs : now - hs[n].begin > Horizon + 1}

\* The entries the cleanup loop removes (service.rs 174-193).
expired(hs, now) == {n \in DOMAIN hs : now - hs[n].begin > Horizon}

\* hs.insert(name, (seq, begin_time)) (service.rs 153).
store(hs, name, seq, now) == (name :> [seq |-> seq, begin |-> now]) @@ hs

\* Mutant: the age taken with a saturating duration_since, so a later entry
\* is 0 s old instead of a panic.
handle_create_saturating(s, e) ==
    IF ~s.alive THEN s
    ELSE LET seq  == IF e.name \in DOMAIN s.hs THEN s.hs[e.name].seq + SEQ_STEP ELSE 0
             hs1  == store(s.hs, e.name, seq, e.now)
         IN  [s EXCEPT !.hs = [n \in DOMAIN hs1 \ expired(hs1, e.now) |-> hs1[n]],
                       !.out = Append(@, seq)]

(***************************************************************************)
(* One EventMessage::CreateSession (service.rs 142-194): the seq, the      *)
(* insert, Writer::create (its result does not touch the map), then the    *)
(* loop over the map, which panics on an entry later than now and         *)
(* otherwise collects the expired names for removal.                       *)
(***************************************************************************)
handle_create(s, e) ==
    IF ~s.alive THEN s
    ELSE LET seq  == IF e.name \in DOMAIN s.hs THEN s.hs[e.name].seq + SEQ_STEP ELSE 0
             hs1  == store(s.hs, e.name, seq, e.now)
             out1 == Append(s.out, seq)
         IN  IF \E n \in DOMAIN hs1 : hs1[n].begin > e.now
             THEN [s EXCEPT !.hs = hs1, !.alive = FALSE, !.out = out1]
             ELSE [s EXCEPT !.hs = [n \in DOMAIN hs1 \ expired(hs1, e.now) |-> hs1[n]],
                            !.out = out1]

\* The trigger loop over a run of events.
HandleEvents(evs) == FoldLeft(handle_create, InitialService, evs)

EventSeqs == BoundedSeq(Events, MaxEvents)

(***************************************************************************)
(* Reference, from the events alone.  Event j's entry is still in the map  *)
(* when event k arrives if j is the latest event of its name before k and  *)
(* every cleanup in between found it at most Horizon old.                  *)
(***************************************************************************)
HeldAt(evs, j, k) ==
    /\ j < k
    /\ \A i \in (j + 1)..(k - 1) : evs[i].name # evs[j].name
    /\ \A i \in j..(k - 1) : evs[i].now - evs[j].now <= Horizon

\* Event k reads a clock earlier than the entry of event j, of another name,
\* still held (the entry of k's own name has just been replaced).
StepsBackOver(evs, j, k) ==
    HeldAt(evs, j, k) /\ evs[j].name # evs[k].name /\ evs[j].now > evs[k].now

\* The events the service handles: all up to and including the first one
\* that steps back over a held entry.
Handled(evs) ==
    LET bad == {k \in 1..Len(evs) : \E j \in 1..(k - 1) : StepsBackOver(evs, j, k)}
    IN  IF bad = {} THEN Len(evs) ELSE Min(bad)

\* How many publishes of the name, each held when the next one came,
\* lead up to event k.
RECURSIVE Chain(_, _)
Chain(evs, k) ==
    IF \E j \in 1..(k - 1) : evs[j].name = evs[k].name /\ HeldAt(evs, j, k)
    THEN 1 + Chain(evs, CHOOSE j \in 1..(k - 1) :
                            evs[j].name = evs[k].name /\ HeldAt(evs, j, k))
    ELSE 0

(***************************************************************************)
(* Properties.                                                             *)
(***************************************************************************)

\* A reconnect under a name continues its file numbering: the seq given to
\* a writer is 100000 above the one given to the previous publish of the
\* name while that publish's entry is held (refreshed by every publish,
\* expired only once a later event finds it more than ttl + 600 s old),
\* and 0 otherwise.
HlsSequenceContinues ==
    \A evs \in EventSeqs :
        LET s == HandleEvents(evs) IN
        /\ Len(s.out) = Handled(evs)
        /\ \A k \in 1..Len(s.out) : s.out[k] = SEQ_STEP * Chain(evs, k)

\* The unwrap at service.rs 178 ends the HLS service exactly when an event
\* reads a wall clock earlier than the begin_time of another name's entry
\* that the map still holds.  A step back over an expired name, or over
\* the event's own name (its entry is replaced before the loop), is
\* harmless.
HlsServiceDiesOnlyOnStepBack ==
    \A evs \in EventSeqs :
        HandleEvents(evs).alive = ~\E j, k \in 1..Len(evs) : StepsBackOver(evs, j, k)
=============================================================================
