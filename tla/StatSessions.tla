---------------------------- MODULE StatSessions ----------------------------
(***************************************************************************)
(* The stats service's event loop (echo-stat service.rs 154-293) and its   *)
(* per-session record (session.rs).  The service keeps a map from session  *)
(* id to a Session of optional times, and a Count of open inputs and       *)
(* outputs that its HTTP routes and its logger report.  Every event of     *)
(* the manager's fan-out updates both under their write locks; a session  *)
(* leaves the map when is_finished_and_log finds its ingest released and   *)
(* every output it saw start ended.                                        *)
(*                                                                         *)
(* The events of one session id reach the loop through the manager's one  *)
(* FIFO queue, from four senders, each in its own order:                   *)
(*   - the manager itself: CreateSession0, sent while it handles           *)
(*     CreateSession, before any writer or recorder of the session runs;   *)
(*   - the ingest: InputQualityReport (SRT), then ReleaseSession, once;    *)
(*   - the HLS writer: ReadyHlsSession for every NotReady -> Ready change  *)
(*     of its playlist, then, through the session cleaner, one             *)
(*     ReleaseHlsSession if it received a sample;                          *)
(*   - the recorder: StartRecord, then CompleteRecord unless it panicked.  *)
(* Sessions of different ids touch disjoint entries and add to the counts,*)
(* so one id is examined.  Times are abstracted to whether they are set;  *)
(* paths and quality reports to whether one was stored.                   *)
(***************************************************************************)
EXTENDS Integers, Sequences, SequencesExt

CONSTANTS
    Protocols,    \* the ingest protocols, "srt" and "rtmp"
    MaxReady      \* most ReadyHlsSession events one writer sends

Events ==
    {[kind |-> "CreateSession0", proto |-> p] : p \in Protocols}
    \cup {[kind |-> k] : k \in {"ReleaseSession", "ReadyHlsSession", "ReleaseHlsSession",
                                 "StartRecord", "CompleteRecord", "InputQualityReport"}}

E(k) == [kind |-> k]

\* Session::new: every optional time None.
NewSession(p) ==
    [present |-> TRUE, proto |-> p, ingest_end |-> FALSE, hls_ready |-> FALSE,
     hls_end |-> FALSE, record_start |-> FALSE, record_complete |-> FALSE,
     quality |-> FALSE]

NoSession == [NewSession("srt") EXCEPT !.present = FALSE]

\* Count::default and the empty map of Service::run.
InitialStats ==
    [sess  |-> NoSession,
     count |-> [total |-> 0, input |-> [total |-> 0, srt |-> 0, rtmp |-> 0],
                output |-> [total |-> 0, hls |-> 0, record |-> 0]]]

\* The methods of Session, each returning the record and its bool.
release_ingest(s) == [s EXCEPT !.ingest_end = TRUE]

ready_hls(s) ==
    IF ~s.hls_ready THEN [s |-> [s EXCEPT !.hls_ready = TRUE], ret |-> TRUE]
    ELSE [s |-> s, ret |-> FALSE]

\* Mutant: the end counted whether or not the output was ever ready.
release_hls_unchecked(s) ==
    IF ~s.hls_end THEN [s |-> [s EXCEPT !.hls_end = TRUE], ret |-> TRUE]
    ELSE [s |-> s, ret |-> FALSE]

release_hls(s) ==
    IF ~s.hls_end THEN [s |-> [s EXCEPT !.hls_end = TRUE], ret |-> s.hls_ready]
    ELSE [s |-> s, ret |-> FALSE]

start_record(s) ==
    IF ~s.record_start THEN [s |-> [s EXCEPT !.record_start = TRUE], ret |-> TRUE]
    ELSE [s |-> s, ret |-> FALSE]

complete_record(s) ==
    IF ~s.record_complete THEN [s |-> [s EXCEPT !.record_complete = TRUE], ret |-> s.record_start]
    ELSE [s |-> s, ret |-> FALSE]

is_finished_and_log(s) ==
    s.ingest_end /\ (~s.hls_ready \/ s.hls_end) /\ (~s.record_start \/ s.record_complete)

\* A usize += 1 / -= 1 on one output or input counter and on the totals.
\* A -1 stands for the underflow (a panic in a debug build, a wrap to
\* usize::MAX in a release build).
AddOutput(c, f, d) ==
    [c EXCEPT !.output[f] = @ + d, !.output.total = @ + d, !.total = @ + d]
AddInput(c, p, d) ==
    [c EXCEPT !.input[p] = @ + d, !.input.total = @ + d, !.total = @ + d]

\* The session leaves the map when it is finished.
Settle(st, s) ==
    [st EXCEPT !.sess = IF is_finished_and_log(s) THEN NoSession ELSE s]

OnCreateSession0(st, p) ==
    IF st.sess.present THEN st
    ELSE [sess |-> NewSession(p), count |-> AddInput(st.count, p, 1)]

OnReleaseSession(st) ==
    LET s == release_ingest(st.sess) IN
    Settle([st EXCEPT !.count = AddInput(@, s.proto, -1)], s)

OnReadyHlsSession(st) ==
    LET r == ready_hls(st.sess) IN
    [st EXCEPT !.sess = r.s, !.count = IF r.ret THEN AddOutput(@, "hls", 1) ELSE @]

\* Mutant: ReleaseHlsSession never removes a finished session.
OnReleaseHlsSession_no_finish(st) ==
    LET r == release_hls(st.sess) IN
    [st EXCEPT !.sess = r.s, !.count = IF r.ret THEN AddOutput(@, "hls", -1) ELSE @]

OnReleaseHlsSession(st) ==
    LET r == release_hls(st.sess) IN
    Settle([st EXCEPT !.count = IF r.ret THEN AddOutput(@, "hls", -1) ELSE @], r.s)

OnStartRecord(st) ==
    LET r == start_record(st.sess) IN
    [st EXCEPT !.sess = r.s, !.count = IF r.ret THEN AddOutput(@, "record", 1) ELSE @]

OnCompleteRecord(st) ==
    LET r == complete_record(st.sess) IN
    Settle([st EXCEPT !.count = IF r.ret THEN AddOutput(@, "record", -1) ELSE @], r.s)

\* One turn of the loop.  Every arm but CreateSession0 does nothing (a
\* warning, or `continue`) for an id the map does not hold.
handle_event(st, e) ==
    IF e.kind = "CreateSession0" THEN OnCreateSession0(st, e.proto)
    ELSE IF ~st.sess.present THEN st
    ELSE CASE e.kind = "ReleaseSession"     -> OnReleaseSession(st)
           [] e.kind = "ReadyHlsSession"    -> OnReadyHlsSession(st)
           [] e.kind = "ReleaseHlsSession"  -> OnReleaseHlsSession(st)
           [] e.kind = "StartRecord"        -> OnStartRecord(st)
           [] e.kind = "CompleteRecord"     -> OnCompleteRecord(st)
           [] e.kind = "InputQualityReport" -> [st EXCEPT !.sess.quality = TRUE]

HandleEvents(evs) == FoldLeft(handle_event, InitialStats, evs)

(***************************************************************************)
(* What each sender may have sent so far (every prefix of its stream).     *)
(***************************************************************************)

IngestEvents ==
    Prefixes(<<E("InputQualityReport"), E("ReleaseSession")>>) \cup {<<E("ReleaseSession")>>}

WriterEvents ==
    UNION {Prefixes([i \in 1..k |-> E("ReadyHlsSession")] \o <<E("ReleaseHlsSession")>>) :
           k \in 0..MaxReady}

RecorderEvents == Prefixes(<<E("StartRecord"), E("CompleteRecord")>>)

\* Every merge of two sequences that keeps the order of each.
RECURSIVE Shuffles(_, _)
Shuffles(s, t) ==
    IF s = <<>> THEN {t}
    ELSE IF t = <<>> THEN {s}
    ELSE {<<Head(s)>> \o m : m \in Shuffles(Tail(s), t)}
         \cup {<<Head(t)>> \o m : m \in Shuffles(s, Tail(t))}

\* The order in which the stats loop may receive one session's events.
Arrivals(p, i, w, r) ==
    {<<[kind |-> "CreateSession0", proto |-> p]>> \o m :
        m \in UNION {Shuffles(a, r) : a \in Shuffles(i, w)}}

Has(q, k) == \E j \in 1..Len(q) : q[j].kind = k

(***************************************************************************)
(* Reference: the session is done with once, after some event, the ingest *)
(* has been released and every output whose start arrived has ended.      *)
(***************************************************************************)
DoneAfter(q) ==
    /\ Has(q, "ReleaseSession")
    /\ Has(q, "ReadyHlsSession") => Has(q, "ReleaseHlsSession")
    /\ Has(q, "StartRecord") => Has(q, "CompleteRecord")

Removed(evs) == \E n \in 1..Len(evs) : DoneAfter(SubSeq(evs, 1, n))

Bit(b) == IF b THEN 1 ELSE 0

(***************************************************************************)
(* Properties.                                                             *)
(***************************************************************************)

\* Whatever order the ingest's, the writer's and the recorder's events
\* arrive in, every counter the stats routes report equals the number of
\* held sessions in the state it counts (an input not yet released, an HLS
\* output ready and not released, a recording started and not completed),
\* so no usize counter is decremented below zero.
StatCountsMatchSessions ==
    \A p \in Protocols, i \in IngestEvents, w \in WriterEvents, r \in RecorderEvents :
      \A evs \in Arrivals(p, i, w, r) :
        LET st == HandleEvents(evs)  s == st.sess
            in  == Bit(s.present /\ ~s.ingest_end)
            hls == Bit(s.present /\ s.hls_ready /\ ~s.hls_end)
            rec == Bit(s.present /\ s.record_start /\ ~s.record_complete)
        IN  /\ st.count.input = [total |-> in, srt |-> IF p = "srt" THEN in ELSE 0,
                                 rtmp |-> IF p = "rtmp" THEN in ELSE 0]
            /\ st.count.output = [total |-> hls + rec, hls |-> hls, record |-> rec]
            /\ st.count.total = in + hls + rec

\* The session leaves the map exactly when, after some event, its ingest
\* is released and every output whose start reached the loop has ended;
\* so once the ingest, the writer and the recorder have all sent their
\* last event it is gone, and a recorder that panicked between StartRecord
\* and CompleteRecord (recorder.rs 141-149) keeps it, and the recording
\* count, forever.
StatSessionRemovedOnceOutputsEnd ==
    \A p \in Protocols, i \in IngestEvents, w \in WriterEvents, r \in RecorderEvents :
      \A evs \in Arrivals(p, i, w, r) :
        /\ HandleEvents(evs).sess.present = ~Removed(evs)
        /\ (Has(i, "ReleaseSession") /\ (w = <<>> \/ Has(w, "ReleaseHlsSession"))
              /\ r # <<E("StartRecord")>>) => ~HandleEvents(evs).sess.present
=============================================================================
