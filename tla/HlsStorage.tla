----------------------------- MODULE HlsStorage -----------------------------
(***************************************************************************)
(* The files of one HLS stream name on disk: the stream directory, its     *)
(* playlist.m3u8 and the .ts segments, written by the HLS writers of the   *)
(* successive publishes of that name and deleted by the session cleaner.   *)
(* Writer::create makes the directory (create_dir_all); write_segment      *)
(* creates a .ts file and atomic_update renames a new manifest into it; a *)
(* trim schedules the dropped segments for deletion after cache_duration;  *)
(* release schedules the window's segments, the manifest (deleted only if  *)
(* it is the directory's last entry) and the directory (remove_dir, which  *)
(* fails on a non-empty directory).  The cleaner fires each item at its    *)
(* deadline (a DelayQueue).                                                *)
(*                                                                         *)
(* Time is a millisecond clock.  Samples reach a writer in real time from  *)
(* its creation, so it cuts a segment every write_interval; publishes      *)
(* start and end at multiples of Quantum between the deadlines.            *)
(***************************************************************************)
EXTENDS Integers, Sequences, FiniteSets

CONSTANTS
    Writers,     \* publishes of the stream name, in order: 1..n
    TargetMs,    \* hls_target_duration in ms
    MaxSegs,     \* segments a writer cuts
    Quantum,     \* ms between the moments a publish may start or end
    MaxTime      \* ms of the clock explored

ASSUME Writers = 1..Cardinality(Writers) /\ TargetMs >= 22 /\ Quantum > 0

VARIABLES
    now,      \* the clock
    dir,      \* the stream directory exists
    files,    \* its entries: Manifest and segments <<w, k>>
    wst,      \* writer w: "idle" (not created), "live", "gone" (released)
    nextw,    \* when writer w cuts its next segment
    window,   \* the segments of writer w's playlist
    broken,   \* a write of writer w failed: its directory was gone
    items     \* the cleaner's DelayQueue

vars == <<now, dir, files, wst, nextw, window, broken, items>>

\* Playlist::new and Writer::create (m3u8.rs 49-64, writer.rs 55).
tar_dur == IF TargetMs < 1000 THEN 1000 ELSE IF TargetMs > 8000 THEN 8000 ELSE TargetMs
playlist_duration == (12000 * 1000) \div tar_dur
playlist_min_duration == (6000 * 1000) \div tar_dur
cache_duration == (38000 * 1000) \div tar_dur
write_interval == TargetMs - 22

\* playlist.m3u8, kept apart from the segments <<w, k>> (k >= 1).
Manifest == <<0, 0>>
Segments == Writers \X (1..MaxSegs)
Kinds == {"Chunks", "Manifest", "Directory"}
Item == [at : Nat, kind : Kinds, paths : SUBSET Segments]

TypeOK ==
    /\ now \in 0..MaxTime
    /\ dir \in BOOLEAN
    /\ files \subseteq Segments \cup {Manifest}
    /\ wst \in [Writers -> {"idle", "live", "gone"}]
    /\ nextw \in [Writers -> Nat]
    /\ window \in [Writers -> Seq(Segments)]
    /\ broken \in [Writers -> BOOLEAN]
    /\ items \subseteq Item

Init ==
    /\ now = 0
    /\ dir = FALSE
    /\ files = {}
    /\ wst = [w \in Writers |-> "idle"]
    /\ nextw = [w \in Writers |-> 0]
    /\ window = [w \in Writers |-> <<>>]
    /\ broken = [w \in Writers |-> FALSE]
    /\ items = {}

\* Segments cut so far by writer w.
Cut(w) == IF window[w] = <<>> THEN 0 ELSE window[w][Len(window[w])][2]

-----------------------------------------------------------------------------
(***************************************************************************)
(* A publish of the name creates its writer (HlsService::run, service.rs   *)
(* 140-167; Writer::create, writer.rs 43-90): the directory is made if it  *)
(* is missing, and the first cut is one write_interval away.  Publishes    *)
(* of the name follow one another.                                         *)
(***************************************************************************)
Create(w) ==
    /\ wst[w] = "idle"
    /\ \A v \in Writers : v < w => wst[v] = "gone"
    /\ wst' = [wst EXCEPT ![w] = "live"]
    /\ dir' = TRUE
    /\ nextw' = [nextw EXCEPT ![w] = now + write_interval]
    /\ UNCHANGED <<now, files, window, broken, items>>

(***************************************************************************)
(* write_segment (writer.rs 119-174) with add_media_segment and            *)
(* atomic_update (m3u8.rs 103-146): File::create of the .ts file fails if  *)
(* the directory is gone; the error is only logged (handle_sample, writer  *)
(* 103-105) and next_write is not advanced, so every later sample retries  *)
(* and fails the same way, since nothing recreates the directory.          *)
(* Otherwise the window is trimmed by one segment once it holds            *)
(* playlist_duration (the trimmed file is deleted after cache_duration),   *)
(* and the segment and the manifest are written.  Here every segment lasts *)
(* write_interval and no pre-roll segment is held, so current_duration is  *)
(* Len(window) * write_interval; Playlist checks the trim with the real    *)
(* durations and the pre-roll.                                             *)
(***************************************************************************)
WriteSegment(w) ==
    /\ wst[w] = "live"
    /\ ~broken[w]
    /\ Cut(w) < MaxSegs
    /\ nextw[w] <= now
    /\ IF ~dir
          THEN /\ broken' = [broken EXCEPT ![w] = TRUE]
               /\ UNCHANGED <<files, window, nextw, items>>
          ELSE LET seg == <<w, Cut(w) + 1>>
                   \* current_duration, each segment lasting write_interval
                   trim == Len(window[w]) * write_interval >= playlist_duration
                   kept == IF trim THEN Tail(window[w]) ELSE window[w]
               IN  /\ window' = [window EXCEPT ![w] = Append(kept, seg)]
                   /\ files' = files \cup {seg, Manifest}
                   /\ items' = IF trim
                                  THEN items \cup {[at |-> now + cache_duration, kind |-> "Chunks",
                                                    paths |-> {Head(window[w])}]}
                                  ELSE items
                   /\ nextw' = [nextw EXCEPT ![w] = @ + write_interval]
                   /\ UNCHANGED broken
    /\ UNCHANGED <<now, dir, wst>>

\* The set of a sequence's elements.
Elems(s) == {s[i] : i \in DOMAIN s}

(***************************************************************************)
(* The bus closes and Writer::run (writer.rs 89-117) calls                 *)
(* Playlist::release (m3u8.rs 184-218) if the writer received a sample:    *)
(* the window's segments are deleted after cache_duration, the manifest    *)
(* after cache + min, the directory after cache + 2 x min.  A writer that  *)
(* has cut a segment has received one; one that has not may or may not.   *)
(***************************************************************************)
Release(w) ==
    /\ wst[w] = "live"
    /\ wst' = [wst EXCEPT ![w] = "gone"]
    /\ \E has_recv \in IF window[w] = <<>> THEN BOOLEAN ELSE {TRUE} :
          items' = IF has_recv
                      THEN items \cup
                           {[at |-> now + cache_duration, kind |-> "Chunks", paths |-> Elems(window[w])],
                            [at |-> now + cache_duration + playlist_min_duration, kind |-> "Manifest",
                             paths |-> {}],
                            [at |-> now + cache_duration + 2 * playlist_min_duration,
                             kind |-> "Directory", paths |-> {}]}
                      ELSE items
    /\ window' = [window EXCEPT ![w] = <<>>]
    /\ UNCHANGED <<now, dir, files, nextw, broken>>

-----------------------------------------------------------------------------
(***************************************************************************)
(* remove_item (session_cleaner.rs 68-93) for the earliest expired item:   *)
(* Chunks removes its files; Manifest removes the manifest only when       *)
(* read_dir finds a single entry; Directory runs remove_dir, which fails   *)
(* unless the directory is empty.                                          *)
(***************************************************************************)
RemoveItem(it) ==
    /\ it \in items
    /\ it.at <= now
    /\ \A o \in items : it.at <= o.at
    /\ items' = items \ {it}
    /\ CASE it.kind = "Chunks" ->
              /\ files' = files \ it.paths
              /\ UNCHANGED dir
         [] it.kind = "Manifest" ->
              /\ files' = IF dir /\ Cardinality(files) = 1 THEN files \ {Manifest} ELSE files
              /\ UNCHANGED dir
         [] it.kind = "Directory" ->
              /\ dir' = (dir /\ files # {})
              /\ UNCHANGED files
    /\ UNCHANGED <<now, wst, nextw, window, broken>>

\* The next moment something is due: a cleaner deadline or a writer's cut.
Due == {it.at : it \in items}
       \cup {nextw[w] : w \in {v \in Writers : wst[v] = "live" /\ ~broken[v] /\ Cut(v) < MaxSegs}}

\* Time passes up to the next due moment, or by Quantum if that is sooner;
\* nothing due is left waiting.
Tick ==
    /\ \A d \in Due : d > now
    /\ LET t == IF Due = {} THEN now + Quantum
                ELSE LET first == CHOOSE d \in Due : \A e \in Due : d <= e
                     IN IF first < now + Quantum THEN first ELSE now + Quantum
       IN /\ t <= MaxTime
          /\ now' = t
    /\ UNCHANGED <<dir, files, wst, nextw, window, broken, items>>

Next ==
    \/ Tick
    \/ \E it \in items : RemoveItem(it)
    \/ \E w \in Writers : Create(w) \/ WriteSegment(w) \/ Release(w)

Spec == Init /\ [][Next]_vars

-----------------------------------------------------------------------------
(***************************************************************************)
(* A publish's HLS output survives the cleanup of the one before it: no    *)
(* writer finds its stream directory gone when it writes a segment.  The   *)
(* comment at session_cleaner.rs 89 chooses remove_dir over remove_dir_all *)
(* so that a restarted session keeps its directory, and spec.md (Cleaner)  *)
(* says a restarted session's directory is non-empty, so the call fails.   *)
(***************************************************************************)
DirectoryOutlivesPublish == \A w \in Writers : ~broken[w]

====
