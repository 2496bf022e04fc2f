---------------------------- MODULE MCHlsStorage ----------------------------
(* Two successive publishes of one stream name at the largest target        *)
(* duration, 8 s: playlist_min_duration is 750 ms and cache_duration        *)
(* 4750 ms, so the directory item falls 6250 ms after a release, while the  *)
(* next publish writes its first segment 7978 ms after it starts.  Publishes *)
(* start and end on a 1 s grid; each writer cuts up to two segments.        *)
EXTENDS HlsStorage

MCWriters == 1..2
MCTargetMs == 8000
MCMaxSegs == 2
MCQuantum == 1000
MCMaxTime == 24000
====
