---------------------------- MODULE MCRtmpPeer ----------------------------
(***************************************************************************)
(* Bounds for checking RtmpPeer with TLC: two connections publishing the   *)
(* same stream name with two possible keys (so a re-authorization makes an *)
(* old key mismatch), up to two chunks of up to two RTMP messages each     *)
(* (so a batch can hold unpublish and a new publish, or a sample after the *)
(* key expired), and up to two publish commands per connection.            *)
(***************************************************************************)
EXTENDS RtmpPeer

CONSTANTS p1, p2, k1, k2

MCPeers == {p1, p2}
MCKeyVals == {k1, k2}
MCMaxChunks == 2
MCMaxBatch == 2
MCMaxPublishes == 2

=============================================================================
