------------------------- MODULE MCTransferService -------------------------
(***************************************************************************)
(* Bounds for checking TransferService with TLC: three publishes over the  *)
(* smallest range Config::check accepts, two ports, so the pool runs dry,  *)
(* a publish is refused, and the port a terminated session returns is     *)
(* handed to a later publish while the old session's reports may still be *)
(* queued; one control message per session and two state reports queued  *)
(* at once.                                                                *)
(***************************************************************************)
EXTENDS TransferService

CONSTANTS i1, i2, i3

MCIds == {i1, i2, i3}
MCPorts == {30000, 30001}
MCMaxMsgs == 1
MCMaxQueued == 2

=============================================================================
