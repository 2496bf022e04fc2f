----------------------------- MODULE MCEchoCore -----------------------------
(***************************************************************************)
(* Bounds for checking EchoCore with TLC.                                  *)
(*   MCMaxConn    2: a reconnect, so two receivers and a ResumeSession.    *)
(*   MCMaxPackets 1 per connection: with two connections the samples of   *)
(*                an old and a new connection still interleave.            *)
(*   MCMaxFill    1: one starvation filler per receiver.                   *)
(*   MCDrainIters 2: the drain loop can both finish and run out of turns.  *)
(*   MCBusCap     the broadcast's capacity (64 in the code), scaled down   *)
(*                to what a few samples can overrun, or not.               *)
(***************************************************************************)
EXTENDS EchoCore

CONSTANTS s1, s2

MCSessions == {s1}
MCMaxConn == 2
MCMaxConnOne == 1
MCMaxPackets == 1
MCMaxFill == 1
MCMaxFillNone == 0
MCDrainIters == 2
MCBusCapLarge == 8
MCBusCapSmall == 1

=============================================================================
