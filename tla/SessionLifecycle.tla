-------------------------- MODULE SessionLifecycle --------------------------
(***************************************************************************)
(* The lifecycle the specification gives an SRT ingest session            *)
(* (spec.md 3 and 4.3): Init, then Ready while it waits for its first      *)
(* connection with no core session, Publishing once the core session      *)
(* exists, Paused and Publishing again as the publisher goes and comes     *)
(* back, and Terminated from any state, for good.  It is the abstract      *)
(* specification of what the transfer service is told about a session    *)
(* through SessionEvents; SrtSession is checked to implement it (EchoCore) *)
(* and TransferService's sessions step by it.                              *)
(***************************************************************************)
CONSTANT Ids

VARIABLE state

States == {"Init", "Ready", "Publishing", "Paused", "Terminated"}

\* The edges of the lifecycle diagram; every live state may terminate.
Edges == {<<"Init", "Ready">>, <<"Init", "Publishing">>, <<"Ready", "Publishing">>,
          <<"Publishing", "Paused">>, <<"Paused", "Publishing">>}
Allowed(from, to) ==
    \/ <<from, to>> \in Edges
    \/ from # "Terminated" /\ to = "Terminated"

Init == state = [i \in Ids |-> "Init"]

Step(i, to) ==
    /\ Allowed(state[i], to)
    /\ state' = [state EXCEPT ![i] = to]

Next == \E i \in Ids, to \in States : Step(i, to)

Spec == Init /\ [][Next]_state

=============================================================================
