------------------------------ MODULE MCRelay ------------------------------
(* A small instance of Relay for TLC. *)
EXTENDS Relay

\* A request, of which copies may arrive, an invalid one with the same request
\* id, and another one.
MCMessages ==
    {[requestID |-> "q1", valid |-> TRUE], [requestID |-> "q1", valid |-> FALSE],
     [requestID |-> "q2", valid |-> TRUE]}

LimitOne == [k \in StormKinds |-> 1]
=============================================================================
