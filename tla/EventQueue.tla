----------------------------- MODULE EventQueue -----------------------------
(***************************************************************************)
(* What pwf_filter_port_push_event() promises for each input event port: a *)
(* queue.  A cycle that delivers pushed events delivers all that were      *)
(* pushed before it, in push order, and never one of them again.           *)
(***************************************************************************)
EXTENDS Sequences

CONSTANTS
  Queues,           \* one queue per input event port
  Events            \* everything that can be pushed

VARIABLES
  pushed,           \* the events pushed to each port so far
  delivered         \* those handed to the callback so far

vars == <<pushed, delivered>>

Init ==
  /\ pushed = [p \in Queues |-> <<>>]
  /\ delivered = [p \in Queues |-> <<>>]

Push(p, e) ==
  /\ pushed' = [pushed EXCEPT ![p] = Append(@, e)]
  /\ UNCHANGED delivered

\* delivered is always a prefix of pushed.
Deliver(p) ==
  /\ delivered[p] # pushed[p]
  /\ delivered' = [delivered EXCEPT ![p] = pushed[p]]
  /\ UNCHANGED pushed

Next == \E p \in Queues : Deliver(p) \/ \E e \in Events : Push(p, e)

Spec == Init /\ [][Next]_vars
============================================================================
