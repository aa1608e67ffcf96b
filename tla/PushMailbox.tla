---------------------------- MODULE PushMailbox ----------------------------
(***************************************************************************)
(* What pwf_filter_push_port_data() promises for each input port, without  *)
(* any of its machinery: a mailbox of one value.  A push replaces whatever *)
(* waits in it, and a cycle takes the value that waits there at most once. *)
(*                                                                         *)
(* Pushed values are numbered in push order, so put[p] is the most recent  *)
(* push to port p and got[p] the last one a cycle took.  The mailbox is    *)
(* full exactly when the two differ.                                       *)
(***************************************************************************)
EXTENDS Integers

CONSTANTS
  Boxes             \* one mailbox per input port

VARIABLES
  put,              \* the last value pushed to each port, 0 before the first
  got               \* the last value delivered from each port, 0 before it

vars == <<put, got>>

TypeOK ==
  /\ put \in [Boxes -> Nat]
  /\ got \in [Boxes -> Nat]

Init ==
  /\ put = [p \in Boxes |-> 0]
  /\ got = [p \in Boxes |-> 0]

\* A push to a full mailbox overwrites the value nobody took.
Put(p) ==
  /\ put'[p] > put[p]
  /\ put' = [put EXCEPT ![p] = put'[p]]
  /\ UNCHANGED got

\* Taking empties the mailbox, so a value is never taken twice.
Take(p) ==
  /\ got[p] # put[p]
  /\ got' = [got EXCEPT ![p] = put[p]]
  /\ UNCHANGED put

Next == \E p \in Boxes : Put(p) \/ Take(p)

Spec == Init /\ [][Next]_vars
============================================================================
