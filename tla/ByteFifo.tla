------------------------------ MODULE ByteFifo ------------------------------
(***************************************************************************)
(* What the ring of pwf_stream_loopback promises, without its cells and    *)
(* positions: a bounded queue between the capture and the playback thread. *)
(*                                                                         *)
(* Captured bytes are numbered, so a byte's number says which one it is.   *)
(* A chunk may lose bytes before it gets here, but what arrives arrives in *)
(* order, and leaves once and in that order.                               *)
(***************************************************************************)
EXTENDS Integers, Sequences

CONSTANTS
  Capacity          \* bytes the queue holds

VARIABLES
  queue,            \* the bytes to be played
  put,              \* the last byte ever put, 0 before the first
  taken             \* the last byte taken, 0 before the first

vars == <<queue, put, taken>>

Init == queue = <<>> /\ put = 0 /\ taken = 0

\* The first n bytes of a chunk that starts with byte `first'
Put(first, n) ==
  /\ first > put
  /\ Len(queue) + n <= Capacity
  /\ queue' = queue \o [k \in 1..n |-> first + k - 1]
  /\ put' = first + n - 1
  /\ UNCHANGED taken

Take ==
  /\ queue # <<>>
  /\ taken' = Head(queue)
  /\ queue' = Tail(queue)
  /\ UNCHANGED put

Next ==
  \/ \E n \in 1..Capacity : Put(put' - n + 1, n)
  \/ Take

Spec == Init /\ [][Next]_vars
============================================================================
