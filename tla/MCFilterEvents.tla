--------------------------- MODULE MCFilterEvents ---------------------------
(* Small instances of FilterEvents for TLC. *)
EXTENDS FilterEvents

FirstPort == {1}

EventSizes   == {1, 2}
\* Room for the empty sequence only, and for some of the events.
BufferSizes  == {1, 4}
OneSequence  == {<<Known, Malformed, Foreign>>}
============================================================================
