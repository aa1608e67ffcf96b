--------------------------- MODULE MCFilterCycle ---------------------------
(* Small instances of FilterCycle for TLC: which ports exist, and of what   *)
(* kind, is chosen per configuration.                                       *)
EXTENDS FilterCycle, TLC

FirstPort == {1}
FirstTwo  == {1, 2}

\* The graph picks buffers in any order, the lock is given to any thread that
\* waits, and nothing else tells buffers or threads apart.
CycleSymmetry == Permutations(Buffers) \cup Permutations(Threads)
============================================================================
