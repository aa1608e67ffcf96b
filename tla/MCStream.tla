------------------------------ MODULE MCStream ------------------------------
(* The instance of Stream that TLC checks.  The run claims no liveness, so  *)
(* the buffers may be symmetric.                                           *)
EXTENDS Stream, TLC

Symmetry == Permutations(Buffers)
============================================================================
