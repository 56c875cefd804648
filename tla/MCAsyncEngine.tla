--------------------------- MODULE MCAsyncEngine ---------------------------
(* Instances of AsyncEngine for TLC. *)
EXTENDS AsyncEngine, TLC

\* Workers, operation blocks and control blocks are interchangeable.
Symm == Permutations(Workers) \cup Permutations(Ops) \cup Permutations(Aops)
=============================================================================
