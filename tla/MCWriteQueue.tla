---------------------------- MODULE MCWriteQueue ----------------------------
(* Small instances of WriteQueue for TLC. *)
EXTENDS WriteQueue, TLC

CONSTANTS r1, r2, c1, c2, w1, w2, k1

\* Records, callers and workers are interchangeable.
Symmetry == Permutations({r1, r2}) \cup Permutations({c1, c2}) \cup Permutations({w1, w2})
=============================================================================
