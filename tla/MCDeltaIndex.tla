--------------------------- MODULE MCDeltaIndex -----------------------------
(* Small instances of DeltaIndex for TLC. *)
EXTENDS DeltaIndex, TLC

CONSTANTS r1, r2, c1, c2, q1

\* Rids, callers and readers are interchangeable: no property names one.
Symmetry == Permutations({r1, r2}) \cup Permutations({c1, c2})
=============================================================================
