------------------------------ MODULE MCRecall ------------------------------
(* Small instances of Recall for TLC. *)
EXTENDS Recall, TLC

CONSTANTS r1, r2, w1, w2, q1

\* Records and writers are interchangeable.
Symmetry == Permutations({r1, r2}) \cup Permutations({w1, w2})
=============================================================================
