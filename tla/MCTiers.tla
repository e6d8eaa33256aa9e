------------------------------- MODULE MCTiers -------------------------------
(* Small instances of Tiers for TLC. *)
EXTENDS Tiers, TLC

CONSTANTS r1, r2, c1, c2

\* Records and callers are interchangeable.
Symmetry == Permutations({r1, r2}) \cup Permutations({c1, c2})
=============================================================================
