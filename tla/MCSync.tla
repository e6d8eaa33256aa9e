------------------------------- MODULE MCSync -------------------------------
(* Finite instances of Sync: node ids are 1, 2 and 3. *)
EXTENDS Sync, TLC

CONSTANTS c1, c2, k1

Symmetry == Permutations({c1, c2})
=============================================================================
