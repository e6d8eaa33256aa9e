----------------------------- MODULE MCReembed ------------------------------
(* Small instances of Reembed for TLC. *)
EXTENDS Reembed, TLC

CONSTANTS t1, t2, w1, w2

\* Texts and writers are interchangeable; record ids are ordered, so not they.
Symmetry == Permutations({t1, t2}) \cup Permutations({w1, w2})
=============================================================================
