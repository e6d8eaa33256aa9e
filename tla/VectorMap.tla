----------------------------- MODULE VectorMap ------------------------------
(***************************************************************************)
(* What the vector index promises its callers, with no tiers and no        *)
(* compactor: a map from rid to the newest vector written for it, and the  *)
(* calls asked of it that have had no effect yet.  What a search can return *)
(* changes only in the step in which one of these calls takes effect, only  *)
(* for the rid of that call, and only the way that call asks for.           *)
(***************************************************************************)
EXTENDS Naturals

CONSTANT Op    \* the calls: records with a kind, a rid and a seq

VARIABLES served,   \* the <<rid, seq>> a search can return
          pending   \* the calls that have had no effect yet

vars == <<served, pending>>

Init == served = {} /\ pending = {}

Ask(op) ==
    /\ op \notin pending /\ pending' = pending \cup {op}
    /\ UNCHANGED served

Done(op) == op \in pending /\ pending' = pending \ {op}

\* A later write replaces an earlier one.
Newer(op) == \A v \in served : v[1] = op.rid => v[2] < op.seq
Without(r) == {v \in served : v[1] # r}

Write(op) ==
    /\ Done(op) /\ op.kind # "delete" /\ Newer(op)
    /\ served' = Without(op.rid) \cup {<<op.rid, op.seq>>}

Delete(op) ==
    /\ Done(op) /\ op.kind = "delete" /\ Newer(op)
    /\ served' = Without(op.rid)

\* A write is refused, rolled back, or found to be there already.
Refuse(op) ==
    /\ Done(op) /\ op.kind # "delete"
    /\ UNCHANGED served

Next == \E op \in Op : Ask(op) \/ Write(op) \/ Delete(op) \/ Refuse(op)

Spec == Init /\ [][Next]_vars
=============================================================================
