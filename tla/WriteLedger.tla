----------------------------- MODULE WriteLedger ----------------------------
(***************************************************************************)
(* What the write path promises its callers, with no routes, no threads, no *)
(* migration and no crashes: a write is accepted once per key, becomes a    *)
(* memory, has its entities counted once, and may be forgotten.  It never   *)
(* goes back, and it is never lost.                                        *)
(***************************************************************************)
CONSTANTS Rid, Key, NoKey,
          NoWrite    \* the owner of a key nobody has used

VARIABLES stage,   \* per record: how far its write has come
          owner    \* per key: the record it was accepted for

vars == <<stage, owner>>

Init ==
    /\ stage = [r \in Rid |-> "free"]
    /\ owner = [k \in Key |-> NoWrite]

\* The caller is told the record's id: queued behind a migration, or a row.
Accept(r, k, to) ==
    /\ stage[r] = "free"
    /\ k \in Key => owner[k] = NoWrite
    /\ stage' = [stage EXCEPT ![r] = to]
    /\ owner' = IF k \in Key THEN [owner EXCEPT ![k] = r] ELSE owner

Move(r, from, to) ==
    /\ stage[r] \in from
    /\ stage' = [stage EXCEPT ![r] = to]
    /\ UNCHANGED owner

\* The row appears; its entities are owed to it, then counted.
Apply(r) == Move(r, {"queued"}, "owing")
Count(r) == Move(r, {"owing"}, "complete")

\* A write that is still queued is no memory yet, and cannot be forgotten.
Forget(r) == Move(r, {"owing", "complete"}, "forgotten")

Next ==
    \E r \in Rid :
        \/ Apply(r) \/ Count(r) \/ Forget(r)
        \/ \E k \in Key \cup {NoKey}, to \in {"queued", "owing"} : Accept(r, k, to)

Spec == Init /\ [][Next]_vars
=============================================================================
