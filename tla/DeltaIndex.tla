----------------------------- MODULE DeltaIndex -----------------------------
(***************************************************************************)
(* The two-tier vector index (vector/delta_index.rs): a cold graph that is *)
(* replaced as a whole, and a mutable delta in front of it.  Writers append *)
(* to the delta, usually in two phases (reserve, commit the SQL row,        *)
(* publish), deletes leave tombstones in it, one compactor folds it into a  *)
(* new cold tier, and searches read the two tiers one after the other.      *)
(*                                                                         *)
(* A vector is identified with the sequence number of the write that       *)
(* brought it, so a tier is a set of <<rid, seq>> pairs.  The delta is a    *)
(* set of entries: the order of the code's Vec only decides WHICH of        *)
(* several eligible entries a tombstone rewrites, and the model allows any. *)
(***************************************************************************)
EXTENDS Naturals, FiniteSets

CONSTANTS Rid,          \* index keys: record ids and their chunk-window keys
          Caller,       \* engine threads that write to the index
          Reader,       \* threads inside search_with_windows
          DeltaMax,     \* capacity of the delta (delta_max)
          MaxSeq,       \* bound of the model: sequence numbers handed out
          Ordered,      \* TRUE: writes of one rid reach the index one at a time
          BuildMayFail  \* TRUE: HnswIndex::insert may fail during a build

ASSUME ConstantsAssumption ==
    /\ DeltaMax \in Nat \ {0}
    /\ MaxSeq \in Nat
    /\ Ordered \in BOOLEAN
    /\ BuildMayFail \in BOOLEAN

VARIABLES cold,        \* the cold tier: the <<rid, seq>> it holds
          delta,       \* the delta tier: a set of entries
          compacting,  \* how many delta entries are inside a build window
          dirty,       \* oldest_dirty_at is Some
          vecSeq,      \* the engine's sequence counter
          committed,   \* the writes whose SQL transaction committed
          pc, call,    \* per caller: where it is, and its current operation
          stage,       \* the compactor: "idle", "building", "installed"
          sealed,      \* the entries the compactor snapshotted
          rstate,      \* per reader: "idle", "fresh", "behind", "overtaken"
          rcold        \* per reader: the cold tier it loaded

callerVars  == <<vecSeq, committed, pc, call>>
compactVars == <<stage, sealed>>
readVars    == <<rstate, rcold>>
vars == <<cold, delta, compacting, dirty, callerVars, compactVars, readVars>>

Seq == 1..MaxSeq
Vector == Rid \X Seq
Entry == [rid : Rid, seq : Seq, tombstoned : BOOLEAN, published : BOOLEAN]
\* "write": reserve, commit, publish.  "append": hydrate and insert_vector,
\* visible at once.  "delete": forget, archive and replicated tombstones.
Kind == {"write", "append", "delete"}
Call == [kind : Kind, rid : Rid, seq : Seq]
NoCall == [kind |-> "none"]

-----------------------------------------------------------------------------
(* What the tiers mean *)

\* (mutant) a search and a build that take reserved entries for live ones.
WinnersWithReserved(entries) ==
    {e \in entries : \A f \in entries : f.rid = e.rid => f.seq <= e.seq}

\* The entry that decides a rid: the highest sequence number among its
\* published entries.
Winners(entries) ==
    {e \in entries : /\ e.published
                     /\ \A f \in entries :
                            f.published /\ f.rid = e.rid => f.seq <= e.seq}

Vectors(entries) ==
    {<<e.rid, e.seq>> : e \in {w \in entries : ~w.tombstoned}}

\* The rids a delta decides: their cold copy is shadowed or deleted.
Decided(entries) == {e.rid : e \in {f \in entries : f.published}}

\* What search_with_windows finds in a cold tier and a delta.
Found(tier, entries) ==
    Vectors(Winners(entries)) \cup {v \in tier : v[1] \notin Decided(entries)}

\* The cold tier compact() builds: the winner of every rid removed, then
\* inserted again unless it is a tombstone.
Compacted(tier, entries) ==
    {v \in tier : v[1] \notin Decided(entries)} \cup Vectors(Winners(entries))

\* (mutant) one entry too many is admitted.
FullLate == Cardinality(delta) > DeltaMax + compacting

\* append_inner refuses: entries in a build window do not count.
Full == Cardinality(delta) >= DeltaMax + compacting

\* (mutant) the trigger waits for more than the delta can hold, no age clock.
ShouldCompactLate == Cardinality(delta) > DeltaMax

\* should_compact; an armed age clock has expired or not, the model allows both.
ShouldCompact ==
    \/ Cardinality(delta) >= DeltaMax \div 2
    \/ dirty /\ delta # {}

-----------------------------------------------------------------------------
Init ==
    /\ cold = {} /\ delta = {} /\ compacting = 0 /\ dirty = FALSE
    /\ vecSeq = 0 /\ committed = {}
    /\ pc = [c \in Caller |-> "idle"]
    /\ call = [c \in Caller |-> NoCall]
    /\ stage = "idle" /\ sealed = {}
    /\ rstate = [q \in Reader |-> "idle"]
    /\ rcold = [q \in Reader |-> {}]

-----------------------------------------------------------------------------
(* Callers *)

\* The connection mutex keeps two writes apart.  A delete (and hydrate) takes
\* its number after it released the mutex, so unless Ordered it can overlap.
MayStart(kind, r) ==
    \A d \in Caller : pc[d] # "idle" /\ call[d].rid = r =>
        ~Ordered /\ ~(kind = "write" /\ call[d].kind = "write")

\* assign_seq(None): the next number; the call reaches the index later.  The
\* row behind an "append" is durable by then.
TakeSeq(c, kind, r) ==
    /\ pc[c] = "idle" /\ vecSeq < MaxSeq /\ MayStart(kind, r)
    /\ vecSeq' = vecSeq + 1
    /\ call' = [call EXCEPT ![c] = [kind |-> kind, rid |-> r, seq |-> vecSeq + 1]]
    /\ pc' = [pc EXCEPT ![c] = "taken"]
    /\ committed' = IF kind = "append" THEN committed \cup {<<r, vecSeq + 1>>}
                    ELSE committed
    /\ UNCHANGED <<cold, delta, compacting, dirty, compactVars, readVars>>

\* assign_seq(Some(n)): record_with_rid replays a durable write under the
\* number it had, long after or right away, but not while it is still running.
Redeliver(c, r, s) ==
    /\ ~Ordered
    /\ \A d \in Caller : pc[d] # "idle" => call[d].seq # s
    /\ pc[c] = "idle" /\ <<r, s>> \in committed /\ MayStart("write", r)
    /\ call' = [call EXCEPT ![c] = [kind |-> "write", rid |-> r, seq |-> s]]
    /\ pc' = [pc EXCEPT ![c] = "taken"]
    /\ UNCHANGED <<cold, delta, compacting, dirty, vecSeq, committed,
                   compactVars, readVars>>

\* (mutant) a call forgets its (rid, seq) at its first step.
GotoForgetful(c, label) ==
    /\ pc' = [pc EXCEPT ![c] = label]
    /\ call' = [call EXCEPT ![c] = NoCall]

Goto(c, label) ==
    /\ pc' = [pc EXCEPT ![c] = label]
    /\ call' = IF label = "idle" THEN [call EXCEPT ![c] = NoCall] ELSE call

Present(c) == \E e \in delta : e.rid = call[c].rid /\ e.seq = call[c].seq

\* append_inner finds the same (rid, seq): nothing is appended, nothing is owed.
AlreadyPresent(c) ==
    /\ pc[c] = "taken" /\ call[c].kind # "delete" /\ Present(c)
    /\ Goto(c, "idle")
    /\ UNCHANGED <<cold, delta, compacting, dirty, vecSeq, committed,
                   compactVars, readVars>>

\* append_inner refuses with Backpressure.
Refused(c) ==
    /\ pc[c] = "taken" /\ call[c].kind # "delete" /\ ~Present(c) /\ Full
    /\ Goto(c, "idle")
    /\ UNCHANGED <<cold, delta, compacting, dirty, vecSeq, committed,
                   compactVars, readVars>>

Fresh(c, tombstone, visible) ==
    [rid |-> call[c].rid, seq |-> call[c].seq,
     tombstoned |-> tombstone, published |-> visible]

\* append_inner pushes under the delta lock; the clock is stamped after it is
\* released, and only if the delta was empty.
Append(c) ==
    /\ pc[c] = "taken" /\ call[c].kind # "delete" /\ ~Present(c) /\ ~Full
    /\ delta' = delta \cup {Fresh(c, FALSE, call[c].kind = "append")}
    /\ Goto(c, IF delta = {} THEN "stamp"
               ELSE IF call[c].kind = "write" THEN "reserved" ELSE "idle")
    /\ UNCHANGED <<cold, compacting, dirty, vecSeq, committed,
                   compactVars, readVars>>

Stamp(c) ==
    /\ pc[c] = "stamp"
    /\ dirty' = TRUE
    /\ Goto(c, IF call[c].kind = "write" THEN "reserved" ELSE "idle")
    /\ UNCHANGED <<cold, delta, compacting, vecSeq, committed,
                   compactVars, readVars>>

\* The SQL transaction commits (ReservationGuard: Reserved -> Committed).
Commit(c) ==
    /\ pc[c] = "reserved"
    /\ committed' = committed \cup {<<call[c].rid, call[c].seq>>}
    /\ Goto(c, "durable")
    /\ UNCHANGED <<cold, delta, compacting, dirty, vecSeq,
                   compactVars, readVars>>

\* The transaction failed or unwound: remove_appended takes the entry back.
RemoveAppended(c) ==
    /\ pc[c] = "reserved"
    /\ delta' = {e \in delta : ~(e.rid = call[c].rid /\ e.seq = call[c].seq)}
    /\ Goto(c, "idle")
    /\ UNCHANGED <<cold, compacting, dirty, vecSeq, committed,
                   compactVars, readVars>>

\* publish flips the entry under the delta lock and releases it.
Published(entries, r, s) ==
    {IF e.rid = r /\ e.seq = s THEN [e EXCEPT !.published = TRUE] ELSE e : e \in entries}

Publish(c) ==
    /\ pc[c] = "durable"
    /\ delta' = Published(delta, call[c].rid, call[c].seq)
    /\ Goto(c, "restamp")
    /\ UNCHANGED <<cold, compacting, dirty, vecSeq, committed,
                   compactVars, readVars>>

\* publish then stamps the clock if no age is running.
Restamp(c) ==
    /\ pc[c] = "restamp"
    /\ dirty' = TRUE
    /\ Goto(c, "idle")
    /\ UNCHANGED <<cold, delta, compacting, vecSeq, committed,
                   compactVars, readVars>>

\* The live entries a tombstone may rewrite in place.
Targets(c) ==
    {e \in delta : /\ e.rid = call[c].rid
                   /\ ~e.tombstoned /\ e.published
                   /\ e.seq <= call[c].seq}

\* tombstone: rewrite a live entry in place, number included ...
TombstoneInPlace(c) ==
    /\ pc[c] = "taken" /\ call[c].kind = "delete"
    /\ \E e \in Targets(c) :
           delta' = (delta \ {e}) \cup
                    {[e EXCEPT !.tombstoned = TRUE, !.seq = call[c].seq]}
    /\ Goto(c, "idle")
    /\ UNCHANGED <<cold, compacting, dirty, vecSeq, committed,
                   compactVars, readVars>>

\* ... or push a deletion marker, whatever the occupancy.
TombstoneMarker(c) ==
    /\ pc[c] = "taken" /\ call[c].kind = "delete" /\ Targets(c) = {}
    /\ delta' = delta \cup {Fresh(c, TRUE, TRUE)}
    /\ Goto(c, IF delta = {} THEN "stamp" ELSE "idle")
    /\ UNCHANGED <<cold, compacting, dirty, vecSeq, committed,
                   compactVars, readVars>>

-----------------------------------------------------------------------------
(* The compactor: compact() *)

\* (mutant) the snapshot drains the delta, as an earlier compact() did.
SnapshotDrains ==
    /\ stage = "idle" /\ ShouldCompact
    /\ sealed' = {e \in delta : e.published}
    /\ delta' = delta \ sealed'
    /\ compacting' = Cardinality(sealed')
    /\ stage' = IF sealed' = {} THEN "idle" ELSE "building"
    /\ UNCHANGED <<cold, dirty, callerVars, readVars>>

\* snapshot_published_for_compaction: clone the published entries, which stay
\* in the delta, and take them out of the occupancy.  An empty snapshot ends it.
Snapshot ==
    /\ stage = "idle" /\ ShouldCompact
    /\ sealed' = {e \in delta : e.published}
    /\ compacting' = Cardinality(sealed')
    /\ stage' = IF sealed' = {} THEN "idle" ELSE "building"
    /\ UNCHANGED <<cold, delta, dirty, callerVars, readVars>>

\* (mutant) the merged tier is thrown away; what was sealed is retired all the same.
InstallNothing ==
    /\ stage = "building"
    /\ stage' = "installed"
    /\ rstate' = [q \in Reader |-> IF rstate[q] = "fresh" THEN "behind" ELSE rstate[q]]
    /\ UNCHANGED <<cold, delta, compacting, dirty, callerVars, sealed, rcold>>

\* The merged tier replaces the cold one: every loaded reader is now behind.
Install ==
    /\ stage = "building"
    /\ cold' = Compacted(cold, sealed)
    /\ stage' = "installed"
    /\ rstate' = [q \in Reader |-> IF rstate[q] = "fresh" THEN "behind" ELSE rstate[q]]
    /\ UNCHANGED <<delta, compacting, dirty, callerVars, sealed, rcold>>

\* An insert fails: nothing is installed, the build window is closed.
Abandon ==
    /\ stage = "building" /\ BuildMayFail
    /\ compacting' = 0 /\ sealed' = {} /\ stage' = "idle"
    /\ UNCHANGED <<cold, delta, dirty, callerVars, readVars>>

Retired(entries) ==
    {e \in entries : ~\E s \in sealed : s.rid = e.rid /\ s.seq = e.seq}

\* (mutant) the build window is left open.
RetireKeepsWindow ==
    /\ stage = "installed"
    /\ delta' = Retired(delta)
    /\ dirty' = (\E e \in delta' : e.published)
    /\ sealed' = {} /\ stage' = "idle"
    /\ rstate' = [q \in Reader |-> IF rstate[q] = "behind" THEN "overtaken" ELSE rstate[q]]
    /\ UNCHANGED <<cold, compacting, callerVars, rcold>>

\* retire_compacted: exactly the sealed (rid, seq) leave the delta.
Retire ==
    /\ stage = "installed"
    /\ delta' = Retired(delta)
    /\ compacting' = 0
    /\ dirty' = (\E e \in delta' : e.published)
    /\ sealed' = {} /\ stage' = "idle"
    /\ rstate' = [q \in Reader |-> IF rstate[q] = "behind" THEN "overtaken" ELSE rstate[q]]
    /\ UNCHANGED <<cold, callerVars, rcold>>

-----------------------------------------------------------------------------
(* A search loads the cold tier, then reads the delta *)

LoadCold(q) ==
    /\ rstate[q] = "idle"
    /\ rcold' = [rcold EXCEPT ![q] = cold]
    /\ rstate' = [rstate EXCEPT ![q] = "fresh"]
    /\ UNCHANGED <<cold, delta, compacting, dirty, callerVars, compactVars>>

\* The search returns Found(rcold[q], delta).
ReadDelta(q) ==
    /\ rstate[q] # "idle"
    /\ rstate' = [rstate EXCEPT ![q] = "idle"]
    /\ rcold' = [rcold EXCEPT ![q] = {}]
    /\ UNCHANGED <<cold, delta, compacting, dirty, callerVars, compactVars>>

-----------------------------------------------------------------------------
Land(c) ==
    \/ AlreadyPresent(c) \/ Refused(c) \/ Append(c) \/ Stamp(c)
    \/ Commit(c) \/ RemoveAppended(c) \/ Publish(c) \/ Restamp(c)
    \/ TombstoneInPlace(c) \/ TombstoneMarker(c)

Compact == Snapshot \/ Install \/ Abandon \/ Retire

Next ==
    \/ \E c \in Caller, kind \in Kind, r \in Rid : TakeSeq(c, kind, r)
    \/ \E c \in Caller, v \in committed : Redeliver(c, v[1], v[2])
    \/ \E c \in Caller : Land(c)
    \/ Compact
    \/ \E q \in Reader : LoadCold(q) \/ ReadDelta(q)

Spec == Init /\ [][Next]_vars

\* The compactor thread polls every 250 ms and a call that took its number
\* runs to its end; nothing makes a new call or a search start.
Fairness == WF_vars(Compact) /\ \A c \in Caller : WF_vars(Land(c))

FairSpec == Spec /\ Fairness

-----------------------------------------------------------------------------
(* Properties *)

\* Every variable has its type, a call in flight has its record, an entry a
\* number that was handed out (DeltaEntry, DeltaIndex, ReservationGuard).
TypeOK ==
    /\ cold \subseteq Vector
    /\ delta \subseteq Entry
    /\ compacting \in Nat
    /\ dirty \in BOOLEAN
    /\ vecSeq \in 0..MaxSeq
    /\ committed \subseteq Vector
    /\ pc \in [Caller -> {"idle", "taken", "stamp", "reserved", "durable", "restamp"}]
    /\ call \in [Caller -> Call \cup {NoCall}]
    /\ \A c \in Caller : pc[c] # "idle" => call[c] \in Call /\ call[c].seq <= vecSeq
    /\ stage \in {"idle", "building", "installed"}
    /\ sealed \subseteq Entry
    /\ rstate \in [Reader -> {"idle", "fresh", "behind", "overtaken"}]
    /\ rcold \in [Reader -> SUBSET Vector]

\* Until it is retired, a sealed entry is still in the delta, or a newer
\* tombstone of its rid took its place (the snapshot design of compact()).
SealedStillInDelta ==
    \A s \in sealed : \E e \in delta :
        /\ e.rid = s.rid /\ e.published
        /\ e.seq = s.seq \/ (e.tombstoned /\ e.seq >= s.seq)

\* A search that is not overtaken by a whole install-and-retire returns what
\* an atomic search would: nothing is in neither tier, nothing comes back.
SearchIsCurrent ==
    \A q \in Reader : rstate[q] \in {"fresh", "behind"} =>
        Found(rcold[q], delta) = Found(cold, delta)

\* No search, however stale its cold tier, returns a write whose SQL
\* transaction has not committed or was rolled back (append_reserved's doc).
FoundIsDurable ==
    /\ Found(cold, delta) \subseteq committed
    /\ \A q \in Reader : Found(rcold[q], delta) \subseteq committed

\* The compactor's window is what admission subtracts: it never exceeds the
\* delta, so the subtraction never saturates, and it closes with the build.
WindowIsHonest ==
    /\ stage = "idle" => compacting = 0
    /\ stage # "idle" => compacting = Cardinality(sealed)
    /\ compacting <= Cardinality(delta)

\* While no build fails, the delta never holds more than two deltas' worth of
\* vectors: the build in flight and a refilled delta (field doc of compacting).
VectorsBounded ==
    Cardinality({e \in delta : ~e.tombstoned}) <= 2 * DeltaMax

\* The calls whose effect no search sees yet.
MayUndo(c) == pc[c] = "reserved" \/ (pc[c] = "stamp" /\ call[c].kind = "write")
Holding(c) == MayUndo(c) \/ pc[c] = "durable"
Unseen(c) == pc[c] = "taken" \/ Holding(c)

\* Seen from outside the index is a map of newest vectors: what a search can
\* return changes only when a call of that rid takes effect, so a compaction,
\* a failed build, a reservation or a refused write never shows (compact,
\* append_reserved and tombstone in delta_index.rs).
Map == INSTANCE VectorMap WITH
           Op <- Call,
           served <- Found(cold, delta),
           pending <- {call[c] : c \in {d \in Caller : Unseen(d)}}
ImplementsMap == Map!Spec

\* Backpressure is not for ever: a full delta becomes admissible again, under
\* the compactor's and the pending calls' fairness alone.
BackpressureClears == Full ~> ~Full
=============================================================================
