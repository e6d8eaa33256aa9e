------------------------------- MODULE Recall -------------------------------
(***************************************************************************)
(* What a recall can see of the writes that run beside it: the correction   *)
(* seqlock of engine/lifecycle.rs around the search, scoring and hydration  *)
(* of engine/recall.rs, and the read-your-writes watermark of               *)
(* engine/stats.rs that recall_with_seq waits on.                           *)
(*                                                                         *)
(* A recall reads three places at three moments: the vector index, the      *)
(* scoring cache, and the memories table over a connection of its own.  The *)
(* writers change the three one after the other.  Versions are numbers: the *)
(* sequence number of the write that made them.                             *)
(***************************************************************************)
EXTENDS Naturals, FiniteSets

CONSTANTS Rid,          \* record ids
          Writer,       \* threads inside a write
          Reader,       \* threads inside recall or recall_with_seq
          Nobody,       \* the connection is free
          Kinds,        \* the kinds of write the instance runs
          Reordered,    \* TRUE: the log repeats a write after a later one, too
          MaxAttempts,  \* MAX_ATTEMPTS of recall_with_limits
          MaxSeq        \* bound of the model: sequence numbers minted

\* Writes that insert a row, and writes that enter the correction epoch.
Inserts == {"record", "record_batch", "record_with_rid"}
Corrections == {"correct", "scalar", "replica"}

ASSUME ConstantsAssumption ==
    /\ Kinds \subseteq Inserts \cup Corrections \cup {"forget"}
    /\ Reordered \in BOOLEAN /\ Nobody \notin Writer
    /\ MaxAttempts \in Nat \ {0} /\ MaxSeq \in Nat \ {0}

VARIABLES row,      \* memories: status, and the versions of text and scalars
          vec,      \* per record, the live vector: seq and version (0 none)
          cached,   \* scoring_cache: the version of the scalars (0 none)
          origin,   \* the number record_with_rid was delivered under (0 none)
          seq,      \* vec_seq
          mark,     \* visible_seq of the namespace
          epoch,    \* correction_epoch
          conn,     \* who holds the write connection
          wpc, op,  \* per writer: its step, and what it writes
          rpc,      \* per reader: its step
          need,     \* per reader: min_seq, 0 for a plain recall
          epoch0,   \* per reader: the epoch before the search
          tries,    \* per reader: attempts made
          hits      \* per reader: the candidates, as they fill up

rowVars    == <<row, vec, cached, origin>>
writerVars == <<wpc, op>>
readerVars == <<rpc, need, epoch0, tries, hits>>
vars == <<rowVars, seq, mark, epoch, conn, writerVars, readerVars>>

Version == 0..MaxSeq
NoRow == [status |-> "absent", text |-> 0, facts |-> 0]
NoWork == [kind |-> "none", rid |-> Nobody, seq |-> 0]
Hit == [rid : Rid, vector : Version, scores : Version, text : Version, facts : Version]

\* open() on a store that holds some records already, their version number 1:
\* the index is built from their rows, the cache is loaded with them.
Opened(stored) ==
    /\ row = [r \in Rid |-> IF r \in stored
                            THEN [status |-> "active", text |-> 1, facts |-> 1] ELSE NoRow]
    /\ vec = [r \in Rid |-> [seq |-> 0, text |-> row[r].text]]
    /\ cached = [r \in Rid |-> row[r].facts] /\ origin = [r \in Rid |-> 0]

Init ==
    /\ \E stored \in SUBSET Rid : Opened(stored)
    /\ seq = 1 /\ mark = 0 /\ epoch = 0 /\ conn = Nobody
    /\ wpc = [w \in Writer |-> "idle"] /\ op = [w \in Writer |-> NoWork]
    /\ rpc = [q \in Reader |-> "idle"] /\ need = [q \in Reader |-> 0]
    /\ epoch0 = [q \in Reader |-> 0] /\ tries = [q \in Reader |-> 0]
    /\ hits = [q \in Reader |-> {}]

Active(r) == row[r].status = "active"
Odd == epoch % 2 = 1
Max2(m, n) == IF m < n THEN n ELSE m

-----------------------------------------------------------------------------
(* Writers *)

\* What follows each step: record and correct raise the watermark last, a
\* batch and record_with_rid before the scoring cache, a replicated or scalar
\* correction not at all.
Late  == [commit |-> "publish", publish |-> "cache", cache |-> "bump",
          bump |-> "notify", notify |-> "release"]
Early == [commit |-> "publish", publish |-> "bump", bump |-> "notify",
          notify |-> "cache", cache |-> "release"]
Then == [record |-> Late, correct |-> Late,
         record_batch |-> Early, record_with_rid |-> Early,
         replica |-> [commit |-> "publish", publish |-> "cache", cache |-> "release"],
         again |-> [commit |-> "publish", publish |-> "bump", bump |-> "notify",
                    notify |-> "release"],
         scalar |-> [commit |-> "cache", cache |-> "release"],
         forget |-> [bury |-> "bump", bump |-> "notify", notify |-> "uncache"]]

Advance(w) == wpc' = [wpc EXCEPT ![w] = Then[op[w].kind][wpc[w]]]

Take(w, kind, r, n) ==
    /\ wpc' = [wpc EXCEPT ![w] = "commit"]
    /\ op' = [op EXCEPT ![w] = [kind |-> kind, rid |-> r, seq |-> n]]

\* (mutant) corrections stay outside the seqlock.
InEpochNever(kind) == FALSE /\ kind \in Corrections

\* enter_correction_epoch, and the guard's drop.
InEpoch(kind) == kind \in Corrections

\* The connection, then the epoch, then the number.  (A scalar correction
\* mints none: here the number only names the version it makes.)
Begin(w, kind, r) ==
    /\ wpc[w] = "idle" /\ conn = Nobody /\ kind \in Kinds \ {"forget"}
    /\ row[r].status = (IF kind \in Inserts THEN "absent" ELSE "active")
    /\ seq < MaxSeq /\ seq' = seq + 1
    /\ conn' = w
    /\ epoch' = IF InEpoch(kind) THEN epoch + 1 ELSE epoch
    /\ Take(w, kind, r, seq + 1)
    /\ UNCHANGED <<rowVars, mark, readerVars>>

\* The cluster's log delivers a record_with_rid again, under its number: at
\* once, or (Reordered) when the record has been corrected or forgotten.  Once
\* per record, a bound of the model.
BeginAgain(w, r) ==
    /\ wpc[w] = "idle" /\ conn = Nobody /\ origin[r] # 0
    /\ Reordered \/ (Active(r) /\ row[r].text = origin[r])
    /\ conn' = w /\ seq' = Max2(seq, origin[r])
    /\ origin' = [origin EXCEPT ![r] = 0]
    /\ Take(w, "again", r, origin[r])
    /\ UNCHANGED <<row, vec, cached, mark, epoch, readerVars>>

\* (mutant) a repeated write replaces the row (INSERT OR REPLACE).
WrittenReplace(w) ==
    LET old == row[op[w].rid]  n == op[w].seq
    IN  CASE op[w].kind \in Inserts \cup {"again"} ->
               [status |-> "active", text |-> n, facts |-> n]
          [] op[w].kind = "scalar" -> [old EXCEPT !.facts = n]
          [] OTHER -> [old EXCEPT !.text = n, !.facts = n]

\* The row the transaction leaves: INSERT OR IGNORE keeps one that is there.
Written(w) ==
    LET old == row[op[w].rid]  n == op[w].seq
    IN  CASE op[w].kind \in Inserts ->
               [status |-> "active", text |-> n, facts |-> n]
          [] op[w].kind = "again" -> old
          [] op[w].kind = "scalar" -> [old EXCEPT !.facts = n]
          [] OTHER -> [old EXCEPT !.text = n, !.facts = n]

Commit(w) ==
    /\ wpc[w] = "commit" /\ conn = w
    /\ op[w].kind \in Corrections => Active(op[w].rid)
    /\ row' = [row EXCEPT ![op[w].rid] = Written(w)]
    /\ origin' = IF op[w].kind = "record_with_rid"
                 THEN [origin EXCEPT ![op[w].rid] = op[w].seq] ELSE origin
    /\ Advance(w)
    /\ UNCHANGED <<vec, cached, seq, mark, epoch, conn, op, readerVars>>

\* The transaction fails, or the record was forgotten while a correction
\* embedded its text: the reservation goes and nothing changed.
CommitFails(w) ==
    /\ wpc[w] = "commit" /\ conn = w
    /\ wpc' = [wpc EXCEPT ![w] = "release"]
    /\ UNCHANGED <<rowVars, seq, mark, epoch, conn, op, readerVars>>

\* The entry with the highest number is the vector search finds; compacted
\* into the cold tier an entry has no number any more.
Entry(r, n, text) ==
    vec' = IF n > vec[r].seq THEN [vec EXCEPT ![r] = [seq |-> n, text |-> text]] ELSE vec

Publish(w) ==
    /\ wpc[w] = "publish"
    /\ Entry(op[w].rid, op[w].seq, op[w].seq)
    /\ Advance(w)
    /\ UNCHANGED <<row, cached, origin, seq, mark, epoch, conn, op, readerVars>>

\* A new row enters the cache; a correction updates one that is there.
Cache(w) ==
    /\ wpc[w] = "cache"
    /\ cached' = IF op[w].kind \in Inserts \/ cached[op[w].rid] # 0
                 THEN [cached EXCEPT ![op[w].rid] = op[w].seq] ELSE cached
    /\ Advance(w)
    /\ UNCHANGED <<row, vec, origin, seq, mark, epoch, conn, op, readerVars>>

\* bump_visible_seq: fetch_max, then notify_all without the waiters' mutex.
Bump(w) ==
    /\ wpc[w] = "bump"
    /\ mark' = Max2(mark, op[w].seq)
    /\ Advance(w)
    /\ UNCHANGED <<rowVars, seq, epoch, conn, op, readerVars>>

Notify(w) ==
    /\ wpc[w] = "notify"
    /\ rpc' = [q \in Reader |-> IF rpc[q] = "asleep" THEN "check" ELSE rpc[q]]
    /\ Advance(w)
    /\ UNCHANGED <<rowVars, seq, mark, epoch, conn, op, need, epoch0, tries, hits>>

Leave(w) ==
    /\ wpc' = [wpc EXCEPT ![w] = "idle"] /\ op' = [op EXCEPT ![w] = NoWork]

\* The epoch is even again before the connection is free.
Release(w) ==
    /\ wpc[w] = "release"
    /\ epoch' = IF InEpoch(op[w].kind) THEN epoch + 1 ELSE epoch
    /\ conn' = Nobody
    /\ Leave(w)
    /\ UNCHANGED <<rowVars, seq, mark, readerVars>>

\* forget: the transaction, then the index, the watermark and the cache, the
\* connection free again after the first.
Forget(w, r) ==
    /\ wpc[w] = "idle" /\ conn = Nobody /\ "forget" \in Kinds /\ Active(r)
    /\ row' = [row EXCEPT ![r].status = "tombstoned"]
    /\ wpc' = [wpc EXCEPT ![w] = "bury"]
    /\ op' = [op EXCEPT ![w] = [kind |-> "forget", rid |-> r, seq |-> 0]]
    /\ UNCHANGED <<vec, cached, origin, seq, mark, epoch, conn, readerVars>>

Bury(w) ==
    /\ wpc[w] = "bury"
    /\ seq < MaxSeq /\ seq' = seq + 1
    /\ op' = [op EXCEPT ![w].seq = seq + 1]
    /\ Entry(op[w].rid, seq + 1, 0)
    /\ Advance(w)
    /\ UNCHANGED <<row, cached, origin, mark, epoch, conn, readerVars>>

\* (mutant) forget leaves the scoring cache alone, as archive does.
UncacheNothing(w) ==
    /\ wpc[w] = "uncache"
    /\ Leave(w)
    /\ UNCHANGED <<rowVars, seq, mark, epoch, conn, readerVars>>

Uncache(w) ==
    /\ wpc[w] = "uncache"
    /\ cached' = [cached EXCEPT ![op[w].rid] = 0]
    /\ Leave(w)
    /\ UNCHANGED <<row, vec, origin, seq, mark, epoch, conn, readerVars>>

\* The compactor moves an entry of the delta into the cold tier.
Compact(r) ==
    /\ vec[r].seq # 0
    /\ vec' = [vec EXCEPT ![r].seq = 0]
    /\ UNCHANGED <<row, cached, origin, seq, mark, epoch, conn, writerVars, readerVars>>

-----------------------------------------------------------------------------
(* wait_for_visible_seq *)

Goto(q, step) == rpc' = [rpc EXCEPT ![q] = step]

\* recall waits for nothing; recall_with_seq for any number a client knows.
Call(q, n) ==
    /\ rpc[q] = "idle"
    /\ need' = [need EXCEPT ![q] = n]
    /\ Goto(q, IF n = 0 THEN "enter" ELSE "check")
    /\ UNCHANGED <<rowVars, seq, mark, epoch, conn, writerVars, epoch0, tries, hits>>

Reached(q) == mark >= need[q]

Return(q) ==
    /\ Goto(q, "idle")
    /\ need' = [need EXCEPT ![q] = 0] /\ epoch0' = [epoch0 EXCEPT ![q] = 0]
    /\ tries' = [tries EXCEPT ![q] = 0] /\ hits' = [hits EXCEPT ![q] = {}]
    /\ UNCHANGED <<rowVars, seq, mark, epoch, conn, writerVars>>

\* The watermark is read before the mutex is taken, and again under it.
Check(q) ==
    /\ rpc[q] \in {"check", "recheck"}
    /\ Goto(q, CASE Reached(q) -> "enter"
                [] ~Reached(q) /\ rpc[q] = "check" -> "recheck"
                [] OTHER -> "park")
    /\ UNCHANGED <<rowVars, seq, mark, epoch, conn, writerVars, need, epoch0, tries, hits>>

\* wait_for puts the thread on the condition variable's queue.
Park(q) ==
    /\ rpc[q] = "park"
    /\ Goto(q, "asleep")
    /\ UNCHANGED <<rowVars, seq, mark, epoch, conn, writerVars, need, epoch0, tries, hits>>

\* The deadline has passed when the loop comes round.
Expires(q) ==
    /\ rpc[q] = "check" /\ ~Reached(q)
    /\ Return(q)

\* (mutant) a timed-out wait goes round again with a fresh deadline.
TimesOutAgain(q) ==
    /\ rpc[q] = "asleep"
    /\ Goto(q, "check")
    /\ UNCHANGED <<rowVars, seq, mark, epoch, conn, writerVars, need, epoch0, tries, hits>>

\* The wait times out: one last look, then the recall or RyWaitTimeout.
TimesOut(q) ==
    /\ rpc[q] = "asleep"
    /\ IF Reached(q)
       THEN /\ Goto(q, "enter")
            /\ UNCHANGED <<rowVars, seq, mark, epoch, conn, writerVars, need, epoch0,
                           tries, hits>>
       ELSE Return(q)

-----------------------------------------------------------------------------
(* recall_with_limits and recall_inner *)

\* correction_epoch_even: a stable even epoch before the search.
Enter(q) ==
    /\ rpc[q] = "enter" /\ ~Odd
    /\ epoch0' = [epoch0 EXCEPT ![q] = epoch]
    /\ Goto(q, "search")
    /\ UNCHANGED <<rowVars, seq, mark, epoch, conn, writerVars, need, tries, hits>>

\* Its spin budget runs out under a correction: RecallContended.
SpinsOut(q) ==
    /\ rpc[q] = "enter" /\ Odd
    /\ Return(q)

\* An empty index goes straight to the validation.
Search(q) ==
    /\ rpc[q] = "search"
    /\ hits' = [hits EXCEPT ![q] =
           {[rid |-> r, vector |-> vec[r].text, scores |-> 0, text |-> 0, facts |-> 0]
               : r \in {x \in Rid : vec[x].text # 0}}]
    /\ Goto(q, IF hits'[q] = {} THEN "validate" ELSE "score")
    /\ UNCHANGED <<rowVars, seq, mark, epoch, conn, writerVars, need, epoch0, tries>>

\* Candidates the scoring cache does not have are dropped.
Score(q) ==
    /\ rpc[q] = "score"
    /\ hits' = [hits EXCEPT ![q] =
           {[h EXCEPT !.scores = cached[h.rid]] : h \in {x \in @ : cached[x.rid] # 0}}]
    /\ Goto(q, "hydrate")
    /\ UNCHANGED <<rowVars, seq, mark, epoch, conn, writerVars, need, epoch0, tries>>

\* Text and metadata come from the table, whatever the row's status.
Hydrate(q) ==
    /\ rpc[q] = "hydrate"
    /\ hits' = [hits EXCEPT ![q] =
           {[h EXCEPT !.text = row[h.rid].text, !.facts = row[h.rid].facts] : h \in @}]
    /\ Goto(q, "validate")
    /\ UNCHANGED <<rowVars, seq, mark, epoch, conn, writerVars, need, epoch0, tries>>

\* (mutant) the empty and the full answer are both returned unvalidated.
ValidateNothing(q) ==
    /\ rpc[q] = "validate"
    /\ Goto(q, "answered")
    /\ UNCHANGED <<rowVars, seq, mark, epoch, conn, writerVars, need, epoch0, tries, hits>>

\* correction_epoch_validate: the answer stands if no correction began or
\* ended since; otherwise the attempt is thrown away.
Validate(q) ==
    /\ rpc[q] = "validate" /\ epoch = epoch0[q]
    /\ Goto(q, "answered")
    /\ UNCHANGED <<rowVars, seq, mark, epoch, conn, writerVars, need, epoch0, tries, hits>>

\* (mutant) every failed attempt is followed by another.
RetryForever(q) ==
    /\ rpc[q] = "validate" /\ epoch # epoch0[q]
    /\ Goto(q, "enter")
    /\ tries' = [tries EXCEPT ![q] = @ + 1]
    /\ hits' = [hits EXCEPT ![q] = {}]
    /\ UNCHANGED <<rowVars, seq, mark, epoch, conn, writerVars, need, epoch0>>

Retry(q) ==
    /\ rpc[q] = "validate" /\ epoch # epoch0[q]
    /\ IF tries[q] + 1 < MaxAttempts
       THEN /\ Goto(q, "enter")
            /\ tries' = [tries EXCEPT ![q] = @ + 1]
            /\ hits' = [hits EXCEPT ![q] = {}]
            /\ UNCHANGED <<rowVars, seq, mark, epoch, conn, writerVars, need, epoch0>>
       ELSE Return(q)

Answer(q) == rpc[q] = "answered" /\ Return(q)

-----------------------------------------------------------------------------
Write(w) ==
    \/ Commit(w) \/ CommitFails(w) \/ Publish(w) \/ Cache(w)
    \/ Bump(w) \/ Notify(w) \/ Release(w)
    \/ Bury(w) \/ Uncache(w)

Start(w) ==
    \E r \in Rid :
        \/ \E kind \in Kinds : Begin(w, kind, r)
        \/ BeginAgain(w, r)
        \/ Forget(w, r)

Read(q) ==
    \/ Check(q) \/ Park(q) \/ TimesOut(q) \/ Expires(q)
    \/ Enter(q) \/ SpinsOut(q) \/ Search(q) \/ Score(q) \/ Hydrate(q)
    \/ Validate(q) \/ Retry(q) \/ Answer(q)

Next ==
    \/ \E w \in Writer : Start(w) \/ Write(w)
    \/ \E r \in Rid : Compact(r)
    \/ \E q \in Reader : Read(q) \/ \E n \in 0..MaxSeq : Call(q, n)

Spec == Init /\ [][Next]_vars

\* Threads inside a call run on; the condition variable's timeout fires.
FairSpec == Spec /\ (\A w \in Writer : WF_vars(Write(w)))
                 /\ (\A q \in Reader : WF_vars(Read(q)))

-----------------------------------------------------------------------------
(* Properties *)

\* Every variable has its type.
TypeOK ==
    /\ row \in [Rid -> [status : {"absent", "active", "tombstoned"},
                         text : Version, facts : Version]]
    /\ vec \in [Rid -> [seq : Version, text : Version]]
    /\ cached \in [Rid -> Version] /\ origin \in [Rid -> Version]
    /\ seq \in Version /\ mark \in Version /\ epoch \in Nat
    /\ conn \in Writer \cup {Nobody}
    /\ wpc \in [Writer -> {"idle", "commit", "publish", "cache", "bump", "notify",
                           "release", "bury", "uncache"}]
    /\ \A w \in Writer : wpc[w] # "idle" =>
          op[w] \in [kind : Kinds \cup {"again"}, rid : Rid, seq : Version]
    /\ rpc \in [Reader -> {"idle", "check", "recheck", "park", "asleep", "enter",
                           "search", "score", "hydrate", "validate", "answered"}]
    /\ need \in [Reader -> Version]
    /\ epoch0 \in [Reader -> Nat] /\ tries \in [Reader -> 0..(MaxAttempts - 1)]
    /\ hits \in [Reader -> SUBSET Hit]

\* Seen from a caller a recall reads at one moment, its validation: whatever
\* was written around it, the answer is what a store that changes and is read
\* one step at a time would give; attempts thrown away leave no trace.
Shown == [q \in Reader |-> IF rpc[q] = "answered" THEN [given |-> TRUE, hits |-> hits[q]]
                                                  ELSE [given |-> FALSE, hits |-> {}]]
Atomic == INSTANCE AtomicMemory WITH memory <- row, answer <- Shown
AnswersAreAtomic == Atomic!Spec

\* A recall that waited for a correction's number does not answer with the
\* text that correction replaced, although a later write may have raised the
\* watermark past it while it ran (the high-water mark of bump_visible_seq).
NoStaleCorrection ==
    \A q \in Reader : rpc[q] = "answered" =>
        \A h \in hits[q] : row[h.rid].text <= need[q] => h.text = row[h.rid].text

Busy(r) == \E w \in Writer : wpc[w] # "idle" /\ op[w].rid = r

\* With no write on it, a live record is ranked by the vector of its text and
\* scored by its own scalars: "highest seq == last committed text", however
\* records, corrections, forgets and compactions interleaved.
SettledIsCoherent ==
    \A r \in Rid : Active(r) /\ ~Busy(r) =>
        vec[r].text = row[r].text /\ cached[r] = row[r].facts

\* A forgotten record is out of the index and the cache for good, also when a
\* correction or a publish ran between the forget's transaction and its
\* tombstone (tombstone_inner; the active recheck of correct_with_reembed).
ForgottenIsOut ==
    \A r \in Rid : row[r].status = "tombstoned" /\ ~Busy(r) =>
        vec[r].text = 0 /\ cached[r] = 0

\* A waiter may miss its notification, and corrections may keep discarding
\* its attempts, but every recall returns (wait_for_visible_seq,
\* MAX_ATTEMPTS, MAX_SPINS).
RecallReturns == \A q \in Reader : rpc[q] # "idle" ~> rpc[q] = "idle"

\* CLAIM (record_batch): "LAST: a read-your-write waiter must not wake against
\* a half-applied batch": a recall that waited for a write finds its record.
ReadYourWrites ==
    \A q \in Reader : rpc[q] = "answered" =>
        \A r \in Rid : Active(r) /\ row[r].text <= need[q] => \E h \in hits[q] : h.rid = r
=============================================================================
