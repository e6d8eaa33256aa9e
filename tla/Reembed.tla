------------------------------ MODULE Reembed -------------------------------
(***************************************************************************)
(* In-place embedder migration (engine/reembed.rs) and the write router it *)
(* cuts over with (engine/write_router.rs).  One reembed job stages a new   *)
(* vector for every row page by page, builds a new index from the staged    *)
(* vectors, then closes the router, drains the writers, catches up on the   *)
(* tail, swaps the columns in one transaction and publishes a new search    *)
(* state.  record_text, correct and forget run beside it the whole time.    *)
(*                                                                         *)
(* A vector is the pair of the text it encodes and the generation of the    *)
(* embedder that encoded it, so "the right vector" is something the model   *)
(* can tell.  The index of a search state is the map DeltaIndex implements: *)
(* a set of <<rid, text, space>>.                                           *)
(***************************************************************************)
EXTENDS Naturals, FiniteSets

CONSTANTS Rid,       \* record ids; ORDER BY rid is the order of the numbers
          Text,      \* texts of records
          NoText,    \* NULL in a staging column
          Writer,    \* engine threads that write records
          Batch,     \* ReembedOptions::batch_size
          MaxGen,    \* bound of the model: generations published
          MayFail,   \* the steps of a job that may return an error
          MayCrash   \* TRUE: the process may die and open() again

Step == {"encode", "tail", "length", "swap", "verify"}

ASSUME ConstantsAssumption ==
    /\ Rid \subseteq Nat /\ IsFiniteSet(Rid)
    /\ IsFiniteSet(Writer)
    /\ NoText \notin Text
    /\ Batch \in Nat \ {0}
    /\ MaxGen \in Nat
    /\ MayFail \subseteq Step
    /\ MayCrash \in BOOLEAN

VARIABLES rows,      \* the memories table
          durable,   \* meta.active_generation
          jobState,  \* meta.reembed_state is set
          gen,       \* generation of the published SearchState
          index,     \* its vector index: <<rid, text, space>>
          router, inflight,  \* the WriteRouter: state and guards held
          pc, job,   \* per writer: where it is, and its operation
          phase,     \* the reembed call: "idle" or the step it is at
          offset,    \* OFFSET of the page loop it is in
          page,      \* <<rid, text>> encoded and not staged yet, or the tail
          built      \* new_hnsw: <<rid, text>>

sqlVars    == <<rows, durable, jobState>>
searchVars == <<gen, index>>
routerVars == <<router, inflight>>
writerVars == <<pc, job>>
localVars  == <<phase, offset, page, built>>
vars == <<sqlVars, searchVars, routerVars, writerVars, localVars>>

Gen == 0..MaxGen
\* text; vtext and space: what the embedding column encodes and under which
\* embedder; gen: the embedding_generation column; staged: embedding_new.
Row == [status : {"absent", "active", "tombstoned"}, text : Text \cup {NoText},
        vtext : Text \cup {NoText}, space : Gen, gen : Gen,
        staged : Text \cup {NoText}]
Absent == [status |-> "absent", text |-> NoText, vtext |-> NoText,
           space |-> 0, gen |-> 0, staged |-> NoText]
Job == [op : {"record", "correct", "forget"}, rid : Rid,
        text : Text \cup {NoText}, space : Gen]
NoJob == [op |-> "none"]

Init ==
    /\ rows = [r \in Rid |-> Absent]
    /\ durable = 0 /\ jobState = FALSE
    /\ gen = 0 /\ index = {}
    /\ router = "Normal" /\ inflight = 0
    /\ pc = [w \in Writer |-> "idle"] /\ job = [w \in Writer |-> NoJob]
    /\ phase = "idle" /\ offset = 0 /\ page = {} /\ built = {}

Active(r) == rows[r].status = "active"

-----------------------------------------------------------------------------
(* Writers: record_text, correct_with_reembed, tombstone_inner *)

\* Steps 1-2: snapshot the search state and embed outside any guard.
Embed(w, op, r, t) ==
    /\ pc[w] = "idle"
    /\ \/ op = "record" /\ rows[r] = Absent
          /\ \A v \in Writer : pc[v] # "idle" => job[v].rid # r
       \/ op = "correct" /\ Active(r) /\ rows[r].text # t
    /\ job' = [job EXCEPT ![w] = [op |-> op, rid |-> r, text |-> t, space |-> gen]]
    /\ pc' = [pc EXCEPT ![w] = "embedded"]
    /\ UNCHANGED <<sqlVars, searchVars, routerVars, localVars>>

TryEnter == router = "Normal" /\ inflight' = inflight + 1 /\ UNCHANGED router

Goto(w, label) ==
    /\ pc' = [pc EXCEPT ![w] = label]
    /\ job' = IF label = "idle" THEN [job EXCEPT ![w] = NoJob] ELSE job

\* (mutant) the generation is not checked again under the guard.
EnterUnchecked(w) ==
    /\ pc[w] = "embedded"
    /\ TryEnter
    /\ Goto(w, "inside")
    /\ UNCHANGED <<sqlVars, searchVars, localVars>>

\* Steps 3-5: under the guard the generation is still the one embedded for.
Enter(w) ==
    /\ pc[w] = "embedded" /\ job[w].space = gen
    /\ TryEnter
    /\ Goto(w, "inside")
    /\ UNCHANGED <<sqlVars, searchVars, localVars>>

\* (mutant) the retry drops the guard once more than it took it.
EmbedAgainDropsTwice(w) ==
    /\ pc[w] = "embedded" /\ router = "Normal" /\ job[w].space # gen
    /\ job' = [job EXCEPT ![w].space = gen]
    /\ inflight' = inflight - 1
    /\ UNCHANGED <<sqlVars, searchVars, router, pc, localVars>>

\* It is not: drop the guard and embed again under the new state.
EmbedAgain(w) ==
    /\ pc[w] = "embedded" /\ router = "Normal" /\ job[w].space # gen
    /\ job' = [job EXCEPT ![w].space = gen]
    /\ UNCHANGED <<sqlVars, searchVars, routerVars, pc, localVars>>

\* Queueing: a record is queued as a pending op, a correction is deferred.
Deferred(w) ==
    /\ pc[w] = "embedded" /\ router = "Queueing"
    /\ Goto(w, "idle")
    /\ UNCHANGED <<sqlVars, searchVars, routerVars, localVars>>

\* forget takes the guard first; while Queueing it is refused.
EnterForget(w, r) ==
    /\ pc[w] = "idle" /\ Active(r)
    /\ TryEnter
    /\ job' = [job EXCEPT ![w] = [op |-> "forget", rid |-> r, text |-> NoText, space |-> gen]]
    /\ pc' = [pc EXCEPT ![w] = "inside"]
    /\ UNCHANGED <<sqlVars, searchVars, localVars>>

\* record and correct hold the connection from their transaction to their
\* publish; forget releases it when its transaction commits.
ConnFree == \A w \in Writer : pc[w] = "committed" => job[w].op = "forget"

\* (mutant) a correction leaves the staged vector of the old text.
CommittedRowUnstaged(j) ==
    CASE j.op = "forget" -> [rows[j.rid] EXCEPT !.status = "tombstoned"]
      [] OTHER -> [rows[j.rid] EXCEPT !.status = "active", !.text = j.text,
                                      !.vtext = j.text, !.space = j.space, !.gen = gen]

\* What the transaction makes of the row: new rows and corrected rows carry
\* the caller's vector, the guard's generation, and no staged vector.
CommittedRow(j) ==
    CASE j.op = "forget" -> [rows[j.rid] EXCEPT !.status = "tombstoned"]
      [] OTHER -> [status |-> "active", text |-> j.text, vtext |-> j.text,
                   space |-> j.space, gen |-> gen, staged |-> NoText]

Commit(w) ==
    /\ pc[w] = "inside" /\ ConnFree
    /\ job[w].op # "record" => Active(job[w].rid)
    /\ rows' = [rows EXCEPT ![job[w].rid] = CommittedRow(job[w])]
    /\ Goto(w, "committed")
    /\ UNCHANGED <<durable, jobState, searchVars, routerVars, localVars>>

\* (mutant) an error path that forgets the guard.
AbortLeaks(w) ==
    /\ pc[w] = "inside" /\ ConnFree
    /\ Goto(w, "idle")
    /\ UNCHANGED <<sqlVars, searchVars, routerVars, localVars>>

\* Backpressure, an SQL error, or a row that is no longer active.
Abort(w) ==
    /\ pc[w] = "inside" /\ ConnFree
    /\ inflight' = inflight - 1
    /\ Goto(w, "idle")
    /\ UNCHANGED <<sqlVars, searchVars, router, localVars>>

Others(r) == {v \in index : v[1] # r}

\* The vector is published, or tombstoned, in the current state's index; the
\* guard is dropped.
Publish(w) ==
    /\ pc[w] = "committed"
    /\ index' = IF job[w].op = "forget" THEN Others(job[w].rid)
                ELSE Others(job[w].rid) \cup {<<job[w].rid, job[w].text, job[w].space>>}
    /\ inflight' = inflight - 1
    /\ Goto(w, "idle")
    /\ UNCHANGED <<sqlVars, gen, router, localVars>>

-----------------------------------------------------------------------------
(* The reembed call: reembed_with_embedder *)

Next1 == gen + 1

\* ORDER BY rid LIMIT Batch OFFSET o over the rows a predicate selects now.
Page(set, o) ==
    {r \in set : Cardinality({x \in set : x < r}) \in o..(o + Batch - 1)}

ToEncode == {r \in Rid : Active(r) /\ rows[r].gen < Next1}
Staged   == {r \in Rid : Active(r) /\ rows[r].staged # NoText}
Tail     == {r \in ToEncode : rows[r].staged = NoText}

Texts(set) == {<<r, rows[r].text>> : r \in set}

\* Probing passed: the job is recorded, leftovers of an earlier one cleared.
Begin ==
    /\ phase = "idle" /\ gen < MaxGen /\ ConnFree
    /\ jobState' = TRUE
    /\ rows' = [r \in Rid |-> [rows[r] EXCEPT !.staged = NoText]]
    /\ phase' = "encode" /\ offset' = 0 /\ page' = {} /\ built' = {}
    /\ UNCHANGED <<durable, searchVars, routerVars, writerVars>>

\* Encoding reads a page; its texts are embedded without the connection.
EncodeRead ==
    /\ phase = "encode"
    /\ page' = Texts(Page(ToEncode, offset))
    /\ IF page' = {} THEN phase' = "rebuild" /\ offset' = 0
                     ELSE phase' = "stage" /\ UNCHANGED offset
    /\ UNCHANGED <<sqlVars, searchVars, routerVars, writerVars, built>>

\* (mutant) the staging write does not look at the text it encoded.
StagedRowBlind(r) ==
    IF \E v \in page : v[1] = r
    THEN [rows[r] EXCEPT !.staged = (CHOOSE v \in page : v[1] = r)[2]]
    ELSE rows[r]

\* UPDATE ... WHERE rid AND text: a row corrected since stays unstaged.
StagedRow(r) ==
    IF <<r, rows[r].text>> \in page
    THEN [rows[r] EXCEPT !.staged = rows[r].text] ELSE rows[r]

StagePage ==
    /\ phase = "stage" /\ ConnFree
    /\ rows' = [r \in Rid |-> StagedRow(r)]
    /\ offset' = offset + Cardinality(page)
    /\ page' = {} /\ phase' = "encode"
    /\ UNCHANGED <<durable, jobState, searchVars, routerVars, writerVars, built>>

\* Rebuilding reads the staged vectors page by page into a local index.
RebuildPage ==
    /\ phase = "rebuild"
    /\ LET rids == Page(Staged, offset) IN
       IF rids = {} THEN phase' = "cutover" /\ UNCHANGED <<offset, built>>
       ELSE /\ built' = {v \in built : v[1] \notin rids}
                        \cup {<<r, rows[r].staged>> : r \in rids}
            /\ offset' = offset + Cardinality(rids)
            /\ UNCHANGED phase
    /\ UNCHANGED <<sqlVars, searchVars, routerVars, writerVars, page>>

SwitchToQueueing ==
    /\ phase = "cutover"
    /\ router' = "Queueing" /\ phase' = "drain"
    /\ UNCHANGED <<sqlVars, searchVars, inflight, writerVars, offset, page, built>>

\* (mutant) the cutover does not wait for the writers inside.
DrainEarly ==
    /\ phase = "drain"
    /\ page' = Texts(Tail) /\ phase' = "tail"
    /\ UNCHANGED <<sqlVars, searchVars, routerVars, writerVars, offset, built>>

\* wait_for_no_sync_writers, then the tail is read: nobody can write now.
Drain ==
    /\ phase = "drain" /\ inflight = 0
    /\ page' = Texts(Tail) /\ phase' = "tail"
    /\ UNCHANGED <<sqlVars, searchVars, routerVars, writerVars, offset, built>>

\* Catch-up: the row is encoded, staged, and inserted over any older vector.
CatchUp(v) ==
    /\ phase = "tail" /\ ConnFree
    /\ rows' = [rows EXCEPT ![v[1]].staged = v[2]]
    /\ built' = {u \in built : u[1] # v[1]} \cup {v}
    /\ page' = page \ {v}
    /\ UNCHANGED <<durable, jobState, searchVars, routerVars, writerVars, phase, offset>>

SwappedRow(row) ==
    IF row.staged = NoText THEN row
    ELSE [row EXCEPT !.vtext = row.staged, !.space = Next1, !.gen = Next1,
                     !.staged = NoText]

\* One savepoint: staged vectors promoted, active_generation bumped.
SqlSwap ==
    /\ phase = "tail" /\ page = {} /\ ConnFree
    /\ rows' = [r \in Rid |-> SwappedRow(rows[r])]
    /\ durable' = Next1 /\ phase' = "publish"
    /\ UNCHANGED <<jobState, searchVars, routerVars, writerVars, offset, page, built>>

\* try_publish_search_state: generation and index change in one store.
PublishState ==
    /\ phase = "publish"
    /\ gen' = Next1
    /\ index' = {<<v[1], v[2], Next1>> : v \in built}
    /\ phase' = "resume" /\ built' = {} /\ offset' = 0
    /\ UNCHANGED <<sqlVars, routerVars, writerVars, page>>

SwitchToNormal ==
    /\ phase = "resume"
    /\ router' = "Normal" /\ phase' = "verify"
    /\ UNCHANGED <<sqlVars, searchVars, inflight, writerVars, offset, page, built>>

\* Verifying only counts stragglers; then the durable job state is cleared.
Verify ==
    /\ phase = "verify" /\ ConnFree
    /\ jobState' = FALSE /\ phase' = "idle"
    /\ UNCHANGED <<rows, durable, searchVars, routerVars, writerVars, offset, page, built>>

GiveUp ==
    /\ phase' = "idle" /\ offset' = 0 /\ page' = {} /\ built' = {}
    /\ UNCHANGED <<sqlVars, searchVars, inflight, writerVars>>

\* An error before the cutover, or after it, returns with the router Normal.
FailOutside ==
    /\ \/ phase \in {"encode", "stage", "rebuild", "cutover"} /\ "encode" \in MayFail
       \/ phase = "verify" /\ "verify" \in MayFail
    /\ GiveUp /\ UNCHANGED router

\* A vector of the wrong length, or a failing statement inside the savepoint:
\* the router is reopened first.
FailReopens ==
    /\ phase = "tail"
    /\ \/ page # {} /\ "length" \in MayFail
       \/ page = {} /\ "swap" \in MayFail
    /\ GiveUp /\ router' = "Normal"

\* Any other error of the catch-up (the query, decrypt, embed, UPDATE, insert)
\* or of opening and releasing the savepoint returns straight out.
FailInTail ==
    /\ phase = "tail" /\ "tail" \in MayFail
    /\ GiveUp /\ UNCHANGED router

-----------------------------------------------------------------------------
\* The process dies and open() recovers: a job that had not swapped loses its
\* staging, the state is rebuilt from SQL at the durable generation.
Reopen ==
    /\ MayCrash
    /\ rows' = IF jobState THEN [r \in Rid |-> [rows[r] EXCEPT !.staged = NoText]]
               ELSE rows
    /\ jobState' = FALSE
    /\ gen' = durable
    /\ index' = {<<r, rows[r].vtext, rows[r].space>> : r \in {x \in Rid : Active(x)}}
    /\ router' = "Normal" /\ inflight' = 0
    /\ pc' = [w \in Writer |-> "idle"] /\ job' = [w \in Writer |-> NoJob]
    /\ phase' = "idle" /\ offset' = 0 /\ page' = {} /\ built' = {}
    /\ UNCHANGED durable

-----------------------------------------------------------------------------
Start(w) ==
    \E r \in Rid : \/ EnterForget(w, r)
                   \/ \E op \in {"record", "correct"}, t \in Text : Embed(w, op, r, t)

Proceed(w) ==
    \/ Enter(w) \/ EmbedAgain(w) \/ Deferred(w)
    \/ Commit(w) \/ Abort(w) \/ Publish(w)

Migrate ==
    \/ EncodeRead \/ StagePage \/ RebuildPage
    \/ SwitchToQueueing \/ Drain \/ (\E v \in page : CatchUp(v))
    \/ SqlSwap \/ PublishState \/ SwitchToNormal \/ Verify
    \/ FailOutside \/ FailReopens \/ FailInTail

Next ==
    \/ \E w \in Writer : Start(w) \/ Proceed(w)
    \/ Begin \/ Migrate \/ Reopen

Spec == Init /\ [][Next]_vars

\* A reembed call and a write that has begun run to their end; nothing makes
\* a write, a job or a crash begin.
FairSpec == Spec /\ WF_vars(Migrate) /\ \A w \in Writer : WF_vars(Proceed(w))

-----------------------------------------------------------------------------
(* Properties *)

\* Every variable has its type, and a running write has its record
\* (ReembedPhase, SearchState, RouterInner).
TypeOK ==
    /\ rows \in [Rid -> Row]
    /\ durable \in Gen /\ gen \in Gen
    /\ jobState \in BOOLEAN
    /\ index \subseteq Rid \X Text \X Gen
    /\ router \in {"Normal", "Queueing"} /\ inflight \in Nat
    /\ pc \in [Writer -> {"idle", "embedded", "inside", "committed"}]
    /\ job \in [Writer -> Job \cup {NoJob}]
    /\ \A w \in Writer : pc[w] # "idle" => job[w] \in Job
    /\ phase \in {"idle", "encode", "stage", "rebuild", "cutover", "drain",
                  "tail", "publish", "resume", "verify"}
    /\ offset \in Nat
    /\ page \subseteq Rid \X Text /\ built \subseteq Rid \X Text

\* The vector stored with a live row encodes that row's own text under the
\* durable generation's embedder, and its generation column says so: a swap
\* promotes no stale staged vector and leaves no straggler behind.
StoredVectorsTrue ==
    \A r \in Rid : Active(r) =>
        /\ rows[r].vtext = rows[r].text
        /\ rows[r].space = durable /\ rows[r].gen = durable
        /\ rows[r].staged \in {NoText, rows[r].text}

\* All vectors of the published index live in the published generation's
\* space (invariant 7 of reembed.rs), however long a writer took to embed.
IndexInOneSpace == \A v \in index : v[3] = gen

Publishing(r) == \E w \in Writer : pc[w] = "committed" /\ job[w].rid = r

\* Every live row is found under its current text, before, during and after
\* a migration, except in the instant its own write is being published.
LiveRowsFound ==
    \A r \in Rid : Active(r) /\ ~Publishing(r) => <<r, rows[r].text, gen>> \in index

\* Between the tail catch-up and the reopening of the router no record or
\* correction is under way: what is about to be published is exactly as new as
\* the rows.  (archive and hydrate ask the router nothing; they are in Tiers.)
CutoverIsQuiet ==
    phase \in {"tail", "publish", "resume"} =>
        /\ \A w \in Writer : pc[w] \notin {"inside", "committed"}
        /\ router = "Queueing" /\ inflight = 0

\* The router does not stay closed: writers are never shut out for ever.
RouterReopens == (router = "Queueing") ~> (router = "Normal")
=============================================================================
