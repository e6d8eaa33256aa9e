# TLA+ models of YantrikDB

Models, model-checking runs and machine-checked proofs about the concurrent and
replicated parts of YantrikDB. Source paths without a prefix are under
`src/crates/yantrikdb-core/src/`. `PROJECT.json` holds the same information in
a form tools can read: the source lines of every definition, the runs, the
mutated definitions each property is known to catch, the findings, the hazards
and the theorems.

1. [The system](#1-the-system)
2. [The modules](#2-the-modules)
3. [The runs](#3-the-runs)
4. [What is proved](#4-what-is-proved)
5. [Findings](#5-findings)
6. [What is not modelled](#6-what-is-not-modelled)
7. [What is left](#7-what-is-left)

To check everything by hand, in this directory:

    tlc -config DeltaIndex_ordered.cfg MCDeltaIndex.tla   # and so on, table in section 3
    tlapm DeltaIndexProofs.tla                            # and so on, table in section 2

## 1. The system

YantrikDB is an embedded memory store: one SQLite file per database, an
in-memory vector index rebuilt from it, an operation log that other databases
pull from, and cognition heuristics over the rows. Many application threads
call one `YantrikDB` object; a compactor and a materializer thread run beside
them. There is one SQLite connection behind a mutex, and several pieces of
shared state that are deliberately not behind it, which is where the difficulty
lies: the vector index, the write router, the logical clock, the sequence
counters, the correction epoch.

### 1.1 Components

| Component | State it keeps | Operations | What makes it correct | Module |
|---|---|---|---|---|
| Vector index, `vector/delta_index.rs` | cold tier (`ArcSwap<HnswIndex>`), delta (`RwLock<Vec<DeltaEntry>>`), the build window, the age clock | `append`, `append_reserved`, `publish`, `remove_appended`, `tombstone`, `compact`, `search_with_windows`, `install_cold` | a map of newest vectors whatever the compactor does; unpublished writes invisible; bounded delta; backpressure ends | `DeltaIndex` |
| Reservation guard, `engine/reservation.rs` | Reserved / Committed | `mark_committed`, `publish_all`, drop | each reserved entry is published or taken back | `DeltaIndex` |
| Write path, `engine/record.rs`, `engine/mod.rs` | rows, log, claims (one transaction) | `record_text`, `record`, `record_with_rid`, `record_batch`, the queued route | a row, its vector and its cache entry agree; an accepted write is never lost; a keyed write happens once | `WriteQueue`, `Recall`, `DeltaIndex`, `Reembed` |
| Idempotency claims, `engine/idempotency.rs` | table `idempotency_claims` | probe, claim, replay | one winner per key, over both routes | `WriteQueue` |
| Log and pending queue, `engine/stats.rs` | table `oplog`, `pending_op_count`, `vec_seq`, `visible_seq` | `log_op`, `log_op_pending`, `assign_seq`, `apply_pending_ops_once`, `mark_op_applied`, `wait_for_visible_seq` | the counter is exact; every op is applied, its effects once; a waiter returns | `WriteQueue`, `Recall` |
| Background threads, `engine/materializer.rs` | - | compactor loop (250 ms), `worker_loop` | triggers and queues are served | `DeltaIndex`, `WriteQueue` |
| Lifecycle, `engine/lifecycle.rs` | rows, revisions, the correction epoch | `get`, `forget`, `correct`, replicated `correct` | a forgotten memory does not come back; a recall sees a correction whole or not at all | `Recall`, `Reembed`, `Sync`, `Tiers` |
| Recall, `engine/recall.rs` | - | `recall_with_limits`, `recall_with_seq` | one version per record of an answer; read your writes; it returns | `Recall` |
| Scoring cache, `engine/mod.rs`, `engine/cache.rs` | scalars of every live record | insert, update, remove, load at open | has every live record, no forgotten one | `Recall`, `WriteQueue`, `Tiers` |
| Embedder migration, `engine/reembed.rs` | staging columns, `meta.reembed_state`, `meta.active_generation`, the published `SearchState` | `reembed_with_embedder`, recovery in `open()` | vectors, texts and embedder of a generation never mix; nothing is lost | `Reembed` |
| Write router, `engine/write_router.rs` | Normal / Queueing, guards in flight | `try_enter_sync_writer`, `switch_to_queueing`, `switch_to_normal`, `wait_for_no_sync_writers` | nobody is inside while the cutover runs; it opens again | `Reembed` |
| Archive and hydrate, `engine/storage.rs` | tier and blob format of a row | `archive`, `hydrate`, `evict` | a hot row is in the index, a cold one is not | `Tiers` |
| Index rebuild, `engine/indices.rs` | - | `build_vec_index`, `rebuild_vec_index` | the new cold tier lacks nothing and is of the published space | `Tiers` |
| Hybrid logical clock, `base/hlc.rs` | last timestamp | `now`, `recv` | new timestamps are later than all seen | `Sync` |
| Replication, `distributed/replication.rs` | table `sync_peers` | `extract_ops_since`, `apply_ops`, the `materialize_*` functions | no op is skipped; equal logs mean equal rows | `Sync` |
| Pairwise sync, `distributed/sync.rs` | - | `sync_bidirectional` | the nodes converge | `Sync` |
| Entity graph calls, `engine/graph_ops.rs` | edge rows (`claims`) | `relate` | the newest write of an edge wins | `Sync` |

The rest: conflict rules (`distributed/conflict.rs`), links, moves and
cognitive state (`engine/links.rs`, `moves.rs`, `graph_state.rs`), sessions and
tasks, HNSW and kernels (`vector/`), scoring, learning, the knowledge graph,
warrants, 46 files of cognition heuristics, packs, encryption, schema
migrations, embedders, the Python bindings, the agent and the HTTP sync
transport. Section 6 says why they are left out.

### 1.2 How they interact

- A **write** embeds its text with no lock held, enters the router, reserves a
  slot in the delta, commits row and log op in one transaction, publishes the
  slot, leaves the router. A failed transaction takes the slot back.
- The **compactor** clones the published delta entries, builds a new cold tier
  from them with no lock held, swaps it in, then removes exactly what it merged.
- A **search** loads the cold tier and then reads the delta: two steps.
- A **migration** stages a new vector per row page by page while writers run,
  builds a new index page by page, closes the router, waits for the writers
  inside, catches up, swaps the columns in one transaction, publishes the new
  search state and opens the router.
- While the router is closed, a write is **queued**: a pending op in the log is
  its only durable record. A materializer thread reads the oldest pending ops,
  applies each (row, vector, cache, an op that owes the record its entities) and
  marks it applied. A synchronous write leaves the second kind of op too. Both
  routes share the pending counter that refuses writes at its ceiling, and the
  claim of an idempotency key inside the write's transaction.
- A **recall** reads the index, then the scoring cache, then the rows, at three
  moments; a correction changes the three under an epoch that is odd while it
  does, and a recall whose epoch moved tries again. `recall_with_seq` first
  waits until `visible_seq` has reached the number of a write.
- **archive** and **hydrate** change a row, release the connection, take a
  number and only then change the index; **rebuild** reads the rows, releases
  the connection and replaces the cold tier, as a compaction does and as a
  migration replaces the whole index.
- A **sync** extracts the peer's log past a watermark, applies the ops one by
  one (each in two transactions: side effects, then the log), stores the
  watermark. The clock merges the timestamp of every op applied.

### 1.3 What is hard

The list, each at its line with the properties that cover it, is "hazards" in
`PROJECT.json`. In short: steps of writers, compactor, searches and a migration
in orders no test produces; SQL state read and used after the connection was
released (paging, embedding, rebuilding); a crash between the SQL half and the
in-memory half of an operation; one of many fallible steps failing with the
router closed; timestamps taken before the lock that orders the writes; ops
that reach a node out of order, twice, or after a restart that reset its clock;
ops applied by two workers, or again after a crash; a delta or a pending queue
at its limit; a watermark raised past a write that is not finished.

## 2. The modules

| Module | Models | Source |
|---|---|---|
| `DeltaIndex` | the two-tier vector index, its callers, compactor and searches | `vector/delta_index.rs`, `engine/reservation.rs`, `engine/materializer.rs:305` |
| `VectorMap` | the abstract index: a map of newest vectors and the calls that have had no effect yet | what `DeltaIndex` promises |
| `Reembed` | the embedder migration, the write router, record / correct / forget beside it, crash and `open()` | `engine/reembed.rs`, `engine/write_router.rs`, parts of `engine/mod.rs`, `engine/lifecycle.rs` |
| `AtomicMemory` | the abstract store: memories that change, and answers that are read, in one step | what `Recall` promises |
| `WriteLedger` | the abstract write path: accepted once per key, never back, never lost | what `WriteQueue` promises |
| `WriteQueue` | the pending queue, the synchronous and the queued route of a record, claims, the worker threads, forget beside them, crash | `engine/record.rs`, `engine/stats.rs`, `engine/idempotency.rs`, `engine/materializer.rs` |
| `Recall` | the correction epoch, the reads of a recall, the read-your-writes wait, the order in which each kind of write changes index, cache and watermark | `engine/recall.rs`, `engine/lifecycle.rs`, `engine/record.rs`, `engine/stats.rs` |
| `Tiers` | archive, hydrate and forget against compaction, rebuild, cutover and reopening | `engine/storage.rs`, `engine/indices.rs` |
| `Sync` | hybrid clock, operation log, record / correct / relate / forget, pull, restart | `base/hlc.rs`, `distributed/replication.rs`, `distributed/sync.rs`, `engine/graph_ops.rs`, `engine/lifecycle.rs` |
| `MCDeltaIndex`, `MCReembed`, `MCWriteQueue`, `MCRecall`, `MCTiers`, `MCSync` | model values and symmetry sets for TLC | - |
| `DeltaIndexProofs`, `ReembedProofs`, `WriteQueueProofs`, `RecallProofs`, `TiersProofs`, `SyncProofs`, `SyncMeshProofs`, `SyncPairProofs` | the theorems (section 4) | - |

The modules divide the engine by its shared state, not by its files: each
concurrent step of a call belongs to the module that has the state it races
for, and the others take that step as one. The index of `DeltaIndex` is a
number and a vector per record in `Recall` and `Tiers`, a set of records in
`WriteQueue`; the phases of `Reembed` are five actions in `WriteQueue` and two
in `Tiers`; forget, which touches everything, is in all of them.

A definition marked `\* (mutant)` is not part of the model: it is the code with
a plausible bug in it, kept beside the definition it would replace. Swapping it
in makes the property named in `PROJECT.json` fail under the same configuration.

### 2.1 DeltaIndex

State and code: `cold` is `cold`, `delta` is `delta`, `compacting` is
`compacting`, `dirty` says whether `oldest_dirty_at` holds a value, `vecSeq` is
the engine's counter, `committed` are the writes whose transaction committed.
`pc`/`call` are the engine threads between their numbered steps, `stage` and
`sealed` the compactor inside `compact()`, `rstate`/`rcold` the searches.

A write is `TakeSeq`, `Append` (or `AlreadyPresent`, or `Refused` with
backpressure), `Stamp` when the delta was empty (the clock is stamped after
the delta lock is released), `Commit` or `RemoveAppended`, `Publish`,
`Restamp`. A delete is `TakeSeq` and `TombstoneInPlace` or `TombstoneMarker`.
`Redeliver` is `record_with_rid` replaying a durable write under its number.
The compactor is `Snapshot`, `Install` or `Abandon`, `Retire`. A search is
`LoadCold`, `ReadDelta`.

Abstractions. A vector is the number of the write that brought it. The cold
graph is the set of its live vectors (approximate ranking is not a matter of
interleavings). The delta is a set, not a `Vec`: the order only decides which
of several eligible entries a tombstone rewrites, and the model allows any. A
write's chunk windows share its number and are written with it, so they are
further rids. `Ordered` is an assumption about callers, not about the index:
TRUE means that the writes of one rid reach the index one after the other. The
engine guarantees this between two `record`s (they hold the connection) and not
between a `forget`, which takes its number after it released the connection,
and a write; so the map property is stated under `Ordered`, and everything
else without it.

`ImplementsMap` is the refinement: `Found(cold, delta)`, what a search would
return now, is the map's `served`, and the calls that have had no effect yet
(`Unseen`: a write up to its publish or rollback, a delete up to its tombstone)
are its `pending`. In `VectorMap` the content of the map changes only in a step
that takes a call out of `pending`, only for that call's rid, and only as that
call asks: a publish shows one vector, a delete hides one rid, and for neither
may the map hold anything as new. So no step of the compactor, the clock, a
replay or a refused write is visible at all; a build that lost a live vector
would be a change that no call asked for (`InstallNothing` is that build).

### 2.2 Reembed

`rows` is the `memories` table with the columns a migration uses; a vector is
the pair of the text it encodes and the generation of the embedder that encoded
it, so that "the wrong vector" is expressible. `durable` and `jobState` are the
`meta` rows, `gen` and `index` the published `SearchState`, `router` and
`inflight` the write router. `phase`, `offset`, `page`, `built` are the local
variables of the running `reembed_with_embedder`.

`Embed`, `Enter`, `EmbedAgain`, `Deferred`, `EnterForget`, `Commit`, `Abort`,
`Publish` are the writers; the connection (`ConnFree`) is held by record and
correct from the transaction to the publish, and by forget only for its
transaction. `Begin` to `Verify` are the phases, one action per transaction or
page. `FailOutside`, `FailReopens`, `FailInTail` are the error exits, told apart
by what they do to the router; the constant `MayFail` says which may be taken.
`Reopen` is a crash at any step followed by `open()`: it clears a job's staging
and rebuilds the index from SQL at the durable generation.

### 2.3 Sync

`clock` is `HLC::latest` of each open database, `wall` its wall clock, `oplog`,
`edges`, `mem`, `text`, `history` and `mark` the tables `oplog`, `claims`,
`memories` (status and content), `record_revisions` and `sync_peers`. A
timestamp is the triple <<millis, logical, node>> compared as the big-endian
bytes are. `Now` and `Recv` are `HLC::now` and `HLC::recv` branch by branch.

`record` takes its timestamp before it locks the connection (`StartRecord`) and
writes row and op in one transaction (`CommitRecord`). `relate` is four steps:
`StartRelate`, `Upsert`, `StampOp`, `LogOp`. `forget` is one transaction, and so
is `correct` (`Correct`): the prior text goes to the history under the next
revision number, the new one replaces it, the op carries both.

A pull is `StartPull` (watermark and extraction), then for each op `SkipKnown`
or `Materialize` and `LogApplied`, which are two transactions in the code, and
`Acknowledge`. `Restart` cuts a pull anywhere; the clock starts from zero.

Assumptions of the environment, as constants:
- `Serialized`: a node runs one call or pull at a time. This is not what the
  code guarantees: the engine takes calls from any thread, `record` and `relate`
  take their timestamps before they lock the connection, and only some comments
  rely on serial calls ("local calls are serialized"). Three properties need it,
  `EdgesMoveForward`, `Converges` and the claim `NothingSkipped`: with
  `Serialized = FALSE` each of them fails (the run `sync_race`, section 5). They
  say what holds of a host that serializes its calls. `TombstonesStay`
  holds without it, by theorem.
- `SlowRestart`: when a node comes back its wall clock has passed every
  timestamp it had seen. Nothing in `open()` reads the clock back from the log,
  so this is what the code relies on; NTP keeps it true, a peer whose clock is
  far ahead does not.
- `MaxSkew`: how far wall clocks may be apart. It is a bound of the model; the
  clock's logic does not depend on it.
- `Corrector`: the nodes whose applications correct memories. With one of them
  texts and histories follow the log; section 5 says what two do.

`Materialize` of a correction is `Corrected`: an active row takes the op's text
whatever it had, and the revision is inserted unless its number is taken; an
absent or tombstoned row takes nothing. `Deferred` is a correction the replica
refuses (its router is closed, or no embedder matches): the pull ends there and
the op waits for the next one. It is counted with the restarts.

Abstractions. A memory is named by the number its record minted, and its
content by the id of the record or correction that wrote it; a revision is its
number and the content it replaced; an edge row is the timestamp of the write it
holds. Reading the watermark and extracting are one step: one pull runs at a time on a node, so
nobody else writes the watermark in between, and an op logged in between is
extracted or waits for the next pull, as it would anyway. The two halves of
`sync_bidirectional` are two pulls, in any order.

### 2.4 WriteQueue

`rows`, `claims`, `pending`, `links`, `mark` are the tables `memories`,
`idempotency_claims`, `oplog` (rows with `applied = 0`), `memory_entities` and
`meta.reembed_state`; `count` is `pending_op_count`; `index`, `cache`, `graph`
what memory has. `mentions` counts the entity counter of a record, `written` is
the key under which a caller got its id back.

A record is `Begin` (the unlocked probe of the claim, then the router lets it
in or sends it to the queue) and `SyncCommit` or `QueuedCommit`, `Refused` or
`CommitFails`: under the connection the claim is probed again and the counter
read again, then one transaction. Forget is `ForgetTx`, `ForgetIndex`,
`ForgetMemory`. A worker's pass is `Fetch` (the oldest `Batch` ops) and then op
by op: a queued record is `Defer`red while a migration is marked, or `Load`,
`InsertRow`, `Append`, `CacheInsert`, `EnqueuePost`, `MarkApplied`, with
`EnqueueRefused` when its own post-op finds the queue full; a post-op is
`LinkEntities`, `LinkGraph`, `MarkApplied`. `ApplyFails` is an error at any of
these, `Reopen` a crash anywhere. The migration is what it is to these threads:
marked, closed, drained, published, opened, unmarked, or failed with its mark
left (`MigFails`).

Abstractions. An op's timestamp is its number in the order of insertion; the
code takes it shortly before. Every record has
one entity; the heuristic and the known-entity inserts of the post-op are one.
Taking a number and appending to the index are one step (`DeltaIndex` has
both), so are the swap and the publish of a migration (`Reembed` has both), and
the reading of the mark and the snapshot of the search state. The errors of a
migration that leave the router closed are in `Reembed`. Left out: the post-op
of `record_with_rid` and the drain that `think` runs itself, a worker like any
other.

`ImplementsLedger` is the refinement. `Stage(r)` reads off the tables and the
queue how far the write of `r` has come: free, queued (its op is its only
record), owing (a row whose entities an op owes), complete, forgotten; anything
else is `"lost"`, which the ledger does not know. A key's owner is its claim.
Seen so, a call, a worker's pass, a migration, an error or a crash is one step of
the ledger or none.

### 2.5 Recall

`row` has the versions of a record's text and scalars, `vec` the number and the
text version of the vector a search would find, `cached` the version in the
scoring cache; `mark` is `visible_seq`, `epoch` `correction_epoch`, `conn` the
mutex of the connection. Everything has the sequence number of the write that
made it, so "mixed versions" is expressible.

A write is `Begin` and the steps `Then` lists for its kind, which differ in
order: `record` and `correct` raise the watermark last, `record_batch` and
`record_with_rid` before the cache, a replicated or scalar correction not at
all. `BeginAgain` is the cluster's log delivering a `record_with_rid` again
under its number; once per record is a bound, and `Reordered` says whether it
may come after the record was corrected. Forget is `Forget`, `Bury`, the
watermark, `Uncache`, and holds the connection for the first only. `Compact`
takes the number off an entry, as moving it to the cold tier does.

A recall is `Enter` at an even epoch (or `SpinsOut`), `Search`, `Score`,
`Hydrate`, and `Validate` or `Retry` up to `MaxAttempts`. Before it,
`recall_with_seq` is `Check` without and under the mutex, `Park` and `asleep`
until `Notify` or `TimesOut`: a notification between the second check and the
wait is lost, as in the code.

Abstraction: the other lanes (full text, claims, graph, fallback) are left out;
they admit further records inside the same epoch span, only if the cache has
them.

`AnswersAreAtomic` is the refinement: the rows are the memory, and an attempt of
a recall shows nothing until `Validate`, which is the one step in which the
abstract store is read. The index, the cache, the epoch, the retries and the
compactor have no counterpart in `AtomicMemory`.

### 2.6 Tiers

`row` has status, tier, the format of the blob (`packed`) and the vector;
`delta` and `cold` are the tiers of the index with the winning entry per record;
`merge` is a compaction being built, `rebuild` what a rebuild has read. `archive`,
`hydrate` and `forget` are `ArchiveTx`, `HydrateTx` or `ForgetTx`, then `Mint`
and `Land` with the connection released, and `Uncache` for forget.
`LandRefused` is a full delta; since the delta is only its winners here, it is
nondeterministic. `Record` and `Correct` hold the connection to the end and are
one step each; `Reopen` is a crash. `evict` is a run of archives over a list read
earlier, so the interleavings of archives are its own. Chunk windows follow
their parent and are left out.

A cutover is two steps with anything between them that asks the router nothing.
`SwapCommit` is the transaction that moves the rows to the next space
(`engine/reembed.rs:1323-1388`); the index it will publish (`cutover`) was built
before, so it may have a record forgotten since, and may lack any record that
the OFFSET pages of the rebuild skipped (`engine/reembed.rs:1137`). `Publish` is
the new `SearchState` and the reopened router. Between the two, and around
them, archive and hydrate go on: they take no guard. Record, correct, forget and
the install of a rebuild do (`RouterOpen`).

`Serial` is an assumption about the host: at most one of these operations runs
per record. Two history variables name the records a known gap of the code has
reached. `strayed`: a hydrate put back a vector of another space than the one
published (a cutover came between its read and its append). `exposed`: a
hydrate was refused; a rebuild overwrote what a compaction had installed since;
an archive ended between swap and publish, in the index that was then dropped;
the pages of a cutover's rebuild skipped the record. A restart empties both,
since it builds the index anew. The properties exempt exactly these records;
section 5 describes the five gaps.

## 3. The runs

Nine runs check properties the code keeps, three a statement of a comment it
does not keep. Times are of two workers.

| Run | Configuration, module | Instance | States, time | Checks |
|---|---|---|---|---|
| `index_map` | `DeltaIndex_ordered.cfg`, `MCDeltaIndex` | 2 rids, 2 callers, capacity 1, 4 numbers, ordered writes, no failing build | 242,445, 30 s | `TypeOK`, `VectorsBounded`, `ImplementsMap`, `BackpressureClears` |
| `index_search` | `DeltaIndex_free.cfg`, `MCDeltaIndex` | 2 rids, 2 callers, 1 search, capacity 2, 3 numbers, failing builds, replays | 404,821, 10 s | `SearchIsCurrent`, `FoundIsDurable`, `WindowIsHonest` |
| `reembed_onepage` | `Reembed_onepage.cfg`, `MCReembed` | 2 rids, 2 texts, 2 writers, page of 2, 1 migration, crashes, every failure but the tail's | 240,000, 20 s | `TypeOK`, `LiveRowsFound`, `CutoverIsQuiet`, `RouterReopens` |
| `reembed_paged` | `Reembed_paged.cfg`, `MCReembed` | the same with pages of 1, 2 migrations, every failure | 237,000, 5 s | `StoredVectorsTrue`, `IndexInOneSpace` |
| `queue_writers` | `queue_writers.cfg`, `MCWriteQueue` | 2 records, 1 key, 2 callers, 1 worker, batch of 2, ceiling 2, 1 migration, 4 ops, 1 fault | 2,248,020, 80 s | `TypeOK`, `QueueBounded`, `AcceptedIsKept`, `EntitiesOwed`, `ImplementsLedger`, `GoneForGood` |
| `queue_workers` | `queue_workers.cfg`, `MCWriteQueue` | 1 record, 1 caller, 2 workers, named and unnamed embedders, otherwise as above | 236,315, 24 s | `CountIsExact`, `MentionsCountedOnce`, `SettledIsComplete`, `QueueDrains` |
| `recall_read` | `recall_read.cfg`, `MCRecall` | 2 records, 2 writers of every kind, 1 recall, 2 attempts, 3 numbers | 924,287, 120 s | `TypeOK`, `NoStaleCorrection`, `SettledIsCoherent`, `ForgottenIsOut`, `AnswersAreAtomic`, `RecallReturns` |
| `tiers` | `tiers.cfg`, `MCTiers` | 2 records, 2 callers, one operation per record, 4 numbers, 1 cutover | 5,118,767, 120 s | `TypeOK`, `IndexFollowsTier`, `OneSpace`, `ForgottenIsHidden` |
| `sync_pair` | `Sync_pair.cfg`, `MCSync` | 2 nodes, 2 callers, 1 edge, 3 ops, one node correcting, skew 1, extractions of 1 op, 1 restart or refused correction | 546,451, 49 s | `TypeOK`, `TombstonesStay`, `RowsFollowLog`, `CorrectionsFollowLog`, `EdgesMoveForward`, `Converges` |
| `queue_wedge` | `queue_wedge.cfg`, `MCWriteQueue` | 2 records, 1 caller, 1 worker, ceiling 2, no fault | 29,123 | violates `QueuedRecordsDrain` |
| `recall_early` | `recall_early.cfg`, `MCRecall` | 1 batch, 1 recall | - | violates `ReadYourWrites` |
| `sync_race` | `Sync_race.cfg`, `MCSync` | 2 nodes, 2 callers on any nodes, calls not serialized, equal wall clocks, 2 ops, no restart | - | violates `NothingSkipped` |

### 3.1 What the properties say

Index:
- `ImplementsMap`: the refinement of section 2.1: what a search would find
  changes when a call takes effect, once and as it asks, and at no other step.
- `SearchIsCurrent`: the two loads of a search are as good as one, unless a
  whole install *and* retire passed between them (section 5 describes that case).
- `FoundIsDurable`: no search returns a write that was not committed.
- `WindowIsHonest`, `VectorsBounded`: the admission arithmetic. While a build is
  running a full delta may be filled once more; never twice more, with builds
  that do not fail. (After failing builds the bound does not hold and is not
  claimed: an abandoned window makes its entries count again, above the limit.)
- `BackpressureClears`: a full delta becomes writable again.

Migration:
- `StoredVectorsTrue`: the stored vector of a live row encodes its own text
  under the durable generation's embedder. `IndexInOneSpace`: the published
  index has vectors of the published generation only. Both for pages of any
  size, any failure, crashes, and a writer so slow that a migration passes while
  it embeds.
- `LiveRowsFound`: a live row is in the index under its current text at every
  moment, except while its own write is being published. It needs a rebuild that
  reads the rows in one page (section 5).
- `CutoverIsQuiet`: from the reading of the tail to the reopening of the router
  no record or correction is under way (archive and hydrate ask the router
  nothing and may well be: `Tiers`). `RouterReopens`: a closed router opens again, when none
  of the tail's early returns is taken (section 5).

Queue:
- `CountIsExact`, `QueueBounded`: the cached counter is the number of pending
  ops with any number of workers racing to mark one op, and however many
  writers read it at once the queue stays within its ceiling.
- `ImplementsLedger`: the refinement of section 2.4. Over retries, both routes, a
  closing router, errors, racing workers, crashes and forgets: one write per key,
  and each write goes from queued to owing to complete, or is forgotten once it
  is a row; it takes none of these steps twice or backwards and is never lost.
- `AcceptedIsKept`: a write whose caller has its id is a row or still queued.
  `EntitiesOwed`, `SettledIsComplete`: a live record has its entities or an op
  that owes them, and when nothing is owed it is in the cache,
  `memory_entities` and the graph. `MentionsCountedOnce`: an op run twice counts
  once.
- `GoneForGood`: a forgotten record that nothing works on any more never comes
  back.
- `QueueDrains`: every op leaves the queue, if the system is again and again
  out of two states: a migration marked, and `Wedged`, the state `queue_wedge`
  reaches.

Recall:
- `AnswersAreAtomic`: the refinement of section 2.5. The vector, the scalars and
  the text of a hit are of one version, and all hits of an answer are the rows of
  one moment, whatever corrections and forgets ran meanwhile.
- `NoStaleCorrection`: a recall that waited for a correction's number does not
  answer with the text it replaced, although `visible_seq` is a high-water mark
  that a later write may have raised past it.
- `SettledIsCoherent`, `ForgottenIsOut`: with no write on it, a live record has
  the vector of its text and its own scalars, and a forgotten one is out of
  index and cache, whatever numbers the writes took and in which order they
  landed.
- `RecallReturns`: through lost notifications and discarded attempts.

Tiers:
- `IndexFollowsTier`: with no call on it a hot record is found by the vector of
  its row and an archived one is not found, but for the five named gaps. It says
  that nothing else goes wrong, not that the gaps do not.
- `OneSpace`: no rebuild or compaction mixes vectors of two embedders in the
  index; a hydrate that `strayed` does. `ForgottenIsHidden`: a forgotten record
  may enter the index again (hydrate does not look at the status, and a cutover
  publishes an index built before); the cache never has it.

Replication:
- `TombstonesStay`: a memory a node has tombstoned never becomes active there
  again, although its record may be materialized, cut off before it is logged,
  forgotten, and materialized once more. It says nothing of a forget that
  arrives before its record (section 5).
- `NothingSkipped`, the claim `sync_race` refutes: whatever is at or before a
  watermark was pulled.
- `RowsFollowLog`: the rows of a node at rest are those its log alone
  determines, so that equal logs mean equal rows.
- `CorrectionsFollowLog`: a live memory has a text its log knows, no logged
  correction is newer than it, and every other text is in the history.
- `EdgesMoveForward`: no edge row is replaced by an older write.
- `Converges`: when writing stops the nodes end up equal.

### 3.2 Bounds

- Numbers, ops, generations, restarts, faults and wall clock readings are
  counters, cut by `MaxSeq`, `MaxOps`, `MaxGen`, `MaxStops`, `MaxFaults`,
  `MaxClock`, `MaxWall` in the guards. Each is large enough for the case the
  property is about: four sequence numbers let a capacity-1 delta fill, be
  sealed, fill again and receive a delete during the build; two generations let
  a writer embed in one, sleep through a migration and land in the next; three
  ops let a row be written, overwritten or corrected, and forgotten, with one op
  per extraction so that a pull is cut between any two; one restart cuts a pull
  between its two transactions or repeats an unacknowledged batch; four pending
  ops are two queued records and the post-op of each, twice the ceiling; three
  numbers let a record be written, corrected and forgotten under a recall that
  waited for any of them; four let a record be written, archived, hydrated and
  corrected while a compaction and a rebuild are in flight.
- Two rids, two writers or callers: the races are between two actors about one
  row, and a second row shows what may not be disturbed (and makes two pages of
  one, and two heads of a batch). Two workers need only one record: they race
  for its op.
- A ceiling equal to the batch is the smallest at which an op waits behind a
  whole batch; the capacity of 1 the smallest the index allows. The compactor's
  threshold is `delta_max / 2`, so it is 0 there and 1 in `index_search`: an
  empty snapshot ends a build at once.
- `MayMiss` (callers forget writes that are still queued) is FALSE in the runs:
  such a forget finds no row and returns false, and the row appears later.
- Record ids of `Reembed` are ordered (`ORDER BY rid`) and node ids of `Sync`
  too (ties of timestamps), so only texts, writers, callers, workers and the
  other modules' rids are symmetric; runs with liveness or refinement use no
  symmetry.
- The proofs of section 4 do not depend on any of these bounds.

### 3.3 Deadlock

`index_search` is checked for deadlock: a search can always start. The other
instances really stop: bounded counters are used up and the compactor, the job,
the queue or the nodes have nothing left to do, so they say
`CHECK_DEADLOCK FALSE`. What must not stop there is stated as a liveness
property where the code promises it.

### 3.4 Fairness

- `DeltaIndex`: the compactor thread polls every 250 ms
  (`engine/materializer.rs:212`) and its loop is one weakly fair action; a call
  that has taken its number runs to its end. No call or search is made to start.
- `Reembed`: a reembed call and a write that has begun run to their end (they
  are straight-line code of one thread). The wait for the writers inside is a
  guard of `Drain`; it is met because those writers are fair.
- `WriteQueue`: the worker threads loop for ever, and a migration that began
  runs on.
- `Recall`: threads inside a write or a recall run on; the wait has a time limit,
  so a sleeping recall always has a step.
- `Sync`: calls and pulls run to their end, and the application keeps syncing
  every ordered pair of nodes: `sync_bidirectional` is called by the
  application, and convergence is only promised to one that does.
- No strong fairness anywhere.

## 4. What is proved

Every invariant, action property and refinement that a passing run checks is a theorem, for all values of the
constants that satisfy the module's assumption (`ConstantsAssumption`,
`SyncAssumption`: bounds are numbers, switches are Booleans, node ids are
positive, the sets a count is taken of are finite) and whatever more the table
names. The bounds of TLC's instances are constants too, so the theorems hold for
every bound.

| Theorems | State | Assumed |
|---|---|---|
| `TypeCorrect`, `SealedEntriesStay`, `SearchIsAtomic`, `OnlyDurableServed`, `WindowStaysHonest` | `TypeOK`, `SealedStillInDelta`, `SearchIsCurrent`, `FoundIsDurable`, `WindowIsHonest` | - |
| `DeltaStaysBounded` | `VectorsBounded` | builds do not fail |
| `FullDeltaIsCompactable` | `ReservationsOwned`, `FullIsCompactable`: a full delta nobody writes to is one the compactor can empty | - |
| `IndexIsAMap` | `ImplementsMap` | `Ordered` |
| `MigrationTypeCorrect`, `MigrationKeepsVectorsTrue`, `MigrationKeepsOneSpace`, `MigrationCutoverIsQuiet` | `TypeOK`, `StoredVectorsTrue`, `IndexInOneSpace`, `CutoverIsQuiet` | - |
| `OnePageLosesNothing` | `LiveRowsFound` | no more records than a page holds |
| `ClosedRouterIsOwned` | `ClosedRouterHasOwner`: a closed router has a cutover that will open it | no bare return from the tail (`"tail"` not in `MayFail`) |
| `QueueTypeCorrect`, `CounterIsExact`, `QueueStaysBounded`, `KeysAreUnique`, `ForgottenStaysGone` | `TypeOK`, `CountIsExact`, `QueueBounded`, `OneWritePerKey`, `GoneForGood` | - |
| `AcceptedWritesAreKept`, `EntitiesAreOwed`, `MentionsOnce`, `SettledRecordsAreComplete` | `AcceptedIsKept`, `EntitiesOwed`, `MentionsCountedOnce`, `SettledIsComplete` | embedders have a name |
| `WritesAreLedgered` | `ImplementsLedger` | embedders have a name |
| `RecallIsAtomic`, `AnswersAreWhole` | `AnswersAreAtomic`, `WhollyOldOrNew` | `~Reordered` |
| `RecallTypeCorrect`, `WaitedRecallsAreNew`, `SettledRecordsAgree`, `ForgottenRecordsAreOut` | `TypeOK`, `NoStaleCorrection`, `SettledIsCoherent`, `ForgottenIsOut` | `~Reordered` |
| `TierTypeCorrect`, `IndexIsOfOneSpace`, `ForgottenStaysHidden` | `TypeOK`, `OneSpace`, `ForgottenIsHidden` | - |
| `IndexFollowsTheTier` | `IndexFollowsTier` | `Serial` |
| `SyncTypeCorrect` | `TypeOK` | - |
| `MeshTombstonesStay` | `TombstonesStay`: any number of nodes | `SlowRestart` |
| `MeshForgetsArrive` | `OwnForgetsArrive`: no forget or correction enters its node's log behind a peer's watermark; any number of nodes | `SlowRestart` |
| `SerialEdgesMoveForward` | `EdgesMoveForward` | `Serialized`, `SlowRestart` |
| `MeshStampsUnique`, `MeshWritesAreLater`, `MeshCaughtUpNodesAgree` | `OneStampOneOp`, `WritesAreLater`, `CaughtUpNodesAgree`: any number of nodes | those |
| `PairTombstonesWin`, `PairRowsFollowLog`, `PairAgreesAtRest` | `TombstoneWins`, `RowsFollowLog`, `CaughtUpPairAgrees` | those, and at most two nodes |
| `PairCorrectionsFollowLog`, `PairTextsAgreeAtRest` | `CorrectionsFollowLog`, `CaughtUpTextsAgree` | those, and one correcting node |

A property that only a theorem states (`SealedStillInDelta`, `ReservationsOwned`,
`FullIsCompactable`, `ClosedRouterHasOwner`, `OneWritePerKey`, `WhollyOldOrNew`,
`OwnForgetsArrive`, `TombstoneWins`, and those of the mesh and of nodes at rest)
is defined and explained next to it.
Four of them are the safety half of a liveness property: what would have to be
false for `BackpressureClears`, `RouterReopens` and `Converges` to fail for a
reason other than a thread that stops (`FullDeltaIsCompactable`,
`ClosedRouterIsOwned`, `MeshCaughtUpNodesAgree`, `PairAgreesAtRest`).

**`DeltaIndexProofs`**
- `SealedInv`: an entry leaves the delta by a rollback or by a tombstone that
  rewrites it. The first takes the caller's own reservation, so no two running
  calls share a number (`CallsDistinct`) and a call that may still roll back
  owns an unpublished entry (`ReservedHidden`); a snapshot has published entries
  only. So what a build merged is in the delta until its retire.
- `SearchInv`: the tier a search loaded differs from the current one at most on
  the rids the sealed entries decide, and the delta still decides those.
- `DurableInv`: what is published, sealed or cold is committed.
- `WindowInv`: the window is the number of sealed entries, and the published
  part of the delta has at least as many. `BoundInv` splits the delta into what
  a window covers and what it does not: each part is at most the capacity.
- `MapInv`, under `Ordered`: a number names one entry (`OneEntryPerNumber`), a
  call under way is newer than everything the index has of its rid
  (`CallIsNewest`), what became visible during a build is newer than the build
  (`LaterIsNewer`), and after an install the cold tier has the winners the delta
  showed (`InstalledTier`). Each step of the index is then a step of
  `VectorMap`, in which a call takes effect, or leaves the map alone, as every
  step of the compactor does: the refinement.
- `ReservationsOwned`: an entry that is not published belongs to a call that will
  publish it or take it back. So a delta that refuses writes while no call runs
  has published entries only, and with the window at zero there are more of them
  than the compactor's threshold.

**`ReembedProofs`**
- `MigrationInv`: the router's count is the number of writers inside, and it is
  zero from the reading of the tail on (`Guarded`); the durable generation is
  the published one except between swap and publish, and who is inside writes in
  the published generation (`Generations`); once the tail is read, a live row is
  staged or waits in the page under the text it still has (`TailKnown`). It is
  what makes the swap leave no straggler. For pages of any size, any failure.
- `FoundInv`, when one page holds every record: the index being built has every
  row that is staged, and the rows that came since are in the tail
  (`BuiltCovers`); the page cannot be skipped, which is where a second page
  would break it.
- `ClosedByCutover`: the router is closed in the four phases of a cutover only.
  With `Guarded`, a drain that waits has a writer inside to wait for, and either
  that one or the one that holds the connection can move.

**`WriteQueueProofs`**
- `QueueInv`: the router counts the guards its callers hold, and the counter is
  the number of pending ops because every new op is younger than all pending
  ones and only the worker that takes an op out lowers it.
- `LedgerInv`, `OpsOwned`: a claim belongs to the write that carried it, every op
  wherever it waits is about an accepted write, a row goes from absent to live
  to tombstoned and no other way.
- `KeptInv`, for named embedders: what a worker in the middle of an op has done
  (`Done`), for each step, and what a live record still lacks and which op owes
  it (`Owed`). `Named = {TRUE}` is needed: section 5.
- `WriteInv` is their conjunction with `LinksCounted` (links belong to rows, a
  live record's are its one mention). Under it no write's stage is `"lost"`
  (`Staged`), and every step that changes a stage or a claim is a step of
  `WriteLedger`; all others, among them every step of the migration and
  `Reopen`, leave both alone: the refinement.

**`RecallProofs`**
- `StoreInv`: every write but the tail of a forget is under the connection and
  the epoch is odd exactly while a correction has it (`OneWriter`); numbers are
  fresh for the record they are for (`Numbers`); a record whose vector or
  scalars are not its row's has a write that still owes them (`Recorded`).
- `ReadInv`: what a reader has read is one version as long as the epoch is the
  one it started at, and no correction it waited for is still to change its row
  (`Reading`): a correction takes its number under the connection, so a lower
  number has committed before a higher one raised the watermark.
- `Ages`: the versions in the rows are numbers given out, and a correction that
  still holds the connection is newer than its row: versions go forward. With
  `Reading`, whose last conjunct says that at a validation with the epoch
  unmoved the hits are the rows of that very moment, each step is one of
  `AtomicMemory` or none: `Validate` is the answer's linearization point.

**`TiersProofs`**
- `BaseInv`: a forgotten record in the cache has its forget running; a live
  row's vector is of the published space, or of the next between swap and
  publish; the index and the tier being merged are of the published one but for
  the `strayed`, the tier of a cutover of the next, the tier read by a rebuild
  of that of its own generation.
- `SerialInv`: with one call per record its number is above what the index has
  (`OnePerRecord`), its row is as it left it or a cutover came between
  (`InFlight`), a rebuild has read the rows as they are but for those `touched`
  (`Reads`), and merge and index have what the row asks for (`Follows`); the index
  about to be published has every live record its pages did not skip
  (`Prepared`).

**`SyncProofs`, `SyncMeshProofs`, `SyncPairProofs`**, six invariants, each on the
one before; the first four for any number of nodes.
- `EdgeInv`: a node has *seen* every timestamp in its rows and calls: its clock
  or its wall clock is past it (`RowsSeen`, `CallsSeen`); an op is dated no
  earlier than the edge it carries (`OpsDated`), so a clock that received the
  op has seen the edge; therefore a relate about to write its row holds the
  newest timestamp of it (`UpsertNewest`). The lemmas `NowIsNew` and `RecvIsNew`
  are the contract of the clock.
- `LogInv`: a pull in progress has the ops after its cursor (`PullsSound`), and
  a watermark is a position of the peer's log before which everything the peer
  *placed* there is here (`MarksSound`). Placed is an op that was the newest of
  its node's log when it entered it: a forget or a correction always, since it
  takes its timestamp under the connection; a record or a relate only when calls
  are serialized (`Serialized => EdgeInv`, and `CallsNewest` in the same way).
  The theorem about forgets and corrections needs no serialization.
- `MadeInv`: an op is in the log of the node that made it (`FromOrigin`) and a row
  that is there was made by an op or is being made. So a `record` that commits
  has an id no row has, and a pull that materializes a record a second time
  finds the row: a tombstoned row stays, whatever runs at a time.
- `MeshInv`, of serialized nodes: the node that made an op
  stamped it with its own id (`StampsOwned`) and no two alike (`StampsApart`);
  each op of a log has its effect in the rows (`LogInRows`, `ReceivedInRows`,
  `CallsInRows`), and every row was made by an op of some node (`RowsMade`,
  `EdgesMade`). A node that has pulled all there is has every op from the node
  that made it, relays or not; so logs at rest are equal, and edge rows, which a
  newer write replaces whatever the order of arrival, are the newest of the log.
- `RowInv`, two nodes: what a peer did not make was made here, so a forget or a correction comes after its record
  (`RecordsFirst`) and takes hold (`LogObeyed`). A node at rest has the rows its
  log determines, and two nodes at rest are equal.
- `TextInv`: a node has what the origin of an op made before it
  (`OriginOrder`), revision numbers of the correcting node differ
  (`NumbersDiffer`), and a memory's text is the newest correction applied while
  its history has exactly the revisions of those applied (`TextsSound`).

**Model-checked only.** Liveness (`BackpressureClears`, `RouterReopens`,
`QueueDrains`, `RecallReturns`, `Converges`), which is out of the prover's reach
under fairness, and the counterexamples of the three violated statements.
`LiveRowsFound` is proved for rebuilds of one page only, since with more it is
false (section 5).

## 5. Findings

Three statements of comments the code does not keep, each with a counterexample
a run prints; `PROJECT.json` quotes the lines.

1. `queue_wedge`: applying a queued record enqueues its post-op before the
   record gives up its place, so a queue whose oldest batch is queued records and
   whose ceiling is reached refuses every apply: nothing drains and no write is
   accepted (`engine/stats.rs:1341`). Real ceilings make it rare: it takes as
   many pending ops as the ceiling, the oldest batch of them queued records.
2. `recall_early`: `record_batch` raises `visible_seq` before its rows are in the
   scoring cache, and recall drops what the cache does not have: a
   `recall_with_seq` that waited for the batch misses it (`engine/record.rs:1896`;
   `record_with_rid` and the drain have the same order).
3. `sync_race`: `record` takes its timestamp (`engine/record.rs:599`) before it
   locks the connection (644), and `log_op` likewise
   (`engine/stats.rs:353`, 359), so of two threads of one node the one with the
   later timestamp can log first. A peer that pulls in between moves its
   watermark past the op that is logged second, and `extract_ops_since` never
   returns it: two nodes that sync for ever stay different. The README of the
   repository promises safety for concurrent access (line 267), and
   `docs/whitepaper/aidb_whitepaper.md:276` convergence in a single round trip of
   two devices. `tombstone_inner` and `correct_with_reembed` take the timestamp
   under the connection: their ops are not lost this way (`MeshForgetsArrive`).

Further behaviour met while modelling. No run is kept for these. Where the model
has it, the change of one constant is named that makes TLC find it: in the
configuration of the run that checks the property, that property alone and no
symmetry. The rest is outside the modules.

Index and migration:
- A forget that ends after the migration has read its row into the new index and
  before the router closes tombstones the index that is about to be dropped; the
  publish brings the vector back until the next open (`engine/reembed.rs:1123`),
  although the comment at `engine/lifecycle.rs:659` calls the "FORGET-RESURRECTION
  RACE, closed". `Reembed` shows it: two steps of `EnterForget` and `Commit`
  between `RebuildPage` and `SwitchToQueueing` leave a tombstoned row in `index`
  after `PublishState`. The cache was not replaced, so no recall serves the
  record (`ForgottenIsHidden`).
- A search that loads the cold tier before a build is installed and reads the
  delta after it is retired misses a live record (`vector/delta_index.rs:536`,
  retire at 778). `SearchIsCurrent` excludes this case by name.
- A delete that carries an older number than a write hides and then removes that
  write once it is in the cold tier, which keeps no numbers
  (`vector/delta_index.rs:429`). `Ordered = FALSE` breaks `ImplementsMap`.
- A forget or a correction between two pages of a migration's rebuild makes
  OFFSET skip a staged row: it is promoted in SQL and missing from the new index
  until the next open (`engine/reembed.rs:1137`). `Batch = 1` breaks
  `LiveRowsFound`.
- Most errors of the tail catch-up return with the router closed, so every
  synchronous write is queued or refused until a restart
  (`engine/reembed.rs:1252`, 1290). `"tail"` in `MayFail` breaks `RouterReopens`.

Queue:
- An engine whose embedder has no runtime name queues writes with a NULL model,
  which the drain acknowledges without applying: the write is lost
  (`engine/record.rs:2507`). `Named = BOOLEAN` breaks `AcceptedIsKept`.
- A forget of a write that is still queued returns false and the row appears
  later (`MayMiss = TRUE`).
- The pending post-op of a record that is forgotten puts it back into
  `memory_entities` (`engine/stats.rs:906` runs it, `engine/lifecycle.rs:684`
  had deleted the rows); a worker stalled between row and cache puts a record
  forgotten meanwhile back into cache and index; a worker stalled across a
  migration appends to the index that was replaced and acknowledges the op.
  `GoneForGood` starts when no worker is on the record any more.

Recall:
- A notification of `visible_seq` between a waiter's check and its wait is lost
  and the wait ends in its time limit (`engine/stats.rs:1862`, 1918); the last
  look then finds the number.
- A `record_with_rid` delivered again after the record was corrected, its new
  vector compacted, publishes the old vector (`engine/record.rs:2045`).
  `Reordered = TRUE` breaks `SettledIsCoherent`. One delivered again after the
  record was forgotten and its tombstone compacted away is the same case for
  `ForgottenIsOut`: with `Reordered = FALSE`, as in the run and the theorems, no
  redelivery follows a correction or a forget.
- `reinforce` reads a row, computes and writes it without the connection held
  between: two recalls of one record lose an update (`engine/recall.rs:6477`).

Tiers:
- A correction and a migration write a raw blob into an archived row
  (`engine/lifecycle.rs:1936`, `engine/reembed.rs:1353`); hydrate hands it to
  `decompress_embedding`, which panics (`compression.rs:14`). A correction also
  hashes the compressed prior blob as floats.
- A migration puts archived rows back into the index: its select does not look
  at the tier (`engine/reembed.rs:1138`). `IndexFollowsTier` speaks of packed
  rows for this reason.
- The five gaps `IndexFollowsTier` names. (1) hydrate marks the row hot and then
  appends; a full delta leaves a hot row without a vector, and a second hydrate
  finds nothing cold (`engine/storage.rs:176`). (2) hydrate takes no router guard,
  so a cutover may pass between its two halves and a vector of the old space
  enters the new index. (3) archive takes none either: one that ends between the
  commit of a swap (`engine/reembed.rs:1388`) and the publish (1431) tombstones
  the index that is then dropped, and the archived record is found again. (4) A
  rebuild that read the rows before a write, and installs after a compaction took
  that write out of the delta, loses it from the index (`engine/indices.rs:211`).
  (5) OFFSET paging skips a hot row of a cutover's rebuild, as above. All five
  last until the next open.
- hydrate does not look at the status, so a forgotten cold row enters the index
  again; the cache hides it.
- Operations of one record from two threads can reach the index in the order
  opposite to their transactions (`engine/storage.rs:83`, 170).
  `Serial = FALSE` breaks `IndexFollowsTier`.

Replication:
- A forget that reaches a third node before the record it is about is lost: the
  record comes to life there for good (`distributed/replication.rs:1149`).
  `materialize_forget` there says that the tombstone wins "even if the memory
  doesn't exist locally yet", which the code does not do: its UPDATE finds no row
  and nothing is kept of it. `Node = {1, 2, 3}` breaks `RowsFollowLog` in
  22 states (one caller, no edge, no correction, equal clocks, no restart, 3 ops,
  extractions of 3). With two nodes a record always arrives before its forget
  (`PairTombstonesWin`), so the runs of two nodes cannot meet this case.
- Two threads that relate the same edge can write it in the order opposite to
  their timestamps (`engine/graph_ops.rs:171`). `Serialized = FALSE` breaks
  `EdgesMoveForward`; and, by the skipped op of `sync_race`, `Converges`.
- Two nodes that correct one memory concurrently keep different texts: each row
  takes the op that arrives last, and the second revision of a number is dropped
  by UNIQUE(rid, revision_num) with INSERT OR IGNORE (`engine/lifecycle.rs:2160`,
  2432, `base/schema.rs:911`; the README at line 463 says otherwise). `Corrector
  = {1, 2}` breaks `CorrectionsFollowLog`. A replica whose embedder does not
  match the op's embeds the text itself, or refuses the op and tries again.
- consolidate marks its sources without looking at their status
  (`cognition/consolidate.rs:1195`), while a replica marks active rows only: a
  source forgotten between the reading of a cluster and the marking goes from
  tombstoned to consolidated on the origin. And a crash between its record and
  its members leaves steps the retry comment at line 1158 takes for committed.

## 6. What is not modelled

- **Numbers**: HNSW search, kernels, scoring, fusion, learning, warrants,
  impressions. Floating point, and correctness that is statistical.
- **Single-threaded rules over rows**: conflict rules, cognition, sessions,
  tasks, links, moves, cognitive state. One transaction each, or a sequence of
  them run by one thread.
- **One lock for life, or nothing persisted**: savepoint guard, packs, the
  adjacency of the in-memory graph index.
- **Outside the program**: foreign-SQLite detection (`/proc` and file locks),
  cryptography, embedder files and downloads, Python bindings, MCP server, HTTP
  transport.
- **Inside modelled components**: chunk windows as rows of their own,
  `set_embedder`, decay and purge, `insert_vector` (a server's backfill,
  `engine/storage.rs:225`), the aliases of one key within a batch, the lanes of a
  recall other than the vector's, op kinds other than record, correct, forget
  and relate, the vector side of a replicated op (its place in the index is
  `replica` in `Recall`), and the single-origin guard of an extraction
  (`distributed/replication.rs:236`), which rejects a whole batch and is off by
  default.
- One hazard has no property: the compactor's age clock is cleared by a retire
  and stamped by writers outside the delta lock (`vector/delta_index.rs:752`),
  so an entry can wait for the next write to be compacted. It is found by every
  search meanwhile.

The modules cover a small share of the source by lines. Most of the source is
what the first two items describe; what they model is the part where threads,
crashes and replicas meet.

## 7. What is left

In order of what it would add:

1. The other replicated operations in `Sync`: consolidate and link are row
   effects with guards of their own; `RowsFollowLog` is the property they would
   extend, `RowInv` the invariant.
2. Forgets among three nodes: `MeshCaughtUpNodesAgree` is all that holds of any
   number of nodes. That a forget takes hold needs two, where no op overtakes the
   record it is about; an extraction that hands ops on in the order of their
   arrival, or a forget kept for a record that is not here yet, is what more nodes
   would need from the code.
3. Chunk windows in `Reembed` and `Tiers`: several vectors that must move
   together.
4. The composition of `WriteQueue` and `Reembed` with every error exit: today each
   has what the other does in outline.
