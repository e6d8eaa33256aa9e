----------------------------- MODULE WriteQueue -----------------------------
(***************************************************************************)
(* The pending queue of the operation log (engine/stats.rs), the two routes *)
(* a record takes into it (engine/record.rs), the idempotency claims that   *)
(* make a retry safe on both (engine/idempotency.rs), and the materializer  *)
(* threads that drain it (engine/materializer.rs).  An embedder migration   *)
(* closes the write router under the writers and marks itself in meta; the  *)
(* workers leave queued records alone while it is marked.  forget runs      *)
(* beside all of them, and the process may die at any step.                 *)
(*                                                                         *)
(* Every statement of the engine on its one connection is serialized by the *)
(* connection's mutex, so a step here is what one hold of it does.          *)
(***************************************************************************)
EXTENDS Naturals, FiniteSets

CONSTANTS Rid,         \* record ids new_id can mint
          Key,         \* idempotency keys of one actor and namespace
          NoKey,       \* a write without a key
          NoWrite,     \* a record id nobody has minted
          NoOp,        \* a worker between two ops
          Caller,      \* threads inside record or forget
          Worker,      \* materializer threads
          Batch,       \* DRAIN_BATCH_SIZE
          MaxPending,  \* MAX_PENDING_OPS
          MayMiss,     \* TRUE: callers also forget writes still in the queue
          Named,       \* whether the embedder has a runtime name: {TRUE} or BOOLEAN
          MaxGen,      \* bound of the model: migrations completed
          MaxClock,    \* bound of the model: operations logged
          MaxFaults    \* bound of the model: errors and crashes

ASSUME ConstantsAssumption ==
    /\ IsFiniteSet(Rid) /\ IsFiniteSet(Caller) /\ NoWrite \notin Rid
    /\ NoKey \notin Key /\ NoWrite \notin Key \cup {NoKey}
    /\ Batch \in Nat \ {0} /\ MaxPending \in Nat \ {0}
    /\ Named \subseteq BOOLEAN /\ MayMiss \in BOOLEAN
    /\ MaxGen \in Nat /\ MaxClock \in Nat /\ MaxFaults \in Nat

VARIABLES rows,      \* the memories table: status and embedding_generation
          written,   \* the key each accepted write carried
          claims,    \* idempotency_claims: the record that owns each key
          pending,   \* the oplog's rows with applied = 0
          clock,     \* the HLC, as the number of operations logged
          links,     \* records with rows in memory_entities
          mentions,  \* how often each record's entities were counted
          mark,      \* meta.reembed_state is set
          gen, index,        \* the published SearchState
          cache, graph,      \* the scoring cache; graph_index's links
          count,             \* pending_op_count
          router, inflight,  \* the WriteRouter
          pc, job,           \* per caller: where it is, and its key or record
          at, batch, cur,    \* per worker: step, ops left, the op it is on
          seen,              \* per worker: the generation it embedded under
          phase, built,      \* the migration, and the rows its index holds
          faults

sqlVars    == <<rows, written, claims, pending, clock, links, mentions, mark>>
memVars    == <<gen, index, cache, graph, count>>
routerVars == <<router, inflight>>
callerVars == <<pc, job>>
workerVars == <<at, batch, cur, seen>>
migVars    == <<phase, built>>
vars == <<sqlVars, memVars, routerVars, callerVars, workerVars, migVars, faults>>

Gen == 0..MaxGen
\* "record" is a queued write, carrying the embedder's name or NULL; "post" is
\* materialize_record_post.
Op == [type : {"record", "post"}, rid : Rid, named : BOOLEAN, hlc : 1..MaxClock]
Post(r) == [type |-> "post", rid |-> r, named |-> FALSE, hlc |-> clock + 1]
Queued(r, named) == [type |-> "record", rid |-> r, named |-> named, hlc |-> clock + 1]

Init ==
    /\ rows = [r \in Rid |-> [status |-> "absent", gen |-> 0]]
    /\ written = [r \in Rid |-> NoWrite]
    /\ claims = [k \in Key |-> NoWrite]
    /\ pending = {} /\ clock = 0
    /\ links = {} /\ mentions = [r \in Rid |-> 0] /\ mark = FALSE
    /\ gen = 0 /\ index = {} /\ cache = {} /\ graph = {} /\ count = 0
    /\ router = "Normal" /\ inflight = 0
    /\ pc = [c \in Caller |-> "idle"] /\ job = [c \in Caller |-> NoWrite]
    /\ at = [w \in Worker |-> "next"] /\ batch = [w \in Worker |-> {}]
    /\ cur = [w \in Worker |-> NoOp] /\ seen = [w \in Worker |-> 0]
    /\ phase = "idle" /\ built = {}
    /\ faults = 0

Active(r) == rows[r].status = "active"
ActiveRows == {r \in Rid : Active(r)}
Fault == faults < MaxFaults /\ faults' = faults + 1

-----------------------------------------------------------------------------
(* record: record_with_idempotency and its two routes *)

Claimed(k) == k \in Key /\ claims[k] # NoWrite

\* The unlocked probe missed, then the router lets the call in or has it queued.
Begin(c, k) ==
    /\ pc[c] = "idle" /\ ~Claimed(k)
    /\ pc' = [pc EXCEPT ![c] = IF router = "Normal" THEN "sync" ELSE "queued"]
    /\ job' = [job EXCEPT ![c] = k]
    /\ inflight' = IF router = "Normal" THEN inflight + 1 ELSE inflight
    /\ UNCHANGED <<sqlVars, memVars, router, workerVars, migVars, faults>>

\* (mutant) the queued route drops a guard it never took.
LeaveCallAlways(c) ==
    /\ pc' = [pc EXCEPT ![c] = "idle"]
    /\ job' = [job EXCEPT ![c] = NoWrite]
    /\ inflight' = inflight - 1
    /\ UNCHANGED <<router, workerVars, migVars>>

LeaveCall(c) ==
    /\ pc' = [pc EXCEPT ![c] = "idle"]
    /\ job' = [job EXCEPT ![c] = NoWrite]
    /\ inflight' = IF pc[c] = "queued" THEN inflight ELSE inflight - 1
    /\ UNCHANGED <<router, workerVars, migVars>>

Full == count >= MaxPending

\* Claim, operation and statistics commit together; the cached counter is
\* raised once they have.
Accept(k, r, op) ==
    /\ clock < MaxClock /\ written[r] = NoWrite
    /\ written' = [written EXCEPT ![r] = k]
    /\ claims' = IF k \in Key THEN [claims EXCEPT ![k] = r] ELSE claims
    /\ pending' = pending \cup {op}
    /\ clock' = clock + 1
    /\ count' = count + 1

\* (mutant) the ceiling is checked before the lock only.
SyncCommitUnchecked(c, r) ==
    /\ pc[c] = "sync" /\ ~Claimed(job[c])
    /\ Accept(job[c], r, Post(r))
    /\ rows' = [rows EXCEPT ![r] = [status |-> "active", gen |-> gen]]
    /\ index' = index \cup {r} /\ cache' = cache \cup {r}
    /\ LeaveCall(c)
    /\ UNCHANGED <<links, mentions, mark, gen, graph, faults>>

\* The sync route under the connection: probe again, admission, then one
\* transaction with the row and the post-op; publish, counter and cache follow
\* before the connection is released.
SyncCommit(c, r) ==
    /\ pc[c] = "sync" /\ ~Claimed(job[c]) /\ ~Full
    /\ Accept(job[c], r, Post(r))
    /\ rows' = [rows EXCEPT ![r] = [status |-> "active", gen |-> gen]]
    /\ index' = index \cup {r} /\ cache' = cache \cup {r}
    /\ LeaveCall(c)
    /\ UNCHANGED <<links, mentions, mark, gen, graph, faults>>

\* (mutant) the queued route trusts the probe made before the router.
QueuedCommitUnprobed(c, r) ==
    /\ pc[c] = "queued" /\ ~Full
    /\ \E named \in Named : Accept(job[c], r, Queued(r, named))
    /\ LeaveCall(c)
    /\ UNCHANGED <<rows, links, mentions, mark, gen, index, cache, graph, faults>>

\* The queued route: the pending op is the only durable record of the write.
QueuedCommit(c, r) ==
    /\ pc[c] = "queued" /\ ~Claimed(job[c]) /\ ~Full
    /\ \E named \in Named : Accept(job[c], r, Queued(r, named))
    /\ LeaveCall(c)
    /\ UNCHANGED <<rows, links, mentions, mark, gen, index, cache, graph, faults>>

\* A hit or a conflict on the claim, or Backpressure: nothing is written.
Refused(c) ==
    /\ pc[c] \in {"sync", "queued"}
    /\ Claimed(job[c]) \/ Full
    /\ LeaveCall(c)
    /\ UNCHANGED <<sqlVars, memVars, faults>>

\* The transaction fails and rolls back; the reservation is withdrawn.
CommitFails(c) ==
    /\ pc[c] \in {"sync", "queued"} /\ Fault
    /\ LeaveCall(c)
    /\ UNCHANGED <<sqlVars, memVars>>

-----------------------------------------------------------------------------
(* forget: tombstone_inner, under the router's guard *)

\* One transaction: the row is tombstoned and its projections deleted.  A
\* record that is still only a pending op has no row to tombstone.
ForgetTx(c, r) ==
    /\ pc[c] = "idle" /\ router = "Normal"
    /\ written[r] # NoWrite /\ (MayMiss \/ rows[r].status # "absent")
    /\ pc' = [pc EXCEPT ![c] = IF Active(r) THEN "forgotten" ELSE "missed"]
    /\ job' = [job EXCEPT ![c] = r]
    /\ rows' = IF Active(r) THEN [rows EXCEPT ![r].status = "tombstoned"] ELSE rows
    /\ links' = IF Active(r) THEN links \ {r} ELSE links
    /\ inflight' = inflight + 1
    /\ UNCHANGED <<written, claims, pending, clock, mentions, mark, memVars,
                   router, workerVars, migVars, faults>>

\* The tombstone reaches the index whether or not there was a row.
ForgetIndex(c) ==
    /\ pc[c] \in {"forgotten", "missed"}
    /\ index' = index \ {job[c]}
    /\ IF pc[c] = "forgotten"
       THEN pc' = [pc EXCEPT ![c] = "unlink"] /\ UNCHANGED <<job, inflight, router>>
                /\ UNCHANGED <<workerVars, migVars>>
       ELSE LeaveCall(c)
    /\ UNCHANGED <<sqlVars, gen, cache, graph, count, faults>>

ForgetMemory(c) ==
    /\ pc[c] = "unlink"
    /\ graph' = graph \ {job[c]} /\ cache' = cache \ {job[c]}
    /\ LeaveCall(c)
    /\ UNCHANGED <<sqlVars, gen, index, count, faults>>

-----------------------------------------------------------------------------
(* Materializer workers: worker_loop and apply_pending_ops_once *)

\* PENDING_OPS_QUERY: ORDER BY hlc LIMIT n.
FirstOps(n) == {o \in pending : Cardinality({p \in pending : p.hlc < o.hlc}) < n}

Goto(w, step) == at' = [at EXCEPT ![w] = step]

\* The pass takes up the oldest op it has left, of this type.
Take(w, o, type, step) ==
    /\ at[w] = "next" /\ o \in batch[w] /\ o.type = type
    /\ \A p \in batch[w] : o.hlc <= p.hlc
    /\ Goto(w, step)
    /\ cur' = [cur EXCEPT ![w] = o]
    /\ batch' = [batch EXCEPT ![w] = @ \ {o}]

\* The pass is done with its current op.
Advance(w) ==
    /\ Goto(w, "next")
    /\ cur' = [cur EXCEPT ![w] = NoOp] /\ seen' = [seen EXCEPT ![w] = 0]
    /\ UNCHANGED batch

\* The batch is read without keeping the connection.
Fetch(w) ==
    /\ at[w] = "next" /\ batch[w] = {} /\ pending # {}
    /\ batch' = [batch EXCEPT ![w] = FirstOps(Batch)]
    /\ UNCHANGED <<sqlVars, memVars, routerVars, callerVars, at, cur, seen, migVars, faults>>

\* A queued record while a migration is marked stays for the next pass.
Defer(w, o) ==
    /\ at[w] = "next" /\ o \in batch[w] /\ o.type = "record" /\ o.named /\ mark
    /\ \A p \in batch[w] : o.hlc <= p.hlc
    /\ batch' = [batch EXCEPT ![w] = @ \ {o}]
    /\ UNCHANGED <<sqlVars, memVars, routerVars, callerVars, at, cur, seen, migVars, faults>>

\* No migration: snapshot the search state and embed the text under it.
Load(w, o) ==
    /\ o.named /\ ~mark
    /\ Take(w, o, "record", "row")
    /\ seen' = [seen EXCEPT ![w] = gen]
    /\ UNCHANGED <<sqlVars, memVars, routerVars, callerVars, migVars, faults>>

\* INSERT OR IGNORE INTO memories, stamped with the snapshot's generation.
InsertRow(w) ==
    /\ at[w] = "row"
    /\ rows' = IF rows[cur[w].rid].status = "absent"
               THEN [rows EXCEPT ![cur[w].rid] = [status |-> "active", gen |-> seen[w]]]
               ELSE rows
    /\ Goto(w, "append")
    /\ UNCHANGED <<written, claims, pending, clock, links, mentions, mark, memVars,
                   routerVars, callerVars, batch, cur, seen, migVars, faults>>

\* (mutant) the drain never told the scoring cache.
AppendUncached(w) ==
    /\ at[w] = "append"
    /\ index' = IF seen[w] = gen THEN index \cup {cur[w].rid} ELSE index
    /\ Goto(w, "enqueue")
    /\ UNCHANGED <<sqlVars, gen, cache, graph, count, routerVars, callerVars,
                   batch, cur, seen, migVars, faults>>

\* The vector goes to the snapshot's index with a fresh sequence number.
Append(w) ==
    /\ at[w] = "append"
    /\ index' = IF seen[w] = gen THEN index \cup {cur[w].rid} ELSE index
    /\ Goto(w, "cache")
    /\ UNCHANGED <<sqlVars, gen, cache, graph, count, routerVars, callerVars,
                   batch, cur, seen, migVars, faults>>

CacheInsert(w) ==
    /\ at[w] = "cache"
    /\ cache' = cache \cup {cur[w].rid}
    /\ Goto(w, "enqueue")
    /\ UNCHANGED <<sqlVars, gen, index, graph, count, routerVars, callerVars,
                   batch, cur, seen, migVars, faults>>

\* (mutant) the drain owes the record nothing more.
EnqueuePostSkipped(w) ==
    /\ at[w] = "enqueue"
    /\ Goto(w, "mark")
    /\ UNCHANGED <<sqlVars, memVars, routerVars, callerVars, batch, cur, seen,
                   migVars, faults>>

\* log_op_pending owes the record its entities like any other write's.
EnqueuePost(w) ==
    /\ at[w] = "enqueue" /\ ~Full /\ clock < MaxClock
    /\ pending' = pending \cup {Post(cur[w].rid)}
    /\ clock' = clock + 1 /\ count' = count + 1
    /\ Goto(w, "mark")
    /\ UNCHANGED <<rows, written, claims, links, mentions, mark, gen, index, cache,
                   graph, routerVars, callerVars, batch, cur, seen, migVars, faults>>

\* (mutant) the refusal starts one op early.
EnqueueRefusedEarly(w) ==
    /\ at[w] = "enqueue" /\ count + 1 >= MaxPending
    /\ Advance(w)
    /\ UNCHANGED <<sqlVars, memVars, routerVars, callerVars, migVars, faults>>

\* Its Backpressure fails the apply: the queued record stays pending.
EnqueueRefused(w) ==
    /\ at[w] = "enqueue" /\ Full
    /\ Advance(w)
    /\ UNCHANGED <<sqlVars, memVars, routerVars, callerVars, migVars, faults>>

\* (mutant) every run of the op counts the mention.
LinkEntitiesBlind(w, o) ==
    /\ Take(w, o, "post", "graph")
    /\ links' = links \cup {o.rid}
    /\ mentions' = [mentions EXCEPT ![o.rid] = @ + 1]
    /\ UNCHANGED <<rows, written, claims, pending, clock, mark, memVars,
                   routerVars, callerVars, seen, migVars, faults>>

\* apply_materialize_record_post: the mention is counted when this is the
\* first row of memory_entities for the record.
LinkEntities(w, o) ==
    /\ Take(w, o, "post", "graph")
    /\ links' = links \cup {o.rid}
    /\ mentions' = IF o.rid \in links THEN mentions
                   ELSE [mentions EXCEPT ![o.rid] = @ + 1]
    /\ UNCHANGED <<rows, written, claims, pending, clock, mark, memVars,
                   routerVars, callerVars, seen, migVars, faults>>

LinkGraph(w) ==
    /\ at[w] = "graph"
    /\ graph' = graph \cup {cur[w].rid}
    /\ Goto(w, "mark")
    /\ UNCHANGED <<sqlVars, gen, index, cache, count, routerVars, callerVars,
                   batch, cur, seen, migVars, faults>>

\* (mutant) the arm for plain records comes before the one for queued ones.
AcknowledgeAny(w, o) ==
    /\ Take(w, o, "record", "mark")
    /\ UNCHANGED <<sqlVars, memVars, routerVars, callerVars, seen, migVars, faults>>

\* A "record" op without an embedder's name is only acknowledged.
Acknowledge(w, o) ==
    /\ ~o.named
    /\ Take(w, o, "record", "mark")
    /\ UNCHANGED <<sqlVars, memVars, routerVars, callerVars, seen, migVars, faults>>

\* (mutant) the loser of the race decrements as well.
MarkAppliedTwice(w) ==
    /\ at[w] = "mark"
    /\ pending' = pending \ {cur[w]}
    /\ count' = IF count = 0 THEN 0 ELSE count - 1
    /\ Advance(w)
    /\ UNCHANGED <<rows, written, claims, clock, links, mentions, mark, gen, index,
                   cache, graph, routerVars, callerVars, migVars, faults>>

\* mark_op_applied: only the caller that flips applied lowers the counter.
MarkApplied(w) ==
    /\ at[w] = "mark"
    /\ pending' = pending \ {cur[w]}
    /\ count' = IF cur[w] \in pending THEN count - 1 ELSE count
    /\ Advance(w)
    /\ UNCHANGED <<rows, written, claims, clock, links, mentions, mark, gen, index,
                   cache, graph, routerVars, callerVars, migVars, faults>>

\* The embedder, the index, or a statement fails: the op stays pending.  An
\* error of mark_op_applied ends the whole pass.
ApplyFails(w) ==
    /\ at[w] \in {"row", "append", "cache", "enqueue", "graph", "mark"} /\ Fault
    /\ Goto(w, "next")
    /\ cur' = [cur EXCEPT ![w] = NoOp] /\ seen' = [seen EXCEPT ![w] = 0]
    /\ batch' = IF at[w] = "mark" THEN [batch EXCEPT ![w] = {}] ELSE batch
    /\ UNCHANGED <<sqlVars, memVars, routerVars, callerVars, migVars>>

-----------------------------------------------------------------------------
(* The migration, as far as writers and workers see it (Reembed has it whole) *)

MigBegin ==
    /\ phase = "idle" /\ gen < MaxGen
    /\ mark' = TRUE /\ phase' = "encode"
    /\ UNCHANGED <<rows, written, claims, pending, clock, links, mentions, memVars,
                   routerVars, callerVars, workerVars, built, faults>>

\* The new index is built from the rows of now; the router closes.
MigClose ==
    /\ phase = "encode"
    /\ built' = ActiveRows /\ router' = "Queueing" /\ phase' = "drain"
    /\ UNCHANGED <<sqlVars, memVars, inflight, callerVars, workerVars, faults>>

\* The writers have left: the rows that came since are caught up.
MigTail ==
    /\ phase = "drain" /\ inflight = 0
    /\ built' = built \cup ActiveRows /\ phase' = "swap"
    /\ UNCHANGED <<sqlVars, memVars, routerVars, callerVars, workerVars, faults>>

MigPublish ==
    /\ phase = "swap"
    /\ rows' = [r \in Rid |-> IF r \in built THEN [rows[r] EXCEPT !.gen = gen + 1]
                              ELSE rows[r]]
    /\ gen' = gen + 1 /\ index' = built /\ built' = {}
    /\ phase' = "resume"
    /\ UNCHANGED <<written, claims, pending, clock, links, mentions, mark, cache,
                   graph, count, routerVars, callerVars, workerVars, faults>>

MigResume ==
    /\ phase = "resume"
    /\ router' = "Normal" /\ phase' = "verify"
    /\ UNCHANGED <<sqlVars, memVars, inflight, callerVars, workerVars, built, faults>>

MigDone ==
    /\ phase = "verify"
    /\ mark' = FALSE /\ phase' = "idle"
    /\ UNCHANGED <<rows, written, claims, pending, clock, links, mentions, memVars,
                   routerVars, callerVars, workerVars, built, faults>>

\* An error returns with the router open and the mark still set.
MigFails ==
    /\ phase \in {"encode", "swap", "verify"} /\ Fault
    /\ router' = "Normal" /\ phase' = "idle" /\ built' = {}
    /\ UNCHANGED <<sqlVars, memVars, inflight, callerVars, workerVars>>

Migrate == MigClose \/ MigTail \/ MigPublish \/ MigResume \/ MigDone

-----------------------------------------------------------------------------
\* (mutant) open() loads tombstoned rows into the cache as well.
ReopenWithForgotten ==
    /\ Fault
    /\ mark' = FALSE
    /\ index' = ActiveRows /\ graph' = links
    /\ cache' = {r \in Rid : rows[r].status # "absent"}
    /\ count' = Cardinality(pending)
    /\ router' = "Normal" /\ inflight' = 0
    /\ pc' = [c \in Caller |-> "idle"] /\ job' = [c \in Caller |-> NoWrite]
    /\ at' = [w \in Worker |-> "next"] /\ batch' = [w \in Worker |-> {}]
    /\ cur' = [w \in Worker |-> NoOp] /\ seen' = [w \in Worker |-> 0]
    /\ phase' = "idle" /\ built' = {}
    /\ UNCHANGED <<rows, written, claims, pending, clock, links, mentions, gen>>

\* The process dies and open() rebuilds the memory from SQL.
Reopen ==
    /\ Fault
    /\ mark' = FALSE
    /\ index' = ActiveRows /\ cache' = ActiveRows /\ graph' = links
    /\ count' = Cardinality(pending)
    /\ router' = "Normal" /\ inflight' = 0
    /\ pc' = [c \in Caller |-> "idle"] /\ job' = [c \in Caller |-> NoWrite]
    /\ at' = [w \in Worker |-> "next"] /\ batch' = [w \in Worker |-> {}]
    /\ cur' = [w \in Worker |-> NoOp] /\ seen' = [w \in Worker |-> 0]
    /\ phase' = "idle" /\ built' = {}
    /\ UNCHANGED <<rows, written, claims, pending, clock, links, mentions, gen>>

-----------------------------------------------------------------------------
Start(c) ==
    \/ \E k \in Key \cup {NoKey} : Begin(c, k)
    \/ \E r \in Rid : ForgetTx(c, r)

Proceed(c) ==
    \/ \E r \in Rid : SyncCommit(c, r) \/ QueuedCommit(c, r)
    \/ Refused(c) \/ CommitFails(c)
    \/ ForgetIndex(c) \/ ForgetMemory(c)

Work(w) ==
    \/ Fetch(w)
    \/ \E o \in batch[w] :
          Defer(w, o) \/ Load(w, o) \/ LinkEntities(w, o) \/ Acknowledge(w, o)
    \/ InsertRow(w) \/ Append(w) \/ CacheInsert(w)
    \/ EnqueuePost(w) \/ EnqueueRefused(w)
    \/ LinkGraph(w) \/ MarkApplied(w)

Next ==
    \/ \E c \in Caller : Start(c) \/ Proceed(c)
    \/ \E w \in Worker : Work(w) \/ ApplyFails(w)
    \/ MigBegin \/ Migrate \/ MigFails
    \/ Reopen

Spec == Init /\ [][Next]_vars

\* The worker threads loop for ever, and a migration that began runs on.
FairSpec == Spec /\ WF_vars(Migrate) /\ \A w \in Worker : WF_vars(Work(w))

-----------------------------------------------------------------------------
(* Properties *)

\* Every variable has its type, and a worker is on an op when its step says so
\* (the columns of oplog and memories, the worker's batch).
TypeOK ==
    /\ rows \in [Rid -> [status : {"absent", "active", "tombstoned"}, gen : Gen]]
    /\ written \in [Rid -> Key \cup {NoKey, NoWrite}]
    /\ claims \in [Key -> Rid \cup {NoWrite}]
    /\ pending \subseteq Op /\ clock \in 0..MaxClock
    /\ links \subseteq Rid /\ mentions \in [Rid -> Nat] /\ mark \in BOOLEAN
    /\ gen \in Gen /\ index \subseteq Rid /\ cache \subseteq Rid /\ graph \subseteq Rid
    /\ count \in Nat
    /\ router \in {"Normal", "Queueing"} /\ inflight \in Nat
    /\ pc \in [Caller -> {"idle", "sync", "queued", "forgotten", "missed", "unlink"}]
    /\ job \in [Caller -> Rid \cup Key \cup {NoKey, NoWrite}]
    /\ at \in [Worker -> {"next", "row", "append", "cache", "enqueue", "graph", "mark"}]
    /\ batch \in [Worker -> SUBSET Op]
    /\ cur \in [Worker -> Op \cup {NoOp}]
    /\ \A w \in Worker : at[w] # "next" => cur[w] \in Op
    /\ seen \in [Worker -> Gen]
    /\ phase \in {"idle", "encode", "drain", "swap", "resume", "verify"}
    /\ built \subseteq Rid
    /\ faults \in Nat

PendingFor(r) == {o \in pending : o.rid = r}
Queued1(r) == \E o \in PendingFor(r) : o.type = "record"

\* The cached counter that admits writes is the number of pending rows, with
\* any number of workers racing to mark the same op and crashes between
\* (pending_op_count; the v0.7.1 counter leak).
CountIsExact == count = Cardinality(pending)

\* However many writers read the counter at once, the queue never passes its
\* ceiling (check_pending_backpressure_locked).
QueueBounded == Cardinality(pending) <= MaxPending

\* At most one accepted write per idempotency key, over both routes, retries,
\* a closing router, crashes and forgets (claim_in_tx).
OneWritePerKey == \A r \in Rid : written[r] \in Key => claims[written[r]] = r

\* A write whose caller got its record id is a row or is still queued, whoever
\* drains it and whenever the process dies (record_queued, mark_op_applied).
AcceptedIsKept ==
    \A r \in Rid : written[r] # NoWrite => rows[r].status # "absent" \/ Queued1(r)

\* How far a write has come, read off the tables and the queue alone; "lost" is
\* no stage of a ledger.
Stage(r) ==
    CASE rows[r].status = "tombstoned" -> "forgotten"
      [] Active(r) /\ r \in links /\ mentions[r] = 1 -> "complete"
      [] Active(r) /\ r \notin links /\ mentions[r] = 0 /\ PendingFor(r) # {} -> "owing"
      [] rows[r].status = "absent" /\ written[r] # NoWrite /\ Queued1(r) -> "queued"
      [] rows[r].status = "absent" /\ written[r] = NoWrite -> "free"
      [] OTHER -> "lost"

\* Seen by its callers the write path is a ledger: over both routes, retries,
\* migrations, workers that race and crashes, each write goes its way once.
Ledger == INSTANCE WriteLedger WITH
              stage <- [r \in Rid |-> Stage(r)], owner <- claims
ImplementsLedger == Ledger!Spec

\* A live record has its entities or an op that owes them to it
\* (log_op_pending_in_tx: materialization "owed to nobody, forever").
EntitiesOwed == \A r \in Rid : Active(r) => r \in links \/ PendingFor(r) # {}

\* An op run by two workers, or again after an error or a crash, counts the
\* mentions of a live record once (apply_materialize_record_post).
MentionsCountedOnce == \A r \in Rid : Active(r) => mentions[r] <= 1

\* A live record for which nothing is pending any more is complete, whichever
\* route it took: scored by recall, in memory_entities, and in the graph.
SettledIsComplete ==
    \A r \in Rid : Active(r) /\ PendingFor(r) = {} => r \in cache \cap links \cap graph

BusyOn(r) == \E w \in Worker : at[w] # "next" /\ cur[w].rid = r

\* A forgotten record that is out of the cache, the graph and memory_entities,
\* with no op left for it anywhere.
Gone(r) ==
    /\ rows[r].status = "tombstoned"
    /\ r \notin cache \cup links \cup graph
    /\ PendingFor(r) = {} /\ ~BusyOn(r)
    /\ \A w \in Worker : \A o \in batch[w] : o.rid # r

\* It never comes back: no migration, restart or retry of its key returns it
\* (idempotency.rs: forget does not clean claims).
GoneForGood == [][\A r \in Rid : Gone(r) => Gone(r)']_vars

\* Every op at the head of the queue is a queued record whose own post-op the
\* full queue refuses: no worker can get past them.
Wedged == Full /\ \A o \in FirstOps(Batch) : o.type = "record"

\* Every op leaves the queue, unless a migration stays marked or the queue is
\* wedged (worker_loop; ops that are deferred or fail keep their place).
QueueDrains ==
    []<>(~mark /\ ~Wedged) => \A r \in Rid : PendingFor(r) # {} ~> PendingFor(r) = {}

\* CLAIM (apply_pending_ops_once): "After the swap completes, the materializer
\* drains these ops": a queued record does not stay queued once no migration
\* is marked any more.
QueuedRecordsDrain == \A r \in Rid : Queued1(r) ~> (~Queued1(r) \/ mark)
=============================================================================
