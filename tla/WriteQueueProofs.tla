-------------------------- MODULE WriteQueueProofs --------------------------
(***************************************************************************)
(* Theorems about WriteQueue for every finite set of records and callers,   *)
(* every set of keys and workers, every batch size and every ceiling.       *)
(***************************************************************************)
EXTENDS WriteQueue, FiniteSetTheorems, TLAPS

-----------------------------------------------------------------------------
(* The first invariant: types, the router's count and the queue's count *)

SqlType ==
    /\ rows \in [Rid -> [status : {"absent", "active", "tombstoned"}, gen : Gen]]
    /\ written \in [Rid -> Key \cup {NoKey, NoWrite}]
    /\ claims \in [Key -> Rid \cup {NoWrite}]
    /\ pending \subseteq Op /\ clock \in 0..MaxClock
    /\ links \subseteq Rid /\ mentions \in [Rid -> Nat] /\ mark \in BOOLEAN

MemType ==
    /\ gen \in Gen /\ index \subseteq Rid /\ cache \subseteq Rid /\ graph \subseteq Rid
    /\ count \in Nat

CallType ==
    /\ router \in {"Normal", "Queueing"} /\ inflight \in Nat
    /\ pc \in [Caller -> {"idle", "sync", "queued", "forgotten", "missed", "unlink"}]
    /\ job \in [Caller -> Rid \cup Key \cup {NoKey, NoWrite}]

WorkType ==
    /\ at \in [Worker -> {"next", "row", "append", "cache", "enqueue", "graph", "mark"}]
    /\ batch \in [Worker -> SUBSET Op]
    /\ cur \in [Worker -> Op \cup {NoOp}]
    /\ \A w \in Worker : at[w] # "next" => cur[w] \in Op
    /\ seen \in [Worker -> Gen]

MigType ==
    /\ phase \in {"idle", "encode", "drain", "swap", "resume", "verify"}
    /\ built \subseteq Rid
    /\ faults \in Nat

\* The callers that hold a guard of the router.
Inside == {c \in Caller : pc[c] \in {"sync", "forgotten", "missed", "unlink"}}

\* The router counts the guards, and a caller's job is what its step needs.
Admitted ==
    /\ inflight = Cardinality(Inside)
    /\ \A c \in Caller : pc[c] \in {"sync", "queued"} => job[c] \in Key \cup {NoKey}
    /\ \A c \in Caller : pc[c] \in {"forgotten", "missed", "unlink"} => job[c] \in Rid

\* A new operation is younger than every pending one, so it is counted once.
Counted ==
    /\ IsFiniteSet(pending)
    /\ \A o \in pending : o.hlc <= clock
    /\ CountIsExact /\ QueueBounded

\* A migration that has not published yet has a generation left to publish.
Migrating == phase \in {"encode", "drain", "swap"} => gen < MaxGen

QueueInv ==
    /\ SqlType /\ MemType /\ CallType /\ WorkType /\ MigType
    /\ Admitted /\ Counted /\ Migrating

-----------------------------------------------------------------------------
(* Helpers *)

LEMMA GroupsAreTypes == SqlType /\ MemType /\ CallType /\ WorkType /\ MigType => TypeOK
  BY DEF SqlType, MemType, CallType, WorkType, MigType, TypeOK

LEMMA InsideFinite == IsFiniteSet(Inside)
  BY ConstantsAssumption, FS_Subset, Inside \subseteq Caller DEF Inside

\* A caller that takes a guard is counted once more.
LEMMA EnterCounts ==
    ASSUME CallType, Admitted, NEW c \in Caller, pc[c] = "idle",
           NEW step \in {"sync", "forgotten", "missed"},
           pc' = [pc EXCEPT ![c] = step], inflight' = inflight + 1
    PROVE  inflight' = Cardinality(Inside') /\ inflight' \in Nat
<1>1. Inside' = Inside \cup {c} /\ c \notin Inside
  BY DEF Inside, CallType
<1>2. Cardinality(Inside') = Cardinality(Inside) + 1
  BY <1>1, InsideFinite, FS_AddElement
<1> QED
  BY <1>2 DEF Admitted, CallType

\* A call that ends gives back the guard it took, if it took one.
LEMMA LeaveCallStep ==
    ASSUME CallType, Admitted, NEW c \in Caller, pc[c] # "idle", LeaveCall(c)
    PROVE  CallType' /\ Admitted'
<1> USE DEF LeaveCall
<1>1. inflight' = Cardinality(Inside') /\ inflight' \in Nat
  <2>1. CASE pc[c] = "queued"
    <3>1. Inside' = Inside
      BY <2>1 DEF Inside, CallType
    <3> QED
      BY <2>1, <3>1 DEF Admitted, CallType
  <2>2. CASE pc[c] # "queued"
    <3>1. Inside' = Inside \ {c} /\ c \in Inside
      BY <2>2 DEF Inside, CallType
    <3>2. Cardinality(Inside') = Cardinality(Inside) - 1 /\ IsFiniteSet(Inside')
      BY <3>1, InsideFinite, FS_RemoveElement
    <3>3. Cardinality(Inside') \in Nat
      BY <3>2, FS_CardinalityType
    <3> QED
      BY <2>2, <3>2, <3>3 DEF Admitted
  <2> QED
    BY <2>1, <2>2
<1>2. CallType'
  BY <1>1 DEF CallType
<1>3. Admitted'
  BY <1>1 DEF Admitted, CallType
<1> QED
  BY <1>2, <1>3

LEMMA PostType ==
    ASSUME NEW r \in Rid, clock \in 0..MaxClock, clock < MaxClock
    PROVE  Post(r) \in Op /\ Post(r).hlc = clock + 1
  BY ConstantsAssumption DEF Post, Op

LEMMA QueuedType ==
    ASSUME NEW r \in Rid, NEW named \in Named, clock \in 0..MaxClock, clock < MaxClock
    PROVE  Queued(r, named) \in Op /\ Queued(r, named).hlc = clock + 1
  BY ConstantsAssumption DEF Queued, Op

\* One more operation, admitted below the ceiling, keeps the count exact.
LEMMA PushCounts ==
    ASSUME SqlType, MemType, Counted, NEW op \in Op, op.hlc = clock + 1, ~Full,
           clock < MaxClock, pending' = pending \cup {op},
           clock' = clock + 1, count' = count + 1
    PROVE  /\ Counted' /\ pending' \subseteq Op
           /\ clock' \in 0..MaxClock /\ count' \in Nat
<1>1. clock \in Nat /\ MaxClock \in Nat /\ MaxPending \in Nat /\ count \in Nat
  BY ConstantsAssumption DEF SqlType, MemType
<1>2. \A o \in pending : o.hlc \in Nat
  BY DEF SqlType, Op
<1>3. op \notin pending
  BY <1>1, <1>2 DEF Counted
<1>4. Cardinality(pending') = Cardinality(pending) + 1 /\ IsFiniteSet(pending')
  BY <1>3, FS_AddElement DEF Counted
<1>5. \A o \in pending' : o.hlc <= clock'
  BY <1>1, <1>2 DEF Counted
<1>6. count' = Cardinality(pending') /\ Cardinality(pending') <= MaxPending
  BY <1>1, <1>4 DEF Counted, CountIsExact, Full
<1>7. Counted'
  BY <1>4, <1>5, <1>6 DEF Counted, CountIsExact, QueueBounded
<1> QED
  BY <1>1, <1>7 DEF SqlType

\* Whichever worker removes a pending operation, one is counted off.
LEMMA PopCounts ==
    ASSUME SqlType, MemType, Counted, NEW op, pending' = pending \ {op}, clock' = clock,
           count' = IF op \in pending THEN count - 1 ELSE count
    PROVE  Counted' /\ pending' \subseteq Op /\ count' \in Nat
<1>1. CASE op \notin pending
  <2>1. pending' = pending /\ count' = count
    BY <1>1
  <2> QED
    BY <2>1 DEF Counted, CountIsExact, QueueBounded, SqlType, MemType
<1>2. CASE op \in pending
  <2>1. Cardinality(pending') = Cardinality(pending) - 1 /\ IsFiniteSet(pending')
    BY <1>2, FS_RemoveElement DEF Counted
  <2>2. Cardinality(pending') \in Nat
    BY <2>1, FS_CardinalityType
  <2>3. count' = Cardinality(pending')
    BY <1>2, <2>1 DEF Counted, CountIsExact
  <2>4. Cardinality(pending') <= MaxPending
    BY <2>1, <2>2, ConstantsAssumption DEF Counted, QueueBounded, CountIsExact, MemType
  <2> QED
    BY <2>1, <2>2, <2>3, <2>4 DEF Counted, CountIsExact, QueueBounded, SqlType
<1> QED
  BY <1>1, <1>2

-----------------------------------------------------------------------------
(* The invariant holds initially and every step keeps it *)

LEMMA QueueInvInit == Init => QueueInv
<1> SUFFICES ASSUME Init PROVE QueueInv
  OBVIOUS
<1> USE ConstantsAssumption DEF Init
<1>1. 0 \in Gen /\ 0 \in 0..MaxClock
  BY DEF Gen
<1>2. SqlType
  <2>1. rows \in [Rid -> [status : {"absent", "active", "tombstoned"}, gen : Gen]]
    BY <1>1
  <2>2. mentions \in [Rid -> Nat] /\ mark \in BOOLEAN
    OBVIOUS
  <2>3. /\ written \in [Rid -> Key \cup {NoKey, NoWrite}]
        /\ claims \in [Key -> Rid \cup {NoWrite}]
    OBVIOUS
  <2> QED
    BY <1>1, <2>1, <2>2, <2>3 DEF SqlType
<1>3. MemType
  BY <1>1 DEF MemType
<1>4. CallType
  BY DEF CallType
<1>5. WorkType
  <2>1. at \in [Worker -> {"next", "row", "append", "cache", "enqueue", "graph", "mark"}]
    OBVIOUS
  <2>2. batch \in [Worker -> SUBSET Op] /\ cur \in [Worker -> Op \cup {NoOp}]
    OBVIOUS
  <2>3. seen \in [Worker -> Gen]
    BY <1>1
  <2> QED
    BY <2>1, <2>2, <2>3 DEF WorkType
<1>6. MigType
  BY DEF MigType
<1>7. Admitted
  <2>1. Inside = {}
    BY DEF Inside
  <2> QED
    BY <2>1, FS_EmptySet DEF Admitted
<1>8. Counted
  BY FS_EmptySet DEF Counted, CountIsExact, QueueBounded
<1> QED
  BY <1>2, <1>3, <1>4, <1>5, <1>6, <1>7, <1>8 DEF QueueInv, Migrating

\* A caller begins: it holds a guard unless the router queues it.
LEMMA BeginStep ==
    ASSUME QueueInv, NEW c \in Caller, NEW k \in Key \cup {NoKey}, Begin(c, k)
    PROVE  QueueInv'
<1> USE DEF QueueInv, Begin, sqlVars, memVars, workerVars, migVars
<1>1. inflight' = Cardinality(Inside') /\ inflight' \in Nat
  <2>1. CASE router = "Normal"
    BY <2>1, EnterCounts
  <2>2. CASE router # "Normal"
    <3>1. Inside' = Inside
      BY <2>2 DEF Inside, CallType
    <3> QED
      BY <2>2, <3>1 DEF Admitted, CallType
  <2> QED
    BY <2>1, <2>2
<1>2. CallType' /\ Admitted'
  BY <1>1 DEF CallType, Admitted
<1>3. SqlType' /\ MemType' /\ WorkType' /\ MigType' /\ Counted' /\ Migrating'
  BY DEF SqlType, MemType, WorkType, MigType, Counted, CountIsExact, QueueBounded, Migrating
<1> QED
  BY <1>2, <1>3

\* A write that is accepted leaves one row of the log behind, and its claim.
LEMMA AcceptStep ==
    ASSUME QueueInv, NEW k \in Key \cup {NoKey}, NEW r \in Rid, NEW op \in Op,
           op.hlc = clock + 1, ~Full, Accept(k, r, op)
    PROVE  /\ Counted' /\ pending' \subseteq Op
           /\ clock' \in 0..MaxClock /\ count' \in Nat
           /\ written' \in [Rid -> Key \cup {NoKey, NoWrite}]
           /\ claims' \in [Key -> Rid \cup {NoWrite}]
<1> USE DEF QueueInv, Accept
<1>1. /\ Counted' /\ pending' \subseteq Op
      /\ clock' \in 0..MaxClock /\ count' \in Nat
  BY PushCounts
<1>2. written' \in [Rid -> Key \cup {NoKey, NoWrite}]
  BY DEF SqlType
<1>3. claims' \in [Key -> Rid \cup {NoWrite}]
  BY DEF SqlType
<1> QED
  BY <1>1, <1>2, <1>3

LEMMA SyncCommitStep ==
    ASSUME QueueInv, NEW c \in Caller, NEW r \in Rid, SyncCommit(c, r)
    PROVE  QueueInv'
<1> USE DEF QueueInv, SyncCommit
<1>1. job[c] \in Key \cup {NoKey} /\ pc[c] # "idle"
  BY DEF Admitted
<1>2. Post(r) \in Op /\ Post(r).hlc = clock + 1
  BY PostType DEF Accept, SqlType
<1>3. /\ Counted' /\ pending' \subseteq Op
      /\ clock' \in 0..MaxClock /\ count' \in Nat
      /\ written' \in [Rid -> Key \cup {NoKey, NoWrite}]
      /\ claims' \in [Key -> Rid \cup {NoWrite}]
  BY <1>1, <1>2, AcceptStep
<1>4. CallType' /\ Admitted'
  BY <1>1, LeaveCallStep
<1>5. rows' \in [Rid -> [status : {"absent", "active", "tombstoned"}, gen : Gen]]
  BY DEF SqlType, MemType
<1>6. SqlType' /\ MemType'
  BY <1>3, <1>5 DEF SqlType, MemType
<1>7. WorkType' /\ MigType' /\ Migrating'
  BY DEF LeaveCall, workerVars, migVars, WorkType, MigType, Migrating
<1> QED
  BY <1>3, <1>4, <1>6, <1>7

LEMMA QueuedCommitStep ==
    ASSUME QueueInv, NEW c \in Caller, NEW r \in Rid, QueuedCommit(c, r)
    PROVE  QueueInv'
<1> USE DEF QueueInv, QueuedCommit
<1>1. job[c] \in Key \cup {NoKey} /\ pc[c] # "idle"
  BY DEF Admitted
<1>2. PICK named \in Named : Accept(job[c], r, Queued(r, named))
  OBVIOUS
<1>3. Queued(r, named) \in Op /\ Queued(r, named).hlc = clock + 1
  BY <1>2, QueuedType DEF Accept, SqlType
<1>4. /\ Counted' /\ pending' \subseteq Op
      /\ clock' \in 0..MaxClock /\ count' \in Nat
      /\ written' \in [Rid -> Key \cup {NoKey, NoWrite}]
      /\ claims' \in [Key -> Rid \cup {NoWrite}]
  BY <1>1, <1>2, <1>3, AcceptStep
<1>5. CallType' /\ Admitted'
  BY <1>1, LeaveCallStep
<1>6. SqlType' /\ MemType'
  BY <1>4 DEF SqlType, MemType
<1>7. WorkType' /\ MigType' /\ Migrating'
  BY DEF LeaveCall, workerVars, migVars, WorkType, MigType, Migrating
<1> QED
  BY <1>4, <1>5, <1>6, <1>7

\* A call that ends without writing, and the steps of a forget after its
\* transaction, touch neither the log nor the rows.
LEMMA ReturnStep ==
    ASSUME QueueInv, NEW c \in Caller,
           Refused(c) \/ CommitFails(c) \/ ForgetIndex(c) \/ ForgetMemory(c)
    PROVE  QueueInv'
<1> USE DEF QueueInv, sqlVars, memVars
<1>1. UNCHANGED <<rows, written, claims, pending, clock, links, mentions, mark, gen, count>>
  BY DEF Refused, CommitFails, ForgetIndex, ForgetMemory
<1>2. UNCHANGED <<at, batch, cur, seen, phase, built>>
  BY DEF Refused, CommitFails, ForgetIndex, ForgetMemory, LeaveCall, workerVars, migVars
<1>3. index' \subseteq Rid /\ cache' \subseteq Rid /\ graph' \subseteq Rid
  BY DEF Refused, CommitFails, ForgetIndex, ForgetMemory, MemType
<1>4. faults' \in Nat
  BY ConstantsAssumption DEF Refused, CommitFails, ForgetIndex, ForgetMemory, Fault, MigType
<1>5. CallType' /\ Admitted'
  <2>1. CASE LeaveCall(c)
    <3>1. pc[c] # "idle"
      BY DEF Refused, CommitFails, ForgetIndex, ForgetMemory
    <3> QED
      BY <2>1, <3>1, LeaveCallStep
  <2>2. CASE ~LeaveCall(c)
    <3>1. /\ pc[c] = "forgotten" /\ pc' = [pc EXCEPT ![c] = "unlink"]
          /\ UNCHANGED <<job, inflight, router>>
      BY <2>2 DEF Refused, CommitFails, ForgetIndex, ForgetMemory
    <3>2. Inside' = Inside
      BY <3>1 DEF Inside, CallType
    <3>3. CallType'
      BY <3>1 DEF CallType
    <3> QED
      BY <3>1, <3>2, <3>3 DEF CallType, Admitted
  <2> QED
    BY <2>1, <2>2
<1>6. SqlType' /\ MemType' /\ Counted'
  BY <1>1, <1>3 DEF SqlType, MemType, Counted, CountIsExact, QueueBounded
<1>7. WorkType' /\ MigType' /\ Migrating'
  BY <1>1, <1>2, <1>4 DEF WorkType, MigType, Migrating
<1> QED
  BY <1>5, <1>6, <1>7

LEMMA ForgetTxStep ==
    ASSUME QueueInv, NEW c \in Caller, NEW r \in Rid, ForgetTx(c, r)
    PROVE  QueueInv'
<1> USE DEF QueueInv, ForgetTx, memVars, workerVars, migVars
<1>1. inflight' = Cardinality(Inside') /\ inflight' \in Nat
  <2>1. CASE Active(r)
    BY <2>1, EnterCounts
  <2>2. CASE ~Active(r)
    BY <2>2, EnterCounts
  <2> QED
    BY <2>1, <2>2
<1>2. CallType'
  BY <1>1 DEF CallType
<1>3. Admitted'
  BY <1>1 DEF CallType, Admitted
<1>4. rows' \in [Rid -> [status : {"absent", "active", "tombstoned"}, gen : Gen]]
  BY DEF SqlType
<1>5. SqlType'
  BY <1>4 DEF SqlType
<1>6. MemType' /\ WorkType' /\ MigType' /\ Counted' /\ Migrating'
  BY DEF MemType, WorkType, MigType, Counted, CountIsExact, QueueBounded, Migrating
<1> QED
  BY <1>2, <1>3, <1>5, <1>6

\* Between reading the log and marking an op, a worker changes only its own
\* place, the projections of a record, and no count.
LEMMA WorkerFrame ==
    ASSUME QueueInv, UNCHANGED <<pending, clock, count, router, inflight, pc, job,
                                 gen, phase, built>>
    PROVE  Counted' /\ CallType' /\ Admitted' /\ Migrating'
  BY DEF QueueInv, Counted, CountIsExact, QueueBounded, CallType, Admitted, Inside, Migrating

LEMMA FetchStep == ASSUME QueueInv, NEW w \in Worker, Fetch(w) PROVE QueueInv'
<1> USE DEF QueueInv, Fetch, sqlVars, memVars, routerVars, callerVars, migVars
<1>1. FirstOps(Batch) \in SUBSET Op
  BY DEF FirstOps, SqlType
<1>2. WorkType'
  BY <1>1 DEF WorkType
<1>3. SqlType' /\ MemType' /\ MigType'
  BY DEF SqlType, MemType, MigType
<1> QED
  BY <1>2, <1>3, WorkerFrame

\* Taking up an op of the batch, whatever is done with it.
LEMMA TakeType ==
    ASSUME WorkType, NEW w \in Worker, NEW o \in batch[w],
           NEW type, NEW step \in {"row", "graph", "mark"}, Take(w, o, type, step),
           seen' \in [Worker -> Gen]
    PROVE  WorkType'
<1>1. o \in Op /\ batch[w] \ {o} \in SUBSET Op
  BY DEF WorkType
<1>2. /\ at' = [at EXCEPT ![w] = step] /\ cur' = [cur EXCEPT ![w] = o]
      /\ batch' = [batch EXCEPT ![w] = batch[w] \ {o}]
  BY DEF Take, Goto
<1>3. /\ at' \in [Worker -> {"next", "row", "append", "cache", "enqueue", "graph", "mark"}]
      /\ cur' \in [Worker -> Op \cup {NoOp}]
      /\ batch' \in [Worker -> SUBSET Op]
  BY <1>1, <1>2 DEF WorkType
<1>4. \A x \in Worker : at'[x] # "next" => cur'[x] \in Op
  BY <1>1, <1>2 DEF WorkType
<1> QED
  BY <1>3, <1>4 DEF WorkType

LEMMA BatchStep ==
    ASSUME QueueInv, NEW w \in Worker, NEW o \in batch[w],
           Defer(w, o) \/ Load(w, o) \/ LinkEntities(w, o) \/ Acknowledge(w, o)
    PROVE  QueueInv'
<1> USE DEF QueueInv, sqlVars, memVars, routerVars, callerVars, migVars
<1>1. o \in Op /\ o.rid \in Rid
  BY DEF WorkType, Op
<1>2. UNCHANGED <<rows, written, claims, pending, clock, mark, gen, index, cache, graph,
                  count, router, inflight, pc, job, phase, built, faults>>
  BY DEF Defer, Load, LinkEntities, Acknowledge
<1>3. WorkType'
  <2>1. CASE Defer(w, o)
    BY <2>1 DEF Defer, WorkType
  <2>2. CASE Load(w, o)
    <3>1. seen' \in [Worker -> Gen]
      BY <2>2 DEF Load, WorkType, MemType
    <3> QED
      BY <2>2, <3>1, TakeType DEF Load
  <2>3. CASE LinkEntities(w, o) \/ Acknowledge(w, o)
    <3>1. seen' \in [Worker -> Gen]
      BY <2>3 DEF LinkEntities, Acknowledge, WorkType
    <3> QED
      BY <2>3, <3>1, TakeType DEF LinkEntities, Acknowledge
  <2> QED
    BY <2>1, <2>2, <2>3
<1>4. links' \subseteq Rid /\ mentions' \in [Rid -> Nat]
  <2>1. CASE LinkEntities(w, o)
    BY <1>1, <2>1 DEF LinkEntities, SqlType
  <2>2. CASE UNCHANGED <<links, mentions>>
    BY <2>2 DEF SqlType
  <2> QED
    BY <2>1, <2>2 DEF Defer, Load, Acknowledge
<1>5. SqlType' /\ MemType' /\ MigType'
  BY <1>2, <1>4 DEF SqlType, MemType, MigType
<1> QED
  BY <1>2, <1>3, <1>5, WorkerFrame

\* The steps of a queued record and of a post-op up to the mark.
LEMMA ApplyStep ==
    ASSUME QueueInv, NEW w \in Worker,
           InsertRow(w) \/ Append(w) \/ CacheInsert(w) \/ LinkGraph(w)
    PROVE  QueueInv'
<1> USE DEF QueueInv, Goto, sqlVars, memVars, routerVars, callerVars, migVars
<1>1. cur[w] \in Op /\ cur[w].rid \in Rid
  BY DEF InsertRow, Append, CacheInsert, LinkGraph, WorkType, Op
<1>2. /\ UNCHANGED <<written, claims, pending, clock, links, mentions, mark, gen,
                     count, router, inflight, pc, job, phase, built, faults, batch, cur, seen>>
      /\ \E step \in {"append", "cache", "enqueue", "mark"} : at' = [at EXCEPT ![w] = step]
      /\ at[w] # "next"
  BY DEF InsertRow, Append, CacheInsert, LinkGraph
<1>3. rows' \in [Rid -> [status : {"absent", "active", "tombstoned"}, gen : Gen]]
  <2>1. CASE InsertRow(w)
    BY <1>1, <2>1 DEF InsertRow, SqlType, WorkType
  <2>2. CASE UNCHANGED rows
    BY <2>2 DEF SqlType
  <2> QED
    BY <2>1, <2>2 DEF Append, CacheInsert, LinkGraph
<1>4. index' \subseteq Rid /\ cache' \subseteq Rid /\ graph' \subseteq Rid
  BY <1>1 DEF InsertRow, Append, CacheInsert, LinkGraph, MemType
<1>5. WorkType'
  BY <1>2 DEF WorkType
<1>6. SqlType' /\ MemType' /\ MigType'
  BY <1>2, <1>3, <1>4 DEF SqlType, MemType, MigType
<1> QED
  BY <1>2, <1>5, <1>6, WorkerFrame

\* A queued record's post-op is one more pending operation.
LEMMA EnqueuePostStep ==
    ASSUME QueueInv, NEW w \in Worker, EnqueuePost(w)
    PROVE  QueueInv'
<1> USE DEF QueueInv, EnqueuePost, Goto, routerVars, callerVars, migVars
<1>1. cur[w] \in Op /\ cur[w].rid \in Rid
  BY DEF WorkType, Op
<1>2. Post(cur[w].rid) \in Op /\ Post(cur[w].rid).hlc = clock + 1
  BY <1>1, PostType DEF SqlType
<1>3. /\ Counted' /\ pending' \subseteq Op
      /\ clock' \in 0..MaxClock /\ count' \in Nat
  BY <1>2, PushCounts
<1>4. SqlType' /\ MemType' /\ MigType' /\ WorkType'
  BY <1>3 DEF SqlType, MemType, MigType, WorkType
<1>5. CallType' /\ Admitted' /\ Migrating'
  BY DEF CallType, Admitted, Inside, Migrating
<1> QED
  BY <1>3, <1>4, <1>5

\* The pass lets go of its op: refused, failed, or marked.
LEMMA LetGoStep ==
    ASSUME QueueInv, NEW w \in Worker,
           EnqueueRefused(w) \/ MarkApplied(w) \/ ApplyFails(w)
    PROVE  QueueInv'
<1> USE DEF QueueInv, Advance, Goto, sqlVars, memVars, routerVars, callerVars, migVars
<1>1. UNCHANGED <<rows, written, claims, clock, links, mentions, mark, gen, index, cache,
                  graph, router, inflight, pc, job, phase, built>>
  BY DEF EnqueueRefused, MarkApplied, ApplyFails
<1>2. faults' \in Nat
  BY ConstantsAssumption DEF EnqueueRefused, MarkApplied, ApplyFails, Fault, MigType
<1>3. WorkType'
  <2>1. /\ at' = [at EXCEPT ![w] = "next"] /\ cur' = [cur EXCEPT ![w] = NoOp]
        /\ seen' = [seen EXCEPT ![w] = 0]
    BY DEF EnqueueRefused, MarkApplied, ApplyFails
  <2>2. 0 \in Gen
    BY ConstantsAssumption DEF Gen
  <2>3. batch' \in [Worker -> SUBSET Op]
    BY DEF EnqueueRefused, MarkApplied, ApplyFails, WorkType
  <2> QED
    BY <2>1, <2>2, <2>3 DEF WorkType
<1>4. Counted' /\ pending' \subseteq Op /\ count' \in Nat
  <2>1. CASE MarkApplied(w)
    <3>1. pending' = pending \ {cur[w]} /\ clock' = clock
          /\ count' = IF cur[w] \in pending THEN count - 1 ELSE count
      BY <2>1 DEF MarkApplied
    <3> QED
      BY <3>1, PopCounts
  <2>2. CASE UNCHANGED <<pending, count>>
    BY <1>1, <2>2 DEF Counted, CountIsExact, QueueBounded, SqlType, MemType
  <2> QED
    BY <2>1, <2>2 DEF EnqueueRefused, ApplyFails
<1>5. SqlType' /\ MemType' /\ MigType' /\ CallType' /\ Admitted' /\ Migrating'
  BY <1>1, <1>2, <1>4 DEF SqlType, MemType, MigType, CallType, Admitted, Inside, Migrating
<1> QED
  BY <1>3, <1>4, <1>5

LEMMA MigrateStep ==
    ASSUME QueueInv, MigBegin \/ Migrate \/ MigFails
    PROVE  QueueInv'
<1> USE DEF QueueInv, sqlVars, memVars, routerVars, callerVars, workerVars
<1>1. UNCHANGED <<written, claims, pending, clock, links, mentions, cache, graph, count,
                  inflight, pc, job, at, batch, cur, seen>>
  BY DEF Migrate, MigBegin, MigClose, MigTail, MigPublish, MigResume, MigDone, MigFails
<1>2. ActiveRows \subseteq Rid
  BY DEF ActiveRows
<1>3. CASE MigPublish
  <2>1. gen' \in Gen /\ gen + 1 \in Gen
    BY <1>3, ConstantsAssumption DEF MigPublish, Migrating, MemType, Gen
  <2>2. rows' \in [Rid -> [status : {"absent", "active", "tombstoned"}, gen : Gen]]
    BY <1>3, <2>1 DEF MigPublish, SqlType
  <2>3. SqlType' /\ MemType' /\ MigType'
    BY <1>1, <1>3, <2>1, <2>2 DEF MigPublish, SqlType, MemType, MigType
  <2>4. WorkType' /\ CallType' /\ Admitted' /\ Counted'
    BY <1>1, <1>3 DEF MigPublish, WorkType, CallType, Admitted, Inside, Counted,
                      CountIsExact, QueueBounded
  <2> QED
    BY <1>3, <2>3, <2>4 DEF MigPublish, Migrating
<1>4. CASE MigBegin \/ MigClose \/ MigTail \/ MigResume \/ MigDone \/ MigFails
  <2>1. UNCHANGED <<rows, gen, index>> /\ mark' \in BOOLEAN
    BY <1>4 DEF MigBegin, MigClose, MigTail, MigResume, MigDone, MigFails, SqlType
  <2>2. /\ phase' \in {"idle", "encode", "drain", "swap", "resume", "verify"}
        /\ built' \subseteq Rid /\ router' \in {"Normal", "Queueing"}
    BY <1>2, <1>4 DEF MigBegin, MigClose, MigTail, MigResume, MigDone, MigFails, MigType, CallType
  <2>3. faults' \in Nat
    BY <1>4, ConstantsAssumption DEF MigBegin, MigClose, MigTail, MigResume, MigDone, MigFails, Fault, MigType
  <2>4. Migrating'
    BY <1>4 DEF MigBegin, MigClose, MigTail, MigResume, MigDone, MigFails, Migrating
  <2>5. SqlType' /\ MemType' /\ MigType'
    BY <1>1, <2>1, <2>2, <2>3 DEF SqlType, MemType, MigType
  <2>6. WorkType' /\ CallType' /\ Admitted' /\ Counted'
    BY <1>1, <2>2 DEF WorkType, CallType, Admitted, Inside, Counted, CountIsExact, QueueBounded
  <2> QED
    BY <2>4, <2>5, <2>6
<1> QED
  BY <1>3, <1>4 DEF Migrate

\* open() counts the pending rows afresh, and nobody is inside the router.
LEMMA ReopenStep == ASSUME QueueInv, Reopen PROVE QueueInv'
<1> USE DEF QueueInv, Reopen
<1>1. Inside' = {}
  BY DEF Inside
<1>2. CallType'
  BY DEF CallType
<1>3. Admitted'
  BY <1>1, FS_EmptySet DEF Admitted
<1>4. WorkType'
  <2>1. 0 \in Gen
    BY ConstantsAssumption DEF Gen
  <2>2. /\ batch' \in [Worker -> SUBSET Op] /\ cur' \in [Worker -> Op \cup {NoOp}]
        /\ seen' \in [Worker -> Gen]
    BY <2>1
  <2>3. at' \in [Worker -> {"next", "row", "append", "cache", "enqueue", "graph", "mark"}]
    OBVIOUS
  <2> QED
    BY <2>2, <2>3 DEF WorkType
<1>5. SqlType'
  BY DEF SqlType
<1>6. MemType'
  <2>1. Cardinality(pending) \in Nat
    BY FS_CardinalityType DEF Counted
  <2> QED
    BY <2>1 DEF MemType, SqlType, ActiveRows
<1>7. MigType' /\ Counted' /\ Migrating'
  BY ConstantsAssumption DEF MigType, Fault, Counted, CountIsExact, QueueBounded, Migrating
<1> QED
  BY <1>2, <1>3, <1>4, <1>5, <1>6, <1>7

LEMMA QueueInvNext == QueueInv /\ [Next]_vars => QueueInv'
<1> SUFFICES ASSUME QueueInv, [Next]_vars PROVE QueueInv'
  OBVIOUS
<1>1. CASE UNCHANGED vars
  BY <1>1 DEF vars, sqlVars, memVars, routerVars, callerVars, workerVars, migVars,
              QueueInv, SqlType, MemType, CallType, WorkType, MigType, Admitted, Inside,
              Counted, CountIsExact, QueueBounded, Migrating
<1>2. ASSUME NEW c \in Caller, Start(c) PROVE QueueInv'
  BY <1>2, BeginStep, ForgetTxStep DEF Start
<1>3. ASSUME NEW c \in Caller, Proceed(c) PROVE QueueInv'
  BY <1>3, SyncCommitStep, QueuedCommitStep, ReturnStep DEF Proceed
<1>4. ASSUME NEW w \in Worker, Work(w) \/ ApplyFails(w) PROVE QueueInv'
  BY <1>4, FetchStep, BatchStep, ApplyStep, EnqueuePostStep, LetGoStep DEF Work
<1>5. CASE MigBegin \/ Migrate \/ MigFails
  BY <1>5, MigrateStep
<1>6. CASE Reopen
  BY <1>6, ReopenStep
<1> QED
  BY <1>1, <1>2, <1>3, <1>4, <1>5, <1>6 DEF Next

LEMMA QueueInvAlways == Spec => []QueueInv
<1> QED
  BY QueueInvInit, QueueInvNext, PTL DEF Spec

-----------------------------------------------------------------------------
(* The second invariant: what a claim, a row and a forgotten record keep *)

\* Every op, wherever it waits, is about an accepted write.
OpsOwned ==
    /\ \A o \in pending : written[o.rid] # NoWrite
    /\ \A w \in Worker : \A o \in batch[w] : written[o.rid] # NoWrite
    /\ \A w \in Worker : at[w] # "next" => written[cur[w].rid] # NoWrite

\* A row belongs to an accepted write; a claim to the write that carried it;
\* and who tidies up after a forget has a forgotten record in hand.
LedgerInv ==
    /\ OneWritePerKey
    /\ \A r \in Rid : rows[r].status # "absent" => written[r] # NoWrite
    /\ \A c \in Caller : pc[c] \in {"forgotten", "unlink"}
                            => rows[job[c]].status = "tombstoned"

\* A step may bring an absent row in or tombstone a live one: nothing else.
StatusStep ==
    \A r \in Rid : \/ rows'[r].status = rows[r].status
                   \/ rows[r].status = "absent" /\ rows'[r].status = "active"
                   \/ rows[r].status = "active" /\ rows'[r].status = "tombstoned"

\* A caller that begins, works and returns: what its hand holds is forgotten.
LEMMA LedgerCaller ==
    ASSUME QueueInv, LedgerInv, NEW c \in Caller, Start(c) \/ Proceed(c)
    PROVE  LedgerInv' /\ StatusStep
<1> USE DEF QueueInv, LedgerInv, CallType
<1>1. ASSUME NEW k \in Key \cup {NoKey}, Begin(c, k) PROVE LedgerInv' /\ StatusStep
  BY <1>1 DEF Begin, OneWritePerKey, StatusStep, sqlVars
<1>2. ASSUME NEW r \in Rid, ForgetTx(c, r) PROVE LedgerInv' /\ StatusStep
  <2>1. UNCHANGED <<written, claims>> /\ job' = [job EXCEPT ![c] = r]
        /\ pc' = [pc EXCEPT ![c] = IF Active(r) THEN "forgotten" ELSE "missed"]
    BY <1>2 DEF ForgetTx
  <2>2. \A x \in Rid : /\ x # r => rows'[x] = rows[x]
                       /\ Active(r) => rows'[r].status = "tombstoned"
                       /\ ~Active(r) => rows'[r] = rows[r]
    BY <1>2 DEF ForgetTx, SqlType
  <2>3. StatusStep
    BY <2>2 DEF StatusStep, Active
  <2>4. \A x \in Caller : pc[x] \in {"forgotten", "unlink"} => job[x] \in Rid
    BY DEF Admitted
  <2>5. \A x \in Caller : pc'[x] \in {"forgotten", "unlink"} => rows'[job'[x]].status = "tombstoned"
    BY <2>1, <2>2, <2>4 DEF Active
  <2>6. \A x \in Rid : rows'[x].status # "absent" => written'[x] # NoWrite
    BY <2>1, <2>2 DEF Active
  <2> QED
    BY <2>1, <2>3, <2>5, <2>6 DEF OneWritePerKey
<1>3. ASSUME NEW r \in Rid, NEW op, pc[c] \in {"sync", "queued"}, ~Claimed(job[c]),
             Accept(job[c], r, op), LeaveCall(c), rows' \in [Rid -> [status : {"absent", "active", "tombstoned"}, gen : Gen]],
             \A x \in Rid : x # r => rows'[x] = rows[x],
             rows'[r] = rows[r] \/ rows'[r].status = "active"
      PROVE LedgerInv' /\ StatusStep
  <2>1. job[c] \in Key \cup {NoKey}
    BY <1>3 DEF Admitted
  <2>2. written' = [written EXCEPT ![r] = job[c]] /\ written[r] = NoWrite /\ written'[r] # NoWrite
    BY <1>3, <2>1, ConstantsAssumption DEF Accept, SqlType
  <2>3. rows[r].status = "absent"
    BY <2>2
  <2>4. StatusStep
    BY <1>3, <2>3 DEF StatusStep
  <2>5. OneWritePerKey'
    BY <1>3, <2>1, <2>2, ConstantsAssumption DEF OneWritePerKey, Accept, Claimed, SqlType
  <2>6. \A x \in Caller : pc'[x] \in {"forgotten", "unlink"}
                             => job'[x] = job[x] /\ job[x] \in Rid /\ pc[x] \in {"forgotten", "unlink"}
    BY <1>3 DEF LeaveCall, Admitted
  <2>7. \A x \in Caller : pc'[x] \in {"forgotten", "unlink"} => rows'[job'[x]].status = "tombstoned"
    BY <1>3, <2>3, <2>6
  <2>8. \A x \in Rid : rows'[x].status # "absent" => written'[x] # NoWrite
    BY <1>3, <2>2 DEF SqlType
  <2> QED
    BY <2>4, <2>5, <2>7, <2>8
<1>4. ASSUME NEW r \in Rid, SyncCommit(c, r) PROVE LedgerInv' /\ StatusStep
  <2>1. rows' = [rows EXCEPT ![r] = [status |-> "active", gen |-> gen]]
    BY <1>4 DEF SyncCommit
  <2>2. rows' \in [Rid -> [status : {"absent", "active", "tombstoned"}, gen : Gen]]
    BY <2>1 DEF SqlType, MemType
  <2>3. rows'[r].status = "active" /\ \A x \in Rid : x # r => rows'[x] = rows[x]
    BY <2>1 DEF SqlType
  <2> QED
    BY <1>3, <1>4, <2>2, <2>3 DEF SyncCommit
<1>5. ASSUME NEW r \in Rid, QueuedCommit(c, r) PROVE LedgerInv' /\ StatusStep
  <2>1. PICK named \in Named : Accept(job[c], r, Queued(r, named))
    BY <1>5 DEF QueuedCommit
  <2> QED
    BY <1>3, <1>5, <2>1 DEF QueuedCommit, SqlType
<1>6. CASE Refused(c) \/ CommitFails(c) \/ ForgetIndex(c) \/ ForgetMemory(c)
  <2>1. UNCHANGED <<rows, written, claims>>
    BY <1>6 DEF Refused, CommitFails, ForgetIndex, ForgetMemory, sqlVars
  <2>2. \A x \in Caller : pc'[x] \in {"forgotten", "unlink"}
                             => job'[x] = job[x] /\ pc[x] \in {"forgotten", "unlink"}
    BY <1>6 DEF Refused, CommitFails, ForgetIndex, ForgetMemory, LeaveCall
  <2> QED
    BY <2>1, <2>2 DEF OneWritePerKey, StatusStep
<1> QED
  BY <1>1, <1>2, <1>4, <1>5, <1>6 DEF Start, Proceed

\* What a worker may insert a row for was accepted.
LEMMA LedgerElsewhere ==
    ASSUME QueueInv, LedgerInv, OpsOwned,
           \/ \E w \in Worker : Work(w) \/ ApplyFails(w)
           \/ MigBegin \/ Migrate \/ MigFails \/ Reopen \/ UNCHANGED vars
    PROVE  LedgerInv' /\ StatusStep
<1> USE DEF QueueInv
<1>1. ASSUME UNCHANGED <<written, claims>>, StatusStep,
             \A c \in Caller : pc'[c] \in {"forgotten", "unlink"}
                                  => pc[c] \in {"forgotten", "unlink"} /\ job'[c] = job[c],
             \A r \in Rid : rows[r].status = "absent" =>
                               rows'[r].status = "absent" \/ written[r] # NoWrite
      PROVE  LedgerInv'
  <2>1. \A c \in Caller : pc[c] \in {"forgotten", "unlink"} => job[c] \in Rid
    BY DEF Admitted
  <2> QED
    BY <1>1, <2>1 DEF LedgerInv, OneWritePerKey, StatusStep
<1>2. ASSUME UNCHANGED <<rows, written, claims, pc, job>> PROVE LedgerInv' /\ StatusStep
  BY <1>2, <1>1 DEF StatusStep
<1>3. CASE UNCHANGED vars
  BY <1>2, <1>3 DEF vars, sqlVars, memVars, routerVars, callerVars, workerVars, migVars
<1>4. ASSUME NEW w \in Worker, InsertRow(w) PROVE LedgerInv' /\ StatusStep
  <2>1. cur[w].rid \in Rid /\ written[cur[w].rid] # NoWrite
    BY <1>4 DEF InsertRow, WorkType, OpsOwned, Op
  <2>2. UNCHANGED <<written, claims, pc, job>>
    BY <1>4 DEF InsertRow, callerVars
  <2>3. \A r \in Rid : \/ rows'[r] = rows[r]
                       \/ /\ r = cur[w].rid /\ rows[r].status = "absent"
                          /\ rows'[r].status = "active"
    BY <1>4, <2>1 DEF InsertRow, SqlType
  <2> QED
    BY <1>1, <2>1, <2>2, <2>3 DEF StatusStep
<1>5. ASSUME NEW w \in Worker, Work(w) \/ ApplyFails(w), ~InsertRow(w)
      PROVE  LedgerInv' /\ StatusStep
  <2>1. UNCHANGED <<rows, written, claims, pc, job>>
    BY <1>5 DEF Work, Fetch, Defer, Load, LinkEntities, Acknowledge, Append, CacheInsert,
                EnqueuePost, EnqueueRefused, LinkGraph, MarkApplied, ApplyFails,
                sqlVars, callerVars
  <2> QED
    BY <1>2, <2>1
<1>6. CASE MigBegin \/ Migrate \/ MigFails
  <2>1. UNCHANGED <<written, claims, pc, job>>
    BY <1>6 DEF Migrate, MigBegin, MigClose, MigTail, MigPublish, MigResume, MigDone,
                MigFails, sqlVars, callerVars
  <2>2. \A r \in Rid : rows'[r].status = rows[r].status
    <3>1. CASE MigPublish
      BY <3>1 DEF MigPublish, SqlType
    <3>2. CASE UNCHANGED rows
      BY <3>2
    <3> QED
      BY <1>6, <3>1, <3>2 DEF Migrate, MigBegin, MigClose, MigTail, MigResume, MigDone,
                              MigFails, sqlVars
  <2> QED
    BY <1>1, <2>1, <2>2 DEF StatusStep
<1>7. CASE Reopen
  <2>1. UNCHANGED <<rows, written, claims>> /\ \A c \in Caller : pc'[c] = "idle"
    BY <1>7 DEF Reopen
  <2> QED
    BY <1>1, <2>1 DEF StatusStep
<1> QED
  BY <1>3, <1>4, <1>5, <1>6, <1>7

\* A worker's batch only gains what is pending.
LEMMA BatchGrowsByPending ==
    ASSUME QueueInv, NEW w \in Worker, Work(w) \/ ApplyFails(w)
    PROVE  \A x \in Worker : batch'[x] \subseteq batch[x] \cup pending
<1> USE DEF QueueInv
<1>1. ASSUME batch' = [batch EXCEPT ![w] = batch'[w]],
             batch'[w] \subseteq batch[w] \cup pending
      PROVE  \A x \in Worker : batch'[x] \subseteq batch[x] \cup pending
  BY <1>1 DEF WorkType
<1>2. CASE Fetch(w)
  BY <1>1, <1>2 DEF Fetch, FirstOps, WorkType
<1>3. ASSUME NEW o \in batch[w],
             Defer(w, o) \/ Load(w, o) \/ LinkEntities(w, o) \/ Acknowledge(w, o)
      PROVE  \A x \in Worker : batch'[x] \subseteq batch[x] \cup pending
  BY <1>1, <1>3 DEF Defer, Load, LinkEntities, Acknowledge, Take, WorkType
<1>4. CASE ApplyFails(w)
  BY <1>1, <1>4 DEF ApplyFails, WorkType
<1>5. CASE UNCHANGED batch
  BY <1>5
<1> QED
  BY <1>2, <1>3, <1>4, <1>5 DEF Work, InsertRow, Append, CacheInsert, EnqueuePost,
     EnqueueRefused, LinkGraph, MarkApplied, Advance

\* New ops are about the write just accepted or the one a worker is on.
LEMMA OpsOwnedNext == QueueInv /\ OpsOwned /\ [Next]_vars => OpsOwned'
<1> SUFFICES ASSUME QueueInv, OpsOwned, [Next]_vars PROVE OpsOwned'
  OBVIOUS
<1> USE DEF QueueInv
<1>1. ASSUME \A r \in Rid : written[r] # NoWrite => written'[r] # NoWrite,
             \A o \in pending' : o \in pending \/ written'[o.rid] # NoWrite,
             \A w \in Worker : batch'[w] \subseteq batch[w] \cup pending,
             \A w \in Worker : at'[w] # "next" =>
                 \/ at[w] # "next" /\ cur'[w] = cur[w]
                 \/ cur'[w] \in batch[w]
      PROVE  OpsOwned'
  <2>1. /\ \A o \in pending : o.rid \in Rid
        /\ \A w \in Worker : \A o \in batch[w] : o.rid \in Rid
        /\ \A w \in Worker : at[w] # "next" => cur[w].rid \in Rid
    BY DEF SqlType, WorkType, Op
  <2>2. \A o \in pending : written'[o.rid] # NoWrite
    BY <1>1, <2>1 DEF OpsOwned
  <2>3. \A w \in Worker : \A o \in batch[w] : written'[o.rid] # NoWrite
    BY <1>1, <2>1 DEF OpsOwned
  <2>4. \A w \in Worker : \A o \in batch'[w] : written'[o.rid] # NoWrite
    BY <1>1, <2>2, <2>3
  <2>5. \A w \in Worker : at'[w] # "next" => written'[cur'[w].rid] # NoWrite
    BY <1>1, <2>1, <2>3 DEF OpsOwned
  <2> QED
    BY <1>1, <2>2, <2>4, <2>5 DEF OpsOwned
<1>2. ASSUME UNCHANGED <<written, pending, at, batch, cur>> PROVE OpsOwned'
  BY <1>2 DEF OpsOwned
<1>3. CASE UNCHANGED vars
  BY <1>2, <1>3 DEF vars, sqlVars, memVars, routerVars, callerVars, workerVars, migVars
<1>4. ASSUME NEW c \in Caller, NEW r \in Rid, NEW op \in Op, op.rid = r,
             Accept(job[c], r, op), LeaveCall(c), pc[c] \in {"sync", "queued"}
      PROVE  OpsOwned'
  <2>1. job[c] # NoWrite
    BY <1>4, ConstantsAssumption DEF Admitted
  <2>2. written'[r] # NoWrite /\ \A x \in Rid : written[x] # NoWrite => written'[x] # NoWrite
    BY <1>4, <2>1 DEF Accept, SqlType
  <2>3. pending' = pending \cup {op} /\ UNCHANGED <<at, batch, cur>>
    BY <1>4 DEF Accept, LeaveCall, workerVars
  <2> QED
    BY <1>1, <1>4, <2>2, <2>3
<1>5. ASSUME NEW c \in Caller, Start(c) \/ Proceed(c) PROVE OpsOwned'
  <2>1. ASSUME NEW r \in Rid, SyncCommit(c, r) PROVE OpsOwned'
    <3>1. Post(r) \in Op /\ Post(r).rid = r
      BY <2>1, PostType DEF SyncCommit, Accept, SqlType, Post
    <3> QED
      BY <1>4, <2>1, <3>1 DEF SyncCommit
  <2>2. ASSUME NEW r \in Rid, QueuedCommit(c, r) PROVE OpsOwned'
    <3>1. PICK named \in Named : Accept(job[c], r, Queued(r, named))
      BY <2>2 DEF QueuedCommit
    <3>2. Queued(r, named) \in Op /\ Queued(r, named).rid = r
      BY <3>1, QueuedType DEF Accept, SqlType, Queued
    <3> QED
      BY <1>4, <2>2, <3>1, <3>2 DEF QueuedCommit
  <2>3. CASE \/ Start(c) \/ Refused(c) \/ CommitFails(c)
             \/ ForgetIndex(c) \/ ForgetMemory(c)
    <3>1. UNCHANGED <<written, pending, at, batch, cur>>
      BY <2>3 DEF Start, Begin, ForgetTx, Refused, CommitFails, ForgetIndex, ForgetMemory,
                  LeaveCall, sqlVars, workerVars
    <3> QED
      BY <1>2, <3>1
  <2> QED
    BY <1>5, <2>1, <2>2, <2>3 DEF Proceed
<1>6. ASSUME NEW w \in Worker, Work(w) \/ ApplyFails(w) PROVE OpsOwned'
  <2>1. UNCHANGED written
    BY <1>6 DEF Work, Fetch, Defer, Load, InsertRow, LinkEntities, Acknowledge, Append,
                CacheInsert, EnqueuePost, EnqueueRefused, LinkGraph, MarkApplied,
                ApplyFails, sqlVars
  <2>2. \A o \in pending' : o \in pending \/ written[o.rid] # NoWrite
    <3>1. CASE EnqueuePost(w)
      BY <3>1 DEF EnqueuePost, OpsOwned, Post
    <3>2. CASE ~EnqueuePost(w)
      BY <1>6, <3>2 DEF Work, Fetch, Defer, Load, InsertRow, LinkEntities, Acknowledge,
                Append, CacheInsert, EnqueueRefused, LinkGraph, MarkApplied, ApplyFails, sqlVars
    <3> QED
      BY <3>1, <3>2
  <2>3. \A x \in Worker : batch'[x] \subseteq batch[x] \cup pending
    BY <1>6, BatchGrowsByPending
  <2>4. \A x \in Worker : at'[x] # "next" =>
                 \/ at[x] # "next" /\ cur'[x] = cur[x]
                 \/ cur'[x] \in batch[x]
    BY <1>6 DEF WorkType, Work, Fetch, Defer, Load, Take, Advance, Goto, InsertRow,
                LinkEntities, Acknowledge, Append, CacheInsert, EnqueuePost, EnqueueRefused,
                LinkGraph, MarkApplied, ApplyFails
  <2> QED
    BY <1>1, <2>1, <2>2, <2>3, <2>4
<1>7. CASE MigBegin \/ Migrate \/ MigFails
  <2>1. UNCHANGED <<written, pending, at, batch, cur>>
    BY <1>7 DEF Migrate, MigBegin, MigClose, MigTail, MigPublish, MigResume, MigDone,
                MigFails, sqlVars, workerVars
  <2> QED
    BY <1>2, <2>1
<1>8. CASE Reopen
  BY <1>1, <1>8 DEF Reopen
<1> QED
  BY <1>3, <1>5, <1>6, <1>7, <1>8 DEF Next

LEMMA LedgerNext ==
    QueueInv /\ LedgerInv /\ OpsOwned /\ [Next]_vars => LedgerInv' /\ OpsOwned' /\ StatusStep
<1> QED
  BY LedgerCaller, LedgerElsewhere, OpsOwnedNext DEF Next

LEMMA LedgerInit == Init => LedgerInv /\ OpsOwned
  BY ConstantsAssumption DEF Init, LedgerInv, OneWritePerKey, OpsOwned

LEMMA LedgerAlways == Spec => [](LedgerInv /\ OpsOwned)
<1> QED
  BY QueueInvAlways, LedgerInit, LedgerNext, PTL DEF Spec

-----------------------------------------------------------------------------
(* The third invariant: what an accepted write is owed, when embedders are *)
(* named                                                                   *)

Present(r) == rows[r].status # "absent"
PostOwed(r) == \E o \in pending : o.type = "post" /\ o.rid = r

\* A queued record carries its embedder's name; a post-op has its row.
Sound(o) ==
    /\ o.type = "record" => o.named
    /\ o.type = "post" => Present(o.rid)

OpsSound ==
    /\ \A o \in pending : Sound(o)
    /\ \A w \in Worker : \A o \in batch[w] : Sound(o)
    /\ \A w \in Worker : at[w] # "next" => Sound(cur[w])

\* What a worker has already done for the op it is on.
Done(w) ==
    /\ at[w] \in {"row", "append", "cache", "enqueue"} => cur[w].type = "record"
    /\ at[w] = "graph" => cur[w].type = "post"
    /\ at[w] \in {"append", "cache", "enqueue", "mark"} => Present(cur[w].rid)
    /\ at[w] \in {"enqueue", "mark"} /\ cur[w].type = "record" /\ Active(cur[w].rid)
          => cur[w].rid \in cache
    /\ at[w] = "mark" /\ cur[w].type = "record" /\ Active(cur[w].rid)
          => cur[w].rid \in links \cap graph \/ PostOwed(cur[w].rid)
    /\ at[w] \in {"graph", "mark"} /\ cur[w].type = "post" /\ Active(cur[w].rid)
          => cur[w].rid \in links
    /\ at[w] = "mark" /\ cur[w].type = "post" /\ Active(cur[w].rid)
          => cur[w].rid \in graph

StepsDone == \A w \in Worker : Done(w)

\* A live record is complete, or what it misses is still owed to it.
Owed ==
    \A r \in Rid : Active(r) =>
        /\ r \in cache \/ Queued1(r)
        /\ r \in links \cap graph \/ PendingFor(r) # {}

\* A mention is counted with the record's first link.
Mentions ==
    \A r \in Rid :
        /\ ~Present(r) => mentions[r] = 0
        /\ Active(r) /\ r \notin links => mentions[r] = 0
        /\ Active(r) => mentions[r] <= 1

KeptInv == OpsSound /\ StepsDone /\ AcceptedIsKept /\ Owed /\ Mentions

\* The facts of QueueInv and LedgerInv the lemmas below use of an op.
LEMMA OpTypes ==
    ASSUME QueueInv
    PROVE  /\ \A o \in pending : o.rid \in Rid
           /\ \A w \in Worker : \A o \in batch[w] : o \in Op /\ o.rid \in Rid
           /\ \A w \in Worker : at[w] # "next" => cur[w] \in Op /\ cur[w].rid \in Rid
  BY DEF QueueInv, SqlType, WorkType, Op

\* Nothing that the invariant reads has changed.
LEMMA KeptFrame ==
    ASSUME KeptInv, QueueInv, \A r \in Rid : rows'[r].status = rows[r].status,
           UNCHANGED <<written, pending, links, mentions, cache, at, batch, cur>>,
           \A r \in Rid : Active(r) /\ r \in graph => r \in graph'
    PROVE  KeptInv'
<1> USE OpTypes DEF KeptInv, Present, Active
<1>1. OpsSound'
  BY DEF OpsSound, Sound
<1>2. StepsDone'
  BY DEF StepsDone, Done, PostOwed
<1>3. AcceptedIsKept' /\ Owed'
  BY DEF AcceptedIsKept, Owed, Queued1, PendingFor
<1>4. Mentions'
  BY DEF Mentions
<1> QED
  BY <1>1, <1>2, <1>3, <1>4

\* More operations are owed, the rows are as before.
LEMMA KeptPush ==
    ASSUME KeptInv, QueueInv, LedgerInv, NEW c \in Caller, NEW r \in Rid, NEW op \in Op,
           op.rid = r, op.type = "record" => op.named,
           Accept(job[c], r, op), LeaveCall(c),
           \/ rows' = rows /\ cache' = cache /\ op.type = "record"
           \/ rows' = [rows EXCEPT ![r] = [status |-> "active", gen |-> gen]]
                /\ cache' = cache \cup {r},
           UNCHANGED <<links, mentions, graph>>
    PROVE  KeptInv'
<1> USE DEF KeptInv
<1>1. ~Present(r) /\ written[r] = NoWrite
  BY DEF Accept, LedgerInv, Present
<1>2. /\ pending' = pending \cup {op} /\ UNCHANGED <<at, batch, cur>>
      /\ \A x \in Rid : x # r => written'[x] = written[x]
  BY DEF Accept, LeaveCall, workerVars, QueueInv, SqlType
<1>3. \A x \in Rid : /\ x # r => rows'[x] = rows[x]
                     /\ Present(x) => x # r /\ rows'[x] = rows[x]
                     /\ Active(x)' => Active(x) \/ (x = r /\ r \in cache')
  BY <1>1 DEF QueueInv, SqlType, Present, Active
<1>4. OpsSound'
  <2>1. op.type = "post" => rows'[r].status # "absent"
    BY DEF QueueInv, SqlType
  <2>2. \A x \in Rid : Present(x) => Present(x)'
    BY <1>3 DEF Present
  <2>3. \A o \in pending' : Sound(o)'
    BY <1>2, <2>1, <2>2, OpTypes DEF OpsSound, Sound, Present
  <2> QED
    BY <1>2, <2>2, <2>3, OpTypes DEF OpsSound, Sound
<1>5. StepsDone'
  <2>1. \A w \in Worker : at[w] \in {"append", "cache", "enqueue", "mark", "graph"}
                             => cur[w].rid \in Rid /\ Present(cur[w].rid)
    BY OpTypes DEF StepsDone, Done, OpsSound, Sound
  <2>2. \A w \in Worker : at[w] \in {"append", "cache", "enqueue", "mark", "graph"}
                             => rows'[cur[w].rid] = rows[cur[w].rid]
    BY <2>1, <1>3
  <2> QED
    BY <1>2, <2>1, <2>2 DEF StepsDone, Done, PostOwed, Present, Active
<1>6. AcceptedIsKept'
  <2>1. ASSUME NEW x \in Rid, written'[x] # NoWrite PROVE Present(x)' \/ Queued1(x)'
    <3>1. CASE x # r
      BY <1>2, <1>3, <2>1, <3>1 DEF AcceptedIsKept, Queued1, PendingFor, Present
    <3>2. CASE x = r
      BY <1>2, <3>2 DEF Present, Queued1, PendingFor, QueueInv, SqlType
    <3> QED
      BY <3>1, <3>2
  <2> QED
    BY <2>1 DEF AcceptedIsKept, Present
<1>7. Owed'
  BY <1>2, <1>3 DEF Owed, Queued1, PendingFor
<1>8. Mentions'
  BY <1>1, <1>3 DEF Mentions, Active, Present
<1> QED
  BY <1>4, <1>5, <1>6, <1>7, <1>8

LEMMA KeptCaller ==
    ASSUME Named = {TRUE}, QueueInv, LedgerInv, KeptInv,
           NEW c \in Caller, Start(c) \/ Proceed(c)
    PROVE  KeptInv'
<1>1. ASSUME NEW r \in Rid, SyncCommit(c, r) PROVE KeptInv'
  <2>1. Post(r) \in Op /\ Post(r).rid = r /\ Post(r).type = "post"
    BY <1>1, PostType DEF SyncCommit, Accept, QueueInv, SqlType, Post
  <2> QED
    BY <1>1, <2>1, KeptPush DEF SyncCommit
<1>2. ASSUME NEW r \in Rid, QueuedCommit(c, r) PROVE KeptInv'
  <2>1. Accept(job[c], r, Queued(r, TRUE))
    BY <1>2 DEF QueuedCommit
  <2>2. Queued(r, TRUE) \in Op /\ Queued(r, TRUE).rid = r /\ Queued(r, TRUE).type = "record"
    BY <2>1, QueuedType DEF Accept, QueueInv, SqlType, Queued
  <2>3. Queued(r, TRUE).named
    BY DEF Queued
  <2> QED
    BY <1>2, <2>1, <2>2, <2>3, KeptPush DEF QueuedCommit
<1>3. ASSUME NEW r \in Rid, ForgetTx(c, r), Active(r) PROVE KeptInv'
  <2> USE DEF KeptInv
  <2>1. /\ UNCHANGED <<written, pending, mentions, cache, graph, at, batch, cur>>
        /\ links' = links \ {r}
    BY <1>3 DEF ForgetTx, memVars, workerVars
  <2>2. \A x \in Rid : /\ Present(x)' = Present(x)
                       /\ Active(x)' => Active(x) /\ x # r
    BY <1>3 DEF ForgetTx, QueueInv, SqlType, Present, Active
  <2>3. OpsSound'
    BY <2>1, <2>2, OpTypes DEF OpsSound, Sound
  <2>4. StepsDone'
    BY <2>1, <2>2, OpTypes DEF StepsDone, Done, PostOwed
  <2>5. AcceptedIsKept'
    BY <2>1, <2>2 DEF AcceptedIsKept, Queued1, PendingFor, Present
  <2>6. Owed' /\ Mentions'
    BY <2>1, <2>2 DEF Owed, Mentions, Queued1, PendingFor
  <2> QED
    BY <2>3, <2>4, <2>5, <2>6
<1>4. CASE ForgetMemory(c)
  <2>1. /\ UNCHANGED <<rows, written, pending, links, mentions, at, batch, cur>>
        /\ graph' = graph \ {job[c]} /\ cache' = cache \ {job[c]}
    BY <1>4 DEF ForgetMemory, LeaveCall, sqlVars, workerVars
  <2>2. rows[job[c]].status = "tombstoned"
    BY <1>4 DEF ForgetMemory, LedgerInv
  <2>3. \A x \in Rid : Active(x) => x # job[c]
    BY <2>2 DEF Active
  <2>4. OpsSound' /\ AcceptedIsKept' /\ Owed' /\ Mentions'
    BY <2>1, <2>3 DEF KeptInv, OpsSound, Sound, Present, AcceptedIsKept, Owed, Mentions,
                      Queued1, PendingFor, Active
  <2>5. StepsDone'
    BY <2>1, <2>3, OpTypes DEF KeptInv, StepsDone, Done, PostOwed, Present, Active
  <2> QED
    BY <2>4, <2>5 DEF KeptInv
<1>5. ASSUME UNCHANGED <<rows, written, pending, links, mentions, cache, graph, at, batch, cur>>
      PROVE  KeptInv'
  BY <1>5, KeptFrame
<1>6. ASSUME NEW r \in Rid, ForgetTx(c, r), ~Active(r) PROVE KeptInv'
  BY <1>5, <1>6 DEF ForgetTx, memVars, workerVars
<1>7. ASSUME NEW k \in Key \cup {NoKey}, Begin(c, k) PROVE KeptInv'
  BY <1>5, <1>7 DEF Begin, sqlVars, memVars, workerVars
<1>8. CASE Refused(c) \/ CommitFails(c) \/ ForgetIndex(c)
  BY <1>5, <1>8 DEF Refused, CommitFails, ForgetIndex, LeaveCall, sqlVars, memVars, workerVars
<1> QED
  BY <1>1, <1>2, <1>3, <1>4, <1>6, <1>7, <1>8 DEF Start, Proceed

\* What a worker has done stays done while rows stay and projections grow.
LEMMA DoneStays ==
    ASSUME QueueInv, KeptInv, NEW w \in Worker, at'[w] = at[w], cur'[w] = cur[w],
           \A r \in Rid : Present(r) => Present(r)' /\ (Active(r)' => Active(r)),
           cache \subseteq cache', links \subseteq links', graph \subseteq graph',
           pending \subseteq pending'
    PROVE  Done(w)'
<1>1. at[w] \in {"graph", "append", "cache", "enqueue", "mark"}
         => cur[w].rid \in Rid /\ Present(cur[w].rid)
  BY OpTypes DEF KeptInv, StepsDone, Done, OpsSound, Sound
<1>2. PostOwed(cur[w].rid) => PostOwed(cur[w].rid)'
  BY DEF PostOwed
<1>3. Done(w)
  BY DEF KeptInv, StepsDone
<1>4. at[w] = "next" \/ at[w] = "row" \/ at[w] \in {"graph", "append", "cache", "enqueue", "mark"}
  BY DEF QueueInv, WorkType
<1>5. CASE at[w] = "next" \/ at[w] = "row"
  BY <1>3, <1>5 DEF Done
<1>6. CASE at[w] \in {"graph", "append", "cache", "enqueue", "mark"}
  <2> DEFINE r == cur[w].rid
  <2>1. r = cur'[w].rid /\ Present(r)' /\ (Active(r)' => Active(r))
    BY <1>1, <1>6
  <2>2. PostOwed(cur[w].rid)' = PostOwed(r)'
    OBVIOUS
  <2> QED
    BY <1>2, <1>3, <2>1 DEF Done, PostOwed, Present, Active
<1> QED
  BY <1>4, <1>5, <1>6

\* The worker's own op, when the others stay where they are.
LEMMA KeptFetch ==
    ASSUME QueueInv, KeptInv, NEW w \in Worker,
           Fetch(w) \/ \E o \in batch[w] : Defer(w, o)
    PROVE  KeptInv'
<1> USE DEF KeptInv
<1>1. UNCHANGED <<rows, written, pending, links, mentions, cache, graph, at, cur>>
  BY DEF Fetch, Defer, sqlVars, memVars
<1>2. \A x \in Worker : batch'[x] \subseteq batch[x] \cup pending
  <2>1. CASE Fetch(w)
    BY <2>1 DEF Fetch, FirstOps, QueueInv, WorkType
  <2>2. CASE \E o \in batch[w] : Defer(w, o)
    BY <2>2 DEF Defer, QueueInv, WorkType
  <2> QED
    BY <2>1, <2>2
<1>3. OpsSound'
  BY <1>1, <1>2, OpTypes DEF OpsSound, Sound, Present
<1>4. StepsDone' /\ AcceptedIsKept' /\ Owed' /\ Mentions'
  BY <1>1 DEF StepsDone, Done, PostOwed, AcceptedIsKept, Owed, Mentions, Queued1, PendingFor,
              Present, Active
<1> QED
  BY <1>3, <1>4

\* Taking up an op keeps what it and the rest of the batch say.
LEMMA KeptTake ==
    ASSUME QueueInv, KeptInv, NEW w \in Worker, NEW o \in batch[w], NEW type, NEW step,
           Take(w, o, type, step), UNCHANGED <<rows, pending>>
    PROVE  /\ OpsSound'
           /\ o \in Op /\ o.type = type /\ at'[w] = step /\ cur'[w] = o
           /\ \A x \in Worker : x # w => at'[x] = at[x] /\ cur'[x] = cur[x]
<1>1. /\ o \in Op /\ o.type = type /\ at'[w] = step /\ cur'[w] = o
      /\ \A x \in Worker : x # w => at'[x] = at[x] /\ cur'[x] = cur[x]
  BY DEF Take, Goto, QueueInv, WorkType
<1>2. \A x \in Worker : batch'[x] \subseteq batch[x]
  BY DEF Take, QueueInv, WorkType
<1>3. \A x \in Worker : at'[x] # "next" => cur'[x] = o \/ (at[x] # "next" /\ cur'[x] = cur[x])
  BY <1>1
<1> QED
  BY <1>1, <1>2, <1>3 DEF KeptInv, OpsSound, Sound, Present

LEMMA KeptLoad ==
    ASSUME Named = {TRUE}, QueueInv, KeptInv, NEW w \in Worker, NEW o \in batch[w],
           Load(w, o) \/ Acknowledge(w, o)
    PROVE  KeptInv'
<1> USE DEF KeptInv
<1>1. UNCHANGED <<rows, written, pending, links, mentions, cache, graph>>
  BY DEF Load, Acknowledge, sqlVars, memVars
<1>2. CASE Acknowledge(w, o)
  <2>1. o.type = "record" /\ ~o.named
    BY <1>2 DEF Acknowledge, Take
  <2> QED
    BY <2>1 DEF OpsSound, Sound
<1>3. CASE Load(w, o)
  <2>1. /\ OpsSound' /\ o.type = "record" /\ at'[w] = "row" /\ cur'[w] = o
        /\ \A x \in Worker : x # w => at'[x] = at[x] /\ cur'[x] = cur[x]
    BY <1>1, <1>3, KeptTake DEF Load
  <2>2. StepsDone'
    BY <1>1, <2>1 DEF StepsDone, Done, PostOwed, Present, Active
  <2>3. AcceptedIsKept' /\ Owed' /\ Mentions'
    BY <1>1 DEF AcceptedIsKept, Owed, Mentions, Queued1, PendingFor, Present, Active
  <2> QED
    BY <2>1, <2>2, <2>3
<1> QED
  BY <1>2, <1>3

\* Links are only added, and a mention is counted with the first of them.
LEMMA KeptLinkEntities ==
    ASSUME QueueInv, KeptInv, NEW w \in Worker, NEW o \in batch[w], LinkEntities(w, o)
    PROVE  KeptInv'
<1> USE DEF KeptInv
<1>1. UNCHANGED <<rows, written, pending, cache, graph>>
  BY DEF LinkEntities, memVars
<1>2. links' = links \cup {o.rid}
      /\ mentions' = IF o.rid \in links THEN mentions
                     ELSE [mentions EXCEPT ![o.rid] = mentions[o.rid] + 1]
  BY DEF LinkEntities
<1>3. /\ OpsSound' /\ o.type = "post" /\ at'[w] = "graph" /\ cur'[w] = o
      /\ \A x \in Worker : x # w => at'[x] = at[x] /\ cur'[x] = cur[x]
  BY <1>1, KeptTake DEF LinkEntities
<1>4. StepsDone'
  BY <1>1, <1>2, <1>3 DEF StepsDone, Done, PostOwed, Present, Active
<1>5. AcceptedIsKept' /\ Owed'
  BY <1>1, <1>2 DEF AcceptedIsKept, Owed, Queued1, PendingFor, Active
<1>6. Mentions'
  <2>1. Present(o.rid) /\ o.rid \in Rid
    BY <1>3, OpTypes DEF OpsSound, Sound
  <2>2. mentions \in [Rid -> Nat]
    BY DEF QueueInv, SqlType
  <2> QED
    BY <1>1, <1>2, <2>1, <2>2 DEF Mentions, Present, Active
<1> QED
  BY <1>3, <1>4, <1>5, <1>6

\* A queued record becomes a live row while it is still queued.
LEMMA KeptInsertRow ==
    ASSUME QueueInv, LedgerInv, OpsOwned, KeptInv, NEW w \in Worker, InsertRow(w)
    PROVE  KeptInv'
<1> USE DEF KeptInv
<1> DEFINE r == cur[w].rid
<1>1. r \in Rid /\ written[r] # NoWrite /\ cur[w].type = "record"
  BY OpTypes DEF InsertRow, OpsOwned, StepsDone, Done
<1>2. /\ UNCHANGED <<written, pending, links, mentions, cache, graph, batch, cur>>
      /\ at' = [at EXCEPT ![w] = "append"]
  BY DEF InsertRow, Goto, memVars
<1>3. /\ \A x \in Rid : Present(x) => rows'[x] = rows[x]
      /\ \A x \in Rid : Active(x)' => Active(x) \/ (x = r /\ ~Present(r))
      /\ \A x \in Rid : Present(x)' => Present(x) \/ x = r
      /\ Present(r)'
  BY <1>1 DEF InsertRow, QueueInv, SqlType, Present, Active
<1>4. \A x \in Rid : Present(x) => Present(x)' /\ (Active(x)' => Active(x))
  BY <1>3 DEF Present, Active
<1>5. OpsSound'
  <2>1. \A x \in Worker : at'[x] # "next" => at[x] # "next"
    BY <1>2 DEF InsertRow, QueueInv, WorkType
  <2> QED
    BY <1>2, <1>4, <2>1, OpTypes DEF OpsSound, Sound
<1>6. StepsDone'
  <2>1. ASSUME NEW x \in Worker, x # w PROVE Done(x)'
    <3>1. at'[x] = at[x] /\ cur'[x] = cur[x]
      BY <1>2, <2>1 DEF QueueInv, WorkType
    <3> QED
      BY <1>2, <1>4, <3>1, DoneStays
  <2>2. Done(w)'
    <3>1. at'[w] = "append" /\ cur'[w].type = "record" /\ rows'[cur'[w].rid].status # "absent"
      BY <1>1, <1>2, <1>3 DEF QueueInv, WorkType, Present
    <3> QED
      BY <3>1 DEF Done, Present
  <2> QED
    BY <2>1, <2>2 DEF StepsDone
<1>7. AcceptedIsKept'
  BY <1>2, <1>4 DEF AcceptedIsKept, Queued1, PendingFor, Present
<1>8. Owed'
  <2>1. ~Present(r) => Queued1(r)
    BY <1>1 DEF AcceptedIsKept, Present
  <2> QED
    BY <1>2, <1>3, <2>1 DEF Owed, Queued1, PendingFor
<1>9. Mentions'
  <2>1. mentions \in [Rid -> Nat]
    BY DEF QueueInv, SqlType
  <2> QED
    BY <1>2, <1>3, <1>4, <2>1 DEF Mentions
<1> QED
  BY <1>5, <1>6, <1>7, <1>8, <1>9

\* A worker goes from one step to the next; caches and graphs only gain.
LEMMA KeptAdvance ==
    ASSUME QueueInv, KeptInv, NEW w \in Worker,
           Append(w) \/ CacheInsert(w) \/ LinkGraph(w)
    PROVE  KeptInv'
<1> USE DEF KeptInv
<1>1. /\ UNCHANGED <<rows, written, pending, links, mentions, batch, cur>>
      /\ cache \subseteq cache' /\ graph \subseteq graph'
  BY DEF Append, CacheInsert, LinkGraph, sqlVars
<1>2. \A x \in Worker : x # w => at'[x] = at[x]
  BY DEF Append, CacheInsert, LinkGraph, Goto, QueueInv, WorkType
<1>3. /\ at[w] # "next" /\ at'[w] \in {"cache", "enqueue", "mark"}
      /\ at[w] = "append" => at'[w] = "cache"
      /\ at[w] = "cache" => at'[w] = "enqueue" /\ cur[w].rid \in cache'
      /\ at[w] = "graph" => at'[w] = "mark" /\ cur[w].rid \in graph'
      /\ at[w] \in {"append", "cache", "graph"}
  BY DEF Append, CacheInsert, LinkGraph, Goto, QueueInv, WorkType
<1>4. OpsSound'
  <2>1. \A x \in Worker : at'[x] # "next" => at[x] # "next"
    BY <1>2, <1>3
  <2> QED
    BY <1>1, <2>1 DEF OpsSound, Sound, Present
<1>5. StepsDone'
  <2>1. ASSUME NEW x \in Worker, x # w PROVE Done(x)'
    BY <1>1, <1>2, <2>1, DoneStays DEF Present, Active
  <2>2. Done(w)
    BY DEF StepsDone
  <2>3. at[w] = "graph" => cur[w].type = "post" /\ Present(cur[w].rid)
    BY <2>2 DEF Done, OpsSound, Sound
  <2>4. Done(w)'
    BY <1>1, <1>3, <2>2, <2>3 DEF Done, PostOwed, Present, Active
  <2> QED
    BY <2>1, <2>4 DEF StepsDone
<1>6. AcceptedIsKept' /\ Owed' /\ Mentions'
  BY <1>1 DEF AcceptedIsKept, Owed, Mentions, Queued1, PendingFor, Present, Active
<1> QED
  BY <1>4, <1>5, <1>6

LEMMA KeptEnqueuePost ==
    ASSUME QueueInv, KeptInv, NEW w \in Worker, EnqueuePost(w)
    PROVE  KeptInv'
<1> USE DEF KeptInv
<1> DEFINE op == Post(cur[w].rid)
<1>1. /\ UNCHANGED <<rows, written, links, mentions, cache, graph, batch, cur>>
      /\ pending' = pending \cup {op} /\ at' = [at EXCEPT ![w] = "mark"]
      /\ op.type = "post" /\ op.rid = cur[w].rid
  BY DEF EnqueuePost, Goto, Post
<1>2. at[w] = "enqueue" /\ cur[w].type = "record" /\ Present(cur[w].rid)
  BY DEF EnqueuePost, StepsDone, Done
<1> HIDE DEF op
<1>3. \A x \in Worker : x # w => at'[x] = at[x]
  BY <1>1
<1>4. OpsSound'
  BY <1>1, <1>2 DEF OpsSound, Sound, Present
<1>5. StepsDone'
  <2>1. at'[w] = "mark" /\ PostOwed(cur[w].rid)'
    BY <1>1 DEF PostOwed, QueueInv, WorkType
  <2>2. \A x \in Worker : PostOwed(cur[x].rid) => PostOwed(cur[x].rid)'
    BY <1>1 DEF PostOwed
  <2> QED
    BY <1>1, <1>2, <1>3, <2>1, <2>2 DEF StepsDone, Done, Present, Active, PostOwed
<1>6. AcceptedIsKept' /\ Owed' /\ Mentions'
  BY <1>1 DEF AcceptedIsKept, Owed, Mentions, Queued1, PendingFor, Present, Active
<1> QED
  BY <1>4, <1>5, <1>6

\* An op leaves the log when all it owed is there, or owed by another op.
LEMMA KeptMark ==
    ASSUME QueueInv, KeptInv, NEW w \in Worker, MarkApplied(w)
    PROVE  KeptInv'
<1> USE DEF KeptInv
<1>1. /\ UNCHANGED <<rows, written, links, mentions, cache, graph, batch>>
      /\ pending' = pending \ {cur[w]}
      /\ at' = [at EXCEPT ![w] = "next"] /\ cur' = [cur EXCEPT ![w] = NoOp]
  BY DEF MarkApplied, Advance, Goto
<1>2. /\ at[w] = "mark" /\ cur[w] \in Op /\ cur[w].rid \in Rid
      /\ Present(cur[w].rid) /\ cur[w].type \in {"record", "post"}
  BY OpTypes DEF MarkApplied, StepsDone, Done, Op
<1>3. \A x \in Worker : at'[x] # "next" => x # w /\ at'[x] = at[x] /\ cur'[x] = cur[x]
  BY <1>1 DEF QueueInv, WorkType
<1>4. OpsSound'
  BY <1>1, <1>3 DEF OpsSound, Sound, Present
<1>5. \A r \in Rid : PostOwed(r) /\ Active(r) => r \in links \cap graph \/ PostOwed(r)'
  BY <1>1, <1>2 DEF PostOwed, StepsDone, Done
<1>6. StepsDone'
  <2>1. \A x \in Worker : at'[x] # "next" => cur[x].rid \in Rid
    BY <1>3, OpTypes
  <2> QED
    BY <1>1, <1>3, <1>5, <2>1 DEF StepsDone, Done, PostOwed, Present, Active
<1>7. AcceptedIsKept'
  BY <1>1, <1>2 DEF AcceptedIsKept, Queued1, PendingFor, Present
<1>8. Owed'
  <2>1. ASSUME NEW r \in Rid, Active(r), Queued1(r) PROVE r \in cache \/ Queued1(r)'
    BY <1>1, <1>2, <2>1 DEF Queued1, PendingFor, StepsDone, Done
  <2>2. ASSUME NEW r \in Rid, Active(r), PendingFor(r) # {}
        PROVE  r \in links \cap graph \/ PendingFor(r)' # {}
    <3>1. PICK o \in pending : o.rid = r
      BY <2>2 DEF PendingFor
    <3>2. CASE o # cur[w]
      BY <1>1, <3>1, <3>2 DEF PendingFor
    <3>3. CASE o = cur[w] /\ o.type = "post"
      BY <1>2, <2>2, <3>1, <3>3 DEF StepsDone, Done
    <3>4. CASE o = cur[w] /\ o.type = "record"
      <4>1. r \in links \cap graph \/ PostOwed(r)
        BY <1>2, <2>2, <3>1, <3>4 DEF StepsDone, Done
      <4>2. PostOwed(r) => PendingFor(r)' # {}
        BY <1>1, <3>1, <3>4 DEF PostOwed, PendingFor
      <4> QED
        BY <4>1, <4>2
    <3> QED
      BY <1>2, <3>2, <3>3, <3>4
  <2> QED
    BY <1>1, <2>1, <2>2 DEF Owed, Active
<1>9. Mentions'
  BY <1>1 DEF Mentions, Present, Active
<1> QED
  BY <1>4, <1>6, <1>7, <1>8, <1>9

\* The pass gives up on its op: the op stays where it was.
LEMMA KeptLetGo ==
    ASSUME QueueInv, KeptInv, NEW w \in Worker, EnqueueRefused(w) \/ ApplyFails(w)
    PROVE  KeptInv'
<1> USE DEF KeptInv
<1>1. /\ UNCHANGED <<rows, written, pending, links, mentions, cache, graph>>
      /\ at' = [at EXCEPT ![w] = "next"] /\ cur' = [cur EXCEPT ![w] = NoOp]
  BY DEF EnqueueRefused, ApplyFails, Advance, Goto, sqlVars, memVars
<1>2. \A x \in Worker : at'[x] # "next" => at'[x] = at[x] /\ cur'[x] = cur[x]
  BY <1>1 DEF QueueInv, WorkType
<1>3. \A x \in Worker : batch'[x] \subseteq batch[x]
  BY DEF EnqueueRefused, ApplyFails, Advance, QueueInv, WorkType
<1>4. OpsSound'
  BY <1>1, <1>2, <1>3 DEF OpsSound, Sound, Present
<1>5. StepsDone'
  BY <1>1, <1>2 DEF StepsDone, Done, PostOwed, Present, Active
<1>6. AcceptedIsKept' /\ Owed' /\ Mentions'
  BY <1>1 DEF AcceptedIsKept, Owed, Mentions, Queued1, PendingFor, Present, Active
<1> QED
  BY <1>4, <1>5, <1>6

\* A migration moves rows to another generation and owes nobody anything;
\* open() rebuilds the cache from the live rows and the graph from the links.
LEMMA KeptMigrate ==
    ASSUME QueueInv, KeptInv, MigBegin \/ Migrate \/ MigFails
    PROVE  KeptInv'
<1>1. UNCHANGED <<written, pending, links, mentions, cache, graph, at, batch, cur>>
  BY DEF Migrate, MigBegin, MigClose, MigTail, MigPublish, MigResume, MigDone,
         MigFails, sqlVars, memVars, workerVars
<1>2. \A r \in Rid : rows'[r].status = rows[r].status
  <2>1. CASE MigPublish
    BY <2>1 DEF MigPublish, QueueInv, SqlType
  <2>2. CASE UNCHANGED rows
    BY <2>2
  <2> QED
    BY <2>1, <2>2 DEF Migrate, MigBegin, MigClose, MigTail, MigResume, MigDone,
                      MigFails, sqlVars
<1> QED
  BY <1>1, <1>2, KeptFrame

LEMMA KeptReopen == ASSUME QueueInv, KeptInv, Reopen PROVE KeptInv'
<1> USE DEF KeptInv, Reopen
<1>1. OpsSound'
  BY DEF OpsSound, Sound, Present
<1>2. StepsDone'
  BY DEF StepsDone, Done
<1>3. AcceptedIsKept'
  BY DEF AcceptedIsKept, Queued1, PendingFor
<1>4. Owed'
  BY DEF Owed, Queued1, PendingFor, Active, ActiveRows
<1>5. Mentions'
  BY DEF Mentions, Present, Active
<1> QED
  BY <1>1, <1>2, <1>3, <1>4, <1>5

LEMMA KeptNext ==
    ASSUME Named = {TRUE}
    PROVE  QueueInv /\ LedgerInv /\ OpsOwned /\ KeptInv /\ [Next]_vars => KeptInv'
<1> SUFFICES ASSUME QueueInv, LedgerInv, OpsOwned, KeptInv, [Next]_vars PROVE KeptInv'
  OBVIOUS
<1>1. CASE UNCHANGED vars
  <2>1. UNCHANGED <<rows, written, pending, links, mentions, cache, graph, at, batch, cur>>
    BY <1>1 DEF vars, sqlVars, memVars, routerVars, callerVars, workerVars, migVars
  <2> QED
    BY <2>1, KeptFrame
<1>2. ASSUME NEW c \in Caller, Start(c) \/ Proceed(c) PROVE KeptInv'
  BY <1>2, KeptCaller
<1>3. ASSUME NEW w \in Worker, Work(w) \/ ApplyFails(w) PROVE KeptInv'
  BY <1>3, KeptFetch, KeptLoad, KeptLinkEntities, KeptInsertRow, KeptAdvance,
     KeptEnqueuePost, KeptMark, KeptLetGo DEF Work
<1>4. CASE MigBegin \/ Migrate \/ MigFails
  BY <1>4, KeptMigrate
<1>5. CASE Reopen
  BY <1>5, KeptReopen
<1> QED
  BY <1>1, <1>2, <1>3, <1>4, <1>5 DEF Next

LEMMA KeptInit == Init => KeptInv
<1> SUFFICES ASSUME Init PROVE KeptInv
  OBVIOUS
<1> USE DEF Init
<1>1. OpsSound /\ StepsDone
  BY DEF OpsSound, StepsDone, Done
<1>2. \A r \in Rid : ~Present(r) /\ ~Active(r)
  BY DEF Present, Active
<1>3. AcceptedIsKept /\ Owed /\ Mentions
  BY <1>2 DEF AcceptedIsKept, Owed, Mentions
<1> QED
  BY <1>1, <1>3 DEF KeptInv

LEMMA KeptAlways == ASSUME Named = {TRUE} PROVE Spec => []KeptInv
<1>1. QueueInv /\ LedgerInv /\ OpsOwned /\ KeptInv /\ [Next]_vars => KeptInv'
  BY KeptNext
<1> QED
  BY <1>1, QueueInvAlways, LedgerAlways, KeptInit, PTL DEF Spec

-----------------------------------------------------------------------------
(* A forgotten record stays gone *)

LEMMA GoneStep ==
    ASSUME QueueInv, LedgerInv, StatusStep, NEW r \in Rid, Gone(r), [Next]_vars
    PROVE  Gone(r)'
<1> USE DEF QueueInv
<1>1. /\ rows[r].status = "tombstoned" /\ rows'[r].status = "tombstoned"
      /\ r \notin cache /\ r \notin links /\ r \notin graph
      /\ \A o \in pending : o.rid # r
      /\ \A w \in Worker : at[w] # "next" => cur[w].rid # r
      /\ \A w \in Worker : \A o \in batch[w] : o.rid # r
      /\ written[r] # NoWrite
  BY DEF Gone, PendingFor, BusyOn, StatusStep, LedgerInv
<1> DEFINE StaysOut ==
      /\ r \notin cache' /\ r \notin links' /\ r \notin graph'
      /\ \A o \in pending' : o.rid # r
      /\ \A w \in Worker : at'[w] # "next" => cur'[w].rid # r
      /\ \A w \in Worker : \A o \in batch'[w] : o.rid # r
<1>2. SUFFICES StaysOut
  BY <1>1 DEF Gone, PendingFor, BusyOn
<1>3. CASE UNCHANGED <<pending, cache, links, graph, at, batch, cur>>
  BY <1>1, <1>3
<1>4. CASE UNCHANGED vars
  BY <1>3, <1>4 DEF vars, sqlVars, memVars, routerVars, callerVars, workerVars, migVars
<1>5. ASSUME NEW c \in Caller, Start(c) \/ Proceed(c) PROVE StaysOut
  <2>1. ASSUME NEW x \in Rid, SyncCommit(c, x) PROVE StaysOut
    BY <1>1, <2>1 DEF SyncCommit, Accept, Post, LeaveCall, workerVars
  <2>2. ASSUME NEW x \in Rid, QueuedCommit(c, x) PROVE StaysOut
    BY <1>1, <2>2 DEF QueuedCommit, Accept, Queued, LeaveCall, workerVars
  <2>3. ASSUME NEW x \in Rid, ForgetTx(c, x) PROVE StaysOut
    BY <1>1, <2>3 DEF ForgetTx, memVars, workerVars
  <2>4. CASE \/ \E k \in Key \cup {NoKey} : Begin(c, k)
             \/ Refused(c) \/ CommitFails(c) \/ ForgetIndex(c) \/ ForgetMemory(c)
    BY <1>1, <2>4 DEF Begin, Refused, CommitFails, ForgetIndex, ForgetMemory, LeaveCall,
                      sqlVars, memVars, workerVars
  <2> QED
    BY <1>5, <2>1, <2>2, <2>3, <2>4 DEF Start, Proceed
<1>6. ASSUME NEW w \in Worker, Work(w) \/ ApplyFails(w) PROVE StaysOut
  <2>1. r \notin cache' /\ r \notin links' /\ r \notin graph'
    BY <1>1, <1>6 DEF Work, Fetch, Defer, Load, InsertRow, LinkEntities, Acknowledge, Append,
                CacheInsert, EnqueuePost, EnqueueRefused, LinkGraph, MarkApplied,
                ApplyFails, sqlVars, memVars
  <2>2. \A o \in pending' : o.rid # r
    BY <1>1, <1>6 DEF Work, Fetch, Defer, Load, InsertRow, LinkEntities, Acknowledge, Append,
                CacheInsert, EnqueuePost, Post, EnqueueRefused, LinkGraph, MarkApplied,
                ApplyFails, sqlVars
  <2>3. \A x \in Worker : x # w => at'[x] = at[x] /\ cur'[x] = cur[x] /\ batch'[x] = batch[x]
    BY <1>6 DEF Work, Fetch, Defer, Load, Take, Advance, Goto, InsertRow, LinkEntities,
                Acknowledge, Append, CacheInsert, EnqueuePost, EnqueueRefused, LinkGraph,
                MarkApplied, ApplyFails, WorkType
  <2>4. at'[w] # "next" => cur'[w].rid # r
    BY <1>1, <1>6 DEF Work, Fetch, Defer, Load, Take, Advance, Goto, InsertRow, LinkEntities,
                Acknowledge, Append, CacheInsert, EnqueuePost, EnqueueRefused, LinkGraph,
                MarkApplied, ApplyFails, WorkType
  <2>5. batch'[w] \subseteq batch[w] \cup pending
    BY <1>6, BatchGrowsByPending
  <2> QED
    BY <1>1, <2>1, <2>2, <2>3, <2>4, <2>5
<1>7. CASE MigBegin \/ Migrate \/ MigFails
  <2>1. UNCHANGED <<pending, cache, links, graph, at, batch, cur>>
    BY <1>7 DEF Migrate, MigBegin, MigClose, MigTail, MigPublish, MigResume, MigDone,
                MigFails, sqlVars, memVars, workerVars
  <2> QED
    BY <1>3, <2>1
<1>8. CASE Reopen
  BY <1>1, <1>8 DEF Reopen, ActiveRows, Active
<1> QED
  BY <1>4, <1>5, <1>6, <1>7, <1>8 DEF Next

-----------------------------------------------------------------------------
(* The write path is a ledger *)

\* Links belong to rows, and a live record's are its one mention.
LinksCounted ==
    \A r \in Rid :
        /\ ~Present(r) => r \notin links
        /\ Active(r) /\ r \in links => mentions[r] = 1

LEMMA LinksCountedNext ==
    ASSUME QueueInv, LedgerInv, KeptInv, LinksCounted, StatusStep, [Next]_vars
    PROVE  LinksCounted'
<1> USE DEF Present, Active
<1>1. ASSUME links' \subseteq links, UNCHANGED mentions,
             \A r \in Rid : ~Present(r) /\ Present(r)' => r \notin links'
      PROVE  LinksCounted'
  BY <1>1 DEF LinksCounted, StatusStep
<1>2. ASSUME UNCHANGED <<links, mentions>> PROVE LinksCounted'
  BY <1>1, <1>2 DEF LinksCounted
<1>3. CASE UNCHANGED vars
  BY <1>2, <1>3 DEF vars, sqlVars
<1>4. ASSUME NEW c \in Caller, Start(c) \/ Proceed(c) PROVE LinksCounted'
  <2>1. ASSUME NEW r \in Rid, ForgetTx(c, r) PROVE LinksCounted'
    <3>1. links' \subseteq links /\ UNCHANGED mentions
      BY <2>1 DEF ForgetTx
    <3>2. \A x \in Rid : Present(x)' => Present(x)
      BY <2>1 DEF ForgetTx, QueueInv, SqlType
    <3> QED
      BY <1>1, <3>1, <3>2
  <2>2. CASE ~(\E r \in Rid : ForgetTx(c, r))
    <3>1. UNCHANGED <<links, mentions>>
      BY <1>4, <2>2 DEF Start, Proceed, Begin, SyncCommit, QueuedCommit, Refused, CommitFails,
                        ForgetIndex, ForgetMemory, sqlVars
    <3> QED
      BY <1>2, <3>1
  <2> QED
    BY <2>1, <2>2
<1>5. ASSUME NEW w \in Worker, NEW o \in batch[w], LinkEntities(w, o) PROVE LinksCounted'
  <2>1. /\ links' = links \cup {o.rid} /\ rows' = rows
        /\ mentions' = IF o.rid \in links THEN mentions
                       ELSE [mentions EXCEPT ![o.rid] = mentions[o.rid] + 1]
    BY <1>5 DEF LinkEntities, QueueInv, SqlType
  <2>2. o.rid \in Rid /\ Present(o.rid)
    BY <1>5, OpTypes DEF LinkEntities, Take, KeptInv, OpsSound, Sound
  <2>3. Active(o.rid) /\ o.rid \notin links => mentions'[o.rid] = 1
    BY <2>1, <2>2 DEF KeptInv, Mentions, QueueInv, SqlType
  <2>4. \A r \in Rid : r # o.rid => mentions'[r] = mentions[r]
    BY <2>1, <2>2 DEF QueueInv, SqlType
  <2>5. o.rid \in links => mentions' = mentions
    BY <2>1
  <2> QED
    BY <2>1, <2>2, <2>3, <2>4, <2>5 DEF LinksCounted
<1>6. ASSUME NEW w \in Worker, Work(w) \/ ApplyFails(w) PROVE LinksCounted'
  <2>1. CASE \E o \in batch[w] : LinkEntities(w, o)
    BY <1>5, <2>1
  <2>2. CASE ~(\E o \in batch[w] : LinkEntities(w, o))
    <3>1. UNCHANGED <<links, mentions>>
      BY <1>6, <2>2 DEF Work, Fetch, Defer, Load, InsertRow, Acknowledge, Append, CacheInsert,
                        EnqueuePost, EnqueueRefused, LinkGraph, MarkApplied, ApplyFails, sqlVars
    <3> QED
      BY <1>2, <3>1
  <2> QED
    BY <2>1, <2>2
<1>7. CASE MigBegin \/ Migrate \/ MigFails \/ Reopen
  <2>1. UNCHANGED <<links, mentions>>
    BY <1>7 DEF Migrate, MigBegin, MigClose, MigTail, MigPublish, MigResume, MigDone,
                MigFails, Reopen, sqlVars
  <2> QED
    BY <1>2, <2>1
<1> QED
  BY <1>3, <1>4, <1>6, <1>7 DEF Next

\* What the stage of a write comes down to where the invariants hold.
WriteInv == QueueInv /\ LedgerInv /\ OpsOwned /\ KeptInv /\ LinksCounted

Staged ==
    \A r \in Rid :
        /\ rows[r].status \in {"absent", "active", "tombstoned"}
        /\ rows[r].status = "tombstoned" => Stage(r) = "forgotten"
        /\ rows[r].status = "active" /\ r \in links => Stage(r) = "complete"
        /\ rows[r].status = "active" /\ r \notin links => Stage(r) = "owing"
        /\ rows[r].status = "absent" /\ written[r] # NoWrite => Stage(r) = "queued"
        /\ rows[r].status = "absent" /\ written[r] = NoWrite => Stage(r) = "free"

LEMMA StageIs == WriteInv => Staged
<1> SUFFICES ASSUME WriteInv, NEW r \in Rid
             PROVE  /\ rows[r].status \in {"absent", "active", "tombstoned"}
                    /\ rows[r].status = "tombstoned" => Stage(r) = "forgotten"
                    /\ rows[r].status = "active" /\ r \in links => Stage(r) = "complete"
                    /\ rows[r].status = "active" /\ r \notin links => Stage(r) = "owing"
                    /\ rows[r].status = "absent" /\ written[r] # NoWrite => Stage(r) = "queued"
                    /\ rows[r].status = "absent" /\ written[r] = NoWrite => Stage(r) = "free"
  BY DEF Staged
<1>1. rows[r].status \in {"absent", "active", "tombstoned"}
  BY DEF WriteInv, QueueInv, SqlType
<1>2. Active(r) /\ r \in links => mentions[r] = 1
  BY DEF WriteInv, LinksCounted
<1>3. Active(r) /\ r \notin links => mentions[r] = 0 /\ PendingFor(r) # {}
  BY DEF WriteInv, KeptInv, Mentions, Owed
<1>4. rows[r].status = "absent" /\ written[r] # NoWrite => Queued1(r)
  BY DEF WriteInv, KeptInv, AcceptedIsKept
<1> QED
  BY <1>1, <1>2, <1>3, <1>4 DEF Stage, Active

LEMMA StageIsNext == WriteInv' => Staged'
  BY StageIs, PTL

\* A step that changes no status, acceptance, claim or live record's links.
LEMMA LedgerStutters ==
    ASSUME WriteInv, WriteInv', UNCHANGED <<written, claims>>,
           \A r \in Rid : rows'[r].status = rows[r].status,
           \A r \in Rid : Active(r) => (r \in links' <=> r \in links)
    PROVE  UNCHANGED Ledger!vars
<1>1. ASSUME NEW r \in Rid PROVE Stage(r)' = Stage(r)
  BY StageIs, StageIsNext DEF Active, Staged
<1> QED
  BY <1>1 DEF Ledger!vars

\* A step that moves one write on.
LEMMA OneStageMoves ==
    ASSUME NEW r \in Rid, NEW to, \A x \in Rid : x # r => Stage(x)' = Stage(x), Stage(r)' = to
    PROVE  [x \in Rid |-> Stage(x)]' = [[x \in Rid |-> Stage(x)] EXCEPT ![r] = to]
  OBVIOUS

LEMMA AcceptMaps ==
    ASSUME WriteInv, WriteInv', NEW r \in Rid, NEW k \in Key \cup {NoKey}, NEW op,
           ~Claimed(k), Accept(k, r, op), UNCHANGED links,
           NEW to \in {"queued", "owing"},
           \A x \in Rid : x # r => rows'[x] = rows[x],
           to = "queued" => rows' = rows,
           to = "owing" => rows'[r].status = "active"
    PROVE  Ledger!Next
<1>1. /\ written' = [written EXCEPT ![r] = k] /\ written[r] = NoWrite
      /\ claims' = IF k \in Key THEN [claims EXCEPT ![k] = r] ELSE claims
      /\ k # NoWrite /\ written'[r] = k /\ \A x \in Rid : x # r => written'[x] = written[x]
  BY ConstantsAssumption DEF Accept, WriteInv, QueueInv, SqlType
<1>2. rows[r].status = "absent" /\ r \notin links
  BY <1>1 DEF WriteInv, LedgerInv, LinksCounted, Present
<1>3. Stage(r) = "free"
  BY <1>1, <1>2, StageIs, StageIsNext DEF Staged
<1>4. Stage(r)' = to
  <2>1. CASE to = "queued"
    BY <1>1, <1>2, <2>1, StageIs, StageIsNext DEF Staged
  <2>2. CASE to = "owing"
    BY <1>2, <2>2, StageIs, StageIsNext DEF Staged
  <2> QED
    BY <2>1, <2>2
<1>5. ASSUME NEW x \in Rid, x # r PROVE Stage(x)' = Stage(x)
  BY <1>1, <1>5, StageIs, StageIsNext DEF Staged
<1>6. [x \in Rid |-> Stage(x)]' = [[x \in Rid |-> Stage(x)] EXCEPT ![r] = to]
  BY <1>4, <1>5, OneStageMoves
<1>7. Ledger!Accept(r, k, to)
  BY <1>1, <1>3, <1>6 DEF Ledger!Accept, Claimed
<1> QED
  BY <1>7 DEF Ledger!Next

\* One write goes from one stage to the next, the claims stay.
LEMMA MoveMaps ==
    ASSUME WriteInv, WriteInv', NEW r \in Rid, UNCHANGED <<written, claims>>,
           \A x \in Rid : x # r =>
              rows'[x].status = rows[x].status /\ (x \in links' <=> x \in links),
           \/ Stage(r) = "queued" /\ Stage(r)' = "owing"
           \/ Stage(r) = "owing" /\ Stage(r)' = "complete"
           \/ Stage(r) \in {"owing", "complete"} /\ Stage(r)' = "forgotten"
    PROVE  Ledger!Next
<1>1. ASSUME NEW x \in Rid, x # r PROVE Stage(x)' = Stage(x)
  BY <1>1, StageIs, StageIsNext DEF Staged
<1>2. [x \in Rid |-> Stage(x)]' = [[x \in Rid |-> Stage(x)] EXCEPT ![r] = Stage(r)']
  BY <1>1, OneStageMoves
<1>3. Ledger!Apply(r) \/ Ledger!Count(r) \/ Ledger!Forget(r)
  BY <1>2 DEF Ledger!Apply, Ledger!Count, Ledger!Forget, Ledger!Move
<1> QED
  BY <1>3 DEF Ledger!Next

LEMMA CallerMaps ==
    ASSUME WriteInv, WriteInv', NEW c \in Caller, Start(c) \/ Proceed(c)
    PROVE  [Ledger!Next]_(Ledger!vars)
<1>1. ASSUME NEW r \in Rid, SyncCommit(c, r) PROVE Ledger!Next
  <2>1. job[c] \in Key \cup {NoKey}
    BY <1>1 DEF SyncCommit, WriteInv, QueueInv, Admitted
  <2>2. /\ rows' = [rows EXCEPT ![r] = [status |-> "active", gen |-> gen]]
        /\ ~Claimed(job[c]) /\ Accept(job[c], r, Post(r)) /\ UNCHANGED links
    BY <1>1 DEF SyncCommit
  <2>3. rows'[r].status = "active" /\ \A x \in Rid : x # r => rows'[x] = rows[x]
    BY <2>2 DEF WriteInv, QueueInv, SqlType
  <2> QED
    BY <2>1, <2>2, <2>3, AcceptMaps
<1>2. ASSUME NEW r \in Rid, QueuedCommit(c, r) PROVE Ledger!Next
  <2>1. job[c] \in Key \cup {NoKey}
    BY <1>2 DEF QueuedCommit, WriteInv, QueueInv, Admitted
  <2>2. PICK named \in Named : Accept(job[c], r, Queued(r, named))
    BY <1>2 DEF QueuedCommit
  <2>3. rows' = rows /\ ~Claimed(job[c]) /\ UNCHANGED links
    BY <1>2 DEF QueuedCommit
  <2> QED
    BY <2>1, <2>2, <2>3, AcceptMaps
<1>3. ASSUME NEW r \in Rid, ForgetTx(c, r), Active(r) PROVE Ledger!Next
  <2>1. /\ UNCHANGED <<written, claims>> /\ links' = links \ {r}
        /\ rows' = [rows EXCEPT ![r].status = "tombstoned"]
    BY <1>3 DEF ForgetTx
  <2>2. rows'[r].status = "tombstoned" /\ \A x \in Rid : x # r => rows'[x] = rows[x]
    BY <2>1 DEF WriteInv, QueueInv, SqlType
  <2>3. Stage(r) \in {"owing", "complete"} /\ Stage(r)' = "forgotten"
    BY <1>3, <2>2, StageIs, StageIsNext DEF Active, Staged
  <2> QED
    BY <2>1, <2>2, <2>3, MoveMaps
<1>4. CASE UNCHANGED <<rows, written, claims, links>>
  BY <1>4, LedgerStutters
<1>5. ASSUME NEW r \in Rid, ForgetTx(c, r), ~Active(r) PROVE UNCHANGED Ledger!vars
  BY <1>5, LedgerStutters DEF ForgetTx
<1>6. CASE \/ \E k \in Key \cup {NoKey} : Begin(c, k)
           \/ Refused(c) \/ CommitFails(c) \/ ForgetIndex(c) \/ ForgetMemory(c)
  BY <1>4, <1>6 DEF Begin, Refused, CommitFails, ForgetIndex, ForgetMemory, sqlVars
<1> QED
  BY <1>1, <1>2, <1>3, <1>5, <1>6 DEF Start, Proceed

LEMMA WorkerMaps ==
    ASSUME WriteInv, WriteInv', NEW w \in Worker, Work(w) \/ ApplyFails(w)
    PROVE  [Ledger!Next]_(Ledger!vars)
<1>1. ASSUME NEW o \in batch[w], LinkEntities(w, o) PROVE [Ledger!Next]_(Ledger!vars)
  <2>1. links' = links \cup {o.rid} /\ UNCHANGED <<rows, written, claims>>
    BY <1>1 DEF LinkEntities
  <2>2. o.rid \in Rid
    BY OpTypes DEF WriteInv
  <2>3. CASE Active(o.rid) /\ o.rid \notin links
    <3>1. Stage(o.rid) = "owing" /\ Stage(o.rid)' = "complete"
      BY <2>1, <2>2, <2>3, StageIs, StageIsNext DEF Active, Staged
    <3> QED
      BY <2>1, <2>2, <3>1, MoveMaps
  <2>4. CASE ~(Active(o.rid) /\ o.rid \notin links)
    BY <2>1, <2>4, LedgerStutters
  <2> QED
    BY <2>3, <2>4
<1>2. CASE InsertRow(w)
  <2>1. PICK r \in Rid : r = cur[w].rid
    BY <1>2, OpTypes DEF InsertRow, WriteInv
  <2>2. /\ UNCHANGED <<written, claims, links>> /\ written[r] # NoWrite
        /\ rows' = IF rows[r].status = "absent"
                   THEN [rows EXCEPT ![r] = [status |-> "active", gen |-> seen[w]]] ELSE rows
    BY <1>2, <2>1 DEF InsertRow, WriteInv, OpsOwned
  <2>3. CASE rows[r].status = "absent"
    <3>1. rows'[r].status = "active" /\ \A x \in Rid : x # r => rows'[x] = rows[x]
      BY <2>2, <2>3 DEF WriteInv, QueueInv, SqlType
    <3>2. r \notin links'
      BY <2>2, <2>3 DEF WriteInv, LinksCounted, Present
    <3>3. Stage(r) = "queued" /\ Stage(r)' = "owing"
      BY <2>2, <2>3, <3>1, <3>2, StageIs, StageIsNext DEF Staged
    <3> QED
      BY <2>2, <3>1, <3>3, MoveMaps
  <2>4. CASE rows[r].status # "absent"
    BY <2>2, <2>4, LedgerStutters
  <2> QED
    BY <2>3, <2>4
<1>3. CASE ~InsertRow(w) /\ ~(\E o \in batch[w] : LinkEntities(w, o))
  <2>1. UNCHANGED <<rows, written, claims, links>>
    BY <1>3 DEF Work, Fetch, Defer, Load, Acknowledge, Append, CacheInsert, EnqueuePost,
                EnqueueRefused, LinkGraph, MarkApplied, ApplyFails, sqlVars
  <2> QED
    BY <2>1, LedgerStutters
<1> QED
  BY <1>1, <1>2, <1>3

LEMMA StepMaps ==
    ASSUME WriteInv, WriteInv', [Next]_vars
    PROVE  [Ledger!Next]_(Ledger!vars)
<1>1. ASSUME UNCHANGED <<written, claims, links>>,
             \A r \in Rid : rows'[r].status = rows[r].status
      PROVE  UNCHANGED Ledger!vars
  BY <1>1, LedgerStutters
<1>2. CASE UNCHANGED vars
  BY <1>1, <1>2 DEF vars, sqlVars
<1>3. CASE MigBegin \/ Migrate \/ MigFails \/ Reopen
  <2>1. UNCHANGED <<written, claims, links>>
    BY <1>3 DEF Migrate, MigBegin, MigClose, MigTail, MigPublish, MigResume, MigDone,
                MigFails, Reopen, sqlVars
  <2>2. CASE MigPublish
    <3>1. \A r \in Rid : rows'[r].status = rows[r].status
      BY <2>2 DEF MigPublish, WriteInv, QueueInv, SqlType
    <3> QED
      BY <1>1, <2>1, <3>1
  <2>3. CASE ~MigPublish
    BY <1>1, <1>3, <2>1, <2>3 DEF Migrate, MigBegin, MigClose, MigTail, MigResume, MigDone,
                MigFails, Reopen, sqlVars
  <2> QED
    BY <2>2, <2>3
<1> QED
  BY <1>2, <1>3, CallerMaps, WorkerMaps DEF Next

LEMMA InitMaps == Init => Ledger!Init
<1> SUFFICES ASSUME Init PROVE Ledger!Init
  OBVIOUS
<1>1. ASSUME NEW r \in Rid PROVE Stage(r) = "free"
  BY DEF Init, Stage, Active, PendingFor, Queued1
<1> QED
  BY <1>1 DEF Init, Ledger!Init

-----------------------------------------------------------------------------
(* The theorems *)

\* Type correctness of the queue, the claims, the router and the workers.
THEOREM QueueTypeCorrect == Spec => []TypeOK
<1>1. QueueInv => TypeOK
  BY GroupsAreTypes DEF QueueInv
<1> QED
  BY <1>1, QueueInvAlways, PTL

\* The counter that admits writes is exact whatever callers, workers, errors,
\* migrations and restarts interleave.
THEOREM CounterIsExact == Spec => []CountIsExact
<1>1. QueueInv => CountIsExact
  BY DEF QueueInv, Counted
<1> QED
  BY <1>1, QueueInvAlways, PTL

\* No number of callers and workers pushes the queue past its ceiling.
THEOREM QueueStaysBounded == Spec => []QueueBounded
<1>1. QueueInv => QueueBounded
  BY DEF QueueInv, Counted
<1> QED
  BY <1>1, QueueInvAlways, PTL

\* Retries of a key on both routes, over forgets and restarts, are one write.
THEOREM KeysAreUnique == Spec => []OneWritePerKey
<1>1. LedgerInv => OneWritePerKey
  BY DEF LedgerInv
<1> QED
  BY <1>1, LedgerAlways, PTL

\* With named embedders, a write whose caller has its record id is never lost.
THEOREM AcceptedWritesAreKept == ASSUME Named = {TRUE} PROVE Spec => []AcceptedIsKept
<1>1. KeptInv => AcceptedIsKept
  BY DEF KeptInv
<1> QED
  BY <1>1, KeptAlways, PTL

\* With named embedders, a live record has its entities or is owed them.
THEOREM EntitiesAreOwed == ASSUME Named = {TRUE} PROVE Spec => []EntitiesOwed
<1>1. KeptInv => EntitiesOwed
  BY DEF KeptInv, Owed, EntitiesOwed
<1> QED
  BY <1>1, KeptAlways, PTL

\* However often a post-op runs, a live record's mentions are counted once.
THEOREM MentionsOnce == ASSUME Named = {TRUE} PROVE Spec => []MentionsCountedOnce
<1>1. KeptInv => MentionsCountedOnce
  BY DEF KeptInv, Mentions, MentionsCountedOnce
<1> QED
  BY <1>1, KeptAlways, PTL

\* A live record nothing is pending for is in the cache, linked and in the
\* graph, whichever route and whichever workers brought it there.
THEOREM SettledRecordsAreComplete == ASSUME Named = {TRUE} PROVE Spec => []SettledIsComplete
<1>1. KeptInv => SettledIsComplete
  BY DEF KeptInv, Owed, SettledIsComplete, Queued1
<1> QED
  BY <1>1, KeptAlways, PTL

\* A forgotten record nobody is still working on never comes back.
THEOREM ForgottenStaysGone == Spec => GoneForGood
<1>1. QueueInv /\ LedgerInv /\ StatusStep /\ [Next]_vars
         => [\A r \in Rid : Gone(r) => Gone(r)']_vars
  BY GoneStep
<1> QED
  BY <1>1, QueueInvAlways, LedgerAlways, LedgerNext, PTL DEF Spec, GoneForGood

\* The write path is a ledger: with named embedders, over both routes, retries
\* of a key, migrations, workers that race and crashes, each accepted write is
\* accepted once, becomes a memory once, has its entities counted once and is
\* forgotten once, and no step takes it back or loses it.
THEOREM WritesAreLedgered == ASSUME Named = {TRUE} PROVE Spec => ImplementsLedger
<1>1. Init => LinksCounted
  BY DEF Init, LinksCounted, Present, Active
<1>2. QueueInv /\ LedgerInv /\ KeptInv /\ LinksCounted /\ StatusStep /\ [Next]_vars
         => LinksCounted'
  BY LinksCountedNext
<1>3. WriteInv /\ WriteInv' /\ [Next]_vars => [Ledger!Next]_(Ledger!vars)
  BY StepMaps
<1>4. QueueInv /\ LedgerInv /\ OpsOwned /\ KeptInv /\ LinksCounted => WriteInv
  BY DEF WriteInv
<1>5. Spec => []WriteInv
  BY <1>1, <1>2, <1>4, QueueInvAlways, LedgerAlways, LedgerNext, KeptAlways, PTL DEF Spec
<1> QED
  BY <1>3, <1>5, InitMaps, PTL DEF Spec, ImplementsLedger, Ledger!Spec
=============================================================================
