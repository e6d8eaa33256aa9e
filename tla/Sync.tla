-------------------------------- MODULE Sync --------------------------------
(***************************************************************************)
(* Replication between databases: the hybrid logical clock                 *)
(* (base/hlc.rs), the operation log the local calls write, and the pull of *)
(* distributed/sync.rs that extracts a peer's log past a watermark and     *)
(* applies it with distributed/replication.rs.                             *)
(*                                                                         *)
(* A node is a database and the process that has it open.  A memory is     *)
(* named by the number its record call mints, an edge by its key; an edge  *)
(* row is represented by the timestamp of the write it holds.              *)
(***************************************************************************)
EXTENDS Integers, FiniteSets

CONSTANTS
    Node,       \* the node ids (HLC::node_id)
    Key,        \* edges: the (src, dst, rel_type) triples
    Caller,     \* threads that call record and relate, on any node
    Recording,  \* BOOLEAN: the callers record memories
    Corrector,  \* the nodes whose applications correct memories
    Serialized, \* BOOLEAN: a node runs one call or pull at a time
    SlowRestart,\* BOOLEAN: a restart outlasts any lead of the node's clock
    PullLimit,  \* ops in one extraction (10_000 in sync_bidirectional)
    MaxSkew,    \* how far the wall clocks may be apart
    MaxWall,    \* bound: readings of a wall clock
    MaxOps,     \* bound: ids minted
    MaxStops    \* bound: restarts

ASSUME SyncAssumption ==
    /\ Node \subseteq Nat \ {0} /\ IsFiniteSet(Node) /\ Corrector \subseteq Node
    /\ Recording \in BOOLEAN /\ Serialized \in BOOLEAN /\ SlowRestart \in BOOLEAN
    /\ PullLimit \in Nat \ {0} /\ MaxSkew \in Nat
    /\ MaxWall \in Nat \ {0} /\ MaxOps \in Nat /\ MaxStops \in Nat

VARIABLES
    wall,    \* the wall clock of each node (crate::time::now_ms)
    clock,   \* HLC::latest of each open database
    oplog,   \* table oplog: the ops each node has
    edges,   \* table claims: the timestamp of each edge row, Zero when absent
    mem,     \* table memories: the status of each memory
    text,    \* its text: the id of the record or correct op that wrote it
    history, \* table record_revisions: the texts that corrections replaced
    mark,    \* table sync_peers: mark[p][s], what p has pulled from s
    call,    \* the record or relate in progress of each caller
    pull,    \* the pull in progress of each node
    minted,  \* ids handed out
    stops    \* restarts so far

vars == <<wall, clock, oplog, edges, mem, text, history, mark, call, pull, minted, stops>>

-----------------------------------------------------------------------------
(* Timestamps: <<millis, logical, node>>, in the order of their bytes. *)

Stamp == Nat \X Nat \X Node
Zero == <<0, 0, 0>>

Before(s, t) ==
    \/ s[1] < t[1]
    \/ s[1] = t[1] /\ s[2] < t[2]
    \/ s[1] = t[1] /\ s[2] = t[2] /\ s[3] < t[3]

Newer(s, t) == IF Before(s, t) THEN t ELSE s
Later(a, b) == IF a < b THEN b ELSE a

\* (mutant) the stamp lacks the node id.
NowAnonymous(n) ==
    LET ms == Later(wall[n], clock[n][1])
    IN <<ms, IF ms = clock[n][1] THEN clock[n][2] + 1 ELSE 0, 0>>

(* HLC::now *)
Now(n) ==
    LET ms == Later(wall[n], clock[n][1])
    IN <<ms, IF ms = clock[n][1] THEN clock[n][2] + 1 ELSE 0, n>>

\* (mutant) a remote timestamp leaves the clock alone.
RecvIgnored(n, remote) == clock[n]

(* HLC::recv *)
Recv(n, remote) ==
    LET ms == Later(Later(wall[n], clock[n][1]), remote[1])
        lg == CASE ms = clock[n][1] /\ ms = remote[1] ->
                      Later(clock[n][2], remote[2]) + 1
                [] ms = clock[n][1] /\ ms # remote[1] -> clock[n][2] + 1
                [] ms # clock[n][1] /\ ms = remote[1] -> remote[2] + 1
                [] OTHER -> 0
    IN <<ms, lg, n>>

-----------------------------------------------------------------------------
(* Operations and their order in an extraction: ORDER BY hlc, op_id. *)

Id == 1..MaxOps
Op == [id : Id, kind : {"record"}, on : Id, edge : {Zero}, hlc : Stamp, origin : Node]
      \cup [id : Id, kind : {"forget"}, on : Id, edge : {Zero}, hlc : Stamp, origin : Node]
      \cup [id : Id, kind : {"relate"}, on : Key, edge : Stamp, hlc : Stamp, origin : Node]
      \cup [id : Id, kind : {"correct"}, on : Id, edge : {Zero}, num : Id, hlc : Stamp, origin : Node]

OpOf(id, kind, on, edge, hlc, n) ==
    [id |-> id, kind |-> kind, on |-> on, edge |-> edge, hlc |-> hlc, origin |-> n]

(* The op of a correction carries its number in the history of the memory. *)
CorrectOf(id, r, num, hlc, n) ==
    [id |-> id, kind |-> "correct", on |-> r, edge |-> Zero, num |-> num, hlc |-> hlc, origin |-> n]

(* A cursor: the hlc and the op_id of the last op pulled. *)
NoMark == <<Zero, 0>>
Cursor(op) == <<op.hlc, op.id>>
Past(op, cursor) ==
    \/ Before(cursor[1], op.hlc)
    \/ cursor[1] = op.hlc /\ cursor[2] < op.id

IsFirst(op, ops) ==
    op \in ops /\ \A other \in ops \ {op} : Past(other, Cursor(op))

\* (mutant) the ops of the source are left out, not those of the puller.
WantedRelayed(p, s) == {op \in oplog[s] : op.origin # s /\ Past(op, mark[p][s])}

(* What p gets from s: the ops past its watermark that p did not make       *)
(* itself, at most PullLimit, smallest first.                               *)
Wanted(p, s) == {op \in oplog[s] : op.origin # p /\ Past(op, mark[p][s])}

Extracted(p, s) ==
    {op \in Wanted(p, s) :
        Cardinality({o \in Wanted(p, s) : Past(op, Cursor(o))}) < PullLimit}

-----------------------------------------------------------------------------
NoCall == [pc |-> "idle"]
NoPull == [pc |-> "idle", todo |-> {}]

Init ==
    /\ wall = [n \in Node |-> 1]
    /\ clock = [n \in Node |-> Zero]
    /\ oplog = [n \in Node |-> {}]
    /\ edges = [n \in Node |-> [k \in Key |-> Zero]]
    /\ mem = [n \in Node |-> [r \in Id |-> "absent"]]
    /\ text = [n \in Node |-> [r \in Id |-> r]]
    /\ history = [n \in Node |-> [r \in Id |-> {}]]
    /\ mark = [p \in Node |-> [s \in Node |-> NoMark]]
    /\ call = [c \in Caller |-> NoCall]
    /\ pull = [p \in Node |-> NoPull]
    /\ minted = 0
    /\ stops = 0

(* A wall clock advances; MaxSkew keeps it near the others. *)
Tick(n) ==
    /\ wall[n] < MaxWall
    /\ \A m \in Node : wall[n] + 1 <= wall[m] + MaxSkew
    /\ wall' = [wall EXCEPT ![n] = @ + 1]
    /\ UNCHANGED <<clock, oplog, edges, mem, text, history, mark, call, pull, minted, stops>>

Running(n) == {c \in Caller : call[c] # NoCall /\ call[c].node = n}
MayStart(n) == Serialized => Running(n) = {} /\ pull[n] = NoPull

(***************************************************************************)
(* record: the timestamp is taken before the connection is locked; the row *)
(* and its op are one transaction.                                         *)
(***************************************************************************)
StartRecord(c, n) ==
    /\ Recording
    /\ call[c] = NoCall /\ MayStart(n) /\ minted < MaxOps
    /\ clock' = [clock EXCEPT ![n] = Now(n)]
    /\ call' = [call EXCEPT ![c] =
                  [pc |-> "record", node |-> n, id |-> minted + 1, hlc |-> Now(n)]]
    /\ minted' = minted + 1
    /\ UNCHANGED <<wall, oplog, edges, mem, text, history, mark, pull, stops>>

CommitRecord(c) ==
    LET d == call[c] IN
    /\ d.pc = "record"
    /\ mem' = [mem EXCEPT ![d.node][d.id] = "active"]
    /\ oplog' = [oplog EXCEPT ![d.node] =
                   @ \cup {OpOf(d.id, "record", d.id, Zero, d.hlc, d.node)}]
    /\ call' = [call EXCEPT ![c] = NoCall]
    /\ UNCHANGED <<wall, clock, edges, text, history, mark, pull, minted, stops>>

(***************************************************************************)
(* relate: the edge's timestamp, the row, the op's timestamp and the op    *)
(* are four steps; the connection is held for the row and for the op only. *)
(***************************************************************************)
StartRelate(c, n, k) ==
    /\ call[c] = NoCall /\ MayStart(n) /\ minted < MaxOps
    /\ clock' = [clock EXCEPT ![n] = Now(n)]
    /\ call' = [call EXCEPT ![c] =
                  [pc |-> "upsert", node |-> n, id |-> minted + 1, on |-> k, edge |-> Now(n)]]
    /\ minted' = minted + 1
    /\ UNCHANGED <<wall, oplog, edges, mem, text, history, mark, pull, stops>>

Upsert(c) ==
    LET d == call[c] IN
    /\ d.pc = "upsert"
    /\ edges' = [edges EXCEPT ![d.node][d.on] = d.edge]
    /\ call' = [call EXCEPT ![c].pc = "stamp"]
    /\ UNCHANGED <<wall, clock, oplog, mem, text, history, mark, pull, minted, stops>>

StampOp(c) ==
    LET d == call[c] IN
    /\ d.pc = "stamp"
    /\ clock' = [clock EXCEPT ![d.node] = Now(d.node)]
    /\ call' = [call EXCEPT ![c] =
                  [pc |-> "log", node |-> d.node, id |-> d.id, on |-> d.on,
                   edge |-> d.edge, hlc |-> Now(d.node)]]
    /\ UNCHANGED <<wall, oplog, edges, mem, text, history, mark, pull, minted, stops>>

LogOp(c) ==
    LET d == call[c] IN
    /\ d.pc = "log"
    /\ oplog' = [oplog EXCEPT ![d.node] =
                   @ \cup {OpOf(d.id, "relate", d.on, d.edge, d.hlc, d.node)}]
    /\ call' = [call EXCEPT ![c] = NoCall]
    /\ UNCHANGED <<wall, clock, edges, mem, text, history, mark, pull, minted, stops>>

(* forget: one transaction, with the timestamp taken inside it. *)
Forget(n, r) ==
    /\ mem[n][r] = "active" /\ MayStart(n) /\ minted < MaxOps
    /\ mem' = [mem EXCEPT ![n][r] = "tombstoned"]
    /\ clock' = [clock EXCEPT ![n] = Now(n)]
    /\ oplog' = [oplog EXCEPT ![n] =
                   @ \cup {OpOf(minted + 1, "forget", r, Zero, Now(n), n)}]
    /\ minted' = minted + 1
    /\ UNCHANGED <<wall, edges, text, history, mark, call, pull, stops>>

(***************************************************************************)
(* correct: one transaction under the connection archives the text that is *)
(* current, under the next number, writes the new one and logs the op with *)
(* a timestamp taken inside it.                                            *)
(***************************************************************************)
IsNext(num, revisions) ==
    /\ \A h \in revisions : h.num < num
    /\ num = 1 \/ \E h \in revisions : h.num = num - 1

\* (mutant) the revision is written after the new text.
RevisedLate(n, r, num, id) ==
    /\ text' = [text EXCEPT ![n][r] = id]
    /\ history' = [history EXCEPT ![n][r] =
                     IF \E h \in @ : h.num = num THEN @ ELSE @ \cup {[num |-> num, prior |-> id]}]

(* INSERT OR IGNORE INTO record_revisions: the number is unique. *)
Revised(n, r, num, id) ==
    /\ text' = [text EXCEPT ![n][r] = id]
    /\ history' = [history EXCEPT ![n][r] =
                     IF \E h \in @ : h.num = num THEN @
                     ELSE @ \cup {[num |-> num, prior |-> text[n][r]]}]

Correct(n, r) ==
    /\ n \in Corrector /\ mem[n][r] = "active" /\ MayStart(n) /\ minted < MaxOps
    /\ \E num \in Id :
          /\ IsNext(num, history[n][r])
          /\ Revised(n, r, num, minted + 1)
          /\ oplog' = [oplog EXCEPT ![n] = @ \cup {CorrectOf(minted + 1, r, num, Now(n), n)}]
    /\ clock' = [clock EXCEPT ![n] = Now(n)]
    /\ minted' = minted + 1
    /\ UNCHANGED <<wall, edges, mem, mark, call, pull, stops>>

-----------------------------------------------------------------------------
(***************************************************************************)
(* Half of sync_bidirectional: p pulls from s.                             *)
(***************************************************************************)
StartPull(p, s) ==
    /\ p # s /\ pull[p] = NoPull /\ MayStart(p)
    /\ Extracted(p, s) # {}
    /\ pull' = [pull EXCEPT ![p] =
                  [pc |-> "apply", from |-> s, todo |-> Extracted(p, s), last |-> mark[p][s]]]
    /\ UNCHANGED <<wall, clock, oplog, edges, mem, text, history, mark, call, minted, stops>>

(* The pull once op has been dealt with. *)
Handled(p, op) ==
    [pc |-> "apply", from |-> pull[p].from, todo |-> pull[p].todo \ {op}, last |-> Cursor(op)]

NextOp(p, op) == pull[p].pc = "apply" /\ IsFirst(op, pull[p].todo)

(* An op whose id is in the log is not applied again. *)
SkipKnown(p, op) ==
    /\ NextOp(p, op)
    /\ \E known \in oplog[p] : known.id = op.id
    /\ pull' = [pull EXCEPT ![p] = Handled(p, op)]
    /\ UNCHANGED <<wall, clock, oplog, edges, mem, text, history, mark, call, minted, stops>>

\* (mutant) INSERT OR REPLACE.
MaterializedOver(row, op) ==
    IF op.kind = "record" THEN "active"
    ELSE IF row = "absent" THEN "absent" ELSE "tombstoned"

(* materialize_record: INSERT OR IGNORE.  materialize_forget: an UPDATE,     *)
(* which finds no row when the memory is not there yet.                     *)
Materialized(row, op) ==
    IF op.kind = "record"
    THEN IF row = "absent" THEN "active" ELSE row
    ELSE IF row = "absent" THEN "absent" ELSE "tombstoned"

\* (mutant) the last op to arrive wins.
RelatedLast(row, op) == op.edge

(* materialize_relate: the row changes when the op's edge is newer. *)
Related(row, op) == Newer(row, op.edge)

(* apply_replicated_correct: the row takes the text of the op that arrives,  *)
(* whatever its timestamp; a memory that is absent or forgotten stays so.    *)
Corrected(p, op) ==
    IF mem[p][op.on] = "active"
    THEN Revised(p, op.on, op.num, op.id)
    ELSE UNCHANGED <<text, history>>

(* merge_hlc, then materialize_op: the first step of applying an op. *)
Materialize(p, op) ==
    /\ NextOp(p, op)
    /\ \A known \in oplog[p] : known.id # op.id
    /\ clock' = [clock EXCEPT ![p] = Recv(p, op.hlc)]
    /\ \/ /\ op.kind = "relate"
          /\ edges' = [edges EXCEPT ![p][op.on] = Related(@, op)]
          /\ UNCHANGED <<mem, text, history>>
       \/ /\ op.kind \in {"record", "forget"}
          /\ mem' = [mem EXCEPT ![p][op.on] = Materialized(@, op)]
          /\ UNCHANGED <<edges, text, history>>
       \/ /\ op.kind = "correct"
          /\ Corrected(p, op)
          /\ UNCHANGED <<edges, mem>>
    /\ pull' = [pull EXCEPT ![p].pc = "log"]
    /\ UNCHANGED <<wall, oplog, mark, call, minted, stops>>

(* A correction the node cannot take now (the write router is closed, or it  *)
(* has no embedder) ends the pull, its watermark as it was.                  *)
Deferred(p, op) ==
    /\ NextOp(p, op) /\ op.kind = "correct" /\ stops < MaxStops
    /\ \A known \in oplog[p] : known.id # op.id
    /\ clock' = [clock EXCEPT ![p] = Recv(p, op.hlc)]
    /\ pull' = [pull EXCEPT ![p] = NoPull]
    /\ stops' = stops + 1
    /\ UNCHANGED <<wall, oplog, edges, mem, text, history, mark, call, minted>>

(* The second step: the op enters the local log under its own hlc. *)
LogApplied(p, op) ==
    /\ pull[p].pc = "log" /\ IsFirst(op, pull[p].todo)
    /\ oplog' = [oplog EXCEPT ![p] = @ \cup {op}]
    /\ pull' = [pull EXCEPT ![p] = Handled(p, op)]
    /\ UNCHANGED <<wall, clock, edges, mem, text, history, mark, call, minted, stops>>

(* set_peer_watermark, with the last op of the batch. *)
Acknowledge(p) ==
    /\ pull[p].pc = "apply" /\ pull[p].todo = {}
    /\ mark' = [mark EXCEPT ![p][pull[p].from] = pull[p].last]
    /\ pull' = [pull EXCEPT ![p] = NoPull]
    /\ UNCHANGED <<wall, clock, oplog, edges, mem, text, history, call, minted, stops>>

(***************************************************************************)
(* A node is closed and opened again, with no call running; a pull is cut  *)
(* anywhere.  The clock starts from zero: nothing reads it back from the   *)
(* log.  Under SlowRestart the wall clock has passed every timestamp the   *)
(* node had seen; the code does not see to that.                           *)
(***************************************************************************)
Restart(n) ==
    /\ stops < MaxStops
    /\ Running(n) = {}
    /\ SlowRestart => clock[n][1] < wall[n]
    /\ clock' = [clock EXCEPT ![n] = Zero]
    /\ pull' = [pull EXCEPT ![n] = NoPull]
    /\ stops' = stops + 1
    /\ UNCHANGED <<wall, oplog, edges, mem, text, history, mark, call, minted>>

-----------------------------------------------------------------------------
CallStep(c) == CommitRecord(c) \/ Upsert(c) \/ StampOp(c) \/ LogOp(c)
PullStep(p) ==
    \/ \E op \in pull[p].todo : SkipKnown(p, op) \/ Materialize(p, op) \/ LogApplied(p, op)
    \/ Acknowledge(p)

Next ==
    \/ \E n \in Node : Tick(n) \/ Restart(n)
    \/ \E c \in Caller, n \in Node : StartRecord(c, n)
    \/ \E c \in Caller, n \in Node, k \in Key : StartRelate(c, n, k)
    \/ \E c \in Caller : CallStep(c)
    \/ \E n \in Node, r \in Id : Forget(n, r) \/ Correct(n, r)
    \/ \E p, s \in Node : StartPull(p, s)
    \/ \E p \in Node : PullStep(p)
    \/ \E p \in Node : \E op \in pull[p].todo : Deferred(p, op)

Spec == Init /\ [][Next]_vars

(* Calls and pulls run to their end, and the application keeps syncing every *)
(* pair of nodes.                                                           *)
FairSpec ==
    /\ Spec
    /\ \A c \in Caller : WF_vars(CallStep(c))
    /\ \A p \in Node : WF_vars(PullStep(p))
    /\ \A p, s \in Node : WF_vars(StartPull(p, s))

-----------------------------------------------------------------------------
CallType ==
    {NoCall}
    \cup [pc : {"record"}, node : Node, id : Id, hlc : Stamp]
    \cup [pc : {"upsert", "stamp"}, node : Node, id : Id, on : Key, edge : Stamp]
    \cup [pc : {"log"}, node : Node, id : Id, on : Key, edge : Stamp, hlc : Stamp]
MarkType == (Stamp \cup {Zero}) \X (Id \cup {0})
PullType ==
    {NoPull}
    \cup [pc : {"apply"}, from : Node, todo : SUBSET Op, last : MarkType]
    \cup [pc : {"log"}, from : Node, todo : SUBSET Op, last : MarkType]

(* Every variable has its type: clocks, rows, marks and the jobs of callers *)
(* and pulls.                                                               *)
TypeOK ==
    /\ wall \in [Node -> 1..MaxWall]
    /\ clock \in [Node -> Stamp \cup {Zero}]
    /\ oplog \in [Node -> SUBSET Op]
    /\ edges \in [Node -> [Key -> Stamp \cup {Zero}]]
    /\ mem \in [Node -> [Id -> {"absent", "active", "tombstoned"}]]
    /\ text \in [Node -> [Id -> Id]]
    /\ history \in [Node -> [Id -> SUBSET [num : Id, prior : Id]]]
    /\ mark \in [Node -> [Node -> MarkType]]
    /\ call \in [Caller -> CallType]
    /\ pull \in [Node -> PullType]
    /\ minted \in 0..MaxOps /\ stops \in 0..MaxStops

(* Tombstone always wins, irreversible (replication.rs:7): a memory a node   *)
(* has tombstoned is not active there again, although its record may be      *)
(* materialized and cut off before it is logged, forgotten, and delivered    *)
(* once more.                                                                *)
TombstonesStay ==
    [][\A n \in Node, r \in Id :
          mem[n][r] = "tombstoned" => mem'[n][r] = "tombstoned"]_vars

(* CLAIM (sync.rs:3): each side extracts the ops since the peer's watermark, *)
(* so nothing at or before p's watermark for s is missing from p: an op that *)
(* entered the log of s behind the cursor would never be pulled.             *)
NothingSkipped ==
    \A p, s \in Node : \A op \in oplog[s] :
        op.origin # p /\ ~Past(op, mark[p][s]) => op \in oplog[p]

AtRest(n) ==
    /\ Running(n) = {} /\ pull[n] = NoPull
    /\ \A m \in Node \ {n} : Wanted(n, m) = {}
Has(n, kind, r) == \E op \in oplog[n] : op.kind = kind /\ op.on = r
Writes(n, k) == {op.edge : op \in {o \in oplog[n] : o.kind = "relate" /\ o.on = k}}

(* The rows of a node that has pulled all there is are those its log alone   *)
(* determines: a memory is tombstoned when its forget is there and active    *)
(* when only its record is, an edge has its newest write.  Two nodes with    *)
(* equal logs therefore agree (README.md:463, "merge without conflicts").    *)
RowsFollowLog ==
    \A n \in Node : AtRest(n) =>
        /\ \A r \in Id :
              mem[n][r] = CASE Has(n, "record", r) /\ Has(n, "forget", r) -> "tombstoned"
                            [] Has(n, "record", r) /\ ~Has(n, "forget", r) -> "active"
                            [] OTHER -> "absent"
        /\ \A k \in Key :
              /\ edges[n][k] \in Writes(n, k) \cup {Zero}
              /\ \A t \in Writes(n, k) : ~Before(edges[n][k], t)

Corrections(n, r) == {op \in oplog[n] : op.kind = "correct" /\ op.on = r}
Texts(n, r) == {r} \cup {op.id : op \in Corrections(n, r)}

(* A live memory of a node that has pulled all there is has its newest text, *)
(* and its history every other one (schema.rs:888, "append-only audit log"): *)
(* what apply_replicated_correct owes to one correcting node.                *)
CorrectionsFollowLog ==
    \A n \in Node, r \in Id : AtRest(n) /\ mem[n][r] = "active" =>
        /\ text[n][r] \in Texts(n, r)
        /\ \A op \in Corrections(n, r) :
              text[n][r] = op.id
              \/ \E newer \in Corrections(n, r) : newer.id = text[n][r] /\ Past(newer, Cursor(op))
        /\ Texts(n, r) \subseteq {text[n][r]} \cup {h.prior : h \in history[n][r]}

(* An edge row is never replaced by an older write (replication.rs:5, "LWW   *)
(* ... higher HLC wins"; graph_ops.rs:172, "always the causal maximum").     *)
EdgesMoveForward ==
    [][\A n \in Node, k \in Key : ~Before(edges'[n][k], edges[n][k])]_vars

(* When writing stops, the nodes end up with the same ops and the same rows. *)
Converges ==
    <>[](\A n, m \in Node :
            /\ oplog[n] = oplog[m]
            /\ edges[n] = edges[m]
            /\ mem[n] = mem[m])
=============================================================================
