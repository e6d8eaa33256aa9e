----------------------------- MODULE SyncProofs -----------------------------
(***************************************************************************)
(* Theorems about Sync for every set of nodes, keys and callers.  Every     *)
(* variable keeps its type; when a node does one thing at a time and        *)
(* restarts outlast the lead of its clock, no edge row is replaced by an    *)
(* older write; and, however many things a node does at a time, a cursor    *)
(* stands for the forgets and corrections of its node up to it.             *)
(***************************************************************************)
EXTENDS Sync, FiniteSetTheorems, TLAPS

-----------------------------------------------------------------------------
(* The hybrid logical clock *)

Triple(t) == t[1] \in Nat /\ t[2] \in Nat /\ t[3] \in Nat

LEMMA StampIsTriple == \A t \in Stamp \cup {Zero} : Triple(t)
<1>1. ASSUME NEW t \in Stamp PROVE Triple(t)
  <2>1. t[1] \in Nat /\ t[2] \in Nat /\ t[3] \in Node
    BY DEF Stamp
  <2> QED
    BY <2>1, SyncAssumption DEF Triple
<1>2. Triple(Zero)
  BY DEF Zero, Triple
<1> QED
  BY <1>1, <1>2

LEMMA LaterType == \A a, b \in Nat : Later(a, b) \in Nat /\ Later(a, b) >= a /\ Later(a, b) >= b
  BY DEF Later

\* What a node has room for: its clock or its wall clock is past t.
Seen(n, t) == ~Before(clock[n], t) \/ t[1] < wall[n]

\* HLC::now returns a stamp of the node that is later than anything the node
\* has seen.
LEMMA NowIsNew ==
    ASSUME NEW n \in Node, Triple(clock[n]), wall[n] \in Nat
    PROVE  /\ Now(n) \in Stamp
           /\ Before(clock[n], Now(n))
           /\ \A t : Triple(t) /\ Seen(n, t) => Before(t, Now(n))
<1> DEFINE ms == Later(wall[n], clock[n][1])
           lg == IF ms = clock[n][1] THEN clock[n][2] + 1 ELSE 0
<1>1. ms \in Nat /\ ms >= wall[n] /\ ms >= clock[n][1]
  BY LaterType DEF Triple
<1>2. lg \in Nat /\ (ms = clock[n][1] => lg > clock[n][2])
  BY DEF Triple
<1>3. Now(n) = <<ms, lg, n>>
  BY DEF Now
<1>4. Now(n)[1] = ms /\ Now(n)[2] = lg /\ Now(n)[3] = n
  BY <1>3
<1>5. Now(n) \in Stamp
  BY <1>1, <1>2, <1>3 DEF Stamp
<1> HIDE DEF ms, lg
<1>6. Before(clock[n], Now(n))
  BY <1>1, <1>2, <1>4 DEF Before, Triple
<1>7. ASSUME NEW t, Triple(t), Seen(n, t) PROVE Before(t, Now(n))
  BY <1>1, <1>2, <1>4, <1>7 DEF Before, Triple, Seen
<1> QED
  BY <1>5, <1>6, <1>7

\* HLC::recv returns a stamp later than the clock and than the remote stamp.
LEMMA RecvIsNew ==
    ASSUME NEW n \in Node, Triple(clock[n]), wall[n] \in Nat, NEW r, Triple(r)
    PROVE  /\ Recv(n, r) \in Stamp
           /\ Before(clock[n], Recv(n, r))
           /\ Before(r, Recv(n, r))
<1> DEFINE ms == Later(Later(wall[n], clock[n][1]), r[1])
           lg == Recv(n, r)[2]
<1>1. /\ ms \in Nat /\ ms >= wall[n] /\ ms >= clock[n][1] /\ ms >= r[1]
      /\ ms = wall[n] \/ ms = clock[n][1] \/ ms = r[1]
  <2>1. Later(wall[n], clock[n][1]) \in Nat
    BY LaterType DEF Triple
  <2> QED
    BY <2>1, LaterType DEF Triple, Later
<1>2. CASE ms = clock[n][1] /\ ms = r[1]
  <2>1. Recv(n, r) = <<ms, Later(clock[n][2], r[2]) + 1, n>>
    BY <1>2 DEF Recv
  <2>2. /\ Later(clock[n][2], r[2]) \in Nat
        /\ Later(clock[n][2], r[2]) >= clock[n][2] /\ Later(clock[n][2], r[2]) >= r[2]
    BY LaterType DEF Triple
  <2> HIDE DEF ms
  <2> QED
    BY <1>1, <1>2, <2>1, <2>2 DEF Before, Stamp, Triple
<1>3. CASE ms = clock[n][1] /\ ms # r[1]
  <2>1. Recv(n, r) = <<ms, clock[n][2] + 1, n>>
    BY <1>3 DEF Recv
  <2> HIDE DEF ms
  <2> QED
    BY <1>1, <1>3, <2>1 DEF Before, Stamp, Triple
<1>4. CASE ms # clock[n][1] /\ ms = r[1]
  <2>1. Recv(n, r) = <<ms, r[2] + 1, n>>
    BY <1>4 DEF Recv
  <2> HIDE DEF ms
  <2> QED
    BY <1>1, <1>4, <2>1 DEF Before, Stamp, Triple
<1>5. CASE ms # clock[n][1] /\ ms # r[1]
  <2>1. Recv(n, r) = <<ms, 0, n>>
    BY <1>5 DEF Recv
  <2> HIDE DEF ms
  <2> QED
    BY <1>1, <1>5, <2>1 DEF Before, Stamp, Triple
<1> QED
  BY <1>2, <1>3, <1>4, <1>5

\* The order of stamps is total and transitive.
LEMMA BeforeOrder ==
    ASSUME NEW s, NEW t, NEW u, Triple(s), Triple(t), Triple(u)
    PROVE  /\ ~(Before(s, t) /\ Before(t, s))
           /\ Before(s, t) /\ Before(t, u) => Before(s, u)
           /\ ~Before(t, s) /\ ~Before(u, t) => ~Before(u, s)
  BY DEF Before, Triple

\* Whatever a node has seen it has still seen when its clock moves on.
LEMMA SeenGrows ==
    ASSUME NEW c, NEW d, NEW t, Triple(c), Triple(d), Triple(t),
           Before(c, d), ~Before(c, t)
    PROVE  ~Before(d, t)
  BY DEF Before, Triple

-----------------------------------------------------------------------------
(* Type correctness *)

LEMMA TypeInit == Init => TypeOK
<1> SUFFICES ASSUME Init PROVE TypeOK
  OBVIOUS
<1> USE SyncAssumption DEF Init
<1>1. wall \in [Node -> 1..MaxWall] /\ minted \in 0..MaxOps /\ stops \in 0..MaxStops
  OBVIOUS
<1>2. /\ clock \in [Node -> Stamp \cup {Zero}]
      /\ edges \in [Node -> [Key -> Stamp \cup {Zero}]]
      /\ oplog \in [Node -> SUBSET Op]
      /\ mem \in [Node -> [Id -> {"absent", "active", "tombstoned"}]]
      /\ text \in [Node -> [Id -> Id]]
      /\ history \in [Node -> [Id -> SUBSET [num : Id, prior : Id]]]
  OBVIOUS
<1>3. NoMark \in MarkType
  BY DEF NoMark, MarkType
<1>4. mark \in [Node -> [Node -> MarkType]]
  BY <1>3
<1>5. call \in [Caller -> CallType] /\ pull \in [Node -> PullType]
  BY DEF CallType, PullType
<1> QED
  BY <1>1, <1>2, <1>4, <1>5 DEF TypeOK

\* The stamps a typed state can produce are stamps.
LEMMA StampsTyped ==
    ASSUME TypeOK, NEW n \in Node
    PROVE  /\ Triple(clock[n]) /\ wall[n] \in Nat
           /\ Now(n) \in Stamp
           /\ \A r \in Stamp \cup {Zero} : Recv(n, r) \in Stamp
<1>1. Triple(clock[n]) /\ wall[n] \in Nat
  BY StampIsTriple, SyncAssumption DEF TypeOK
<1> QED
  BY <1>1, NowIsNew, RecvIsNew, StampIsTriple

\* What a call knows at each of its steps.
LEMMA CallFields ==
    ASSUME TypeOK, NEW c \in Caller, call[c] # NoCall
    PROVE  /\ call[c].node \in Node /\ call[c].id \in Id
           /\ call[c].pc \in {"record", "log"} => call[c].hlc \in Stamp
           /\ call[c].pc \in {"upsert", "stamp", "log"} =>
                  call[c].on \in Key /\ call[c].edge \in Stamp
  BY DEF TypeOK, CallType

\* What a pull knows while it applies its ops.
LEMMA PullFields ==
    ASSUME TypeOK, NEW p \in Node, pull[p] # NoPull
    PROVE  /\ pull[p] = [pc |-> pull[p].pc, from |-> pull[p].from,
                         todo |-> pull[p].todo, last |-> pull[p].last]
           /\ pull[p].pc \in {"apply", "log"} /\ pull[p].from \in Node
           /\ pull[p].todo \subseteq Op /\ pull[p].last \in MarkType
  BY DEF TypeOK, PullType

\* An op has an id and a timestamp; its subject and its edge depend on its kind.
LEMMA OpFields ==
    ASSUME NEW op \in Op
    PROVE  /\ op.id \in Id /\ op.hlc \in Stamp /\ op.edge \in Stamp \cup {Zero}
           /\ Cursor(op) \in MarkType
           /\ op.kind = "relate" => op.on \in Key
           /\ op.kind # "relate" => op.on \in Id
           /\ op.kind = "correct" => op.num \in Id
           /\ op.kind \in {"record", "forget", "relate", "correct"}
<1>1. op.id \in Id /\ op.hlc \in Stamp /\ op.edge \in Stamp \cup {Zero}
  BY DEF Op
<1>2. Cursor(op) \in MarkType
  BY <1>1 DEF Cursor, MarkType
<1>3. op.kind = "relate" => op.on \in Key
  BY DEF Op
<1>4. op.kind # "relate" => op.on \in Id
  BY DEF Op
<1>5. op.kind = "correct" => op.num \in Id
  BY DEF Op
<1>6. op.kind \in {"record", "forget", "relate", "correct"}
  BY DEF Op
<1> QED
  BY <1>1, <1>2, <1>3, <1>4, <1>5, <1>6

\* The ops the calls put in a log are ops.
LEMMA OpTyped ==
    ASSUME NEW id \in Id, NEW h \in Stamp, NEW n \in Node
    PROVE  /\ \A r \in Id : OpOf(id, "record", r, Zero, h, n) \in Op
           /\ \A r \in Id : OpOf(id, "forget", r, Zero, h, n) \in Op
           /\ \A k \in Key, e \in Stamp : OpOf(id, "relate", k, e, h, n) \in Op
           /\ \A r \in Id, num \in Id : CorrectOf(id, r, num, h, n) \in Op
<1>1. \A r \in Id, num \in Id : CorrectOf(id, r, num, h, n) \in Op
  BY DEF CorrectOf, Op
<1> QED
  BY <1>1 DEF OpOf, Op

\* A correction writes a text and adds at most one revision.
LEMMA RevisedTyped ==
    ASSUME TypeOK, NEW n \in Node, NEW r \in Id, NEW num \in Id, NEW id \in Id,
           Revised(n, r, num, id)
    PROVE  /\ text' \in [Node -> [Id -> Id]]
           /\ history' \in [Node -> [Id -> SUBSET [num : Id, prior : Id]]]
<1>1. text' \in [Node -> [Id -> Id]]
  BY DEF Revised, TypeOK
<1>2. [num |-> num, prior |-> text[n][r]] \in [num : Id, prior : Id]
  BY DEF TypeOK
<1>3. history' \in [Node -> [Id -> SUBSET [num : Id, prior : Id]]]
  BY <1>2 DEF Revised, TypeOK
<1> QED
  BY <1>1, <1>3

\* After an op is dealt with the pull is still a pull.
LEMMA HandledTyped ==
    ASSUME TypeOK, NEW p \in Node, NEW op \in pull[p].todo
    PROVE  op \in Op /\ pull[p] # NoPull /\ Handled(p, op) \in PullType
<1>1. pull[p] # NoPull
  BY DEF NoPull
<1>2. op \in Op
  BY <1>1, PullFields
<1>3. Cursor(op) \in MarkType
  BY <1>2, OpFields
<1> QED
  BY <1>1, <1>2, <1>3, PullFields DEF Handled, PullType

LEMMA TypeNext == TypeOK /\ [Next]_vars => TypeOK'
<1> SUFFICES ASSUME TypeOK, [Next]_vars PROVE TypeOK'
  OBVIOUS
<1>a. 1 \in Nat /\ MaxOps \in Nat /\ MaxStops \in Nat /\ MaxWall \in Nat
  BY SyncAssumption
<1>1. ASSUME NEW n \in Node, Tick(n) PROVE TypeOK'
  <2>1. wall' \in [Node -> 1..MaxWall]
    BY <1>1, <1>a DEF Tick, TypeOK
  <2> QED
    BY <1>1, <2>1 DEF Tick, TypeOK
<1>2. ASSUME NEW n \in Node, Restart(n) PROVE TypeOK'
  <2>1. stops' \in 0..MaxStops
    BY <1>2, <1>a DEF Restart, TypeOK
  <2>2. clock' \in [Node -> Stamp \cup {Zero}]
    BY <1>2 DEF Restart, TypeOK
  <2>3. pull' \in [Node -> PullType]
    BY <1>2 DEF Restart, TypeOK, PullType
  <2> QED
    BY <1>2, <2>1, <2>2, <2>3 DEF Restart, TypeOK
<1>3. ASSUME NEW c \in Caller, NEW n \in Node, StartRecord(c, n) PROVE TypeOK'
  <2>1. minted + 1 \in Id /\ minted' \in 0..MaxOps
    BY <1>3, <1>a DEF StartRecord, TypeOK, Id
  <2>2. Now(n) \in Stamp
    BY StampsTyped
  <2>3. clock' \in [Node -> Stamp \cup {Zero}]
    BY <1>3, <2>2 DEF StartRecord, TypeOK
  <2>4. call' \in [Caller -> CallType]
    BY <1>3, <2>1, <2>2 DEF StartRecord, TypeOK, CallType
  <2> QED
    BY <1>3, <2>1, <2>3, <2>4 DEF StartRecord, TypeOK
<1>4. ASSUME NEW c \in Caller, NEW n \in Node, NEW k \in Key, StartRelate(c, n, k)
      PROVE  TypeOK'
  <2>1. minted + 1 \in Id /\ minted' \in 0..MaxOps
    BY <1>4, <1>a DEF StartRelate, TypeOK, Id
  <2>2. Now(n) \in Stamp
    BY StampsTyped
  <2>3. clock' \in [Node -> Stamp \cup {Zero}]
    BY <1>4, <2>2 DEF StartRelate, TypeOK
  <2>4. call' \in [Caller -> CallType]
    BY <1>4, <2>1, <2>2 DEF StartRelate, TypeOK, CallType
  <2> QED
    BY <1>4, <2>1, <2>3, <2>4 DEF StartRelate, TypeOK
<1>5. ASSUME NEW c \in Caller, CommitRecord(c) PROVE TypeOK'
  <2>1. call[c] # NoCall /\ call[c].pc = "record"
    BY <1>5 DEF CommitRecord, NoCall
  <2>2. call[c].node \in Node /\ call[c].id \in Id /\ call[c].hlc \in Stamp
    BY <2>1, CallFields
  <2>3. OpOf(call[c].id, "record", call[c].id, Zero, call[c].hlc, call[c].node) \in Op
    BY <2>2, OpTyped
  <2>4. oplog' \in [Node -> SUBSET Op]
    BY <1>5, <2>2, <2>3 DEF CommitRecord, TypeOK
  <2>5. mem' \in [Node -> [Id -> {"absent", "active", "tombstoned"}]]
    BY <1>5, <2>2 DEF CommitRecord, TypeOK
  <2>6. call' \in [Caller -> CallType]
    BY <1>5 DEF CommitRecord, TypeOK, CallType
  <2> QED
    BY <1>5, <2>4, <2>5, <2>6 DEF CommitRecord, TypeOK
<1>6. ASSUME NEW c \in Caller, Upsert(c) PROVE TypeOK'
  <2>1. call[c] # NoCall /\ call[c].pc = "upsert"
    BY <1>6 DEF Upsert, NoCall
  <2>2. call[c].node \in Node /\ call[c].on \in Key /\ call[c].edge \in Stamp
    BY <2>1, CallFields
  <2>3. edges' \in [Node -> [Key -> Stamp \cup {Zero}]]
    BY <1>6, <2>2 DEF Upsert, TypeOK
  <2>4. call[c] \in [pc : {"upsert", "stamp"}, node : Node, id : Id, on : Key, edge : Stamp]
    BY <2>1 DEF TypeOK, CallType
  <2>5. [call[c] EXCEPT !.pc = "stamp"] \in CallType
    BY <2>4 DEF CallType
  <2>6. call' \in [Caller -> CallType]
    BY <1>6, <2>5 DEF Upsert, TypeOK
  <2> QED
    BY <1>6, <2>3, <2>6 DEF Upsert, TypeOK
<1>7. ASSUME NEW c \in Caller, StampOp(c) PROVE TypeOK'
  <2>1. call[c] # NoCall /\ call[c].pc = "stamp"
    BY <1>7 DEF StampOp, NoCall
  <2>2. /\ call[c].node \in Node /\ call[c].id \in Id
        /\ call[c].on \in Key /\ call[c].edge \in Stamp
    BY <2>1, CallFields
  <2>3. Now(call[c].node) \in Stamp
    BY <2>2, StampsTyped
  <2>4. clock' \in [Node -> Stamp \cup {Zero}]
    BY <1>7, <2>2, <2>3 DEF StampOp, TypeOK
  <2>5. call' \in [Caller -> CallType]
    BY <1>7, <2>2, <2>3 DEF StampOp, TypeOK, CallType
  <2> QED
    BY <1>7, <2>4, <2>5 DEF StampOp, TypeOK
<1>8. ASSUME NEW c \in Caller, LogOp(c) PROVE TypeOK'
  <2>1. call[c] # NoCall /\ call[c].pc = "log"
    BY <1>8 DEF LogOp, NoCall
  <2>2. /\ call[c].node \in Node /\ call[c].id \in Id /\ call[c].hlc \in Stamp
        /\ call[c].on \in Key /\ call[c].edge \in Stamp
    BY <2>1, CallFields
  <2>3. OpOf(call[c].id, "relate", call[c].on, call[c].edge, call[c].hlc, call[c].node) \in Op
    BY <2>2, OpTyped
  <2>4. oplog' \in [Node -> SUBSET Op]
    BY <1>8, <2>2, <2>3 DEF LogOp, TypeOK
  <2>5. call' \in [Caller -> CallType]
    BY <1>8 DEF LogOp, TypeOK, CallType
  <2> QED
    BY <1>8, <2>4, <2>5 DEF LogOp, TypeOK
<1>9. ASSUME NEW n \in Node, NEW r \in Id, Forget(n, r) PROVE TypeOK'
  <2>1. minted + 1 \in Id /\ minted' \in 0..MaxOps
    BY <1>9, <1>a DEF Forget, TypeOK, Id
  <2>2. Now(n) \in Stamp
    BY StampsTyped
  <2>3. clock' \in [Node -> Stamp \cup {Zero}]
    BY <1>9, <2>2 DEF Forget, TypeOK
  <2>4. OpOf(minted + 1, "forget", r, Zero, Now(n), n) \in Op
    BY <2>1, <2>2, OpTyped
  <2>5. oplog' \in [Node -> SUBSET Op]
    BY <1>9, <2>4 DEF Forget, TypeOK
  <2>6. mem' \in [Node -> [Id -> {"absent", "active", "tombstoned"}]]
    BY <1>9 DEF Forget, TypeOK
  <2> QED
    BY <1>9, <2>1, <2>3, <2>5, <2>6 DEF Forget, TypeOK
<1>c. ASSUME NEW n \in Node, NEW r \in Id, Correct(n, r) PROVE TypeOK'
  <2>1. minted + 1 \in Id /\ minted' \in 0..MaxOps
    BY <1>c, <1>a DEF Correct, TypeOK, Id
  <2>2. Now(n) \in Stamp
    BY StampsTyped
  <2>3. clock' \in [Node -> Stamp \cup {Zero}]
    BY <1>c, <2>2 DEF Correct, TypeOK
  <2>4. PICK num \in Id :
           /\ Revised(n, r, num, minted + 1)
           /\ oplog' = [oplog EXCEPT ![n] = @ \cup {CorrectOf(minted + 1, r, num, Now(n), n)}]
    BY <1>c DEF Correct
  <2>5. CorrectOf(minted + 1, r, num, Now(n), n) \in Op
    BY <2>1, <2>2, OpTyped
  <2>6. oplog' \in [Node -> SUBSET Op]
    BY <2>4, <2>5 DEF TypeOK
  <2>7. /\ text' \in [Node -> [Id -> Id]]
        /\ history' \in [Node -> [Id -> SUBSET [num : Id, prior : Id]]]
    BY <2>1, <2>4, RevisedTyped
  <2> QED
    BY <1>c, <2>1, <2>3, <2>6, <2>7 DEF Correct, TypeOK
<1>10. ASSUME NEW p \in Node, NEW s \in Node, StartPull(p, s) PROVE TypeOK'
  <2>1. Extracted(p, s) \subseteq Op
    BY DEF Extracted, Wanted, TypeOK
  <2>2. mark[p][s] \in MarkType
    BY DEF TypeOK
  <2>3. pull' \in [Node -> PullType]
    BY <1>10, <2>1, <2>2 DEF StartPull, TypeOK, PullType
  <2> QED
    BY <1>10, <2>3 DEF StartPull, TypeOK
<1>11. ASSUME NEW p \in Node, NEW op \in pull[p].todo, SkipKnown(p, op) PROVE TypeOK'
  <2>1. pull' \in [Node -> PullType]
    BY <1>11, HandledTyped DEF SkipKnown, TypeOK
  <2> QED
    BY <1>11, <2>1 DEF SkipKnown, TypeOK
<1>12. ASSUME NEW p \in Node, NEW op \in pull[p].todo, Materialize(p, op) PROVE TypeOK'
  <2>1. op \in Op /\ pull[p] # NoPull
    BY HandledTyped
  <2>2. Recv(p, op.hlc) \in Stamp
    BY <2>1, OpFields, StampsTyped
  <2>3. clock' \in [Node -> Stamp \cup {Zero}]
    BY <1>12, <2>2 DEF Materialize, TypeOK
  <2>4. edges' \in [Node -> [Key -> Stamp \cup {Zero}]]
    <3>1. CASE op.kind = "relate"
      <4>1. op.on \in Key /\ op.edge \in Stamp \cup {Zero}
        BY <2>1, <3>1, OpFields
      <4>2. Related(edges[p][op.on], op) \in Stamp \cup {Zero}
        BY <4>1 DEF Related, Newer, TypeOK
      <4>3. edges' = [edges EXCEPT ![p][op.on] = Related(@, op)]
        BY <1>12, <3>1 DEF Materialize
      <4> QED
        BY <4>1, <4>2, <4>3 DEF TypeOK
    <3>2. CASE op.kind # "relate"
      BY <1>12, <3>2 DEF Materialize, TypeOK
    <3> QED
      BY <3>1, <3>2
  <2>5. mem' \in [Node -> [Id -> {"absent", "active", "tombstoned"}]]
    <3>1. CASE op.kind \in {"record", "forget"}
      <4>1. op.on \in Id
        BY <2>1, <3>1, OpFields
      <4>2. Materialized(mem[p][op.on], op) \in {"absent", "active", "tombstoned"}
        BY <4>1 DEF Materialized, TypeOK
      <4>3. mem' = [mem EXCEPT ![p][op.on] = Materialized(@, op)]
        BY <1>12, <3>1 DEF Materialize
      <4> QED
        BY <4>1, <4>2, <4>3 DEF TypeOK
    <3>2. CASE op.kind \notin {"record", "forget"}
      BY <1>12, <3>2 DEF Materialize, TypeOK
    <3> QED
      BY <3>1, <3>2
  <2>8. /\ text' \in [Node -> [Id -> Id]]
        /\ history' \in [Node -> [Id -> SUBSET [num : Id, prior : Id]]]
    <3>1. CASE UNCHANGED <<text, history>>
      BY <3>1 DEF TypeOK
    <3>2. CASE ~UNCHANGED <<text, history>>
      <4>1. op.kind = "correct" /\ Revised(p, op.on, op.num, op.id)
        BY <1>12, <3>2 DEF Materialize, Corrected
      <4> QED
        BY <2>1, <4>1, OpFields, RevisedTyped
    <3> QED
      BY <3>1, <3>2
  <2>6. [pull[p] EXCEPT !.pc = "log"] \in PullType
    <3>1. pull[p] \in [pc : {"apply", "log"}, from : Node, todo : SUBSET Op, last : MarkType]
      BY <2>1 DEF TypeOK, PullType
    <3>2. [pull[p] EXCEPT !.pc = "log"]
             \in [pc : {"log"}, from : Node, todo : SUBSET Op, last : MarkType]
      BY <3>1
    <3> QED
      BY <3>2 DEF PullType
  <2>7. pull' \in [Node -> PullType]
    BY <1>12, <2>6 DEF Materialize, TypeOK
  <2> QED
    BY <1>12, <2>3, <2>4, <2>5, <2>7, <2>8 DEF Materialize, TypeOK
<1>d. ASSUME NEW p \in Node, NEW op \in pull[p].todo, Deferred(p, op) PROVE TypeOK'
  <2>1. op \in Op
    BY HandledTyped
  <2>2. Recv(p, op.hlc) \in Stamp
    BY <2>1, OpFields, StampsTyped
  <2>3. clock' \in [Node -> Stamp \cup {Zero}]
    BY <1>d, <2>2 DEF Deferred, TypeOK
  <2>4. pull' \in [Node -> PullType]
    BY <1>d DEF Deferred, TypeOK, PullType
  <2>5. stops' \in 0..MaxStops
    BY <1>d, <1>a DEF Deferred, TypeOK
  <2> QED
    BY <1>d, <2>3, <2>4, <2>5 DEF Deferred, TypeOK
<1>13. ASSUME NEW p \in Node, NEW op \in pull[p].todo, LogApplied(p, op) PROVE TypeOK'
  <2>1. op \in Op /\ Handled(p, op) \in PullType
    BY HandledTyped
  <2>2. oplog' \in [Node -> SUBSET Op]
    BY <1>13, <2>1 DEF LogApplied, TypeOK
  <2>3. pull' \in [Node -> PullType]
    BY <1>13, <2>1 DEF LogApplied, TypeOK
  <2> QED
    BY <1>13, <2>2, <2>3 DEF LogApplied, TypeOK
<1>14. ASSUME NEW p \in Node, Acknowledge(p) PROVE TypeOK'
  <2>1. pull[p] # NoPull
    BY <1>14 DEF Acknowledge, NoPull
  <2>2. pull[p].from \in Node /\ pull[p].last \in MarkType
    BY <2>1, PullFields
  <2>3. mark' \in [Node -> [Node -> MarkType]]
    BY <1>14, <2>2 DEF Acknowledge, TypeOK
  <2>4. pull' \in [Node -> PullType]
    BY <1>14 DEF Acknowledge, TypeOK, PullType
  <2> QED
    BY <1>14, <2>3, <2>4 DEF Acknowledge, TypeOK
<1>15. CASE UNCHANGED vars
  BY <1>15 DEF vars, TypeOK
<1> QED
  BY <1>1, <1>2, <1>3, <1>4, <1>5, <1>6, <1>7, <1>8, <1>9, <1>10, <1>11, <1>12,
     <1>13, <1>14, <1>15, <1>c, <1>d DEF Next, CallStep, PullStep

\* Every variable of the databases and of the sync jobs keeps its type.
THEOREM SyncTypeCorrect == Spec => []TypeOK
  BY TypeInit, TypeNext, PTL DEF Spec

-----------------------------------------------------------------------------
(***************************************************************************)
(* Edges move forward.  The node has seen every stamp in its edge rows and *)
(* in its calls, so the next stamp it takes is newer; an op carries an edge *)
(* no newer than its own timestamp, so a clock that has received the op has *)
(* seen the edge; and between the moment a relate takes its stamp and the   *)
(* moment it writes the row nobody else writes on the node.                 *)
(***************************************************************************)

Dated(op) == ~Before(op.hlc, op.edge)

OpsDated ==
    /\ \A n \in Node : \A op \in oplog[n] : Dated(op)
    /\ \A p \in Node : \A op \in pull[p].todo : Dated(op)
    /\ \A c \in Caller : call[c].pc = "log" => ~Before(call[c].hlc, call[c].edge)

RowsSeen == \A n \in Node, k \in Key : Seen(n, edges[n][k])

CallsSeen ==
    \A c \in Caller : call[c].pc \in {"upsert", "stamp"} => Seen(call[c].node, call[c].edge)

OneAtATime ==
    /\ \A c, d \in Caller :
          call[c] # NoCall /\ call[d] # NoCall /\ call[c].node = call[d].node => c = d
    /\ \A c \in Caller : call[c] # NoCall => pull[call[c].node] = NoPull

UpsertNewest ==
    \A c \in Caller : call[c].pc = "upsert" =>
        ~Before(call[c].edge, edges[call[c].node][call[c].on])

EdgeInv == TypeOK /\ OpsDated /\ RowsSeen /\ CallsSeen /\ OneAtATime /\ UpsertNewest

LEMMA EdgeInvInit == Init => EdgeInv
<1> SUFFICES ASSUME Init PROVE EdgeInv
  OBVIOUS
<1>1. TypeOK
  BY TypeInit
<1>2. \A n \in Node, k \in Key : ~Before(clock[n], edges[n][k])
  BY DEF Init, Before, Zero
<1>3. RowsSeen
  BY <1>2 DEF RowsSeen, Seen
<1>4. OpsDated /\ CallsSeen /\ OneAtATime /\ UpsertNewest
  BY DEF Init, NoCall, NoPull, OpsDated, CallsSeen, OneAtATime, UpsertNewest
<1> QED
  BY <1>1, <1>3, <1>4 DEF EdgeInv

\* A clock that moves on has still seen what it had seen.
LEMMA SeenKept ==
    ASSUME TypeOK, NEW n \in Node, NEW x \in Stamp, Before(clock[n], x),
           clock' = [clock EXCEPT ![n] = x], wall' = wall
    PROVE  \A m \in Node, t \in Stamp \cup {Zero} : Seen(m, t) => Seen(m, t)'
<1> SUFFICES ASSUME NEW m \in Node, NEW t \in Stamp \cup {Zero}, Seen(m, t)
             PROVE  Seen(m, t)'
  OBVIOUS
<1>1. Triple(clock[n]) /\ Triple(x) /\ Triple(t)
  BY StampIsTriple, StampsTyped
<1>2. CASE m = n
  <2>1. clock'[n] = x
    BY DEF TypeOK
  <2>2. ~Before(clock[n], t) => ~Before(x, t)
    BY <1>1, SeenGrows
  <2> QED
    BY <1>2, <2>1, <2>2 DEF Seen
<1>3. CASE m # n
  <2>1. clock'[m] = clock[m]
    BY <1>3 DEF TypeOK
  <2> QED
    BY <2>1 DEF Seen
<1> QED
  BY <1>2, <1>3

\* The stamps of calls and rows, for SeenKept.
LEMMA StampsHeld ==
    ASSUME TypeOK
    PROVE  /\ \A n \in Node, k \in Key : edges[n][k] \in Stamp \cup {Zero}
           /\ \A c \in Caller : call[c].pc \in {"upsert", "stamp"} =>
                 call[c] # NoCall /\ call[c].node \in Node /\ call[c].edge \in Stamp
<1>1. \A n \in Node, k \in Key : edges[n][k] \in Stamp \cup {Zero}
  BY DEF TypeOK
<1>2. ASSUME NEW c \in Caller, call[c].pc \in {"upsert", "stamp"}
      PROVE  call[c] # NoCall /\ call[c].node \in Node /\ call[c].edge \in Stamp
  <2>1. call[c] # NoCall
    BY <1>2 DEF NoCall
  <2> QED
    BY <1>2, <2>1, CallFields
<1> QED
  BY <1>1, <1>2

LEMMA TickStep ==
    ASSUME EdgeInv, NEW n \in Node, Tick(n) PROVE EdgeInv'
<1>1. TypeOK'
  BY TypeNext DEF EdgeInv, Next
<1>2. /\ UNCHANGED <<clock, oplog, edges, mem, mark, call, pull>>
      /\ \A m \in Node : wall[m] \in Nat /\ wall'[m] \in Nat /\ wall'[m] >= wall[m]
  BY SyncAssumption DEF Tick, EdgeInv, TypeOK
<1>3. \A m \in Node, t \in Stamp \cup {Zero} : Seen(m, t) => Seen(m, t)'
  <2> SUFFICES ASSUME NEW m \in Node, NEW t \in Stamp \cup {Zero}, Seen(m, t)
               PROVE  Seen(m, t)'
    OBVIOUS
  <2>1. t[1] \in Nat
    BY StampIsTriple DEF Triple
  <2> QED
    BY <1>2, <2>1 DEF Seen
<1>4. RowsSeen'
  BY <1>2, <1>3, StampsHeld DEF EdgeInv, RowsSeen
<1>5. CallsSeen'
  BY <1>2, <1>3, StampsHeld DEF EdgeInv, CallsSeen
<1>6. OpsDated' /\ OneAtATime' /\ UpsertNewest'
  BY <1>2 DEF EdgeInv, OpsDated, Dated, OneAtATime, UpsertNewest
<1> QED
  BY <1>1, <1>4, <1>5, <1>6 DEF EdgeInv

LEMMA RestartStep ==
    ASSUME SlowRestart, EdgeInv, NEW n \in Node, Restart(n) PROVE EdgeInv'
<1>1. TypeOK'
  BY TypeNext DEF EdgeInv, Next
<1>2. /\ UNCHANGED <<wall, oplog, edges, call>>
      /\ \A c \in Caller : call[c] # NoCall => call[c].node # n
      /\ clock[n][1] < wall[n]
      /\ \A m \in Node : m # n => clock'[m] = clock[m] /\ pull'[m] = pull[m]
      /\ pull'[n] = NoPull
  BY DEF Restart, Running, EdgeInv, TypeOK
<1>3. \A m \in Node, t \in Stamp \cup {Zero} : Seen(m, t) => Seen(m, t)'
  <2> SUFFICES ASSUME NEW m \in Node, NEW t \in Stamp \cup {Zero}, Seen(m, t)
               PROVE  Seen(m, t)'
    OBVIOUS
  <2>1. CASE m = n
    <3>1. Triple(t) /\ Triple(clock[n]) /\ wall[n] \in Nat
      BY StampIsTriple, StampsTyped DEF EdgeInv
    <3>2. t[1] < wall[n]
      BY <1>2, <2>1, <3>1 DEF Seen, Before, Triple
    <3> QED
      BY <1>2, <2>1, <3>2 DEF Seen
  <2>2. CASE m # n
    BY <1>2, <2>2 DEF Seen
  <2> QED
    BY <2>1, <2>2
<1>4. RowsSeen'
  BY <1>2, <1>3, StampsHeld DEF EdgeInv, RowsSeen
<1>5. CallsSeen'
  BY <1>2, <1>3, StampsHeld DEF EdgeInv, CallsSeen
<1>6. OpsDated'
  BY <1>2 DEF EdgeInv, OpsDated, Dated, NoPull
<1>7. OneAtATime'
  <2> SUFFICES ASSUME NEW c \in Caller, call[c] # NoCall
               PROVE  pull'[call[c].node] = NoPull
    BY <1>2 DEF EdgeInv, OneAtATime
  <2>1. call[c].node \in Node /\ pull[call[c].node] = NoPull
    BY CallFields DEF EdgeInv, OneAtATime
  <2> QED
    BY <1>2, <2>1
<1>8. UpsertNewest'
  BY <1>2 DEF EdgeInv, UpsertNewest
<1> QED
  BY <1>1, <1>4, <1>5, <1>6, <1>7, <1>8 DEF EdgeInv

LEMMA StartRecordStep ==
    ASSUME Serialized, EdgeInv, NEW c \in Caller, NEW n \in Node, StartRecord(c, n)
    PROVE  EdgeInv'
<1>1. TypeOK'
  BY TypeNext DEF EdgeInv, Next
<1>2. /\ UNCHANGED <<wall, oplog, edges, pull>>
      /\ clock' = [clock EXCEPT ![n] = Now(n)]
      /\ \A d \in Caller : d # c => call'[d] = call[d]
      /\ call'[c] # NoCall /\ call'[c].pc = "record" /\ call'[c].node = n
      /\ \A d \in Caller : call[d] # NoCall => call[d].node # n
      /\ pull[n] = NoPull
  BY DEF StartRecord, MayStart, Running, NoCall, EdgeInv, TypeOK
<1>3. \A m \in Node, t \in Stamp \cup {Zero} : Seen(m, t) => Seen(m, t)'
  BY <1>2, StampsTyped, NowIsNew, SeenKept DEF EdgeInv
<1>4. RowsSeen'
  BY <1>2, <1>3, StampsHeld DEF EdgeInv, RowsSeen
<1>5. CallsSeen'
  BY <1>2, <1>3, StampsHeld DEF EdgeInv, CallsSeen
<1>6. OpsDated'
  BY <1>2 DEF EdgeInv, OpsDated, Dated
<1>7. OneAtATime'
  BY <1>2 DEF EdgeInv, OneAtATime
<1>8. UpsertNewest'
  BY <1>2 DEF EdgeInv, UpsertNewest
<1> QED
  BY <1>1, <1>4, <1>5, <1>6, <1>7, <1>8 DEF EdgeInv

LEMMA StartRelateStep ==
    ASSUME Serialized, EdgeInv, NEW c \in Caller, NEW n \in Node, NEW k \in Key,
           StartRelate(c, n, k)
    PROVE  EdgeInv'
<1>1. TypeOK'
  BY TypeNext DEF EdgeInv, Next
<1>2. /\ UNCHANGED <<wall, oplog, edges, pull>>
      /\ clock' = [clock EXCEPT ![n] = Now(n)]
      /\ \A d \in Caller : d # c => call'[d] = call[d]
      /\ call'[c] # NoCall /\ call'[c].pc = "upsert" /\ call'[c].node = n
      /\ call'[c].on = k /\ call'[c].edge = Now(n)
      /\ \A d \in Caller : call[d] # NoCall => call[d].node # n
      /\ pull[n] = NoPull
  BY DEF StartRelate, MayStart, Running, NoCall, EdgeInv, TypeOK
<1>a. Now(n) \in Stamp /\ Before(clock[n], Now(n))
  BY StampsTyped, NowIsNew DEF EdgeInv
<1>3. \A m \in Node, t \in Stamp \cup {Zero} : Seen(m, t) => Seen(m, t)'
  BY <1>2, <1>a, SeenKept DEF EdgeInv
<1>4. RowsSeen'
  BY <1>2, <1>3, StampsHeld DEF EdgeInv, RowsSeen
<1>5. CallsSeen'
  <2>1. clock'[n] = Now(n)
    BY <1>2 DEF EdgeInv, TypeOK
  <2>2. ~Before(Now(n), Now(n))
    BY <1>a, StampIsTriple DEF Before, Triple
  <2>3. ~Before(clock'[n], call'[c].edge)
    BY <1>2, <2>1, <2>2
  <2>4. ASSUME NEW d \in Caller, d # c, call'[d].pc \in {"upsert", "stamp"}
        PROVE  ~Before(clock'[call[d].node], call[d].edge)
                  \/ call[d].edge[1] < wall'[call[d].node]
    <3>1. call[d].pc \in {"upsert", "stamp"}
      BY <1>2, <2>4
    <3>2. call[d].node \in Node /\ call[d].edge \in Stamp /\ Seen(call[d].node, call[d].edge)
      BY <3>1, StampsHeld DEF EdgeInv, CallsSeen
    <3> QED
      BY <1>3, <3>2 DEF Seen
  <2>5. ASSUME NEW d \in Caller, call'[d].pc \in {"upsert", "stamp"}
        PROVE  ~Before(clock'[call'[d].node], call'[d].edge)
                  \/ call'[d].edge[1] < wall'[call'[d].node]
    BY <1>2, <2>3, <2>4, <2>5
  <2> QED
    BY <2>5 DEF CallsSeen, Seen
<1>6. OpsDated'
  BY <1>2 DEF EdgeInv, OpsDated, Dated
<1>7. OneAtATime'
  BY <1>2 DEF EdgeInv, OneAtATime
<1>8. UpsertNewest'
  <2>1. Before(edges[n][k], Now(n))
    BY StampsHeld, StampIsTriple, StampsTyped, NowIsNew DEF EdgeInv, RowsSeen
  <2>2. ~Before(Now(n), edges[n][k])
    BY <2>1, <1>a, StampsHeld, StampIsTriple DEF EdgeInv, Before, Triple
  <2> QED
    BY <1>2, <2>2 DEF EdgeInv, UpsertNewest
<1> QED
  BY <1>1, <1>4, <1>5, <1>6, <1>7, <1>8 DEF EdgeInv

\* A call that ends puts at most one op in the log of its node.
LEMMA CallEnds ==
    ASSUME EdgeInv, TypeOK', NEW c \in Caller, NEW op, Dated(op),
           UNCHANGED <<wall, clock, edges, pull>>,
           call' = [call EXCEPT ![c] = NoCall],
           \A m \in Node : oplog'[m] \subseteq oplog[m] \cup {op}
    PROVE  EdgeInv'
<1>1. \A d \in Caller : call'[d] = NoCall \/ call'[d] = call[d]
  BY DEF EdgeInv, TypeOK
<1>2. RowsSeen'
  BY DEF EdgeInv, RowsSeen, Seen
<1>3. CallsSeen'
  BY <1>1 DEF EdgeInv, CallsSeen, Seen, NoCall
<1>4. OpsDated'
  <2>1. \A m \in Node : \A o \in oplog'[m] : Dated(o)
    BY DEF EdgeInv, OpsDated
  <2>2. \A p \in Node : \A o \in pull'[p].todo : Dated(o)
    BY DEF EdgeInv, OpsDated
  <2>3. \A d \in Caller : call'[d].pc = "log" => ~Before(call'[d].hlc, call'[d].edge)
    BY <1>1 DEF EdgeInv, OpsDated, NoCall
  <2> QED
    BY <2>1, <2>2, <2>3 DEF OpsDated, Dated
<1>5. OneAtATime'
  BY <1>1 DEF EdgeInv, OneAtATime
<1>6. UpsertNewest'
  BY <1>1 DEF EdgeInv, UpsertNewest, NoCall
<1> QED
  BY <1>2, <1>3, <1>4, <1>5, <1>6 DEF EdgeInv

LEMMA CommitRecordStep ==
    ASSUME EdgeInv, NEW c \in Caller, CommitRecord(c) PROVE EdgeInv'
<1> DEFINE d == call[c]
           op == OpOf(d.id, "record", d.id, Zero, d.hlc, d.node)
<1>1. TypeOK'
  BY TypeNext DEF EdgeInv, Next, CallStep
<1>2. d # NoCall /\ d.pc = "record"
  BY DEF CommitRecord, NoCall
<1>3. d.hlc \in Stamp
  BY <1>2, CallFields DEF EdgeInv
<1>4. ~Before(d.hlc, Zero)
  BY <1>3, StampIsTriple, SyncAssumption DEF Before, Zero, Triple
<1>5. Dated(op)
  BY <1>4 DEF OpOf, Dated
<1>6. \A m \in Node : oplog'[m] \subseteq oplog[m] \cup {op}
  BY DEF CommitRecord, EdgeInv, TypeOK
<1> HIDE DEF op
<1> QED
  BY <1>1, <1>5, <1>6, CallEnds DEF CommitRecord

LEMMA LogOpStep ==
    ASSUME EdgeInv, NEW c \in Caller, LogOp(c) PROVE EdgeInv'
<1> DEFINE d == call[c]
           op == OpOf(d.id, "relate", d.on, d.edge, d.hlc, d.node)
<1>1. TypeOK'
  BY TypeNext DEF EdgeInv, Next, CallStep
<1>2. ~Before(d.hlc, d.edge)
  BY DEF LogOp, EdgeInv, OpsDated
<1>3. Dated(op)
  BY <1>2 DEF OpOf, Dated
<1>4. \A m \in Node : oplog'[m] \subseteq oplog[m] \cup {op}
  BY DEF LogOp, EdgeInv, TypeOK
<1> HIDE DEF op
<1> QED
  BY <1>1, <1>3, <1>4, CallEnds DEF LogOp

LEMMA UpsertStep ==
    ASSUME EdgeInv, NEW c \in Caller, Upsert(c) PROVE EdgeInv'
<1> DEFINE n == call[c].node
           k == call[c].on
<1>1. TypeOK'
  BY TypeNext DEF EdgeInv, Next, CallStep
<1>2. call[c] # NoCall /\ call[c].pc = "upsert"
  BY DEF Upsert, NoCall
<1>3. n \in Node /\ k \in Key /\ call[c].edge \in Stamp /\ Seen(n, call[c].edge)
  BY <1>2, CallFields DEF EdgeInv, CallsSeen
<1>4. UNCHANGED <<wall, clock, oplog, pull>>
  BY DEF Upsert
<1>5. /\ edges'[n][k] = call[c].edge
      /\ \A m \in Node, j \in Key : m # n \/ j # k => edges'[m][j] = edges[m][j]
  BY <1>3 DEF Upsert, EdgeInv, TypeOK
<1>6. call'[c] = [call[c] EXCEPT !.pc = "stamp"]
  BY DEF Upsert, EdgeInv, TypeOK
<1>7. call[c] \in [pc : {"upsert", "stamp"}, node : Node, id : Id, on : Key, edge : Stamp]
  BY <1>2 DEF EdgeInv, TypeOK, CallType
<1>8. /\ call'[c] # NoCall /\ call'[c].pc = "stamp" /\ call'[c].node = n
      /\ call'[c].edge = call[c].edge
  BY <1>6, <1>7 DEF NoCall
<1>9. \A d \in Caller : d # c => call'[d] = call[d]
  BY DEF Upsert, EdgeInv, TypeOK
<1> HIDE DEF n, k
<1>10. RowsSeen'
  <2>1. \A m \in Node, j \in Key :
           ~Before(clock[m], edges'[m][j]) \/ edges'[m][j][1] < wall[m]
    BY <1>3, <1>5 DEF EdgeInv, RowsSeen, Seen
  <2> QED
    BY <1>4, <2>1 DEF RowsSeen, Seen
<1>11. CallsSeen'
  <2>1. \A d \in Caller : call'[d].pc \in {"upsert", "stamp"} =>
           ~Before(clock[call'[d].node], call'[d].edge)
              \/ call'[d].edge[1] < wall[call'[d].node]
    BY <1>3, <1>8, <1>9 DEF EdgeInv, CallsSeen, Seen
  <2> QED
    BY <1>4, <2>1 DEF CallsSeen, Seen
<1>12. OpsDated'
  BY <1>4, <1>8, <1>9 DEF EdgeInv, OpsDated, Dated
<1>13. OneAtATime'
  BY <1>2, <1>4, <1>8, <1>9 DEF EdgeInv, OneAtATime, n
<1>14. UpsertNewest'
  <2> SUFFICES ASSUME NEW d \in Caller, call'[d].pc = "upsert"
               PROVE  ~Before(call'[d].edge, edges'[call'[d].node][call'[d].on])
    BY DEF UpsertNewest
  <2>1. d # c /\ call'[d] = call[d]
    BY <1>8, <1>9
  <2>2. call[d] # NoCall /\ call[d].pc = "upsert"
    BY <2>1 DEF NoCall
  <2>3. call[d].node \in Node /\ call[d].on \in Key
    BY <2>2, CallFields DEF EdgeInv
  <2>4. call[d].node # n
    BY <1>2, <2>1, <2>2 DEF EdgeInv, OneAtATime, n
  <2>5. edges'[call[d].node][call[d].on] = edges[call[d].node][call[d].on]
    BY <1>5, <2>3, <2>4
  <2> QED
    BY <2>1, <2>2, <2>5 DEF EdgeInv, UpsertNewest
<1> QED
  BY <1>1, <1>10, <1>11, <1>12, <1>13, <1>14 DEF EdgeInv

LEMMA StampOpStep ==
    ASSUME EdgeInv, NEW c \in Caller, StampOp(c) PROVE EdgeInv'
<1> DEFINE n == call[c].node
<1>1. TypeOK'
  BY TypeNext DEF EdgeInv, Next, CallStep
<1>2. call[c] # NoCall /\ call[c].pc = "stamp"
  BY DEF StampOp, NoCall
<1>3. n \in Node /\ call[c].edge \in Stamp /\ Seen(n, call[c].edge)
  BY <1>2, CallFields DEF EdgeInv, CallsSeen
<1>4. /\ UNCHANGED <<wall, oplog, edges, pull>>
      /\ clock' = [clock EXCEPT ![n] = Now(n)]
      /\ \A d \in Caller : d # c => call'[d] = call[d]
      /\ call'[c] # NoCall /\ call'[c].pc = "log" /\ call'[c].node = n
      /\ call'[c].edge = call[c].edge /\ call'[c].hlc = Now(n)
  BY DEF StampOp, NoCall, EdgeInv, TypeOK
<1> HIDE DEF n
<1>5. Now(n) \in Stamp /\ Before(clock[n], Now(n)) /\ Before(call[c].edge, Now(n))
  BY <1>3, StampsTyped, NowIsNew, StampIsTriple DEF EdgeInv
<1>6. \A m \in Node, t \in Stamp \cup {Zero} : Seen(m, t) => Seen(m, t)'
  BY <1>3, <1>4, <1>5, SeenKept DEF EdgeInv
<1>7. RowsSeen'
  BY <1>4, <1>6, StampsHeld DEF EdgeInv, RowsSeen
<1>8. CallsSeen'
  BY <1>4, <1>6, StampsHeld DEF EdgeInv, CallsSeen
<1>9. OpsDated'
  <2>1. ~Before(Now(n), call[c].edge)
    BY <1>3, <1>5, StampIsTriple DEF Before, Triple
  <2> QED
    BY <1>4, <2>1 DEF EdgeInv, OpsDated, Dated
<1>10. OneAtATime'
  BY <1>2, <1>4 DEF EdgeInv, OneAtATime, n
<1>11. UpsertNewest'
  BY <1>4 DEF EdgeInv, UpsertNewest
<1> QED
  BY <1>1, <1>7, <1>8, <1>9, <1>10, <1>11 DEF EdgeInv

LEMMA ForgetStep ==
    ASSUME EdgeInv, NEW n \in Node, NEW r \in Id, Forget(n, r) PROVE EdgeInv'
<1> DEFINE op == OpOf(minted + 1, "forget", r, Zero, Now(n), n)
<1>1. TypeOK'
  BY TypeNext DEF EdgeInv, Next
<1>2. /\ UNCHANGED <<wall, edges, call, pull>>
      /\ clock' = [clock EXCEPT ![n] = Now(n)]
      /\ \A m \in Node : oplog'[m] \subseteq oplog[m] \cup {op}
  BY DEF Forget, EdgeInv, TypeOK
<1>3. Now(n) \in Stamp /\ Before(clock[n], Now(n))
  BY StampsTyped, NowIsNew DEF EdgeInv
<1>4. ~Before(Now(n), Zero)
  BY <1>3, StampIsTriple, SyncAssumption DEF Before, Zero, Triple
<1>5. Dated(op)
  BY <1>4 DEF OpOf, Dated
<1> HIDE DEF op
<1>6. \A m \in Node, t \in Stamp \cup {Zero} : Seen(m, t) => Seen(m, t)'
  BY <1>2, <1>3, SeenKept DEF EdgeInv
<1>7. RowsSeen'
  BY <1>2, <1>6, StampsHeld DEF EdgeInv, RowsSeen
<1>8. CallsSeen'
  BY <1>2, <1>6, StampsHeld DEF EdgeInv, CallsSeen
<1>9. OpsDated'
  BY <1>2, <1>5 DEF EdgeInv, OpsDated, Dated
<1>10. OneAtATime' /\ UpsertNewest'
  BY <1>2 DEF EdgeInv, OneAtATime, UpsertNewest
<1> QED
  BY <1>1, <1>7, <1>8, <1>9, <1>10 DEF EdgeInv

LEMMA CorrectStep ==
    ASSUME EdgeInv, NEW n \in Node, NEW r \in Id, Correct(n, r) PROVE EdgeInv'
<1>1. TypeOK'
  BY TypeNext DEF EdgeInv, Next
<1>2. PICK num \in Id :
         oplog' = [oplog EXCEPT ![n] = @ \cup {CorrectOf(minted + 1, r, num, Now(n), n)}]
  BY DEF Correct
<1> DEFINE op == CorrectOf(minted + 1, r, num, Now(n), n)
<1>3. /\ UNCHANGED <<wall, edges, call, pull>>
      /\ clock' = [clock EXCEPT ![n] = Now(n)]
  BY DEF Correct
<1>4. \A m \in Node : oplog'[m] \subseteq oplog[m] \cup {op}
  BY <1>2 DEF EdgeInv, TypeOK
<1>5. Now(n) \in Stamp /\ Before(clock[n], Now(n))
  BY StampsTyped, NowIsNew DEF EdgeInv
<1>6. ~Before(Now(n), Zero)
  BY <1>5, StampIsTriple, SyncAssumption DEF Before, Zero, Triple
<1>7. Dated(op)
  BY <1>6 DEF CorrectOf, Dated
<1> HIDE DEF op
<1>8. \A m \in Node, t \in Stamp \cup {Zero} : Seen(m, t) => Seen(m, t)'
  BY <1>3, <1>5, SeenKept DEF EdgeInv
<1>9. RowsSeen'
  BY <1>3, <1>8, StampsHeld DEF EdgeInv, RowsSeen
<1>10. CallsSeen'
  BY <1>3, <1>8, StampsHeld DEF EdgeInv, CallsSeen
<1>11. OpsDated'
  BY <1>3, <1>4, <1>7 DEF EdgeInv, OpsDated, Dated
<1>12. OneAtATime' /\ UpsertNewest'
  BY <1>3 DEF EdgeInv, OneAtATime, UpsertNewest
<1> QED
  BY <1>1, <1>9, <1>10, <1>11, <1>12 DEF EdgeInv

\* A pull starts on an idle node, and moves on over dated ops.
LEMMA PullMoves ==
    ASSUME EdgeInv, TypeOK', NEW p \in Node, NEW q,
           UNCHANGED <<wall, clock, edges, call>>,
           pull' = [pull EXCEPT ![p] = q],
           \A op \in q.todo : Dated(op),
           \A m \in Node : \A op \in oplog'[m] : Dated(op),
           \A c \in Caller : call[c] # NoCall => call[c].node # p
    PROVE  EdgeInv'
<1>1. pull'[p] = q /\ \A m \in Node : m # p => pull'[m] = pull[m]
  BY DEF EdgeInv, TypeOK
<1>2. RowsSeen' /\ CallsSeen'
  BY DEF EdgeInv, RowsSeen, CallsSeen, Seen
<1>3. OpsDated'
  BY <1>1 DEF EdgeInv, OpsDated, Dated
<1>4. OneAtATime'
  <2>1. ASSUME NEW c \in Caller, call[c] # NoCall PROVE pull'[call[c].node] = NoPull
    BY <1>1, <2>1, CallFields DEF EdgeInv, OneAtATime
  <2> QED
    BY <2>1 DEF EdgeInv, OneAtATime
<1>5. UpsertNewest'
  BY DEF EdgeInv, UpsertNewest
<1> QED
  BY <1>2, <1>3, <1>4, <1>5 DEF EdgeInv

\* While a node pulls, no call runs on it.
LEMMA PullingAlone ==
    ASSUME EdgeInv, NEW p \in Node, pull[p] # NoPull
    PROVE  \A c \in Caller : call[c] # NoCall => call[c].node # p
  BY DEF EdgeInv, OneAtATime

LEMMA StartPullStep ==
    ASSUME Serialized, EdgeInv, NEW p \in Node, NEW s \in Node, StartPull(p, s)
    PROVE  EdgeInv'
<1> DEFINE q == [pc |-> "apply", from |-> s, todo |-> Extracted(p, s), last |-> mark[p][s]]
<1>1. TypeOK'
  BY TypeNext DEF EdgeInv, Next
<1>2. \A c \in Caller : call[c] # NoCall => call[c].node # p
  BY DEF StartPull, MayStart, Running
<1>3. \A op \in q.todo : Dated(op)
  BY DEF Extracted, Wanted, EdgeInv, OpsDated
<1>4. \A m \in Node : \A op \in oplog'[m] : Dated(op)
  BY DEF StartPull, EdgeInv, OpsDated
<1>5. UNCHANGED <<wall, clock, edges, call>> /\ pull' = [pull EXCEPT ![p] = q]
  BY DEF StartPull
<1> HIDE DEF q
<1> QED
  BY <1>1, <1>2, <1>3, <1>4, <1>5, PullMoves

LEMMA SkipKnownStep ==
    ASSUME EdgeInv, NEW p \in Node, NEW op \in pull[p].todo, SkipKnown(p, op)
    PROVE  EdgeInv'
<1>1. TypeOK'
  BY TypeNext DEF EdgeInv, Next, PullStep
<1>2. \A c \in Caller : call[c] # NoCall => call[c].node # p
  BY HandledTyped, PullingAlone DEF EdgeInv
<1>3. \A o \in Handled(p, op).todo : Dated(o)
  BY DEF Handled, EdgeInv, OpsDated
<1>4. \A m \in Node : \A o \in oplog'[m] : Dated(o)
  BY DEF SkipKnown, EdgeInv, OpsDated
<1>5. UNCHANGED <<wall, clock, edges, call>> /\ pull' = [pull EXCEPT ![p] = Handled(p, op)]
  BY DEF SkipKnown
<1> QED
  BY <1>1, <1>2, <1>3, <1>4, <1>5, PullMoves

LEMMA LogAppliedStep ==
    ASSUME EdgeInv, NEW p \in Node, NEW op \in pull[p].todo, LogApplied(p, op)
    PROVE  EdgeInv'
<1>1. TypeOK'
  BY TypeNext DEF EdgeInv, Next, PullStep
<1>2. \A c \in Caller : call[c] # NoCall => call[c].node # p
  BY HandledTyped, PullingAlone DEF EdgeInv
<1>3. \A o \in Handled(p, op).todo : Dated(o)
  BY DEF Handled, EdgeInv, OpsDated
<1>4. \A m \in Node : \A o \in oplog'[m] : Dated(o)
  <2>1. \A m \in Node : oplog'[m] \subseteq oplog[m] \cup {op}
    BY DEF LogApplied, EdgeInv, TypeOK
  <2>2. Dated(op)
    BY DEF EdgeInv, OpsDated
  <2> QED
    BY <2>1, <2>2 DEF EdgeInv, OpsDated
<1>5. UNCHANGED <<wall, clock, edges, call>> /\ pull' = [pull EXCEPT ![p] = Handled(p, op)]
  BY DEF LogApplied
<1> QED
  BY <1>1, <1>2, <1>3, <1>4, <1>5, PullMoves

LEMMA AcknowledgeStep ==
    ASSUME EdgeInv, NEW p \in Node, Acknowledge(p) PROVE EdgeInv'
<1>1. TypeOK'
  BY TypeNext DEF EdgeInv, Next, PullStep
<1>2. pull[p] # NoPull
  BY DEF Acknowledge, NoPull
<1>3. \A c \in Caller : call[c] # NoCall => call[c].node # p
  BY <1>2, PullingAlone
<1>4. \A m \in Node : \A o \in oplog'[m] : Dated(o)
  BY DEF Acknowledge, EdgeInv, OpsDated
<1>5. UNCHANGED <<wall, clock, edges, call>> /\ pull' = [pull EXCEPT ![p] = NoPull]
  BY DEF Acknowledge
<1>6. \A o \in NoPull.todo : Dated(o)
  BY DEF NoPull
<1> QED
  BY <1>1, <1>3, <1>4, <1>5, <1>6, PullMoves

\* Applying an op replaces at most one edge row, by a newer write.
LEMMA RowMaterialized ==
    ASSUME TypeOK, NEW p \in Node, NEW op \in pull[p].todo, Materialize(p, op)
    PROVE  \A m \in Node, k \in Key :
              \/ edges'[m][k] = edges[m][k]
              \/ m = p /\ Before(edges[m][k], op.edge) /\ edges'[m][k] = op.edge
<1> SUFFICES ASSUME NEW m \in Node, NEW k \in Key
             PROVE  \/ edges'[m][k] = edges[m][k]
                    \/ m = p /\ Before(edges[m][k], op.edge) /\ edges'[m][k] = op.edge
  OBVIOUS
<1>1. op \in Op
  BY HandledTyped
<1>2. CASE op.kind # "relate"
  BY <1>2 DEF Materialize
<1>3. CASE op.kind = "relate"
  <2>1. edges' = [edges EXCEPT ![p][op.on] = Related(@, op)]
    BY <1>3 DEF Materialize
  <2>2. op.on \in Key
    BY <1>1, <1>3, OpFields
  <2>3. CASE m = p /\ k = op.on
    <3>1. edges'[m][k] = Related(edges[m][k], op)
      BY <2>1, <2>2, <2>3 DEF TypeOK
    <3> QED
      BY <3>1, <2>3 DEF Related, Newer
  <2>4. CASE m # p \/ k # op.on
    BY <2>1, <2>2, <2>4 DEF TypeOK
  <2> QED
    BY <2>3, <2>4
<1> QED
  BY <1>2, <1>3

LEMMA MaterializeStep ==
    ASSUME EdgeInv, NEW p \in Node, NEW op \in pull[p].todo, Materialize(p, op)
    PROVE  EdgeInv'
<1>1. TypeOK'
  BY TypeNext DEF EdgeInv, Next, PullStep
<1>2. op \in Op /\ pull[p] # NoPull
  BY HandledTyped DEF EdgeInv
<1>3. \A c \in Caller : call[c] # NoCall => call[c].node # p
  BY <1>2, PullingAlone
<1>4. op.hlc \in Stamp /\ op.edge \in Stamp \cup {Zero} /\ ~Before(op.hlc, op.edge)
  BY <1>2, OpFields DEF EdgeInv, OpsDated, Dated
<1> DEFINE x == Recv(p, op.hlc)
<1>5. x \in Stamp /\ Before(clock[p], x) /\ Before(op.hlc, x)
  BY <1>4, StampsTyped, StampIsTriple, RecvIsNew DEF EdgeInv
<1>6. /\ UNCHANGED <<wall, oplog, call>>
      /\ clock' = [clock EXCEPT ![p] = x]
  BY DEF Materialize
<1>7. clock'[p] = x
  BY <1>6 DEF EdgeInv, TypeOK
<1>8. /\ \A m \in Node : m # p => pull'[m] = pull[m]
      /\ pull'[p].todo = pull[p].todo
  BY <1>2, PullFields DEF Materialize, EdgeInv, TypeOK
<1>9. \A m \in Node, k \in Key :
         \/ edges'[m][k] = edges[m][k]
         \/ m = p /\ edges'[m][k] = op.edge
  BY RowMaterialized DEF EdgeInv
<1>10. \A m \in Node, k \in Key : m # p => edges'[m][k] = edges[m][k]
  BY RowMaterialized DEF EdgeInv
<1> HIDE DEF x
<1>11. \A m \in Node, t \in Stamp \cup {Zero} : Seen(m, t) => Seen(m, t)'
  BY <1>5, <1>6, SeenKept DEF EdgeInv
<1>12. ~Before(x, op.edge)
  BY <1>4, <1>5, StampIsTriple DEF Before, Triple
<1>13. RowsSeen'
  <2>1. ASSUME NEW m \in Node, NEW k \in Key
        PROVE  ~Before(clock'[m], edges'[m][k]) \/ edges'[m][k][1] < wall'[m]
    <3>1. CASE edges'[m][k] = edges[m][k]
      BY <3>1, <1>11, StampsHeld DEF EdgeInv, RowsSeen, Seen
    <3>2. CASE m = p /\ edges'[m][k] = op.edge
      BY <3>2, <1>7, <1>12
    <3> QED
      BY <3>1, <3>2, <1>9
  <2> QED
    BY <2>1 DEF RowsSeen, Seen
<1>14. CallsSeen'
  BY <1>6, <1>11, StampsHeld DEF EdgeInv, CallsSeen
<1>15. OpsDated'
  BY <1>6, <1>8 DEF EdgeInv, OpsDated, Dated
<1>16. OneAtATime'
  <2>1. ASSUME NEW c \in Caller, call[c] # NoCall PROVE pull'[call[c].node] = NoPull
    BY <2>1, <1>3, <1>8, CallFields DEF EdgeInv, OneAtATime
  <2> QED
    BY <2>1, <1>6 DEF EdgeInv, OneAtATime
<1>17. UpsertNewest'
  <2>1. ASSUME NEW c \in Caller, call[c].pc = "upsert"
        PROVE  ~Before(call[c].edge, edges'[call[c].node][call[c].on])
    <3>1. call[c] # NoCall
      BY <2>1 DEF NoCall
    <3>2. call[c].node \in Node /\ call[c].on \in Key /\ call[c].node # p
      BY <2>1, <3>1, <1>3, CallFields DEF EdgeInv
    <3> QED
      BY <2>1, <3>2, <1>10 DEF EdgeInv, UpsertNewest
  <2> QED
    BY <2>1, <1>6 DEF UpsertNewest
<1> QED
  BY <1>1, <1>13, <1>14, <1>15, <1>16, <1>17 DEF EdgeInv

\* A refused correction leaves its timestamp in the clock and ends the pull.
LEMMA DeferredStep ==
    ASSUME EdgeInv, NEW p \in Node, NEW op \in pull[p].todo, Deferred(p, op)
    PROVE  EdgeInv'
<1>1. TypeOK'
  BY TypeNext DEF EdgeInv, Next
<1>2. op \in Op
  BY HandledTyped DEF EdgeInv
<1>3. Recv(p, op.hlc) \in Stamp /\ Before(clock[p], Recv(p, op.hlc))
  BY <1>2, OpFields, StampsTyped, StampIsTriple, RecvIsNew DEF EdgeInv
<1>4. /\ UNCHANGED <<wall, oplog, edges, call>>
      /\ clock' = [clock EXCEPT ![p] = Recv(p, op.hlc)]
      /\ \A m \in Node : m # p => pull'[m] = pull[m]
      /\ pull'[p] = NoPull
  BY DEF Deferred, EdgeInv, TypeOK
<1>5. \A m \in Node, t \in Stamp \cup {Zero} : Seen(m, t) => Seen(m, t)'
  BY <1>3, <1>4, SeenKept DEF EdgeInv
<1>6. RowsSeen'
  BY <1>4, <1>5, StampsHeld DEF EdgeInv, RowsSeen
<1>7. CallsSeen'
  BY <1>4, <1>5, StampsHeld DEF EdgeInv, CallsSeen
<1>8. OpsDated'
  BY <1>4 DEF EdgeInv, OpsDated, Dated, NoPull
<1>9. OneAtATime'
  <2> SUFFICES ASSUME NEW c \in Caller, call[c] # NoCall
               PROVE  pull'[call[c].node] = NoPull
    BY <1>4 DEF EdgeInv, OneAtATime
  <2>1. call[c].node \in Node /\ pull[call[c].node] = NoPull
    BY CallFields DEF EdgeInv, OneAtATime
  <2> QED
    BY <1>4, <2>1
<1>10. UpsertNewest'
  BY <1>4 DEF EdgeInv, UpsertNewest
<1> QED
  BY <1>1, <1>6, <1>7, <1>8, <1>9, <1>10 DEF EdgeInv

LEMMA EdgeInvNext ==
    ASSUME Serialized, SlowRestart, EdgeInv, [Next]_vars PROVE EdgeInv'
<1>1. CASE UNCHANGED vars
  BY <1>1 DEF vars, EdgeInv, TypeOK, OpsDated, Dated, RowsSeen, CallsSeen, Seen,
              OneAtATime, UpsertNewest
<1>2. CASE \E n \in Node : Tick(n) \/ Restart(n)
  BY <1>2, TickStep, RestartStep
<1>3. CASE \E c \in Caller, n \in Node : StartRecord(c, n)
  BY <1>3, StartRecordStep
<1>4. CASE \E c \in Caller, n \in Node, k \in Key : StartRelate(c, n, k)
  BY <1>4, StartRelateStep
<1>5. CASE \E c \in Caller : CallStep(c)
  BY <1>5, CommitRecordStep, UpsertStep, StampOpStep, LogOpStep DEF CallStep
<1>6. CASE \E n \in Node, r \in Id : Forget(n, r) \/ Correct(n, r)
  BY <1>6, ForgetStep, CorrectStep
<1>7. CASE \E p, s \in Node : StartPull(p, s)
  BY <1>7, StartPullStep
<1>8. CASE \E p \in Node : PullStep(p)
  BY <1>8, SkipKnownStep, MaterializeStep, LogAppliedStep, AcknowledgeStep DEF PullStep
<1>9. CASE \E p \in Node : \E op \in pull[p].todo : Deferred(p, op)
  BY <1>9, DeferredStep
<1> QED
  BY <1>1, <1>2, <1>3, <1>4, <1>5, <1>6, <1>7, <1>8, <1>9 DEF Next

\* The two steps that write an edge row write a newer stamp, and no other does.
LEMMA EdgeStep ==
    ASSUME EdgeInv, [Next]_vars
    PROVE  \A n \in Node, k \in Key : ~Before(edges'[n][k], edges[n][k])
<1> SUFFICES ASSUME NEW n \in Node, NEW k \in Key
             PROVE  ~Before(edges'[n][k], edges[n][k])
  OBVIOUS
<1>1. Triple(edges[n][k])
  BY StampIsTriple, StampsHeld DEF EdgeInv
<1>2. CASE edges'[n][k] = edges[n][k]
  BY <1>1, <1>2 DEF Before, Triple
<1>3. ASSUME NEW c \in Caller, Upsert(c) PROVE ~Before(edges'[n][k], edges[n][k])
  <2>1. call[c] # NoCall /\ call[c].pc = "upsert"
    BY <1>3 DEF Upsert, NoCall
  <2>2. \/ edges'[n][k] = edges[n][k]
        \/ call[c].node = n /\ call[c].on = k /\ edges'[n][k] = call[c].edge
    <3>1. call[c].node \in Node /\ call[c].on \in Key
      BY <2>1, CallFields DEF EdgeInv
    <3>2. edges' = [edges EXCEPT ![call[c].node][call[c].on] = call[c].edge]
      BY <1>3 DEF Upsert
    <3>3. CASE call[c].node = n /\ call[c].on = k
      BY <3>1, <3>2, <3>3 DEF EdgeInv, TypeOK
    <3>4. CASE call[c].node # n
      BY <3>1, <3>2, <3>4 DEF EdgeInv, TypeOK
    <3>5. CASE call[c].node = n /\ call[c].on # k
      BY <3>1, <3>2, <3>5 DEF EdgeInv, TypeOK
    <3> QED
      BY <3>3, <3>4, <3>5
  <2>3. ~Before(call[c].edge, edges[call[c].node][call[c].on])
    BY <2>1 DEF EdgeInv, UpsertNewest
  <2> QED
    BY <1>2, <2>2, <2>3
<1>4. ASSUME NEW p \in Node, NEW op \in pull[p].todo, Materialize(p, op)
      PROVE  ~Before(edges'[n][k], edges[n][k])
  <2>1. op.edge \in Stamp \cup {Zero}
    BY HandledTyped, OpFields DEF EdgeInv
  <2>2. \/ edges'[n][k] = edges[n][k]
        \/ Before(edges[n][k], op.edge) /\ edges'[n][k] = op.edge
    BY <1>4, RowMaterialized DEF EdgeInv
  <2> QED
    BY <1>1, <1>2, <2>1, <2>2, StampIsTriple, BeforeOrder
<1>5. UNCHANGED edges
         \/ (\E c \in Caller : Upsert(c))
         \/ (\E p \in Node : \E op \in pull[p].todo : Materialize(p, op))
  <2>1. CASE UNCHANGED vars
    BY <2>1 DEF vars
  <2>2. CASE Next
    BY <2>2 DEF Next, Tick, Restart, StartRecord, StartRelate, CallStep, CommitRecord,
                StampOp, LogOp, Forget, Correct, StartPull, PullStep, SkipKnown, LogApplied,
                Acknowledge, Deferred
  <2> QED
    BY <2>1, <2>2
<1> QED
  BY <1>2, <1>3, <1>4, <1>5

\* When a node runs one call or pull at a time and a restart outlasts the lead
\* of its clock, no edge row is ever replaced by an older write: the
\* unconditional upsert of relate is as good as the guarded one of
\* materialize_relate.
THEOREM SerialEdgesMoveForward ==
    ASSUME Serialized, SlowRestart PROVE Spec => EdgesMoveForward
<1>1. Init => EdgeInv
  BY EdgeInvInit
<1>2. EdgeInv /\ [Next]_vars => EdgeInv'
  BY EdgeInvNext
<1>3. EdgeInv /\ [Next]_vars
        => [\A n \in Node, k \in Key : ~Before(edges'[n][k], edges[n][k])]_vars
  BY EdgeStep
<1> QED
  BY <1>1, <1>2, <1>3, PTL DEF Spec, EdgesMoveForward

-----------------------------------------------------------------------------
(***************************************************************************)
(* What a cursor stands for.  The timestamp of a forget or a correction is  *)
(* taken inside the transaction that logs it, so the op is newer than all   *)
(* its node has.  A record or a relate takes its timestamp first, and other *)
(* ops may be logged before it is: its op is sure to be the newest only if  *)
(* the node does one thing at a time.  A cursor is the position of an op of *)
(* the source's log (or the start), so an op that enters as the newest is   *)
(* past it; and a pull works through a prefix of what it has not got.  An   *)
(* op the source merely relays may enter behind a cursor: with two nodes    *)
(* the puller made that op itself.                                          *)
(***************************************************************************)

InOneTransaction(op) == op.kind \in {"forget", "correct"}

\* An op that entered the log of the node that made it as the newest there.
Placed(n, op) == op.origin = n /\ (Serialized \/ InOneTransaction(op))

Numbered ==
    /\ \A n \in Node : IsFiniteSet(oplog[n])
    /\ \A n \in Node : \A a \in oplog[n] : a.id <= minted
    /\ \A n, m \in Node : \A a \in oplog[n], b \in oplog[m] : a.id = b.id => a = b
    /\ \A c \in Caller : call[c] # NoCall =>
          call[c].id <= minted /\ \A n \in Node : \A a \in oplog[n] : a.id # call[c].id
    /\ \A c, d \in Caller :
          call[c] # NoCall /\ call[d] # NoCall /\ call[c].id = call[d].id => c = d

LogSeen == \A n \in Node : \A a \in oplog[n] : Seen(n, a.hlc)

Newest(n, t) == \A a \in oplog[n] : Before(a.hlc, t)

CallsNewest ==
    \A c \in Caller : call[c].pc \in {"record", "log"} =>
        /\ Seen(call[c].node, call[c].hlc)
        /\ Serialized => Newest(call[c].node, call[c].hlc)

ReceivedSeen ==
    \A p \in Node : pull[p].pc = "log" =>
        \A op \in pull[p].todo : IsFirst(op, pull[p].todo) => Seen(p, op.hlc)

\* Cursor m is a position in the log of s.
Known(s, m) == m = NoMark \/ \E a \in oplog[s] : m = Cursor(a)

\* p has every op s placed up to cursor m.
Covered(p, s, m) == \A a \in oplog[s] : Placed(s, a) /\ ~Past(a, m) => a \in oplog[p]

\* todo are ops p wants past the cursor, with none that s placed left out
\* before its last.
Prefix(p, s, todo, m) ==
    /\ todo \subseteq oplog[s]
    /\ \A t \in todo : t.origin # p /\ Past(t, m)
    /\ \A t \in todo, a \in oplog[s] :
          Placed(s, a) /\ Past(a, m) /\ ~Past(a, Cursor(t)) => a \in todo

PullSound(p, q) ==
    q # NoPull =>
        /\ q.from # p
        /\ Prefix(p, q.from, q.todo, q.last)
        /\ Known(q.from, q.last) /\ Covered(p, q.from, q.last)

PullsSound == \A p \in Node : \A q \in {pull[p]} : PullSound(p, q)

MarksSound ==
    \A p, s \in Node : p # s => Known(s, mark[p][s]) /\ Covered(p, s, mark[p][s])

LogInv ==
    /\ TypeOK /\ (Serialized => EdgeInv)
    /\ Numbered /\ LogSeen /\ CallsNewest /\ ReceivedSeen /\ PullsSound /\ MarksSound

LEMMA LogInvInit == Init => LogInv
<1> SUFFICES ASSUME Init PROVE LogInv
  OBVIOUS
<1>1. TypeOK /\ EdgeInv
  BY TypeInit, EdgeInvInit
<1>2. Numbered
  BY FS_EmptySet DEF Init, Numbered
<1>3. LogSeen /\ CallsNewest /\ ReceivedSeen
  BY DEF Init, LogSeen, CallsNewest, ReceivedSeen, NoCall, NoPull
<1>4. PullsSound
  BY DEF Init, PullsSound, PullSound
<1>5. MarksSound
  BY DEF Init, MarksSound, Known, Covered
<1> QED
  BY <1>1, <1>2, <1>3, <1>4, <1>5 DEF LogInv

\* What a node has seen it has still seen after any step.
LEMMA SeenStep ==
    ASSUME SlowRestart, TypeOK, [Next]_vars
    PROVE  \A m \in Node, t \in Stamp \cup {Zero} : Seen(m, t) => Seen(m, t)'
<1>1. TypeOK
  OBVIOUS
<1>2. CASE UNCHANGED <<wall, clock>>
  BY <1>2 DEF Seen
<1>3. ASSUME NEW n \in Node, NEW x \in Stamp, Before(clock[n], x),
             clock' = [clock EXCEPT ![n] = x], wall' = wall
      PROVE  \A m \in Node, t \in Stamp \cup {Zero} : Seen(m, t) => Seen(m, t)'
  BY <1>1, <1>3, SeenKept
<1>4. ASSUME NEW n \in Node, clock' = [clock EXCEPT ![n] = Now(n)], wall' = wall
      PROVE  \A m \in Node, t \in Stamp \cup {Zero} : Seen(m, t) => Seen(m, t)'
  <2>1. Now(n) \in Stamp /\ Before(clock[n], Now(n))
    BY <1>1, StampsTyped, NowIsNew
  <2> QED
    BY <1>3, <1>4, <2>1
<1>5. ASSUME NEW n \in Node, Tick(n)
      PROVE  \A m \in Node, t \in Stamp \cup {Zero} : Seen(m, t) => Seen(m, t)'
  <2> SUFFICES ASSUME NEW m \in Node, NEW t \in Stamp \cup {Zero}, Seen(m, t)
               PROVE  Seen(m, t)'
    OBVIOUS
  <2>1. clock' = clock /\ wall[m] \in Nat /\ wall'[m] \in Nat /\ wall'[m] >= wall[m]
    BY <1>1, <1>5, SyncAssumption DEF Tick, TypeOK
  <2>2. t[1] \in Nat
    BY StampIsTriple DEF Triple
  <2> QED
    BY <2>1, <2>2 DEF Seen
<1>6. ASSUME NEW n \in Node, Restart(n)
      PROVE  \A m \in Node, t \in Stamp \cup {Zero} : Seen(m, t) => Seen(m, t)'
  <2> SUFFICES ASSUME NEW m \in Node, NEW t \in Stamp \cup {Zero}, Seen(m, t)
               PROVE  Seen(m, t)'
    OBVIOUS
  <2>1. /\ wall' = wall /\ clock[n][1] < wall[n]
        /\ m # n => clock'[m] = clock[m]
    BY <1>1, <1>6 DEF Restart, TypeOK
  <2>2. Triple(t) /\ Triple(clock[n]) /\ wall[n] \in Nat
    BY <1>1, StampIsTriple, StampsTyped
  <2>3. CASE m = n
    <3>1. t[1] < wall[n]
      BY <2>1, <2>2, <2>3 DEF Seen, Before, Triple
    <3> QED
      BY <2>1, <2>3, <3>1 DEF Seen
  <2>4. CASE m # n
    BY <2>1, <2>4 DEF Seen
  <2> QED
    BY <2>3, <2>4
<1>7. ASSUME NEW c \in Caller, StampOp(c)
      PROVE  \A m \in Node, t \in Stamp \cup {Zero} : Seen(m, t) => Seen(m, t)'
  <2>1. call[c].node \in Node
    BY <1>1, <1>7, CallFields DEF StampOp, NoCall
  <2> QED
    BY <1>4, <1>7, <2>1 DEF StampOp
<1>8. ASSUME NEW p \in Node, NEW op \in pull[p].todo, Materialize(p, op)
      PROVE  \A m \in Node, t \in Stamp \cup {Zero} : Seen(m, t) => Seen(m, t)'
  <2>1. op.hlc \in Stamp
    BY <1>1, HandledTyped, OpFields
  <2>2. Recv(p, op.hlc) \in Stamp /\ Before(clock[p], Recv(p, op.hlc))
    BY <1>1, <2>1, StampIsTriple, StampsTyped, RecvIsNew
  <2> QED
    BY <1>3, <1>8, <2>2 DEF Materialize
<1>13. ASSUME NEW p \in Node, NEW op \in pull[p].todo, Deferred(p, op)
       PROVE  \A m \in Node, t \in Stamp \cup {Zero} : Seen(m, t) => Seen(m, t)'
  <2>1. op.hlc \in Stamp
    BY <1>1, HandledTyped, OpFields
  <2>2. Recv(p, op.hlc) \in Stamp /\ Before(clock[p], Recv(p, op.hlc))
    BY <1>1, <2>1, StampIsTriple, StampsTyped, RecvIsNew
  <2> QED
    BY <1>3, <1>13, <2>2 DEF Deferred
<1>9. ASSUME NEW n \in Node,
             \/ \E c \in Caller : StartRecord(c, n)
             \/ \E c \in Caller, k \in Key : StartRelate(c, n, k)
             \/ \E r \in Id : Forget(n, r) \/ Correct(n, r)
      PROVE  \A m \in Node, t \in Stamp \cup {Zero} : Seen(m, t) => Seen(m, t)'
  BY <1>4, <1>9 DEF StartRecord, StartRelate, Forget, Correct
<1>10. ASSUME NEW c \in Caller, CommitRecord(c) \/ Upsert(c) \/ LogOp(c)
       PROVE  \A m \in Node, t \in Stamp \cup {Zero} : Seen(m, t) => Seen(m, t)'
  BY <1>2, <1>10 DEF CommitRecord, Upsert, LogOp
<1>11. ASSUME NEW p \in Node,
              \/ \E s \in Node : StartPull(p, s)
              \/ \E op \in pull[p].todo : SkipKnown(p, op) \/ LogApplied(p, op)
              \/ Acknowledge(p)
       PROVE  \A m \in Node, t \in Stamp \cup {Zero} : Seen(m, t) => Seen(m, t)'
  BY <1>2, <1>11 DEF StartPull, SkipKnown, LogApplied, Acknowledge
<1>12. CASE UNCHANGED vars
  BY <1>2, <1>12 DEF vars
<1> QED
  BY <1>5, <1>6, <1>7, <1>8, <1>9, <1>10, <1>11, <1>12, <1>13 DEF Next, CallStep, PullStep

-----------------------------------------------------------------------------
(* The order of the log *)

\* Two stamps are the same or one is before the other.
LEMMA BeforeTotal ==
    ASSUME NEW s \in Stamp \cup {Zero}, NEW t \in Stamp \cup {Zero},
           ~Before(s, t), ~Before(t, s)
    PROVE  s = t
<1>1. Triple(s) /\ Triple(t)
  BY StampIsTriple
<1>2. s = <<s[1], s[2], s[3]>> /\ t = <<t[1], t[2], t[3]>>
  BY DEF Stamp, Zero
<1>3. s[1] = t[1] /\ s[2] = t[2] /\ s[3] = t[3]
  BY <1>1 DEF Before, Triple
<1> QED
  BY <1>2, <1>3

LEMMA CursorParts ==
    /\ \A a \in Op : Cursor(a)[1] = a.hlc /\ Cursor(a)[2] = a.id /\ a.id \in Nat
                     /\ a.hlc \in Stamp
    /\ \A m \in MarkType : m[1] \in Stamp \cup {Zero} /\ m[2] \in Nat
<1>1. Id \subseteq Nat
  BY SyncAssumption DEF Id
<1>2. ASSUME NEW a \in Op
      PROVE  /\ Cursor(a)[1] = a.hlc /\ Cursor(a)[2] = a.id
             /\ a.id \in Nat /\ a.hlc \in Stamp
  BY <1>1, OpFields DEF Cursor
<1>3. ASSUME NEW m \in MarkType PROVE m[1] \in Stamp \cup {Zero} /\ m[2] \in Nat
  <2>1. m[1] \in Stamp \cup {Zero} /\ m[2] \in Id \cup {0}
    BY DEF MarkType
  <2>2. \A x \in Id \cup {0} : x \in Nat
    BY <1>1
  <2> QED
    BY <2>1, <2>2
<1> QED
  BY <1>2, <1>3

\* No op is past itself; of two ops with different ids one is past the other.
LEMMA PastTotal ==
    ASSUME NEW a \in Op, NEW b \in Op
    PROVE  /\ ~Past(a, Cursor(a))
           /\ ~Past(a, Cursor(b)) /\ ~Past(b, Cursor(a)) => a.id = b.id
           /\ Before(a.hlc, b.hlc) => Past(b, Cursor(a))
<1>1. ~Before(a.hlc, a.hlc)
  BY CursorParts, StampIsTriple DEF Before, Triple
<1>2. ~Past(a, Cursor(a))
  BY <1>1, CursorParts DEF Past
<1>3. ASSUME ~Past(a, Cursor(b)), ~Past(b, Cursor(a)) PROVE a.id = b.id
  <2>1. ~Before(b.hlc, a.hlc) /\ ~Before(a.hlc, b.hlc)
    BY <1>3, CursorParts DEF Past
  <2>2. a.hlc = b.hlc
    BY <2>1, CursorParts, BeforeTotal
  <2> QED
    BY <1>3, <2>2, CursorParts DEF Past
<1>4. Before(a.hlc, b.hlc) => Past(b, Cursor(a))
  BY CursorParts DEF Past
<1> QED
  BY <1>2, <1>3, <1>4

\* What is not before b and past a cursor is past it with b too.
LEMMA PastTransitive ==
    ASSUME NEW a \in Op, NEW b \in Op, NEW m \in MarkType, Past(a, m), ~Past(a, Cursor(b))
    PROVE  Past(b, m)
<1>1. /\ a.hlc \in Stamp /\ b.hlc \in Stamp /\ m[1] \in Stamp \cup {Zero}
      /\ a.id \in Nat /\ b.id \in Nat /\ m[2] \in Nat
  BY CursorParts
<1>2. ~Before(b.hlc, a.hlc) /\ (b.hlc = a.hlc => ~(b.id < a.id))
  BY CursorParts DEF Past
<1>3. CASE Before(m[1], a.hlc)
  <2>1. CASE Before(a.hlc, b.hlc)
    <3>1. Before(m[1], b.hlc)
      BY <1>1, <1>3, <2>1, BeforeOrder, StampIsTriple
    <3> QED
      BY <3>1 DEF Past
  <2>2. CASE ~Before(a.hlc, b.hlc)
    <3>1. a.hlc = b.hlc
      BY <1>1, <1>2, <2>2, BeforeTotal
    <3> QED
      BY <1>3, <3>1 DEF Past
  <2> QED
    BY <2>1, <2>2
<1>4. CASE m[1] = a.hlc /\ m[2] < a.id
  <2>1. CASE Before(a.hlc, b.hlc)
    BY <1>4, <2>1 DEF Past
  <2>2. CASE ~Before(a.hlc, b.hlc)
    <3>1. a.hlc = b.hlc
      BY <1>1, <1>2, <2>2, BeforeTotal
    <3>2. m[2] < b.id
      BY <1>1, <1>2, <1>4, <3>1
    <3> QED
      BY <1>4, <3>1, <3>2 DEF Past
  <2> QED
    BY <2>1, <2>2
<1> QED
  BY <1>3, <1>4 DEF Past

LEMMA PastAsymmetric ==
    ASSUME NEW a \in Op, NEW b \in Op, Past(a, Cursor(b))
    PROVE  ~Past(b, Cursor(a))
<1>1. a.hlc \in Stamp /\ b.hlc \in Stamp /\ a.id \in Nat /\ b.id \in Nat
  BY CursorParts
<1>2. ~(Before(a.hlc, b.hlc) /\ Before(b.hlc, a.hlc)) /\ ~Before(a.hlc, a.hlc)
  BY <1>1, StampIsTriple, BeforeOrder
<1>3. Before(b.hlc, a.hlc) \/ (b.hlc = a.hlc /\ b.id < a.id)
  BY CursorParts DEF Past
<1>4. ~Before(a.hlc, b.hlc)
  BY <1>2, <1>3
<1>5. ~(a.hlc = b.hlc /\ a.id < b.id)
  BY <1>1, <1>2, <1>3
<1> QED
  BY <1>4, <1>5, CursorParts DEF Past

\* An op enters the log of n: one n places there is newer than all that n has.
Entering(n, op) ==
    /\ op \in Op
    /\ oplog' = [oplog EXCEPT ![n] = @ \cup {op}]
    /\ Placed(n, op) => Newest(n, op.hlc)

LEMMA FreshPastCursor ==
    ASSUME TypeOK, NEW s \in Node, NEW op \in Op, Newest(s, op.hlc),
           NEW m, Known(s, m)
    PROVE  Past(op, m)
<1>1. CASE m = NoMark
  <2>1. Before(Zero, op.hlc)
    <3>1. op.hlc \in Nat \X Nat \X Node
      BY CursorParts DEF Stamp
    <3>2. op.hlc[1] \in Nat /\ op.hlc[2] \in Nat /\ op.hlc[3] \in Node
      BY <3>1
    <3>3. op.hlc[3] \in Nat /\ op.hlc[3] > 0
      <4>1. \A x \in Node : x \in Nat /\ x > 0
        BY SyncAssumption
      <4> QED
        BY <3>2, <4>1
    <3>4. Zero[1] = 0 /\ Zero[2] = 0 /\ Zero[3] = 0
      BY DEF Zero
    <3> QED
      BY <3>2, <3>3, <3>4 DEF Before
  <2> QED
    BY <1>1, <2>1 DEF NoMark, Past
<1>2. CASE \E a \in oplog[s] : m = Cursor(a)
  <2>1. PICK a \in oplog[s] : m = Cursor(a)
    BY <1>2
  <2>2. a \in Op /\ Before(a.hlc, op.hlc)
    BY DEF TypeOK, Newest
  <2> QED
    BY <2>1, <2>2, PastTotal
<1> QED
  BY <1>1, <1>2 DEF Known

\* Cursors, what they cover and the prefixes pulls work through survive it.
LEMMA CursorsKept ==
    ASSUME TypeOK, NEW n \in Node, NEW op, Entering(n, op)
    PROVE  /\ \A s \in Node : oplog[s] \subseteq oplog'[s]
           /\ \A s \in Node : \A m : Known(s, m) => Known(s, m)'
           /\ \A p, s \in Node : \A m :
                 p # s /\ Known(s, m) /\ Covered(p, s, m) => Covered(p, s, m)'
           /\ \A p, s \in Node : \A todo, m : Prefix(p, s, todo, m) => Prefix(p, s, todo, m)'
<1>1. \A s \in Node : oplog'[s] = IF s = n THEN oplog[s] \cup {op} ELSE oplog[s]
  BY DEF Entering, TypeOK
<1>2. \A s \in Node : oplog[s] \subseteq oplog'[s]
  BY <1>1
<1>3. ASSUME NEW s \in Node, NEW m, Known(s, m) PROVE Known(s, m)'
  BY <1>2, <1>3 DEF Known
<1>4. ASSUME NEW p \in Node, NEW s \in Node, NEW m, p # s, Known(s, m), Covered(p, s, m)
      PROVE  Covered(p, s, m)'
  <2> SUFFICES ASSUME NEW a \in oplog'[s], Placed(s, a), ~Past(a, m)
               PROVE  a \in oplog'[p]
    BY DEF Covered
  <2>1. CASE a \in oplog[s]
    BY <1>2, <1>4, <2>1 DEF Covered
  <2>2. CASE a \notin oplog[s]
    <3>1. s = n /\ a = op
      BY <1>1, <2>2
    <3>2. Past(op, m)
      BY <1>4, <3>1, FreshPastCursor DEF Entering
    <3> QED
      BY <3>1, <3>2
  <2> QED
    BY <2>1, <2>2
<1>5. ASSUME NEW p \in Node, NEW s \in Node, NEW todo, NEW m, Prefix(p, s, todo, m)
      PROVE  Prefix(p, s, todo, m)'
  <2>1. todo \subseteq oplog'[s]
    BY <1>2, <1>5 DEF Prefix
  <2>2. \A t \in todo : t.origin # p /\ Past(t, m)
    BY <1>5 DEF Prefix
  <2>3. ASSUME NEW t \in todo, NEW a \in oplog'[s], Placed(s, a), Past(a, m),
               ~Past(a, Cursor(t))
        PROVE  a \in todo
    <3>1. CASE a \in oplog[s]
      BY <1>5, <2>3, <3>1 DEF Prefix
    <3>2. CASE a \notin oplog[s]
      <4>1. s = n /\ a = op
        BY <1>1, <3>2
      <4>2. t \in oplog[s] /\ t \in Op
        BY <1>5 DEF Prefix, TypeOK
      <4>3. Before(t.hlc, op.hlc)
        BY <2>3, <4>1, <4>2 DEF Entering, Newest
      <4>4. Past(op, Cursor(t))
        BY <4>2, <4>3, PastTotal DEF Entering
      <4> QED
        BY <2>3, <4>1, <4>4
    <3> QED
      BY <3>1, <3>2
  <2> QED
    BY <2>1, <2>2, <2>3 DEF Prefix
<1> QED
  BY <1>2, <1>3, <1>4, <1>5

\* So do the pulls and marks a step leaves alone.
LEMMA PullKept ==
    ASSUME TypeOK, NEW n \in Node, NEW op, Entering(n, op), NEW p \in Node,
           NEW q \in PullType, PullSound(p, q)
    PROVE  PullSound(p, q)'
<1> SUFFICES ASSUME q # NoPull PROVE PullSound(p, q)'
  BY DEF PullSound
<1>1. q.from \in Node
  BY DEF PullType
<1> QED
  BY <1>1, CursorsKept DEF PullSound

LEMMA MarksKept ==
    ASSUME TypeOK, MarksSound, NEW n \in Node, NEW op, Entering(n, op), mark' = mark
    PROVE  MarksSound'
  BY CursorsKept DEF MarksSound

-----------------------------------------------------------------------------
(* Each step enters at most one op *)

\* A call with a timestamp logs an op of its own node, newer than its log if no
\* other call logged one meanwhile.
LEMMA CallLogs ==
    ASSUME LogInv, NEW c \in Caller, call[c].pc \in {"record", "log"}
    PROVE  /\ call[c] # NoCall /\ call[c].node \in Node /\ call[c].id \in Id
           /\ call[c].hlc \in Stamp /\ Seen(call[c].node, call[c].hlc)
           /\ Serialized => Newest(call[c].node, call[c].hlc)
<1>1. call[c] # NoCall
  BY DEF NoCall
<1> QED
  BY <1>1, CallFields DEF LogInv, EdgeInv, CallsNewest

LEMMA CommitEnters ==
    ASSUME LogInv, NEW c \in Caller, CommitRecord(c)
    PROVE  LET d == call[c] IN Entering(d.node, OpOf(d.id, "record", d.id, Zero, d.hlc, d.node))
<1>1. call[c].pc = "record"
  BY DEF CommitRecord
<1>2. OpOf(call[c].id, "record", call[c].id, Zero, call[c].hlc, call[c].node) \in Op
  BY <1>1, CallLogs, OpTyped
<1> QED
  BY <1>1, <1>2, CallLogs DEF CommitRecord, Entering, OpOf, Placed, InOneTransaction

LEMMA LogOpEnters ==
    ASSUME LogInv, NEW c \in Caller, LogOp(c)
    PROVE  LET d == call[c] IN
           Entering(d.node, OpOf(d.id, "relate", d.on, d.edge, d.hlc, d.node))
<1>1. call[c].pc = "log"
  BY DEF LogOp
<1>2. call[c].on \in Key /\ call[c].edge \in Stamp
  BY <1>1, CallLogs, CallFields DEF LogInv, EdgeInv
<1>3. OpOf(call[c].id, "relate", call[c].on, call[c].edge, call[c].hlc, call[c].node) \in Op
  BY <1>1, <1>2, CallLogs, OpTyped
<1> QED
  BY <1>1, <1>3, CallLogs DEF LogOp, Entering, OpOf, Placed, InOneTransaction

\* The next stamp of a node is newer than its log.
LEMMA NowIsNewest ==
    ASSUME LogInv, NEW n \in Node
    PROVE  Now(n) \in Stamp /\ Newest(n, Now(n))
<1>1. Triple(clock[n]) /\ wall[n] \in Nat /\ Now(n) \in Stamp
  BY StampsTyped DEF LogInv, EdgeInv
<1>2. ASSUME NEW a \in oplog[n] PROVE Before(a.hlc, Now(n))
  <2>1. a \in Op /\ Seen(n, a.hlc)
    BY DEF LogInv, EdgeInv, TypeOK, LogSeen
  <2>2. Triple(a.hlc)
    BY <2>1, CursorParts, StampIsTriple
  <2> QED
    BY <1>1, <2>1, <2>2, NowIsNew
<1> QED
  BY <1>1, <1>2 DEF Newest

LEMMA ForgetEnters ==
    ASSUME LogInv, NEW n \in Node, NEW r \in Id, Forget(n, r)
    PROVE  Entering(n, OpOf(minted + 1, "forget", r, Zero, Now(n), n))
<1>1. minted + 1 \in Id
  BY SyncAssumption DEF Forget, LogInv, EdgeInv, TypeOK, Id
<1>2. OpOf(minted + 1, "forget", r, Zero, Now(n), n) \in Op
  BY <1>1, NowIsNewest, OpTyped
<1> QED
  BY <1>2, NowIsNewest DEF Forget, Entering, OpOf

LEMMA CorrectEnters ==
    ASSUME LogInv, NEW n \in Node, NEW r \in Id, NEW num \in Id, Correct(n, r),
           oplog' = [oplog EXCEPT ![n] = @ \cup {CorrectOf(minted + 1, r, num, Now(n), n)}]
    PROVE  Entering(n, CorrectOf(minted + 1, r, num, Now(n), n))
<1>1. minted + 1 \in Id
  BY SyncAssumption DEF Correct, LogInv, EdgeInv, TypeOK, Id
<1>2. CorrectOf(minted + 1, r, num, Now(n), n) \in Op
  BY <1>1, NowIsNewest, OpTyped
<1> QED
  BY <1>2, NowIsNewest DEF Entering, CorrectOf

\* An op that is pulled is of another node.
LEMMA AppliedEnters ==
    ASSUME LogInv, NEW p \in Node, NEW op \in pull[p].todo, LogApplied(p, op)
    PROVE  Entering(p, op)
<1>1. op \in Op /\ pull[p] # NoPull
  BY HandledTyped DEF LogInv, EdgeInv
<1>2. op.origin # p
  BY <1>1 DEF LogInv, PullsSound, PullSound, Prefix
<1> QED
  BY <1>1, <1>2 DEF LogApplied, Entering, Placed

-----------------------------------------------------------------------------
(* Ids are handed out once *)

LEMMA NumberedKept ==
    ASSUME Numbered, UNCHANGED <<oplog, minted>>,
           \A c \in Caller : call'[c] # NoCall =>
              call[c] # NoCall /\ call'[c].id = call[c].id
    PROVE  Numbered'
<1>1. \A n \in Node : IsFiniteSet(oplog'[n])
  BY DEF Numbered
<1>2. \A n \in Node : \A a \in oplog'[n] : a.id <= minted'
  BY DEF Numbered
<1>3. \A n, m \in Node : \A a \in oplog'[n], b \in oplog'[m] : a.id = b.id => a = b
  BY DEF Numbered
<1>4. \A c \in Caller : call'[c] # NoCall =>
         call'[c].id <= minted' /\ \A n \in Node : \A a \in oplog'[n] : a.id # call'[c].id
  BY DEF Numbered
<1>5. \A c, d \in Caller :
         call'[c] # NoCall /\ call'[d] # NoCall /\ call'[c].id = call'[d].id => c = d
  BY DEF Numbered
<1> QED
  BY <1>1, <1>2, <1>3, <1>4, <1>5 DEF Numbered

LEMMA NumberedMinted ==
    ASSUME TypeOK, Numbered, NEW c \in Caller, minted' = minted + 1, oplog' = oplog,
           call'[c].id = minted + 1, \A d \in Caller : d # c => call'[d] = call[d]
    PROVE  Numbered'
<1>1. minted \in Nat /\ (\A n \in Node : \A a \in oplog[n] : a.id \in Nat)
  BY SyncAssumption, CursorParts DEF TypeOK
<1>2. \A d \in Caller : call[d] # NoCall => call[d].id \in Nat
  BY CallFields, SyncAssumption DEF Id
<1>3. \A n \in Node : \A a \in oplog[n] : a.id <= minted + 1 /\ a.id # minted + 1
  BY <1>1 DEF Numbered
<1>4. \A d \in Caller : call[d] # NoCall => call[d].id <= minted + 1 /\ call[d].id # minted + 1
  BY <1>1, <1>2 DEF Numbered
<1>5. ASSUME NEW d \in Caller, call'[d] # NoCall
      PROVE  call'[d].id <= minted' /\ \A n \in Node : \A a \in oplog'[n] : a.id # call'[d].id
  <2>1. CASE d = c
    BY <1>1, <1>3, <2>1
  <2>2. CASE d # c
    BY <1>4, <1>5, <2>2 DEF Numbered
  <2> QED
    BY <2>1, <2>2
<1>6. ASSUME NEW d \in Caller, NEW e \in Caller, call'[d] # NoCall, call'[e] # NoCall,
             call'[d].id = call'[e].id
      PROVE  d = e
  <2>1. CASE d # c /\ e # c
    BY <1>6, <2>1 DEF Numbered
  <2>2. CASE d = c /\ e # c
    BY <1>4, <1>6, <2>2
  <2>3. CASE d # c /\ e = c
    BY <1>4, <1>6, <2>3
  <2> QED
    BY <2>1, <2>2, <2>3
<1>7. \A n \in Node : IsFiniteSet(oplog'[n])
  BY DEF Numbered
<1>8. \A n \in Node : \A a \in oplog'[n] : a.id <= minted'
  BY <1>3
<1>9. \A n, m \in Node : \A a \in oplog'[n], b \in oplog'[m] : a.id = b.id => a = b
  BY DEF Numbered
<1> QED
  BY <1>5, <1>6, <1>7, <1>8, <1>9 DEF Numbered

\* The op that enters has an id no other op and no remaining call has.
LEMMA NumberedEntered ==
    ASSUME TypeOK, Numbered, NEW n \in Node, NEW op, Entering(n, op),
           op.id <= minted', minted' \in Nat, minted <= minted',
           \A m \in Node : \A a \in oplog[m] : a.id = op.id => a = op,
           \A c \in Caller : call'[c] # NoCall =>
              call'[c] = call[c] /\ call[c].id # op.id
    PROVE  Numbered'
<1>1. \A m \in Node : oplog'[m] = IF m = n THEN oplog[m] \cup {op} ELSE oplog[m]
  BY DEF Entering, TypeOK
<1>2. \A m \in Node : \A a \in oplog'[m] : a = op \/ a \in oplog[m]
  BY <1>1
<1>3. minted \in Nat /\ (\A m \in Node : \A a \in oplog[m] : a.id \in Nat)
  BY SyncAssumption, CursorParts DEF TypeOK
<1>4. \A c \in Caller : call[c] # NoCall => call[c].id \in Nat
  BY CallFields, SyncAssumption DEF Id
<1>5. \A m \in Node : IsFiniteSet(oplog'[m])
  <2>1. IsFiniteSet(oplog[n] \cup {op})
    BY FS_AddElement DEF Numbered
  <2> QED
    BY <1>1, <2>1 DEF Numbered
<1>6. \A m \in Node : \A a \in oplog'[m] : a.id <= minted'
  <2> SUFFICES ASSUME NEW m \in Node, NEW a \in oplog[m] PROVE a.id <= minted'
    BY <1>2
  <2> QED
    BY <1>3 DEF Numbered
<1>7. ASSUME NEW m \in Node, NEW k \in Node, NEW a \in oplog'[m], NEW b \in oplog'[k],
             a.id = b.id
      PROVE  a = b
  <2>1. (a = op \/ a \in oplog[m]) /\ (b = op \/ b \in oplog[k])
    BY <1>2
  <2> QED
    BY <1>7, <2>1 DEF Numbered
<1>8. ASSUME NEW c \in Caller, call'[c] # NoCall
      PROVE  call'[c].id <= minted' /\ \A m \in Node : \A a \in oplog'[m] : a.id # call'[c].id
  <2>1. call[c] # NoCall /\ call'[c].id = call[c].id /\ call[c].id # op.id
    BY <1>8
  <2>2. call[c].id <= minted /\ call[c].id \in Nat
    BY <1>4, <2>1 DEF Numbered
  <2>3. call[c].id <= minted'
    BY <1>3, <2>2
  <2>4. ASSUME NEW m \in Node, NEW a \in oplog'[m] PROVE a.id # call[c].id
    BY <1>2, <2>1 DEF Numbered
  <2> QED
    BY <2>1, <2>3, <2>4
<1>9. \A c, d \in Caller :
         call'[c] # NoCall /\ call'[d] # NoCall /\ call'[c].id = call'[d].id => c = d
  BY DEF Numbered
<1> QED
  BY <1>5, <1>6, <1>7, <1>8, <1>9 DEF Numbered

-----------------------------------------------------------------------------
(* What a step leaves of the other conjuncts *)

LEMMA BasicsNext ==
    ASSUME SlowRestart, LogInv, [Next]_vars PROVE TypeOK' /\ (Serialized => EdgeInv')
<1>1. TypeOK'
  BY TypeNext DEF LogInv
<1>2. Serialized => EdgeInv'
  BY EdgeInvNext DEF LogInv
<1> QED
  BY <1>1, <1>2

LEMMA LogSeenKept ==
    ASSUME SlowRestart, LogInv, [Next]_vars, oplog' = oplog PROVE LogSeen'
<1> SUFFICES ASSUME NEW n \in Node, NEW a \in oplog[n] PROVE Seen(n, a.hlc)'
  BY DEF LogSeen, Seen
<1>1. a \in Op /\ Seen(n, a.hlc)
  BY DEF LogInv, EdgeInv, TypeOK, LogSeen
<1>2. a.hlc \in Stamp \cup {Zero}
  BY <1>1, CursorParts
<1> QED
  BY <1>1, <1>2, SeenStep DEF LogInv

LEMMA LogSeenEntered ==
    ASSUME SlowRestart, LogInv, [Next]_vars, NEW n \in Node, NEW op, Entering(n, op),
           ~Before(clock'[n], op.hlc) \/ op.hlc[1] < wall'[n]
    PROVE  LogSeen'
<1>1. ASSUME NEW m \in Node, NEW a \in oplog[m] PROVE Seen(m, a.hlc)'
  <2>1. a \in Op /\ Seen(m, a.hlc)
    BY DEF LogInv, EdgeInv, TypeOK, LogSeen
  <2>2. a.hlc \in Stamp \cup {Zero}
    BY <2>1, CursorParts
  <2> QED
    BY <2>1, <2>2, SeenStep DEF LogInv
<1>2. \A m \in Node : oplog'[m] = IF m = n THEN oplog[m] \cup {op} ELSE oplog[m]
  BY DEF Entering, LogInv, EdgeInv, TypeOK
<1>3. \A m \in Node : \A a \in oplog'[m] : a \in oplog[m] \/ (m = n /\ a = op)
  BY <1>2
<1> QED
  BY <1>1, <1>3 DEF LogSeen, Seen

LEMMA SeenAfter ==
    ASSUME SlowRestart, TypeOK, [Next]_vars, NEW n \in Node, NEW t \in Stamp \cup {Zero},
           Seen(n, t)
    PROVE  ~Before(clock'[n], t) \/ t[1] < wall'[n]
  BY SeenStep DEF Seen

LEMMA CallsNewestKept ==
    ASSUME SlowRestart, LogInv, [Next]_vars,
           \A c \in Caller : call'[c].pc \in {"record", "log"} =>
              /\ call'[c] = call[c]
              /\ Serialized => oplog'[call[c].node] = oplog[call[c].node]
    PROVE  CallsNewest'
<1> SUFFICES ASSUME NEW c \in Caller, call'[c].pc \in {"record", "log"}
             PROVE  /\ ~Before(clock'[call'[c].node], call'[c].hlc)
                          \/ call'[c].hlc[1] < wall'[call'[c].node]
                    /\ Serialized =>
                          \A a \in oplog'[call'[c].node] : Before(a.hlc, call'[c].hlc)
  BY DEF CallsNewest, Newest, Seen
<1>1. call'[c] = call[c] /\ (Serialized => oplog'[call[c].node] = oplog[call[c].node])
  OBVIOUS
<1>2. /\ call[c].node \in Node /\ call[c].hlc \in Stamp \cup {Zero}
      /\ Seen(call[c].node, call[c].hlc)
      /\ Serialized => Newest(call[c].node, call[c].hlc)
  BY <1>1, CallLogs
<1>3. Seen(call[c].node, call[c].hlc)'
      <=> ~Before(clock'[call'[c].node], call'[c].hlc)
             \/ call'[c].hlc[1] < wall'[call'[c].node]
  BY <1>1 DEF Seen
<1>4. ASSUME NEW n \in Node, NEW t \in Stamp \cup {Zero}, Seen(n, t)
      PROVE  ~Before(clock'[n], t) \/ t[1] < wall'[n]
  BY <1>4, SeenStep DEF Seen, LogInv
<1> QED
  BY <1>1, <1>2, <1>4 DEF Newest

LEMMA ReceivedSeenKept ==
    ASSUME SlowRestart, LogInv, [Next]_vars,
           \A p \in Node : pull'[p].pc = "log" => pull'[p] = pull[p]
    PROVE  ReceivedSeen'
<1> SUFFICES ASSUME NEW p \in Node, pull'[p].pc = "log", NEW op \in pull'[p].todo,
                    IsFirst(op, pull'[p].todo)
             PROVE  Seen(p, op.hlc)'
  BY DEF ReceivedSeen, Seen
<1>1. pull'[p] = pull[p]
  OBVIOUS
<1>2. op \in pull[p].todo /\ pull[p].pc = "log" /\ Seen(p, op.hlc)
  BY <1>1 DEF LogInv, ReceivedSeen
<1>3. op.hlc \in Stamp \cup {Zero}
  BY <1>2, HandledTyped, CursorParts DEF LogInv, EdgeInv
<1> QED
  BY <1>2, <1>3, SeenStep DEF LogInv

LEMMA PullQuiet ==
    ASSUME oplog' = oplog, NEW p, NEW q, PullSound(p, q) PROVE PullSound(p, q)'
  BY DEF PullSound, Prefix, Known, Covered

LEMMA PullsQuiet ==
    ASSUME PullsSound, oplog' = oplog,
           \A p \in Node : pull'[p] = pull[p] \/ pull'[p] = NoPull
    PROVE  PullsSound'
<1> SUFFICES ASSUME NEW p \in Node, NEW q, q = pull'[p] PROVE PullSound(p, q)'
  BY DEF PullsSound
<1>1. CASE q = NoPull
  BY <1>1 DEF PullSound
<1>2. CASE q = pull[p]
  BY <1>2, PullQuiet DEF PullsSound
<1> QED
  BY <1>1, <1>2

LEMMA MarksQuiet == ASSUME MarksSound, UNCHANGED <<oplog, mark>> PROVE MarksSound'
  BY DEF MarksSound, Known, Covered

\* The steps that leave log, ids and marks alone, and stamp no call.
LEMMA QuietStep ==
    ASSUME SlowRestart, LogInv, [Next]_vars,
           UNCHANGED <<oplog, mark, minted>>,
           \A c \in Caller : call'[c] # NoCall =>
              call[c] # NoCall /\ call'[c].id = call[c].id,
           \A c \in Caller : call'[c].pc \in {"record", "log"} => call'[c] = call[c],
           \A p \in Node : pull'[p] = pull[p] \/ pull'[p] = NoPull
    PROVE  LogInv'
<1>1. TypeOK' /\ (Serialized => EdgeInv')
  BY BasicsNext
<1>2. Numbered'
  BY NumberedKept DEF LogInv
<1>3. LogSeen' /\ CallsNewest'
  BY LogSeenKept, CallsNewestKept
<1>4. \A p \in Node : pull'[p].pc = "log" => pull'[p] = pull[p]
  BY DEF NoPull
<1>5. ReceivedSeen'
  BY <1>4, ReceivedSeenKept
<1>6. PullsSound' /\ MarksSound'
  BY PullsQuiet, MarksQuiet DEF LogInv
<1> QED
  BY <1>1, <1>2, <1>3, <1>5, <1>6 DEF LogInv

\* A call that takes the next stamp of its node is newer than the node's log.
LEMMA StampedNewest ==
    ASSUME SlowRestart, LogInv, [Next]_vars, NEW c \in Caller, NEW n \in Node,
           oplog' = oplog, clock' = [clock EXCEPT ![n] = Now(n)],
           call'[c].node = n, call'[c].hlc = Now(n),
           \A d \in Caller : d # c => call'[d] = call[d]
    PROVE  CallsNewest'
<1>1. clock'[n] = Now(n)
  BY DEF LogInv, EdgeInv, TypeOK
<1>2. Now(n) \in Stamp /\ Newest(n, Now(n))
  BY NowIsNewest
<1>3. ~Before(Now(n), Now(n))
  BY <1>2, StampIsTriple DEF Before, Triple
<1>4. ASSUME NEW m \in Node, NEW t \in Stamp \cup {Zero}, Seen(m, t)
      PROVE  ~Before(clock'[m], t) \/ t[1] < wall'[m]
  BY <1>4, SeenStep DEF Seen, LogInv
<1>5. ASSUME NEW d \in Caller, d # c, call'[d].pc \in {"record", "log"}
      PROVE  /\ ~Before(clock'[call'[d].node], call'[d].hlc)
                   \/ call'[d].hlc[1] < wall'[call'[d].node]
             /\ Serialized => \A a \in oplog'[call'[d].node] : Before(a.hlc, call'[d].hlc)
  <2>1. /\ call[d].node \in Node /\ call[d].hlc \in Stamp \cup {Zero}
        /\ Seen(call[d].node, call[d].hlc)
        /\ Serialized => Newest(call[d].node, call[d].hlc)
    BY <1>5, CallLogs
  <2> QED
    BY <1>4, <1>5, <2>1 DEF Newest
<1>6. /\ ~Before(clock'[call'[c].node], call'[c].hlc)
      /\ \A a \in oplog'[call'[c].node] : Before(a.hlc, call'[c].hlc)
  BY <1>1, <1>2, <1>3 DEF Newest
<1> QED
  BY <1>5, <1>6 DEF CallsNewest, Newest, Seen

-----------------------------------------------------------------------------
(* The steps of calls *)

LEMMA StartRecordLog ==
    ASSUME SlowRestart, LogInv, [Next]_vars,
           NEW c \in Caller, NEW n \in Node, StartRecord(c, n)
    PROVE  LogInv'
<1>1. /\ UNCHANGED <<oplog, mark, pull>> /\ minted' = minted + 1
      /\ clock' = [clock EXCEPT ![n] = Now(n)]
      /\ \A d \in Caller : d # c => call'[d] = call[d]
      /\ call'[c].id = minted + 1 /\ call'[c].node = n /\ call'[c].hlc = Now(n)
  BY DEF StartRecord, LogInv, EdgeInv, TypeOK
<1>2. TypeOK' /\ (Serialized => EdgeInv')
  BY BasicsNext
<1>3. Numbered'
  BY <1>1, NumberedMinted DEF LogInv, EdgeInv
<1>4. CallsNewest'
  BY <1>1, StampedNewest
<1>5. LogSeen' /\ ReceivedSeen'
  BY <1>1, LogSeenKept, ReceivedSeenKept
<1>6. PullsSound' /\ MarksSound'
  BY <1>1, PullsQuiet, MarksQuiet DEF LogInv
<1> QED
  BY <1>2, <1>3, <1>4, <1>5, <1>6 DEF LogInv

LEMMA StartRelateLog ==
    ASSUME SlowRestart, LogInv, [Next]_vars,
           NEW c \in Caller, NEW n \in Node, NEW k \in Key, StartRelate(c, n, k)
    PROVE  LogInv'
<1>1. /\ UNCHANGED <<oplog, mark, pull>> /\ minted' = minted + 1
      /\ \A d \in Caller : d # c => call'[d] = call[d]
      /\ call'[c].id = minted + 1 /\ call'[c].pc = "upsert"
  BY DEF StartRelate, LogInv, EdgeInv, TypeOK
<1>2. TypeOK' /\ (Serialized => EdgeInv')
  BY BasicsNext
<1>3. Numbered'
  BY <1>1, NumberedMinted DEF LogInv, EdgeInv
<1>4. CallsNewest'
  BY <1>1, CallsNewestKept
<1>5. LogSeen' /\ ReceivedSeen'
  BY <1>1, LogSeenKept, ReceivedSeenKept
<1>6. PullsSound' /\ MarksSound'
  BY <1>1, PullsQuiet, MarksQuiet DEF LogInv
<1> QED
  BY <1>2, <1>3, <1>4, <1>5, <1>6 DEF LogInv

LEMMA UpsertLog ==
    ASSUME SlowRestart, LogInv, [Next]_vars, NEW c \in Caller, Upsert(c)
    PROVE  LogInv'
<1>1. call[c] # NoCall /\ call[c].pc = "upsert"
  BY DEF Upsert, NoCall
<1>2. call[c] \in [pc : {"upsert", "stamp"}, node : Node, id : Id, on : Key, edge : Stamp]
  BY <1>1 DEF LogInv, EdgeInv, TypeOK, CallType
<1>3. call'[c] = [call[c] EXCEPT !.pc = "stamp"] /\ \A d \in Caller : d # c => call'[d] = call[d]
  BY DEF Upsert, LogInv, EdgeInv, TypeOK
<1>4. call'[c].id = call[c].id /\ call'[c].pc = "stamp"
  BY <1>2, <1>3
<1>5. UNCHANGED <<oplog, mark, minted, pull>>
  BY DEF Upsert
<1> QED
  BY <1>1, <1>3, <1>4, <1>5, QuietStep

LEMMA StampOpLog ==
    ASSUME SlowRestart, LogInv, [Next]_vars, NEW c \in Caller, StampOp(c)
    PROVE  LogInv'
<1>1. call[c] # NoCall /\ call[c].pc = "stamp"
  BY DEF StampOp, NoCall
<1>2. call[c].node \in Node
  BY <1>1, CallFields DEF LogInv, EdgeInv
<1>3. /\ UNCHANGED <<oplog, mark, pull, minted>>
      /\ clock' = [clock EXCEPT ![call[c].node] = Now(call[c].node)]
      /\ \A d \in Caller : d # c => call'[d] = call[d]
      /\ call'[c].id = call[c].id /\ call'[c].node = call[c].node
      /\ call'[c].hlc = Now(call[c].node)
  BY DEF StampOp, LogInv, EdgeInv, TypeOK
<1>4. TypeOK' /\ (Serialized => EdgeInv')
  BY BasicsNext
<1>5. Numbered'
  BY <1>1, <1>3, NumberedKept DEF LogInv
<1>6. CallsNewest'
  BY <1>2, <1>3, StampedNewest
<1>7. LogSeen' /\ ReceivedSeen'
  BY <1>3, LogSeenKept, ReceivedSeenKept
<1>8. PullsSound' /\ MarksSound'
  BY <1>3, PullsQuiet, MarksQuiet DEF LogInv
<1> QED
  BY <1>4, <1>5, <1>6, <1>7, <1>8 DEF LogInv

\* A call logs its op and ends; nothing else was running on the node.
LEMMA CallLogged ==
    ASSUME SlowRestart, LogInv, [Next]_vars,
           NEW c \in Caller, call[c].pc \in {"record", "log"},
           NEW op, Entering(call[c].node, op), op.id = call[c].id, op.hlc = call[c].hlc,
           UNCHANGED <<wall, clock, mark, pull, minted>>,
           call' = [call EXCEPT ![c] = NoCall]
    PROVE  LogInv'
<1>1. call[c] # NoCall /\ call[c].node \in Node /\ Seen(call[c].node, call[c].hlc)
  BY CallLogs
<1>2. call'[c] = NoCall /\ \A d \in Caller : d # c => call'[d] = call[d]
  BY DEF LogInv, EdgeInv, TypeOK
<1>3. TypeOK' /\ (Serialized => EdgeInv')
  BY BasicsNext
<1>4. Numbered'
  <2>1. op.id <= minted' /\ minted' \in Nat /\ minted <= minted'
    BY <1>1, SyncAssumption DEF LogInv, EdgeInv, TypeOK, Numbered
  <2>2. \A m \in Node : \A a \in oplog[m] : a.id # op.id
    BY <1>1 DEF LogInv, Numbered
  <2>3. \A d \in Caller : call'[d] # NoCall => call'[d] = call[d] /\ call[d].id # op.id
    BY <1>1, <1>2 DEF LogInv, Numbered
  <2>4. TypeOK /\ Numbered
    BY DEF LogInv, EdgeInv
  <2> QED
    BY <1>1, <2>1, <2>2, <2>3, <2>4, NumberedEntered
<1>5. LogSeen'
  <2>1. ~Before(clock'[call[c].node], op.hlc) \/ op.hlc[1] < wall'[call[c].node]
    BY <1>1 DEF Seen
  <2> QED
    BY <1>1, <2>1, LogSeenEntered
<1>6. CallsNewest'
  <2> SUFFICES ASSUME NEW d \in Caller, call'[d].pc \in {"record", "log"}
               PROVE  /\ call'[d] = call[d]
                      /\ Serialized => oplog'[call[d].node] = oplog[call[d].node]
    BY CallsNewestKept
  <2>1. d # c /\ call'[d] = call[d]
    BY <1>2 DEF NoCall
  <2>2. call[d] # NoCall /\ call[d].node \in Node
    BY <2>1, CallLogs
  <2>3. Serialized => call[d].node # call[c].node
    BY <1>1, <2>1, <2>2 DEF LogInv, EdgeInv, OneAtATime
  <2> QED
    BY <1>1, <2>1, <2>2, <2>3 DEF Entering, LogInv, EdgeInv, TypeOK
<1>7. ReceivedSeen'
  BY ReceivedSeenKept
<1>8. PullsSound'
  <2> SUFFICES ASSUME NEW p \in Node, NEW q, q = pull'[p] PROVE PullSound(p, q)'
    BY DEF PullsSound
  <2>1. q \in PullType /\ PullSound(p, q)
    BY DEF LogInv, EdgeInv, TypeOK, PullsSound
  <2>2. TypeOK
    BY DEF LogInv, EdgeInv
  <2> QED
    BY <1>1, <2>1, <2>2, PullKept
<1>9. MarksSound'
  BY <1>1, MarksKept DEF LogInv, EdgeInv
<1> QED
  BY <1>3, <1>4, <1>5, <1>6, <1>7, <1>8, <1>9 DEF LogInv

LEMMA CommitRecordLog ==
    ASSUME SlowRestart, LogInv, [Next]_vars, NEW c \in Caller, CommitRecord(c)
    PROVE  LogInv'
<1> DEFINE d == call[c]
           op == OpOf(d.id, "record", d.id, Zero, d.hlc, d.node)
<1>1. Entering(d.node, op)
  BY CommitEnters
<1>2. op.id = d.id /\ op.hlc = d.hlc
  BY DEF OpOf
<1>3. /\ d.pc = "record" /\ UNCHANGED <<wall, clock, mark, pull, minted>>
      /\ call' = [call EXCEPT ![c] = NoCall]
  BY DEF CommitRecord
<1> HIDE DEF op
<1> QED
  BY <1>1, <1>2, <1>3, CallLogged

LEMMA LogOpLog ==
    ASSUME SlowRestart, LogInv, [Next]_vars, NEW c \in Caller, LogOp(c)
    PROVE  LogInv'
<1> DEFINE d == call[c]
           op == OpOf(d.id, "relate", d.on, d.edge, d.hlc, d.node)
<1>1. Entering(d.node, op)
  BY LogOpEnters
<1>2. op.id = d.id /\ op.hlc = d.hlc
  BY DEF OpOf
<1>3. /\ d.pc = "log" /\ UNCHANGED <<wall, clock, mark, pull, minted>>
      /\ call' = [call EXCEPT ![c] = NoCall]
  BY DEF LogOp
<1> HIDE DEF op
<1> QED
  BY <1>1, <1>2, <1>3, CallLogged

\* A call that is one transaction logs its op with the newest stamp.
LEMMA OneTransactionLog ==
    ASSUME SlowRestart, LogInv, [Next]_vars, NEW n \in Node, NEW op,
           Entering(n, op), op.id = minted + 1, op.hlc = Now(n), MayStart(n),
           clock' = [clock EXCEPT ![n] = Now(n)], minted' = minted + 1,
           UNCHANGED <<wall, mark, call, pull>>
    PROVE  LogInv'
<1>1. Entering(n, op)
  OBVIOUS
<1>2. op.id = minted + 1 /\ op.hlc = Now(n)
  OBVIOUS
<1>3. /\ UNCHANGED <<wall, mark, call, pull>> /\ minted' = minted + 1
      /\ clock'[n] = Now(n)
      /\ Serialized => \A d \in Caller : call[d] # NoCall => call[d].node # n
  BY DEF MayStart, Running, LogInv, EdgeInv, TypeOK
<1>4. TypeOK /\ Numbered /\ minted \in Nat
  BY SyncAssumption DEF LogInv, EdgeInv, TypeOK
<1>5. TypeOK' /\ (Serialized => EdgeInv')
  BY BasicsNext
<1>6. Numbered'
  <2>1. ASSUME NEW m \in Node, NEW a \in oplog[m] PROVE a.id # op.id
    <3>1. a.id \in Nat /\ a.id <= minted
      BY <1>4, CursorParts DEF TypeOK, Numbered
    <3> QED
      BY <1>2, <1>4, <3>1
  <2>2. ASSUME NEW d \in Caller, call'[d] # NoCall
        PROVE  call'[d] = call[d] /\ call[d].id # op.id
    <3>1. call[d].id <= minted /\ call[d].id \in Nat
      BY <1>3, <1>4, <2>2, CallFields, SyncAssumption DEF Numbered, Id
    <3> QED
      BY <1>2, <1>3, <1>4, <3>1
  <2>3. op.id <= minted' /\ minted' \in Nat /\ minted <= minted'
    BY <1>2, <1>3, <1>4
  <2> QED
    BY <1>1, <1>4, <2>1, <2>2, <2>3, NumberedEntered
<1>7. LogSeen'
  <2>1. ~Before(Now(n), Now(n))
    BY NowIsNewest, StampIsTriple DEF Before, Triple
  <2>2. ~Before(clock'[n], op.hlc)
    BY <1>2, <1>3, <2>1
  <2> QED
    BY <1>1, <2>2, LogSeenEntered
<1>8. CallsNewest'
  <2> SUFFICES ASSUME NEW d \in Caller, call'[d].pc \in {"record", "log"}
               PROVE  /\ call'[d] = call[d]
                      /\ Serialized => oplog'[call[d].node] = oplog[call[d].node]
    BY CallsNewestKept
  <2>1. call'[d] = call[d] /\ call[d] # NoCall /\ call[d].node \in Node
    BY <1>3, CallLogs
  <2> QED
    BY <1>1, <1>3, <2>1 DEF Entering, LogInv, EdgeInv, TypeOK
<1>9. ReceivedSeen'
  BY <1>3, ReceivedSeenKept
<1>10. PullsSound'
  <2> SUFFICES ASSUME NEW p \in Node, NEW q, q = pull'[p] PROVE PullSound(p, q)'
    BY DEF PullsSound
  <2>1. q \in PullType /\ PullSound(p, q)
    BY <1>3 DEF LogInv, EdgeInv, TypeOK, PullsSound
  <2> QED
    BY <1>1, <1>4, <2>1, PullKept
<1>11. MarksSound'
  BY <1>1, <1>3, <1>4, MarksKept DEF LogInv
<1> QED
  BY <1>5, <1>6, <1>7, <1>8, <1>9, <1>10, <1>11 DEF LogInv

LEMMA ForgetLog ==
    ASSUME SlowRestart, LogInv, [Next]_vars,
           NEW n \in Node, NEW r \in Id, Forget(n, r)
    PROVE  LogInv'
<1>1. PICK op : op = OpOf(minted + 1, "forget", r, Zero, Now(n), n)
  OBVIOUS
<1>2. Entering(n, op) /\ op.id = minted + 1 /\ op.hlc = Now(n)
  BY <1>1, ForgetEnters DEF OpOf
<1> QED
  BY <1>2, OneTransactionLog DEF Forget

LEMMA CorrectLog ==
    ASSUME SlowRestart, LogInv, [Next]_vars,
           NEW n \in Node, NEW r \in Id, Correct(n, r)
    PROVE  LogInv'
<1>1. PICK num \in Id :
         oplog' = [oplog EXCEPT ![n] = @ \cup {CorrectOf(minted + 1, r, num, Now(n), n)}]
  BY DEF Correct
<1>2. PICK op : op = CorrectOf(minted + 1, r, num, Now(n), n)
  OBVIOUS
<1>3. Entering(n, op) /\ op.id = minted + 1 /\ op.hlc = Now(n)
  BY <1>1, <1>2, CorrectEnters DEF CorrectOf
<1> QED
  BY <1>3, OneTransactionLog DEF Correct

-----------------------------------------------------------------------------
(* The steps of pulls *)

\* The smallest PullLimit ops leave out nothing before their last.
LEMMA ExtractedPrefix ==
    ASSUME LogInv, NEW p \in Node, NEW s \in Node, p # s
    PROVE  Prefix(p, s, Extracted(p, s), mark[p][s])
<1> DEFINE W == Wanted(p, s)
           E == Extracted(p, s)
           before(x) == {o \in W : Past(x, Cursor(o))}
<1>1. E \subseteq W /\ W \subseteq oplog[s] /\ oplog[s] \subseteq Op
  BY DEF Extracted, Wanted, LogInv, EdgeInv, TypeOK
<1>2. \A t \in E : t.origin # p /\ Past(t, mark[p][s])
  BY DEF Extracted, Wanted
<1>3. IsFiniteSet(W)
  BY <1>1, FS_Subset DEF LogInv, Numbered
<1>4. ASSUME NEW t \in E, NEW a \in oplog[s], Placed(s, a), Past(a, mark[p][s]),
             ~Past(a, Cursor(t))
      PROVE  a \in E
  <2>1. a \in W
    BY <1>4 DEF Wanted, Placed
  <2>2. before(a) \subseteq before(t)
    <3> SUFFICES ASSUME NEW o \in W, Past(a, Cursor(o)) PROVE Past(t, Cursor(o))
      OBVIOUS
    <3>1. a \in Op /\ t \in Op /\ Cursor(o) \in MarkType
      BY <1>1, OpFields
    <3> QED
      BY <1>4, <3>1, PastTransitive
  <2>3. IsFiniteSet(before(t))
    BY <1>3, FS_Subset
  <2>4. /\ IsFiniteSet(before(a))
        /\ Cardinality(before(a)) <= Cardinality(before(t))
    BY <2>2, <2>3, FS_Subset
  <2>5. Cardinality(before(a)) \in Nat /\ Cardinality(before(t)) \in Nat
    BY <2>3, <2>4, FS_CardinalityType
  <2>6. Cardinality(before(t)) < PullLimit
    BY DEF Extracted
  <2> HIDE DEF before
  <2>7. Cardinality(before(a)) < PullLimit
    BY <2>4, <2>5, <2>6, SyncAssumption
  <2> QED
    BY <2>1, <2>7 DEF Extracted, before
<1> HIDE DEF E, W
<1> QED
  BY <1>1, <1>2, <1>4 DEF Prefix, E

LEMMA StartPullLog ==
    ASSUME SlowRestart, LogInv, [Next]_vars,
           NEW p \in Node, NEW s \in Node, StartPull(p, s)
    PROVE  LogInv'
<1>0. PICK q : q = [pc |-> "apply", from |-> s, todo |-> Extracted(p, s), last |-> mark[p][s]]
  OBVIOUS
<1>1. /\ UNCHANGED <<oplog, mark, minted, call>> /\ p # s
      /\ pull'[p] = q /\ \A m \in Node : m # p => pull'[m] = pull[m]
  BY <1>0 DEF StartPull, LogInv, EdgeInv, TypeOK
<1>2. TypeOK' /\ (Serialized => EdgeInv')
  BY BasicsNext
<1>3. Numbered'
  BY <1>1, NumberedKept DEF LogInv
<1>4. LogSeen' /\ CallsNewest'
  BY <1>1, LogSeenKept, CallsNewestKept
<1>5. ReceivedSeen'
  <2>1. q.pc = "apply"
    BY <1>0
  <2> QED
    BY <1>1, <2>1, ReceivedSeenKept
<1>6. PullSound(p, q)
  <2>1. q.from = s /\ q.todo = Extracted(p, s) /\ q.last = mark[p][s]
    BY <1>0
  <2>2. Prefix(p, s, Extracted(p, s), mark[p][s])
    BY <1>1, ExtractedPrefix
  <2> QED
    BY <1>1, <2>1, <2>2 DEF LogInv, MarksSound, PullSound
<1>7. PullsSound'
  <2> SUFFICES ASSUME NEW m \in Node, NEW x, x = pull'[m] PROVE PullSound(m, x)'
    BY DEF PullsSound
  <2>1. PullSound(m, x)
    BY <1>1, <1>6 DEF LogInv, PullsSound
  <2> QED
    BY <1>1, <2>1, PullQuiet
<1>8. MarksSound'
  BY <1>1, MarksQuiet DEF LogInv
<1> QED
  BY <1>2, <1>3, <1>4, <1>5, <1>7, <1>8 DEF LogInv

\* Once the first op is in the puller's log, what is left is a prefix of what
\* is past it, and everything up to it is covered.
LEMMA HandledSound ==
    ASSUME LogInv, NEW p \in Node, NEW op \in pull[p].todo, IsFirst(op, pull[p].todo),
           oplog'[pull[p].from] = oplog[pull[p].from], op \in oplog'[p],
           oplog[p] \subseteq oplog'[p],
           NEW q, q = Handled(p, op)
    PROVE  PullSound(p, q)'
<1>0. PICK s : s = pull[p].from
  OBVIOUS
<1>a. PICK todo : todo = pull[p].todo
  OBVIOUS
<1>b. PICK last : last = pull[p].last
  OBVIOUS
<1>1. /\ op \in Op /\ pull[p] # NoPull /\ s \in Node /\ last \in MarkType
      /\ oplog[s] \subseteq Op /\ oplog'[s] = oplog[s]
  BY <1>0, <1>b, HandledTyped, PullFields DEF LogInv, EdgeInv, TypeOK
<1>2. /\ q.from = s /\ q.todo = todo \ {op} /\ q.last = Cursor(op)
  BY <1>0, <1>a DEF Handled
<1>3. s # p /\ Prefix(p, s, todo, last) /\ Covered(p, s, last)
  BY <1>0, <1>a, <1>b, <1>1 DEF LogInv, PullsSound, PullSound
<1>4. op \in oplog[s] /\ Past(op, last) /\ op \in todo /\ IsFirst(op, todo)
  BY <1>3, <1>a DEF Prefix
<1>5. Known(s, Cursor(op))'
  BY <1>1, <1>4 DEF Known
<1>6. ASSUME NEW a \in oplog[s], Placed(s, a), ~Past(a, Cursor(op)) PROVE a \in oplog'[p]
  <2>1. CASE ~Past(a, last)
    BY <1>3, <1>6, <2>1 DEF Covered
  <2>2. CASE Past(a, last)
    <3>1. a \in todo
      BY <1>3, <1>4, <1>6, <2>2 DEF Prefix
    <3>2. a = op
      BY <1>4, <1>6, <3>1 DEF IsFirst
    <3> QED
      BY <3>2
  <2> QED
    BY <2>1, <2>2
<1>7. Covered(p, s, Cursor(op))'
  BY <1>1, <1>6 DEF Covered
<1>8. ASSUME NEW t \in todo \ {op}, NEW a \in oplog[s], Placed(s, a),
             Past(a, Cursor(op)), ~Past(a, Cursor(t))
      PROVE  a \in todo \ {op}
  <2>1. a \in Op
    BY <1>1
  <2>2. ~Past(op, Cursor(a))
    BY <1>1, <1>8, <2>1, PastAsymmetric
  <2>3. Past(a, last)
    BY <1>1, <1>4, <2>1, <2>2, PastTransitive
  <2>4. a \in todo
    BY <1>3, <1>8, <2>3 DEF Prefix
  <2>5. a # op
    BY <1>1, <1>8, PastTotal
  <2> QED
    BY <2>4, <2>5
<1>9. Prefix(p, s, todo \ {op}, Cursor(op))'
  <2>1. todo \ {op} \subseteq oplog'[s]
    BY <1>1, <1>3 DEF Prefix
  <2>2. \A t \in todo \ {op} : t.origin # p /\ Past(t, Cursor(op))
    BY <1>3, <1>4 DEF Prefix, IsFirst
  <2> QED
    BY <1>1, <1>8, <2>1, <2>2 DEF Prefix
<1> QED
  BY <1>2, <1>3, <1>5, <1>7, <1>9 DEF PullSound

LEMMA SkipKnownLog ==
    ASSUME SlowRestart, LogInv, [Next]_vars,
           NEW p \in Node, NEW op \in pull[p].todo, SkipKnown(p, op)
    PROVE  LogInv'
<1>0. PICK q : q = Handled(p, op)
  OBVIOUS
<1>1. /\ UNCHANGED <<oplog, mark, minted, call>> /\ IsFirst(op, pull[p].todo)
      /\ pull'[p] = q /\ \A m \in Node : m # p => pull'[m] = pull[m]
  BY <1>0 DEF SkipKnown, NextOp, LogInv, EdgeInv, TypeOK
<1>2. op \in Op /\ pull[p] # NoPull /\ pull[p].from \in Node
  BY HandledTyped, PullFields DEF LogInv, EdgeInv
<1>3. op \in oplog[p]
  <2>1. PICK known \in oplog[p] : known.id = op.id
    BY DEF SkipKnown
  <2>2. op \in oplog[pull[p].from]
    BY <1>2 DEF LogInv, PullsSound, PullSound, Prefix
  <2> QED
    BY <1>2, <2>1, <2>2 DEF LogInv, Numbered
<1>4. TypeOK' /\ (Serialized => EdgeInv')
  BY BasicsNext
<1>5. Numbered'
  BY <1>1, NumberedKept DEF LogInv
<1>6. LogSeen' /\ CallsNewest'
  BY <1>1, LogSeenKept, CallsNewestKept
<1>7. ReceivedSeen'
  <2>1. q.pc = "apply"
    BY <1>0 DEF Handled
  <2> QED
    BY <1>1, <2>1, ReceivedSeenKept
<1>8. PullsSound'
  <2> SUFFICES ASSUME NEW m \in Node, NEW x, x = pull'[m] PROVE PullSound(m, x)'
    BY DEF PullsSound
  <2>1. CASE m = p
    BY <1>0, <1>1, <1>2, <1>3, <2>1, HandledSound
  <2>2. CASE m # p
    BY <1>1, <2>2, PullQuiet DEF LogInv, PullsSound
  <2> QED
    BY <2>1, <2>2
<1>9. MarksSound'
  BY <1>1, MarksQuiet DEF LogInv
<1> QED
  BY <1>4, <1>5, <1>6, <1>7, <1>8, <1>9 DEF LogInv

LEMMA MaterializeLog ==
    ASSUME SlowRestart, LogInv, [Next]_vars,
           NEW p \in Node, NEW op \in pull[p].todo, Materialize(p, op)
    PROVE  LogInv'
<1>0. PICK q : q = [pull[p] EXCEPT !.pc = "log"]
  OBVIOUS
<1>1. /\ UNCHANGED <<oplog, mark, minted, call>> /\ IsFirst(op, pull[p].todo)
      /\ clock'[p] = Recv(p, op.hlc)
      /\ pull'[p] = q /\ \A m \in Node : m # p => pull'[m] = pull[m]
  BY <1>0 DEF Materialize, NextOp, LogInv, EdgeInv, TypeOK
<1>2. op \in Op /\ pull[p] # NoPull
  BY HandledTyped DEF LogInv, EdgeInv
<1>3. q # NoPull /\ q.from = pull[p].from /\ q.todo = pull[p].todo /\ q.last = pull[p].last
  BY <1>0, <1>2, PullFields DEF NoPull, LogInv, EdgeInv
<1>4. TypeOK' /\ (Serialized => EdgeInv')
  BY BasicsNext
<1>5. Numbered'
  BY <1>1, NumberedKept DEF LogInv
<1>6. LogSeen' /\ CallsNewest'
  BY <1>1, LogSeenKept, CallsNewestKept
<1>7. ReceivedSeen'
  <2> SUFFICES ASSUME NEW m \in Node, pull'[m].pc = "log", NEW o \in pull'[m].todo,
                      IsFirst(o, pull'[m].todo)
               PROVE  ~Before(clock'[m], o.hlc) \/ o.hlc[1] < wall'[m]
    BY DEF ReceivedSeen, Seen
  <2>1. CASE m = p
    <3>1. o \in pull[p].todo /\ IsFirst(o, pull[p].todo)
      BY <1>1, <1>3, <2>1
    <3>2. o = op
      <4> SUFFICES ASSUME o # op PROVE FALSE
        OBVIOUS
      <4>1. Past(o, Cursor(op)) /\ Past(op, Cursor(o)) /\ o \in Op
        BY <1>1, <3>1, HandledTyped DEF IsFirst, LogInv, EdgeInv
      <4> QED
        BY <1>2, <4>1, PastAsymmetric
    <3>3. op.hlc \in Stamp
      BY <1>2, OpFields
    <3>4. Recv(p, op.hlc) \in Stamp /\ Before(op.hlc, Recv(p, op.hlc))
      BY <3>3, StampIsTriple, StampsTyped, RecvIsNew DEF LogInv, EdgeInv
    <3>5. ~Before(Recv(p, op.hlc), op.hlc)
      BY <3>3, <3>4, StampIsTriple, BeforeOrder
    <3> QED
      BY <1>1, <2>1, <3>2, <3>5
  <2>2. CASE m # p
    <3>1. pull'[m] = pull[m]
      BY <1>1, <2>2
    <3>2. Seen(m, o.hlc) /\ o.hlc \in Stamp \cup {Zero}
      BY <3>1, HandledTyped, CursorParts DEF LogInv, EdgeInv, ReceivedSeen
    <3>3. Seen(m, o.hlc) => ~Before(clock'[m], o.hlc) \/ o.hlc[1] < wall'[m]
      BY <3>2, SeenAfter DEF LogInv
    <3> QED
      BY <3>2, <3>3
  <2> QED
    BY <2>1, <2>2
<1>8. PullsSound'
  <2> SUFFICES ASSUME NEW m \in Node, NEW x, x = pull'[m] PROVE PullSound(m, x)'
    BY DEF PullsSound
  <2>1. PullSound(m, x)
    BY <1>1, <1>2, <1>3 DEF LogInv, PullsSound, PullSound
  <2> QED
    BY <1>1, <2>1, PullQuiet
<1>9. MarksSound'
  BY <1>1, MarksQuiet DEF LogInv
<1> QED
  BY <1>4, <1>5, <1>6, <1>7, <1>8, <1>9 DEF LogInv

LEMMA LogAppliedLog ==
    ASSUME SlowRestart, LogInv, [Next]_vars,
           NEW p \in Node, NEW op \in pull[p].todo, LogApplied(p, op)
    PROVE  LogInv'
<1>0. PICK q : q = Handled(p, op)
  OBVIOUS
<1>1. /\ UNCHANGED <<wall, clock, mark, minted, call>> /\ IsFirst(op, pull[p].todo)
      /\ pull[p].pc = "log"
      /\ pull'[p] = q /\ \A m \in Node : m # p => pull'[m] = pull[m]
  BY <1>0 DEF LogApplied, LogInv, EdgeInv, TypeOK
<1>2. op \in Op /\ pull[p] # NoPull /\ pull[p].from \in Node
  BY HandledTyped, PullFields DEF LogInv, EdgeInv
<1>3. pull[p].from # p /\ op \in oplog[pull[p].from]
  BY <1>2 DEF LogInv, PullsSound, PullSound, Prefix
<1>4. Entering(p, op)
  BY AppliedEnters
<1>5. TypeOK /\ Numbered
  BY DEF LogInv, EdgeInv
<1>6. TypeOK' /\ (Serialized => EdgeInv')
  BY BasicsNext
<1>7. Numbered'
  <2>1. op.id <= minted' /\ minted' \in Nat /\ minted <= minted'
    <3>1. minted \in Nat
      BY <1>5, SyncAssumption DEF TypeOK
    <3>2. op.id <= minted
      BY <1>2, <1>3, <1>5 DEF Numbered
    <3>3. minted' = minted
      BY <1>1
    <3> QED
      BY <3>1, <3>2, <3>3
  <2>2. \A m \in Node : \A a \in oplog[m] : a.id = op.id => a = op
    BY <1>2, <1>3, <1>5 DEF Numbered
  <2>3. \A d \in Caller : call'[d] # NoCall => call'[d] = call[d] /\ call[d].id # op.id
    BY <1>1, <1>2, <1>3, <1>5 DEF Numbered
  <2> QED
    BY <1>4, <1>5, <2>1, <2>2, <2>3, NumberedEntered
<1>8. LogSeen'
  <2>1. Seen(p, op.hlc)
    BY <1>1 DEF LogInv, ReceivedSeen
  <2> QED
    BY <1>1, <1>4, <2>1, LogSeenEntered DEF Seen
<1>9. CallsNewest'
  <2> SUFFICES ASSUME NEW d \in Caller, call'[d].pc \in {"record", "log"}
               PROVE  /\ call'[d] = call[d]
                      /\ Serialized => oplog'[call[d].node] = oplog[call[d].node]
    BY CallsNewestKept
  <2>1. call'[d] = call[d] /\ call[d] # NoCall /\ call[d].node \in Node
    BY <1>1, CallLogs
  <2>2. Serialized => call[d].node # p
    BY <1>2, <2>1, PullingAlone DEF LogInv
  <2> QED
    BY <1>4, <1>5, <2>1, <2>2 DEF Entering, TypeOK
<1>10. ReceivedSeen'
  <2>1. q.pc = "apply"
    BY <1>0 DEF Handled
  <2> QED
    BY <1>1, <2>1, ReceivedSeenKept
<1>11. PullsSound'
  <2> SUFFICES ASSUME NEW m \in Node, NEW x, x = pull'[m] PROVE PullSound(m, x)'
    BY DEF PullsSound
  <2>1. CASE m = p
    <3>1. op \in oplog'[p] /\ oplog[p] \subseteq oplog'[p]
             /\ oplog'[pull[p].from] = oplog[pull[p].from]
      BY <1>2, <1>3, <1>4, <1>5 DEF Entering, TypeOK
    <3> QED
      BY <1>0, <1>1, <2>1, <3>1, HandledSound
  <2>2. CASE m # p
    <3>1. x \in PullType /\ PullSound(m, x)
      BY <1>1, <1>5, <2>2 DEF LogInv, PullsSound, TypeOK
    <3> QED
      BY <1>4, <1>5, <3>1, PullKept
  <2> QED
    BY <2>1, <2>2
<1>12. MarksSound'
  BY <1>1, <1>4, <1>5, MarksKept DEF LogInv
<1> QED
  BY <1>6, <1>7, <1>8, <1>9, <1>10, <1>11, <1>12 DEF LogInv

\* The cursor a pull acknowledges is one it covers.
LEMMA AcknowledgeLog ==
    ASSUME SlowRestart, LogInv, [Next]_vars, NEW p \in Node, Acknowledge(p)
    PROVE  LogInv'
<1>1. /\ UNCHANGED <<oplog, minted, call>>
      /\ mark' = [mark EXCEPT ![p][pull[p].from] = pull[p].last]
      /\ pull'[p] = NoPull /\ \A m \in Node : m # p => pull'[m] = pull[m]
  BY DEF Acknowledge, LogInv, EdgeInv, TypeOK
<1>2. pull[p] # NoPull
  BY DEF Acknowledge, NoPull
<1>3. TypeOK' /\ (Serialized => EdgeInv')
  BY BasicsNext
<1>4. Numbered'
  BY <1>1, NumberedKept DEF LogInv
<1>5. LogSeen' /\ CallsNewest'
  BY <1>1, LogSeenKept, CallsNewestKept
<1>6. ReceivedSeen'
  <2>1. NoPull.pc # "log"
    BY DEF NoPull
  <2> QED
    BY <1>1, <2>1, ReceivedSeenKept
<1>7. PullsSound'
  BY <1>1, PullsQuiet DEF LogInv
<1>8. MarksSound'
  <2> SUFFICES ASSUME NEW m \in Node, NEW s \in Node, m # s
               PROVE  /\ mark'[m][s] = NoMark \/ \E a \in oplog'[s] : mark'[m][s] = Cursor(a)
                      /\ \A a \in oplog'[s] :
                            Placed(s, a) /\ ~Past(a, mark'[m][s]) => a \in oplog'[m]
    BY DEF MarksSound, Known, Covered
  <2>1. CASE m = p /\ s = pull[p].from
    <3>1. mark'[m][s] = pull[p].last
      BY <1>1, <2>1 DEF LogInv, EdgeInv, TypeOK
    <3>2. Known(s, pull[p].last) /\ Covered(p, s, pull[p].last)
      BY <1>2, <2>1 DEF LogInv, PullsSound, PullSound
    <3> QED
      BY <1>1, <2>1, <3>1, <3>2 DEF Known, Covered
  <2>2. CASE ~(m = p /\ s = pull[p].from)
    <3>1. mark'[m][s] = mark[m][s]
      BY <1>1, <2>2 DEF LogInv, EdgeInv, TypeOK
    <3> QED
      BY <1>1, <3>1 DEF LogInv, MarksSound, Known, Covered
  <2> QED
    BY <2>1, <2>2
<1> QED
  BY <1>3, <1>4, <1>5, <1>6, <1>7, <1>8 DEF LogInv

LEMMA LogInvNext == ASSUME SlowRestart, LogInv, [Next]_vars PROVE LogInv'
<1>1. CASE UNCHANGED vars
  BY <1>1, QuietStep DEF vars
<1>2. ASSUME NEW n \in Node, Tick(n) PROVE LogInv'
  BY <1>2, QuietStep DEF Tick
<1>3. ASSUME NEW n \in Node, Restart(n) PROVE LogInv'
  <2>1. \A p \in Node : pull'[p] = pull[p] \/ pull'[p] = NoPull
    BY <1>3 DEF Restart, LogInv, EdgeInv, TypeOK
  <2>2. UNCHANGED <<oplog, mark, minted, call>>
    BY <1>3 DEF Restart
  <2> QED
    BY <2>1, <2>2, QuietStep
<1>4. CASE \E c \in Caller, n \in Node : StartRecord(c, n)
  BY <1>4, StartRecordLog
<1>5. CASE \E c \in Caller, n \in Node, k \in Key : StartRelate(c, n, k)
  BY <1>5, StartRelateLog
<1>6. CASE \E c \in Caller : CallStep(c)
  BY <1>6, CommitRecordLog, UpsertLog, StampOpLog, LogOpLog DEF CallStep
<1>7. CASE \E n \in Node, r \in Id : Forget(n, r) \/ Correct(n, r)
  BY <1>7, ForgetLog, CorrectLog
<1>8. CASE \E p, s \in Node : StartPull(p, s)
  BY <1>8, StartPullLog
<1>9. CASE \E p \in Node : PullStep(p)
  BY <1>9, SkipKnownLog, MaterializeLog, LogAppliedLog, AcknowledgeLog DEF PullStep
<1>10. ASSUME NEW p \in Node, NEW op \in pull[p].todo, Deferred(p, op) PROVE LogInv'
  <2>1. \A m \in Node : pull'[m] = pull[m] \/ pull'[m] = NoPull
    BY <1>10 DEF Deferred, LogInv, EdgeInv, TypeOK
  <2>2. UNCHANGED <<oplog, mark, minted, call>>
    BY <1>10 DEF Deferred
  <2> QED
    BY <2>1, <2>2, QuietStep
<1> QED
  BY <1>1, <1>2, <1>3, <1>4, <1>5, <1>6, <1>7, <1>8, <1>9, <1>10 DEF Next

\* The forgets and corrections a node made, up to a peer's watermark for it, have
\* all arrived at the peer.
OwnForgetsArrive ==
    \A p, s \in Node : \A op \in oplog[s] :
        /\ op.origin = s /\ op.kind \in {"forget", "correct"}
        /\ p # s /\ ~Past(op, mark[p][s])
        => op \in oplog[p]

\* However many databases sync, in whatever pairs, and whatever their threads do
\* at a time: no forget or correction ever enters its node's log behind the
\* watermark a peer has for it (tombstone_inner and correct_with_reembed take the
\* timestamp under the connection).  NothingSkipped says so of every op, and
\* fails for record and relate.
THEOREM MeshForgetsArrive ==
    ASSUME SlowRestart PROVE Spec => []OwnForgetsArrive
<1>1. Init => LogInv
  BY LogInvInit
<1>2. LogInv /\ [Next]_vars => LogInv'
  BY LogInvNext
<1>3. LogInv => OwnForgetsArrive
  BY DEF LogInv, MarksSound, Covered, OwnForgetsArrive, Placed, InOneTransaction
<1> QED
  BY <1>1, <1>2, <1>3, PTL DEF Spec
=============================================================================
