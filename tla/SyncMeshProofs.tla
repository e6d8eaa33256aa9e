--------------------------- MODULE SyncMeshProofs ---------------------------
(***************************************************************************)
(* What holds for any number of databases, syncing in whatever pairs.  A    *)
(* tombstoned row stays so.  And when each node runs one call or pull at a  *)
(* time: no two ops have one timestamp; what a node writes is later than    *)
(* all it has seen; the edge rows of a node at rest are those its log       *)
(* determines; and nodes at rest have the same log and the same edges.  A   *)
(* relayed op may enter a log behind a watermark, but then it arrives from  *)
(* the node that made it.  What needs two nodes, that a forget never comes  *)
(* before its record, is in SyncPairProofs.                                 *)
(***************************************************************************)
EXTENDS SyncProofs

\* An op in a log is in the log of the node that made it.
FromOrigin == \A n \in Node : \A a \in oplog[n] : a \in oplog[a.origin]

\* The last part of an op's timestamp is the node that made it.
StampsOwned ==
    /\ \A n \in Node : \A a \in oplog[n] : a.hlc[3] = a.origin
    /\ \A c \in Caller : call[c].pc \in {"record", "log"} => call[c].hlc[3] = call[c].node

\* A node's own ops differ in their timestamps.
StampsApart ==
    \A m \in Node : \A a, b \in oplog[m] :
        a.origin = m /\ b.origin = m /\ a.hlc = b.hlc => a = b

RecordsNamed == \A n \in Node : \A a \in oplog[n] : a.kind = "record" => a.on = a.id

\* What every op in a log has done to the rows of the node, however late it came.
Applied(n, a) ==
    /\ a.kind = "record" => mem[n][a.on] # "absent"
    /\ a.kind = "relate" => ~Before(edges[n][a.on], a.edge)

LogInRows == \A n \in Node : \A a \in oplog[n] : Applied(n, a)

ReceivedInRows ==
    \A p \in Node : pull[p].pc = "log" =>
        \A op \in pull[p].todo : IsFirst(op, pull[p].todo) => Applied(p, op)

CallsInRows ==
    \A c \in Caller : call[c].pc \in {"stamp", "log"} =>
        ~Before(edges[call[c].node][call[c].on], call[c].edge)

\* Some node made an op of this kind on x with this edge.
Made(kind, x, edge) ==
    \E m \in Node : \E a \in oplog[m] :
        a.origin = m /\ a.kind = kind /\ a.on = x /\ a.edge = edge

RowsMade ==
    \A n \in Node, r \in Id :
        /\ mem[n][r] # "absent" => Made("record", r, Zero)
        /\ mem[n][r] = "tombstoned" => Made("forget", r, Zero)

EdgesMade ==
    \A n \in Node, k \in Key :
        \/ edges[n][k] = Zero
        \/ Made("relate", k, edges[n][k])
        \/ \E c \in Caller :
              /\ call[c].pc \in {"stamp", "log"}
              /\ call[c].node = n /\ call[c].on = k /\ call[c].edge = edges[n][k]

\* Where rows and ops come from, however many calls a node runs at a time.
MadeInv == LogInv /\ FromOrigin /\ RecordsNamed /\ RowsMade

MeshInv ==
    /\ Serialized /\ LogInv /\ FromOrigin /\ StampsOwned /\ StampsApart /\ RecordsNamed
    /\ LogInRows /\ ReceivedInRows /\ CallsInRows /\ RowsMade /\ EdgesMade

LEMMA MeshInvMade == ASSUME MeshInv PROVE MadeInv
  BY DEF MeshInv, MadeInv

LEMMA MadeInvInit == Init => MadeInv
<1> SUFFICES ASSUME Init PROVE MadeInv
  OBVIOUS
<1>1. LogInv
  BY LogInvInit
<1>2. RecordsNamed /\ FromOrigin /\ RowsMade
  BY DEF Init, RecordsNamed, FromOrigin, RowsMade
<1> QED
  BY <1>1, <1>2 DEF MadeInv

LEMMA MeshInvInit == ASSUME Serialized PROVE Init => MeshInv
<1> SUFFICES ASSUME Init PROVE MeshInv
  OBVIOUS
<1>1. MadeInv
  BY MadeInvInit
<1>2. LogInRows /\ StampsApart /\ EdgesMade
  BY DEF Init, LogInRows, StampsApart, EdgesMade
<1>3. ReceivedInRows /\ CallsInRows /\ StampsOwned
  BY DEF Init, NoPull, NoCall, ReceivedInRows, CallsInRows, StampsOwned
<1> QED
  BY <1>1, <1>2, <1>3 DEF MadeInv, MeshInv

\* What a step adds to a log.
LEMMA WhatEnters ==
    ASSUME MadeInv, [Next]_vars, NEW n \in Node, NEW a \in oplog'[n]
    PROVE  \/ a \in oplog[n]
           \/ \E c \in Caller :
                 /\ CommitRecord(c) /\ call[c].node = n
                 /\ a = OpOf(call[c].id, "record", call[c].id, Zero, call[c].hlc, n)
           \/ \E c \in Caller :
                 /\ LogOp(c) /\ call[c].node = n
                 /\ a = OpOf(call[c].id, "relate", call[c].on, call[c].edge, call[c].hlc, n)
           \/ \E r \in Id :
                 Forget(n, r) /\ a = OpOf(minted + 1, "forget", r, Zero, Now(n), n)
           \/ \E r \in Id, num \in Id :
                 Correct(n, r) /\ a = CorrectOf(minted + 1, r, num, Now(n), n)
           \/ a \in pull[n].todo /\ LogApplied(n, a)
<1>1. oplog \in [Node -> SUBSET Op]
  BY DEF MadeInv, LogInv, EdgeInv, TypeOK
<1>2. CASE oplog' = oplog
  BY <1>2
<1>3. ASSUME NEW c \in Caller, CommitRecord(c), a \notin oplog[n]
      PROVE  /\ call[c].node = n
             /\ a = OpOf(call[c].id, "record", call[c].id, Zero, call[c].hlc, n)
  BY <1>1, <1>3 DEF CommitRecord
<1>4. ASSUME NEW c \in Caller, LogOp(c), a \notin oplog[n]
      PROVE  /\ call[c].node = n
             /\ a = OpOf(call[c].id, "relate", call[c].on, call[c].edge, call[c].hlc, n)
  BY <1>1, <1>4 DEF LogOp
<1>5. ASSUME NEW m \in Node, NEW r \in Id, Forget(m, r), a \notin oplog[n]
      PROVE  m = n /\ a = OpOf(minted + 1, "forget", r, Zero, Now(n), n)
  BY <1>1, <1>5 DEF Forget
<1>6. ASSUME NEW p \in Node, NEW op \in pull[p].todo, LogApplied(p, op), a \notin oplog[n]
      PROVE  p = n /\ a = op
  BY <1>1, <1>6 DEF LogApplied
<1>8. ASSUME NEW m \in Node, NEW r \in Id, Correct(m, r), a \notin oplog[n]
      PROVE  m = n /\ \E num \in Id : a = CorrectOf(minted + 1, r, num, Now(n), n)
  <2>1. PICK num \in Id :
           oplog' = [oplog EXCEPT ![m] = @ \cup {CorrectOf(minted + 1, r, num, Now(m), m)}]
    BY <1>8 DEF Correct
  <2> QED
    BY <1>1, <1>8, <2>1
<1>7. \/ oplog' = oplog
      \/ \E c \in Caller : CommitRecord(c) \/ LogOp(c)
      \/ \E m \in Node, r \in Id : Forget(m, r) \/ Correct(m, r)
      \/ \E p \in Node : \E op \in pull[p].todo : LogApplied(p, op)
  <2>1. CASE UNCHANGED vars
    BY <2>1 DEF vars
  <2>2. CASE Next
    BY <2>2 DEF Next, Tick, Restart, StartRecord, StartRelate, CallStep, Upsert, StampOp,
                StartPull, PullStep, SkipKnown, Materialize, Acknowledge, Deferred
  <2> QED
    BY <2>1, <2>2
<1> QED
  BY <1>2, <1>3, <1>4, <1>5, <1>6, <1>7, <1>8

LEMMA LogsGrow ==
    ASSUME MadeInv, [Next]_vars PROVE \A n \in Node : oplog[n] \subseteq oplog'[n]
<1>1. oplog \in [Node -> SUBSET Op]
  BY DEF MadeInv, LogInv, EdgeInv, TypeOK
<1>2. CASE UNCHANGED vars
  BY <1>2 DEF vars
<1>3. ASSUME NEW m \in Node, NEW r \in Id, Correct(m, r)
      PROVE  \A n \in Node : oplog[n] \subseteq oplog'[n]
  <2>1. PICK num \in Id :
           oplog' = [oplog EXCEPT ![m] = @ \cup {CorrectOf(minted + 1, r, num, Now(m), m)}]
    BY <1>3 DEF Correct
  <2> QED
    BY <1>1, <2>1
<1>4. ASSUME NEW c \in Caller, CommitRecord(c) \/ LogOp(c)
      PROVE  \A n \in Node : oplog[n] \subseteq oplog'[n]
  BY <1>1, <1>4 DEF CommitRecord, LogOp
<1>5. ASSUME NEW m \in Node, NEW r \in Id, Forget(m, r)
      PROVE  \A n \in Node : oplog[n] \subseteq oplog'[n]
  BY <1>1, <1>5 DEF Forget
<1>6. ASSUME NEW p \in Node, NEW op \in pull[p].todo, LogApplied(p, op)
      PROVE  \A n \in Node : oplog[n] \subseteq oplog'[n]
  BY <1>1, <1>6 DEF LogApplied
<1>7. CASE oplog' = oplog
  BY <1>7
<1>8. CASE \E c \in Caller : CallStep(c)
  BY <1>4, <1>7, <1>8 DEF CallStep, Upsert, StampOp
<1>9. CASE \E p \in Node : PullStep(p)
  BY <1>6, <1>7, <1>9 DEF PullStep, SkipKnown, Materialize, Acknowledge
<1>10. CASE \/ \E n \in Node : Tick(n) \/ Restart(n)
            \/ \E c \in Caller, n \in Node : StartRecord(c, n)
            \/ \E c \in Caller, n \in Node, k \in Key : StartRelate(c, n, k)
            \/ \E p, s \in Node : StartPull(p, s)
            \/ \E p \in Node : \E op \in pull[p].todo : Deferred(p, op)
  BY <1>7, <1>10 DEF Tick, Restart, StartRecord, StartRelate, StartPull, Deferred
<1> QED
  BY <1>2, <1>3, <1>5, <1>8, <1>9, <1>10 DEF Next

\* A step adds one op to a log, if any.
LEMMA OneEnters ==
    ASSUME MadeInv, [Next]_vars, NEW n \in Node,
           NEW a \in oplog'[n], NEW b \in oplog'[n], a \notin oplog[n], b \notin oplog[n]
    PROVE  a = b
<1>1. oplog \in [Node -> SUBSET Op]
  BY DEF MadeInv, LogInv, EdgeInv, TypeOK
<1>2. ASSUME NEW m \in Node, NEW op, oplog' = [oplog EXCEPT ![m] = @ \cup {op}] PROVE a = b
  BY <1>1, <1>2
<1>3. ASSUME NEW c \in Caller, CommitRecord(c) \/ LogOp(c) PROVE a = b
  BY <1>1, <1>3 DEF CommitRecord, LogOp
<1>4. ASSUME NEW m \in Node, NEW r \in Id, Forget(m, r) \/ Correct(m, r) PROVE a = b
  BY <1>2, <1>4 DEF Forget, Correct
<1>5. ASSUME NEW p \in Node, NEW op \in pull[p].todo, LogApplied(p, op) PROVE a = b
  BY <1>2, <1>5 DEF LogApplied
<1>6. \/ oplog' = oplog
      \/ \E c \in Caller : CommitRecord(c) \/ LogOp(c)
      \/ \E m \in Node, r \in Id : Forget(m, r) \/ Correct(m, r)
      \/ \E p \in Node : \E op \in pull[p].todo : LogApplied(p, op)
  <2>1. CASE UNCHANGED vars
    BY <2>1 DEF vars
  <2>2. CASE Next
    BY <2>2 DEF Next, Tick, Restart, StartRecord, StartRelate, CallStep, Upsert, StampOp,
                StartPull, PullStep, SkipKnown, Materialize, Acknowledge, Deferred
  <2> QED
    BY <2>1, <2>2
<1> QED
  BY <1>3, <1>4, <1>5, <1>6

\* The op a pull is at was made by a third node or by its source, which has it.
LEMMA PulledFrom ==
    ASSUME MadeInv, NEW p \in Node, NEW op \in pull[p].todo
    PROVE  /\ op \in Op /\ pull[p] # NoPull /\ pull[p].from \in Node /\ pull[p].from # p
           /\ op \in oplog[pull[p].from]
           /\ op.origin \in Node /\ op.origin # p /\ op \in oplog[op.origin]
<1>1. op \in Op /\ pull[p] # NoPull /\ pull[p].from \in Node
  BY HandledTyped, PullFields DEF MadeInv, LogInv, EdgeInv
<1>2. pull[p].from # p /\ op \in oplog[pull[p].from] /\ op.origin # p
  BY <1>1 DEF MadeInv, LogInv, PullsSound, PullSound, Prefix
<1>3. op.origin \in Node
  BY <1>1 DEF Op
<1> QED
  BY <1>1, <1>2, <1>3 DEF MadeInv, FromOrigin

\* What a node makes is newer than all it has.
LEMMA OwnIsNewest ==
    ASSUME MeshInv, [Next]_vars, NEW n \in Node, NEW a \in oplog'[n],
           a \notin oplog[n], a.origin = n
    PROVE  a \in Op /\ Newest(n, a.hlc)
<1>1. LogInv /\ Serialized
  BY DEF MeshInv
<1>2. ASSUME NEW c \in Caller, CommitRecord(c), call[c].node = n,
             a = OpOf(call[c].id, "record", call[c].id, Zero, call[c].hlc, n)
      PROVE  a \in Op /\ Newest(n, a.hlc)
  BY <1>1, <1>2, CommitEnters DEF Entering, Placed, OpOf
<1>3. ASSUME NEW c \in Caller, LogOp(c), call[c].node = n,
             a = OpOf(call[c].id, "relate", call[c].on, call[c].edge, call[c].hlc, n)
      PROVE  a \in Op /\ Newest(n, a.hlc)
  BY <1>1, <1>3, LogOpEnters DEF Entering, Placed, OpOf
<1>4. ASSUME NEW r \in Id, Forget(n, r), a = OpOf(minted + 1, "forget", r, Zero, Now(n), n)
      PROVE  a \in Op /\ Newest(n, a.hlc)
  BY <1>1, <1>4, ForgetEnters DEF Entering, Placed, OpOf
<1>5. ASSUME NEW r \in Id, NEW num \in Id, Correct(n, r),
             a = CorrectOf(minted + 1, r, num, Now(n), n)
      PROVE  a \in Op /\ Newest(n, a.hlc)
  <2>1. minted + 1 \in Id
    BY <1>1, <1>5, SyncAssumption DEF Correct, LogInv, EdgeInv, TypeOK, Id
  <2>2. a \in Op /\ a.hlc = Now(n)
    BY <1>1, <1>5, <2>1, NowIsNewest, OpTyped DEF CorrectOf
  <2> QED
    BY <1>1, <2>2, NowIsNewest
<1>6. a \notin pull[n].todo
  BY MeshInvMade, PulledFrom
<1> QED
  BY MeshInvMade, <1>2, <1>3, <1>4, <1>5, <1>6, WhatEnters

LEMMA MadeKept ==
    ASSUME MadeInv, [Next]_vars
    PROVE  \A kind, x, edge : Made(kind, x, edge) => Made(kind, x, edge)'
<1> SUFFICES ASSUME NEW kind, NEW x, NEW edge, Made(kind, x, edge)
             PROVE  Made(kind, x, edge)'
  OBVIOUS
<1> QED
  BY LogsGrow DEF Made

LEMMA FromOriginStep ==
    ASSUME MadeInv, [Next]_vars PROVE FromOrigin'
<1> SUFFICES ASSUME NEW n \in Node, NEW a \in oplog'[n] PROVE a \in oplog'[a.origin]
  BY DEF FromOrigin
<1>1. MadeInv
  BY DEF MadeInv
<1>2. CASE a \in oplog[n]
  <2>1. a \in Op /\ a \in oplog[a.origin]
    BY <1>1, <1>2 DEF MadeInv, FromOrigin, MadeInv, LogInv, EdgeInv, TypeOK
  <2>2. a.origin \in Node
    BY <2>1 DEF Op
  <2> QED
    BY <1>1, <2>1, <2>2, LogsGrow
<1>3. CASE a \in pull[n].todo
  <2>1. a.origin \in Node /\ a \in oplog[a.origin]
    BY <1>1, <1>3, PulledFrom
  <2> QED
    BY <1>1, <2>1, LogsGrow
<1>4. CASE a.origin = n
  BY <1>4
<1> QED
  BY <1>1, <1>2, <1>3, <1>4, WhatEnters DEF OpOf, CorrectOf

\* A call carries the stamp of its own node.
LEMMA CallStamped ==
    ASSUME MeshInv, [Next]_vars, NEW c \in Caller, call'[c].pc \in {"record", "log"}
    PROVE  call'[c].hlc[3] = call'[c].node
<1>1. call \in [Caller -> CallType]
  BY DEF MeshInv, LogInv, EdgeInv, TypeOK
<1>2. ASSUME NEW n \in Node PROVE Now(n)[3] = n
  BY DEF Now
<1>3. CASE call'[c] = call[c]
  BY <1>3 DEF MeshInv, StampsOwned
<1>4. ASSUME NEW d \in Caller, NEW n \in Node, StartRecord(d, n)
      PROVE  call'[c].hlc[3] = call'[c].node
  <2>1. CASE d = c
    <3>1. call'[c] = [pc |-> "record", node |-> n, id |-> minted + 1, hlc |-> Now(n)]
      BY <1>1, <1>4, <2>1 DEF StartRecord
    <3> QED
      BY <1>2, <3>1
  <2>2. CASE d # c
    BY <1>1, <1>3, <1>4, <2>2 DEF StartRecord
  <2> QED
    BY <2>1, <2>2
<1>5. ASSUME NEW d \in Caller, NEW n \in Node, NEW k \in Key, StartRelate(d, n, k)
      PROVE  call'[c].hlc[3] = call'[c].node
  BY <1>1, <1>3, <1>5 DEF StartRelate
<1>6. ASSUME NEW d \in Caller, CommitRecord(d) \/ LogOp(d)
      PROVE  call'[c].hlc[3] = call'[c].node
  BY <1>1, <1>3, <1>6 DEF CommitRecord, LogOp, NoCall
<1>7. ASSUME NEW d \in Caller, Upsert(d)
      PROVE  call'[c].hlc[3] = call'[c].node
  <2>1. CASE d = c
    <3>1. call[c] # NoCall /\ call[c].pc = "upsert"
      BY <1>7, <2>1 DEF Upsert, NoCall
    <3>2. call[c] \in [pc : {"upsert", "stamp"}, node : Node, id : Id, on : Key, edge : Stamp]
      BY <1>1, <3>1 DEF CallType
    <3>3. call'[c] = [call[c] EXCEPT !.pc = "stamp"]
      BY <1>1, <1>7, <2>1 DEF Upsert
    <3> QED
      BY <3>2, <3>3
  <2>2. CASE d # c
    BY <1>1, <1>3, <1>7, <2>2 DEF Upsert
  <2> QED
    BY <2>1, <2>2
<1>8. ASSUME NEW d \in Caller, StampOp(d)
      PROVE  call'[c].hlc[3] = call'[c].node
  <2>1. CASE d = c
    <3>1. call[c] # NoCall /\ call[c].pc = "stamp"
      BY <1>8, <2>1 DEF StampOp, NoCall
    <3>2. call[c].node \in Node
      BY <3>1, CallFields DEF MeshInv, LogInv, EdgeInv
    <3>3. call'[c].node = call[c].node /\ call'[c].hlc = Now(call[c].node)
      BY <1>1, <1>8, <2>1 DEF StampOp
    <3> QED
      BY <1>2, <3>2, <3>3
  <2>2. CASE d # c
    BY <1>1, <1>3, <1>8, <2>2 DEF StampOp
  <2> QED
    BY <2>1, <2>2
<1>9. CASE UNCHANGED call
  BY <1>3, <1>9
<1>10. \/ UNCHANGED call
       \/ \E d \in Caller, n \in Node : StartRecord(d, n)
       \/ \E d \in Caller, n \in Node, k \in Key : StartRelate(d, n, k)
       \/ \E d \in Caller : CallStep(d)
  <2>1. CASE UNCHANGED vars
    BY <2>1 DEF vars
  <2>2. CASE Next
    BY <2>2 DEF Next, Tick, Restart, Forget, Correct, StartPull, PullStep, SkipKnown,
                Materialize, LogApplied, Acknowledge, Deferred
  <2> QED
    BY <2>1, <2>2
<1> QED
  BY <1>4, <1>5, <1>6, <1>7, <1>8, <1>9, <1>10 DEF CallStep

LEMMA StampsOwnedStep ==
    ASSUME MeshInv, [Next]_vars PROVE StampsOwned'
<1> SUFFICES ASSUME NEW n \in Node, NEW a \in oplog'[n] PROVE a.hlc[3] = a.origin
  BY CallStamped DEF StampsOwned
<1>1. CASE a \in oplog[n]
  BY <1>1 DEF MeshInv, StampsOwned
<1>2. ASSUME NEW c \in Caller, CommitRecord(c), call[c].node = n,
             a = OpOf(call[c].id, "record", call[c].id, Zero, call[c].hlc, n)
      PROVE  a.hlc[3] = a.origin
  BY <1>2 DEF MeshInv, StampsOwned, CommitRecord, OpOf
<1>3. ASSUME NEW c \in Caller, LogOp(c), call[c].node = n,
             a = OpOf(call[c].id, "relate", call[c].on, call[c].edge, call[c].hlc, n)
      PROVE  a.hlc[3] = a.origin
  BY <1>3 DEF MeshInv, StampsOwned, LogOp, OpOf
<1>4. CASE a.hlc = Now(n) /\ a.origin = n
  BY <1>4 DEF Now
<1>5. CASE a \in pull[n].todo
  BY MeshInvMade, <1>5, PulledFrom DEF MeshInv, StampsOwned
<1> QED
  BY MeshInvMade, <1>1, <1>2, <1>3, <1>4, <1>5, WhatEnters DEF OpOf, CorrectOf

LEMMA StampsApartStep ==
    ASSUME MeshInv, [Next]_vars PROVE StampsApart'
<1> SUFFICES ASSUME NEW m \in Node, NEW a \in oplog'[m], NEW b \in oplog'[m],
                    a.origin = m, b.origin = m, a.hlc = b.hlc
             PROVE  a = b
  BY DEF StampsApart
<1>1. ASSUME NEW x \in oplog'[m], NEW y \in oplog[m], x \notin oplog[m], x.origin = m
      PROVE  x.hlc # y.hlc
  <2>1. x \in Op /\ Before(y.hlc, x.hlc)
    BY <1>1, OwnIsNewest DEF Newest
  <2>2. x.hlc[1] \in Nat /\ x.hlc[2] \in Nat /\ x.hlc[3] \in Nat
    BY <2>1, OpFields, StampIsTriple DEF Triple
  <2> QED
    BY <2>1, <2>2 DEF Before
<1>2. CASE a \in oplog[m] /\ b \in oplog[m]
  BY <1>2 DEF MeshInv, StampsApart
<1>3. CASE a \notin oplog[m] /\ b \notin oplog[m]
  BY MeshInvMade, <1>3, OneEnters
<1> QED
  BY <1>1, <1>2, <1>3

LEMMA RecordsNamedStep ==
    ASSUME MadeInv, [Next]_vars PROVE RecordsNamed'
<1> SUFFICES ASSUME NEW n \in Node, NEW a \in oplog'[n], a.kind = "record"
             PROVE  a.on = a.id
  BY DEF RecordsNamed
<1>1. CASE a \in oplog[n]
  BY <1>1 DEF MadeInv, RecordsNamed
<1>2. CASE a \in pull[n].todo
  BY <1>2, PulledFrom DEF MadeInv, RecordsNamed
<1> QED
  BY <1>1, <1>2, WhatEnters DEF OpOf, CorrectOf

\* The memory of a record that commits is not in the table yet.
LEMMA CommitFindsNone ==
    ASSUME MadeInv, NEW c \in Caller, CommitRecord(c)
    PROVE  /\ call[c].node \in Node /\ call[c].id \in Id
           /\ mem[call[c].node][call[c].id] = "absent"
<1>1. call[c] # NoCall /\ call[c].node \in Node /\ call[c].id \in Id
  BY CallLogs DEF CommitRecord, MadeInv
<1>2. ~Made("record", call[c].id, Zero)
  <2> SUFFICES ASSUME NEW m \in Node, NEW a \in oplog[m], a.kind = "record", a.on = call[c].id
               PROVE  FALSE
    BY DEF Made
  <2>1. a.id = call[c].id
    BY DEF MadeInv, RecordsNamed
  <2> QED
    BY <1>1, <2>1 DEF MadeInv, LogInv, Numbered
<1> QED
  BY <1>1, <1>2 DEF MadeInv, RowsMade

\* A memory's row never goes back.
LEMMA RowsForward ==
    ASSUME MadeInv, [Next]_vars
    PROVE  \A n \in Node, r \in Id :
              /\ mem[n][r] # "absent" => mem'[n][r] # "absent"
              /\ mem[n][r] = "tombstoned" => mem'[n][r] = "tombstoned"
<1> SUFFICES ASSUME NEW n \in Node, NEW r \in Id
             PROVE  /\ mem[n][r] # "absent" => mem'[n][r] # "absent"
                    /\ mem[n][r] = "tombstoned" => mem'[n][r] = "tombstoned"
  OBVIOUS
<1>1. mem \in [Node -> [Id -> {"absent", "active", "tombstoned"}]]
  BY DEF MadeInv, LogInv, EdgeInv, TypeOK
<1>2. CASE mem' = mem
  BY <1>2
<1>3. ASSUME NEW c \in Caller, CommitRecord(c)
      PROVE  /\ mem[n][r] # "absent" => mem'[n][r] # "absent"
             /\ mem[n][r] = "tombstoned" => mem'[n][r] = "tombstoned"
  <2>1. /\ call[c].node \in Node /\ call[c].id \in Id
        /\ mem[call[c].node][call[c].id] = "absent"
    BY <1>3, CommitFindsNone
  <2>2. mem' = [mem EXCEPT ![call[c].node][call[c].id] = "active"]
    BY <1>3 DEF CommitRecord
  <2>3. CASE n = call[c].node /\ r = call[c].id
    BY <2>1, <2>3
  <2>4. CASE ~(n = call[c].node /\ r = call[c].id)
    BY <1>1, <2>1, <2>2, <2>4
  <2> QED
    BY <2>3, <2>4
<1>4. ASSUME NEW m \in Node, NEW x \in Id, Forget(m, x)
      PROVE  /\ mem[n][r] # "absent" => mem'[n][r] # "absent"
             /\ mem[n][r] = "tombstoned" => mem'[n][r] = "tombstoned"
  BY <1>1, <1>4 DEF Forget
<1>5. ASSUME NEW p \in Node, NEW op \in pull[p].todo, Materialize(p, op)
      PROVE  /\ mem[n][r] # "absent" => mem'[n][r] # "absent"
             /\ mem[n][r] = "tombstoned" => mem'[n][r] = "tombstoned"
  <2>1. op \in Op
    BY HandledTyped DEF MadeInv, LogInv, EdgeInv
  <2>2. CASE op.kind \notin {"record", "forget"}
    BY <1>5, <2>2 DEF Materialize
  <2>3. CASE op.kind \in {"record", "forget"}
    <3>1. op.on \in Id /\ mem' = [mem EXCEPT ![p][op.on] = Materialized(@, op)]
      BY <1>5, <2>1, <2>3, OpFields DEF Materialize
    <3>2. CASE n = p /\ r = op.on
      <4>1. mem'[n][r] = Materialized(mem[n][r], op)
        BY <1>1, <3>1, <3>2
      <4> QED
        BY <4>1 DEF Materialized
    <3>3. CASE ~(n = p /\ r = op.on)
      BY <1>1, <3>1, <3>3
    <3> QED
      BY <3>2, <3>3
  <2> QED
    BY <2>2, <2>3
<1>6. \/ mem' = mem
      \/ \E c \in Caller : CommitRecord(c)
      \/ \E m \in Node, x \in Id : Forget(m, x)
      \/ \E p \in Node : \E op \in pull[p].todo : Materialize(p, op)
  <2>1. CASE UNCHANGED vars
    BY <2>1 DEF vars
  <2>2. CASE Next
    BY <2>2 DEF Next, Tick, Restart, StartRecord, StartRelate, CallStep, Upsert, StampOp,
                LogOp, Correct, StartPull, PullStep, SkipKnown, LogApplied, Acknowledge,
                Deferred
  <2> QED
    BY <2>1, <2>2
<1> QED
  BY <1>2, <1>3, <1>4, <1>5, <1>6

\* An op applied to the rows stays applied.
LEMMA AppliedKept ==
    ASSUME MeshInv, [Next]_vars, NEW n \in Node, NEW a \in Op, Applied(n, a)
    PROVE  Applied(n, a)'
<1>1. CASE a.kind = "relate"
  <2>1. a.on \in Key /\ a.edge \in Stamp \cup {Zero}
    BY <1>1, OpFields
  <2>2. edges[n][a.on] \in Stamp \cup {Zero} /\ ~Before(edges'[n][a.on], edges[n][a.on])
    BY <2>1, EdgeStep DEF MeshInv, LogInv, EdgeInv, TypeOK
  <2>3. edges'[n][a.on] \in Stamp \cup {Zero}
    BY <2>1, TypeNext DEF MeshInv, LogInv, EdgeInv, TypeOK
  <2>4. ~Before(edges'[n][a.on], a.edge)
    BY <1>1, <2>1, <2>2, <2>3, StampIsTriple, BeforeOrder DEF Applied
  <2> QED
    BY <1>1, <2>4 DEF Applied
<1>2. CASE a.kind # "relate"
  <2>1. a.on \in Id
    BY <1>2, OpFields
  <2> QED
    BY MeshInvMade, <1>2, <2>1, RowsForward DEF Applied
<1> QED
  BY <1>1, <1>2

\* A pull about to log an op was so already, or has just applied that op.
LEMMA LoggingPull ==
    ASSUME MeshInv, [Next]_vars, NEW p \in Node, pull'[p].pc = "log",
           NEW op \in pull'[p].todo, IsFirst(op, pull'[p].todo)
    PROVE  op \in pull[p].todo /\ (pull'[p] = pull[p] \/ Materialize(p, op))
<1>1. CASE pull'[p] = pull[p]
  BY <1>1
<1>2. ASSUME NEW o \in pull[p].todo, Materialize(p, o) PROVE op = o
  <2>1. pull[p] # NoPull
    BY MeshInvMade, PulledFrom
  <2>2. pull'[p].todo = pull[p].todo
    BY <1>2, <2>1, PullFields DEF Materialize, MeshInv, LogInv, EdgeInv, TypeOK
  <2> SUFFICES ASSUME op # o PROVE FALSE
    OBVIOUS
  <2>3. Past(op, Cursor(o)) /\ Past(o, Cursor(op)) /\ op \in Op /\ o \in Op
    BY MeshInvMade, <1>2, <2>2, PulledFrom DEF Materialize, NextOp, IsFirst
  <2> QED
    BY <2>3, PastAsymmetric
<1>3. \/ pull'[p] = pull[p]
      \/ \E o \in pull[p].todo : Materialize(p, o)
  <2>1. pull \in [Node -> PullType]
    BY DEF MeshInv, LogInv, EdgeInv, TypeOK
  <2>2. CASE UNCHANGED vars
    BY <2>2 DEF vars
  <2>3. ASSUME NEW m \in Node, Restart(m) PROVE pull'[p] = pull[p]
    BY <2>1, <2>3 DEF Restart, NoPull
  <2>4. ASSUME NEW m \in Node, NEW s \in Node, StartPull(m, s) PROVE pull'[p] = pull[p]
    BY <2>1, <2>4 DEF StartPull
  <2>5. ASSUME NEW m \in Node, NEW o \in pull[m].todo, SkipKnown(m, o) \/ LogApplied(m, o)
        PROVE  pull'[p] = pull[p]
    BY <2>1, <2>5 DEF SkipKnown, LogApplied, Handled
  <2>6. ASSUME NEW m \in Node, Acknowledge(m) PROVE pull'[p] = pull[p]
    BY <2>1, <2>6 DEF Acknowledge, NoPull
  <2>7. ASSUME NEW m \in Node, NEW o \in pull[m].todo, Materialize(m, o), m # p
        PROVE  pull'[p] = pull[p]
    BY <2>1, <2>7 DEF Materialize
  <2>8. ASSUME NEW m \in Node,
               \/ Tick(m)
               \/ \E c \in Caller : StartRecord(c, m)
               \/ \E c \in Caller, k \in Key : StartRelate(c, m, k)
               \/ \E r \in Id : Forget(m, r) \/ Correct(m, r)
        PROVE  pull'[p] = pull[p]
    BY <2>8 DEF Tick, StartRecord, StartRelate, Forget, Correct
  <2>9. ASSUME NEW c \in Caller, CallStep(c) PROVE pull'[p] = pull[p]
    BY <2>9 DEF CallStep, CommitRecord, Upsert, StampOp, LogOp
  <2>10. ASSUME NEW m \in Node, NEW o \in pull[m].todo, Deferred(m, o)
         PROVE  pull'[p] = pull[p]
    BY <2>1, <2>10 DEF Deferred, NoPull
  <2> QED
    BY <2>2, <2>3, <2>4, <2>5, <2>6, <2>7, <2>8, <2>9, <2>10 DEF Next, PullStep
<1> QED
  BY <1>1, <1>2, <1>3

LEMMA MaterializeApplies ==
    ASSUME MeshInv, [Next]_vars,
           NEW p \in Node, NEW op \in pull[p].todo, Materialize(p, op)
    PROVE  Applied(p, op)'
<1>1. op \in Op /\ IsFirst(op, pull[p].todo)
  BY MeshInvMade, PulledFrom DEF Materialize, NextOp
<1>2. CASE op.kind = "relate"
  <2>1. op.on \in Key /\ op.edge \in Stamp \cup {Zero}
    BY <1>1, <1>2, OpFields
  <2>2. edges' = [edges EXCEPT ![p][op.on] = Related(@, op)]
    BY <1>2 DEF Materialize
  <2>3. edges'[p][op.on] = Related(edges[p][op.on], op)
    BY <2>1, <2>2 DEF MeshInv, LogInv, EdgeInv, TypeOK
  <2>4. ~Before(op.edge, op.edge)
    BY <2>1, StampIsTriple DEF Before, Triple
  <2> QED
    BY <1>2, <2>3, <2>4 DEF Related, Newer, Applied
<1>3. CASE op.kind \in {"record", "forget"}
  <2>1. op.on \in Id /\ mem' = [mem EXCEPT ![p][op.on] = Materialized(@, op)]
    BY <1>1, <1>3, OpFields DEF Materialize
  <2>2. mem'[p][op.on] = Materialized(mem[p][op.on], op)
    BY <2>1 DEF MeshInv, LogInv, EdgeInv, TypeOK
  <2> QED
    BY <1>3, <2>2 DEF Materialized, Applied
<1>4. CASE op.kind = "correct"
  BY <1>4 DEF Applied
<1> QED
  BY <1>1, <1>2, <1>3, <1>4, OpFields

LEMMA LogInRowsStep ==
    ASSUME MeshInv, [Next]_vars PROVE LogInRows'
<1> SUFFICES ASSUME NEW n \in Node, NEW a \in oplog'[n] PROVE Applied(n, a)'
  BY DEF LogInRows
<1>1. CASE a \in oplog[n]
  <2>1. a \in Op /\ Applied(n, a)
    BY <1>1 DEF MeshInv, LogInv, EdgeInv, TypeOK, LogInRows
  <2> QED
    BY <2>1, AppliedKept
<1>2. ASSUME NEW c \in Caller, CommitRecord(c), call[c].node = n,
             a = OpOf(call[c].id, "record", call[c].id, Zero, call[c].hlc, n)
      PROVE  Applied(n, a)'
  <2>1. call[c].id \in Id /\ a.kind = "record" /\ a.on = call[c].id
    BY MeshInvMade, <1>2, CommitFindsNone DEF OpOf
  <2>2. mem'[n][a.on] = "active"
    BY <1>2, <2>1 DEF CommitRecord, MeshInv, LogInv, EdgeInv, TypeOK
  <2> QED
    BY <2>1, <2>2 DEF Applied
<1>3. ASSUME NEW c \in Caller, LogOp(c), call[c].node = n,
             a = OpOf(call[c].id, "relate", call[c].on, call[c].edge, call[c].hlc, n)
      PROVE  Applied(n, a)'
  <2>1. a.kind = "relate" /\ a.on = call[c].on /\ a.edge = call[c].edge
    BY <1>3 DEF OpOf
  <2>2. ~Before(edges[n][call[c].on], call[c].edge) /\ edges' = edges
    BY <1>3 DEF LogOp, MeshInv, CallsInRows
  <2> QED
    BY <2>1, <2>2 DEF Applied
<1>4. CASE a.kind \in {"forget", "correct"}
  BY <1>4 DEF Applied
<1>5. CASE a \in pull[n].todo /\ LogApplied(n, a)
  <2>1. a \in Op /\ Applied(n, a)
    BY MeshInvMade, <1>5, PulledFrom DEF LogApplied, MeshInv, ReceivedInRows
  <2> QED
    BY <2>1, AppliedKept
<1> QED
  BY MeshInvMade, <1>1, <1>2, <1>3, <1>4, <1>5, WhatEnters DEF OpOf, CorrectOf

LEMMA ReceivedInRowsStep ==
    ASSUME MeshInv, [Next]_vars PROVE ReceivedInRows'
<1> SUFFICES ASSUME NEW p \in Node, pull'[p].pc = "log", NEW op \in pull'[p].todo,
                    IsFirst(op, pull'[p].todo)
             PROVE  Applied(p, op)'
  BY DEF ReceivedInRows
<1>1. op \in pull[p].todo /\ op \in Op
  BY MeshInvMade, LoggingPull, PulledFrom
<1>2. CASE pull'[p] = pull[p]
  <2>1. Applied(p, op)
    BY <1>2 DEF MeshInv, ReceivedInRows
  <2> QED
    BY <1>1, <2>1, AppliedKept
<1>3. CASE Materialize(p, op)
  BY <1>1, <1>3, MaterializeApplies
<1> QED
  BY <1>2, <1>3, LoggingPull

\* A relate keeps its edge from its upsert to its op.
LEMMA RelateGoesOn ==
    ASSUME MeshInv, [Next]_vars, NEW c \in Caller
    PROVE  /\ call'[c].pc \in {"stamp", "log"} =>
                 /\ call[c].pc \in {"stamp", "log"} \/ Upsert(c)
                 /\ call[c] # NoCall
                 /\ call'[c].node = call[c].node /\ call'[c].on = call[c].on
                 /\ call'[c].edge = call[c].edge
           /\ call[c].pc \in {"stamp", "log"} =>
                 \/ LogOp(c)
                 \/ /\ call'[c].pc \in {"stamp", "log"}
                    /\ call'[c].node = call[c].node /\ call'[c].on = call[c].on
                    /\ call'[c].edge = call[c].edge
<1>1. call \in [Caller -> CallType]
  BY DEF MeshInv, LogInv, EdgeInv, TypeOK
<1>2. CASE call'[c] = call[c]
  BY <1>2 DEF NoCall
<1>3. CASE \E n \in Node : StartRecord(c, n)
  BY <1>1, <1>3 DEF StartRecord, NoCall
<1>4. CASE \E n \in Node, k \in Key : StartRelate(c, n, k)
  BY <1>1, <1>4 DEF StartRelate, NoCall
<1>5. CASE CommitRecord(c)
  BY <1>1, <1>5 DEF CommitRecord, NoCall
<1>6. CASE Upsert(c)
  <2>1. call[c] # NoCall /\ call[c].pc = "upsert"
    BY <1>6 DEF Upsert, NoCall
  <2>2. call[c] \in [pc : {"upsert", "stamp"}, node : Node, id : Id, on : Key, edge : Stamp]
    BY <1>1, <2>1 DEF CallType
  <2>3. call'[c] = [call[c] EXCEPT !.pc = "stamp"]
    BY <1>1, <1>6 DEF Upsert
  <2>4. /\ call'[c].node = call[c].node /\ call'[c].on = call[c].on
        /\ call'[c].edge = call[c].edge
    BY <2>2, <2>3
  <2> QED
    BY <1>6, <2>1, <2>4
<1>7. CASE StampOp(c)
  <2>1. call[c] # NoCall /\ call[c].pc = "stamp"
    BY <1>7 DEF StampOp, NoCall
  <2>2. /\ call'[c].pc = "log" /\ call'[c].node = call[c].node
        /\ call'[c].on = call[c].on /\ call'[c].edge = call[c].edge
    BY <1>1, <1>7 DEF StampOp
  <2> QED
    BY <2>1, <2>2
<1>8. CASE LogOp(c)
  BY <1>1, <1>8 DEF LogOp, NoCall
<1>9. ASSUME NEW d \in Caller, d # c,
             \/ \E n \in Node : StartRecord(d, n)
             \/ \E n \in Node, k \in Key : StartRelate(d, n, k)
             \/ CallStep(d)
      PROVE  call'[c] = call[c]
  BY <1>1, <1>9 DEF StartRecord, StartRelate, CallStep, CommitRecord, Upsert, StampOp, LogOp
<1>10. CASE UNCHANGED call
  BY <1>2, <1>10
<1>11. \/ UNCHANGED call
       \/ \E d \in Caller, n \in Node : StartRecord(d, n)
       \/ \E d \in Caller, n \in Node, k \in Key : StartRelate(d, n, k)
       \/ \E d \in Caller : CallStep(d)
  <2>1. CASE UNCHANGED vars
    BY <2>1 DEF vars
  <2>2. CASE Next
    BY <2>2 DEF Next, Tick, Restart, Forget, Correct, StartPull, PullStep, SkipKnown,
                Materialize, LogApplied, Acknowledge, Deferred
  <2> QED
    BY <2>1, <2>2
<1>12. CASE \E n \in Node : StartRecord(c, n) \/ \E k \in Key : StartRelate(c, n, k)
  BY <1>3, <1>4, <1>12
<1>13. CASE CallStep(c)
  BY <1>5, <1>6, <1>7, <1>8, <1>13 DEF CallStep
<1>14. \/ call'[c] = call[c]
       \/ \E n \in Node : StartRecord(c, n) \/ \E k \in Key : StartRelate(c, n, k)
       \/ CallStep(c)
  BY <1>9, <1>11
<1> QED
  BY <1>2, <1>12, <1>13, <1>14

LEMMA CallsInRowsStep ==
    ASSUME MeshInv, [Next]_vars PROVE CallsInRows'
<1> SUFFICES ASSUME NEW c \in Caller, call'[c].pc \in {"stamp", "log"}
             PROVE  ~Before(edges'[call'[c].node][call'[c].on], call'[c].edge)
  BY DEF CallsInRows
<1>1. /\ call[c].pc \in {"stamp", "log"} \/ Upsert(c)
      /\ call[c] # NoCall
      /\ call'[c].node = call[c].node /\ call'[c].on = call[c].on
      /\ call'[c].edge = call[c].edge
  BY RelateGoesOn
<1>2. call[c].node \in Node /\ call[c].on \in Key /\ call[c].edge \in Stamp
  BY <1>1, CallFields DEF MeshInv, LogInv, EdgeInv, Upsert
<1>3. CASE Upsert(c)
  <2>1. edges'[call[c].node][call[c].on] = call[c].edge
    BY <1>2, <1>3 DEF Upsert, MeshInv, LogInv, EdgeInv, TypeOK
  <2>2. ~Before(call[c].edge, call[c].edge)
    BY <1>2, StampIsTriple DEF Before, Triple
  <2> QED
    BY <1>1, <2>1, <2>2
<1>4. CASE call[c].pc \in {"stamp", "log"}
  <2> DEFINE e == edges[call[c].node][call[c].on]
             f == edges'[call[c].node][call[c].on]
  <2>1. e \in Stamp \cup {Zero} /\ ~Before(e, call[c].edge) /\ ~Before(f, e)
    BY <1>2, <1>4, EdgeStep DEF MeshInv, LogInv, EdgeInv, TypeOK, CallsInRows
  <2>2. f \in Stamp \cup {Zero}
    BY <1>2, TypeNext DEF MeshInv, LogInv, EdgeInv, TypeOK
  <2> HIDE DEF e, f
  <2>3. ~Before(f, call[c].edge)
    BY <1>2, <2>1, <2>2, StampIsTriple, BeforeOrder
  <2> QED
    BY <1>1, <2>3 DEF f
<1> QED
  BY <1>1, <1>3, <1>4

LEMMA RowsMadeStep ==
    ASSUME MadeInv, [Next]_vars PROVE RowsMade'
<1> SUFFICES ASSUME NEW n \in Node, NEW r \in Id
             PROVE  /\ mem'[n][r] # "absent" => Made("record", r, Zero)'
                    /\ mem'[n][r] = "tombstoned" => Made("forget", r, Zero)'
  BY DEF RowsMade
<1>1. mem \in [Node -> [Id -> {"absent", "active", "tombstoned"}]] /\ oplog \in [Node -> SUBSET Op]
  BY DEF MadeInv, LogInv, EdgeInv, TypeOK
<1>2. ASSUME mem'[n][r] = mem[n][r]
      PROVE  /\ mem'[n][r] # "absent" => Made("record", r, Zero)'
             /\ mem'[n][r] = "tombstoned" => Made("forget", r, Zero)'
  BY <1>2, MadeKept DEF MadeInv, RowsMade
<1>3. ASSUME NEW c \in Caller, CommitRecord(c)
      PROVE  /\ mem'[n][r] # "absent" => Made("record", r, Zero)'
             /\ mem'[n][r] = "tombstoned" => Made("forget", r, Zero)'
  <2>1. call[c].node \in Node /\ call[c].id \in Id
    BY <1>3, CommitFindsNone
  <2>2. mem' = [mem EXCEPT ![call[c].node][call[c].id] = "active"]
    BY <1>3 DEF CommitRecord
  <2>3. CASE n = call[c].node /\ r = call[c].id
    <3>1. mem'[n][r] = "active"
      BY <1>1, <2>2, <2>3
    <3>2. PICK op : op = OpOf(r, "record", r, Zero, call[c].hlc, n)
      OBVIOUS
    <3>3. op \in oplog'[n]
      BY <1>1, <1>3, <2>3, <3>2 DEF CommitRecord
    <3>4. op.origin = n /\ op.kind = "record" /\ op.on = r /\ op.edge = Zero
      BY <3>2 DEF OpOf
    <3> QED
      BY <3>1, <3>3, <3>4 DEF Made
  <2>4. CASE ~(n = call[c].node /\ r = call[c].id)
    BY <1>1, <1>2, <2>1, <2>2, <2>4
  <2> QED
    BY <2>3, <2>4
<1>4. ASSUME NEW m \in Node, NEW x \in Id, Forget(m, x)
      PROVE  /\ mem'[n][r] # "absent" => Made("record", r, Zero)'
             /\ mem'[n][r] = "tombstoned" => Made("forget", r, Zero)'
  <2>1. CASE n = m /\ r = x
    <3>1. mem[n][r] = "active"
      BY <1>4, <2>1 DEF Forget
    <3>2. Made("record", r, Zero)'
      BY <3>1, MadeKept DEF MadeInv, RowsMade
    <3>3. PICK op : op = OpOf(minted + 1, "forget", r, Zero, Now(n), n)
      OBVIOUS
    <3>4. op \in oplog'[n]
      BY <1>1, <1>4, <2>1, <3>3 DEF Forget
    <3>5. op.origin = n /\ op.kind = "forget" /\ op.on = r /\ op.edge = Zero
      BY <3>3 DEF OpOf
    <3> QED
      BY <3>2, <3>4, <3>5 DEF Made
  <2>2. CASE ~(n = m /\ r = x)
    BY <1>1, <1>2, <1>4, <2>2 DEF Forget
  <2> QED
    BY <2>1, <2>2
<1>5. ASSUME NEW p \in Node, NEW op \in pull[p].todo, Materialize(p, op)
      PROVE  /\ mem'[n][r] # "absent" => Made("record", r, Zero)'
             /\ mem'[n][r] = "tombstoned" => Made("forget", r, Zero)'
  <2>1. op \in Op /\ op.origin \in Node /\ op \in oplog[op.origin]
    BY PulledFrom
  <2>2. CASE op.kind \notin {"record", "forget"}
    BY <1>2, <1>5, <2>2 DEF Materialize
  <2>3. CASE op.kind \in {"record", "forget"}
    <3>1. op.on \in Id /\ mem' = [mem EXCEPT ![p][op.on] = Materialized(@, op)]
      BY <1>5, <2>1, <2>3, OpFields DEF Materialize
    <3>2. op.edge = Zero
      BY <2>1, <2>3 DEF Op
    <3>3. Made(op.kind, op.on, Zero)
      BY <2>1, <3>2 DEF Made
    <3>4. CASE n = p /\ r = op.on
      <4>1. mem'[n][r] = Materialized(mem[n][r], op)
        BY <1>1, <3>1, <3>4
      <4>2. mem'[n][r] # "absent" => Made("record", r, Zero)
        BY <3>3, <3>4, <4>1 DEF Materialized, MadeInv, RowsMade
      <4>3. mem'[n][r] = "tombstoned" => Made("forget", r, Zero)
        <5>1. op.kind \in {"record", "forget"}
          BY <2>1, <2>3 DEF Op
        <5> QED
          BY <3>3, <3>4, <4>1, <5>1 DEF Materialized, MadeInv, RowsMade
      <4> QED
        BY <4>2, <4>3, MadeKept
    <3>5. CASE ~(n = p /\ r = op.on)
      BY <1>1, <1>2, <3>1, <3>5
    <3> QED
      BY <3>4, <3>5
  <2> QED
    BY <2>2, <2>3
<1>6. \/ mem' = mem
      \/ \E c \in Caller : CommitRecord(c)
      \/ \E m \in Node, x \in Id : Forget(m, x)
      \/ \E p \in Node : \E op \in pull[p].todo : Materialize(p, op)
  <2>1. CASE UNCHANGED vars
    BY <2>1 DEF vars
  <2>2. CASE Next
    BY <2>2 DEF Next, Tick, Restart, StartRecord, StartRelate, CallStep, Upsert, StampOp,
                LogOp, Correct, StartPull, PullStep, SkipKnown, LogApplied, Acknowledge,
                Deferred
  <2> QED
    BY <2>1, <2>2
<1> QED
  BY <1>2, <1>3, <1>4, <1>5, <1>6

\* An edge row is of a relate on its way, or of an op.
LEMMA EdgesMadeStep ==
    ASSUME MeshInv, [Next]_vars PROVE EdgesMade'
<1> DEFINE Writing(n, k, e) ==
              \E c \in Caller :
                 /\ call'[c].pc \in {"stamp", "log"}
                 /\ call'[c].node = n /\ call'[c].on = k /\ call'[c].edge = e
<1> SUFFICES ASSUME NEW n \in Node, NEW k \in Key, NEW e, e = edges'[n][k]
             PROVE  e = Zero \/ Made("relate", k, e)' \/ Writing(n, k, e)
  BY DEF EdgesMade, Made
<1>1. edges \in [Node -> [Key -> Stamp \cup {Zero}]] /\ oplog \in [Node -> SUBSET Op]
  BY DEF MeshInv, LogInv, EdgeInv, TypeOK
<1>2. ASSUME NEW c \in Caller, call[c].pc \in {"stamp", "log"},
             call[c].node = n, call[c].on = k, call[c].edge = e
      PROVE  Made("relate", k, e)' \/ Writing(n, k, e)
  <2>1. CASE LogOp(c)
    <3>1. PICK op : op = OpOf(call[c].id, "relate", k, e, call[c].hlc, n)
      OBVIOUS
    <3>2. op \in oplog'[n]
      BY <1>1, <1>2, <2>1, <3>1 DEF LogOp
    <3>3. op.origin = n /\ op.kind = "relate" /\ op.on = k /\ op.edge = e
      BY <3>1 DEF OpOf
    <3> QED
      BY <3>2, <3>3 DEF Made
  <2>2. CASE ~LogOp(c)
    <3>1. /\ call'[c].pc \in {"stamp", "log"}
          /\ call'[c].node = n /\ call'[c].on = k /\ call'[c].edge = e
      BY <1>2, <2>2, RelateGoesOn
    <3> QED
      BY <3>1
  <2> QED
    BY <2>1, <2>2
<1>3. CASE e = edges[n][k]
  <2>1. \/ e = Zero
        \/ Made("relate", k, e)
        \/ \E c \in Caller :
              /\ call[c].pc \in {"stamp", "log"}
              /\ call[c].node = n /\ call[c].on = k /\ call[c].edge = e
    BY <1>3 DEF MeshInv, EdgesMade
  <2>2. Made("relate", k, e) => Made("relate", k, e)'
    BY MeshInvMade, MadeKept
  <2> HIDE DEF Writing
  <2> QED
    BY <1>2, <2>1, <2>2
<1>4. ASSUME NEW c \in Caller, Upsert(c), e # edges[n][k]
      PROVE  Writing(n, k, e)
  <2>1. call[c] # NoCall /\ call[c].pc = "upsert"
    BY <1>4 DEF Upsert, NoCall
  <2>2. call[c] \in [pc : {"upsert", "stamp"}, node : Node, id : Id, on : Key, edge : Stamp]
    BY <2>1 DEF MeshInv, LogInv, EdgeInv, TypeOK, CallType
  <2>3. call'[c] = [call[c] EXCEPT !.pc = "stamp"]
    BY <1>4 DEF Upsert, MeshInv, LogInv, EdgeInv, TypeOK
  <2>4. edges' = [edges EXCEPT ![call[c].node][call[c].on] = call[c].edge]
    BY <1>4 DEF Upsert
  <2>5. n = call[c].node /\ k = call[c].on /\ e = call[c].edge
    BY <1>1, <1>4, <2>2, <2>4
  <2>6. /\ call'[c].pc = "stamp" /\ call'[c].node = n /\ call'[c].on = k
        /\ call'[c].edge = e
    BY <2>2, <2>3, <2>5
  <2> QED
    BY <2>6
<1>5. ASSUME NEW p \in Node, NEW op \in pull[p].todo, Materialize(p, op), e # edges[n][k]
      PROVE  Made("relate", k, e)'
  <2>1. op \in Op /\ op.origin \in Node /\ op \in oplog[op.origin]
    BY MeshInvMade, PulledFrom
  <2>2. op.kind = "relate"
    BY <1>5 DEF Materialize
  <2>3. op.on \in Key /\ edges' = [edges EXCEPT ![p][op.on] = Related(@, op)]
    BY <1>5, <2>1, <2>2, OpFields DEF Materialize
  <2>4. n = p /\ k = op.on
    BY <1>1, <1>5, <2>3
  <2>5. e = Related(edges[n][k], op)
    BY <1>1, <2>3, <2>4
  <2>6. e = op.edge
    BY <1>5, <2>5 DEF Related, Newer
  <2>7. Made("relate", k, e)
    BY <2>1, <2>2, <2>4, <2>6 DEF Made
  <2> QED
    BY MeshInvMade, <2>7, MadeKept
<1>6. \/ edges' = edges
      \/ \E c \in Caller : Upsert(c)
      \/ \E p \in Node : \E op \in pull[p].todo : Materialize(p, op)
  <2>1. CASE UNCHANGED vars
    BY <2>1 DEF vars
  <2>2. CASE Next
    BY <2>2 DEF Next, Tick, Restart, StartRecord, StartRelate, CallStep, CommitRecord,
                StampOp, LogOp, Forget, Correct, StartPull, PullStep, SkipKnown, LogApplied,
                Acknowledge, Deferred
  <2> QED
    BY <2>1, <2>2
<1> HIDE DEF Writing
<1> QED
  BY <1>3, <1>4, <1>5, <1>6

LEMMA MeshInvNext ==
    ASSUME Serialized, SlowRestart, MeshInv, [Next]_vars PROVE MeshInv'
<1>1. LogInv'
  BY LogInvNext DEF MeshInv
<1> QED
  BY MeshInvMade, <1>1, FromOriginStep, StampsOwnedStep, StampsApartStep, RecordsNamedStep,
     LogInRowsStep, ReceivedInRowsStep, CallsInRowsStep, RowsMadeStep, EdgesMadeStep DEF MeshInv

\* However many nodes sync, and however many calls each runs at a time: a row a
\* node has tombstoned stays so (materialize_record is INSERT OR IGNORE, record's
\* own row has an id no row has).
THEOREM MeshTombstonesStay ==
    ASSUME SlowRestart PROVE Spec => TombstonesStay
<1>1. Init => MadeInv
  BY MadeInvInit
<1>2. MadeInv /\ [Next]_vars => MadeInv'
  BY LogInvNext, FromOriginStep, RecordsNamedStep, RowsMadeStep DEF MadeInv
<1>3. MadeInv /\ [Next]_vars
        => [\A n \in Node, r \in Id :
               mem[n][r] = "tombstoned" => mem'[n][r] = "tombstoned"]_vars
  BY RowsForward
<1> QED
  BY <1>1, <1>2, <1>3, PTL DEF Spec, TombstonesStay

LEMMA MeshInvariant == ASSUME Serialized, SlowRestart PROVE Spec => []MeshInv
<1>1. Init => MeshInv
  BY MeshInvInit
<1>2. MeshInv /\ [Next]_vars => MeshInv'
  BY MeshInvNext
<1> QED
  BY <1>1, <1>2, PTL DEF Spec

-----------------------------------------------------------------------------
\* Two ops with one timestamp are one op: the order of an extraction, and "the
\* higher HLC wins", never meet a tie (base/hlc.rs: the node id breaks it).
OneStampOneOp ==
    \A n, m \in Node : \A a \in oplog[n], b \in oplog[m] : a.hlc = b.hlc => a = b

\* ... for any number of nodes, skewed clocks and restarts included.
THEOREM MeshStampsUnique ==
    ASSUME Serialized, SlowRestart PROVE Spec => []OneStampOneOp
<1>1. MeshInv => OneStampOneOp
  <2> SUFFICES ASSUME MeshInv, NEW n \in Node, NEW m \in Node,
                      NEW a \in oplog[n], NEW b \in oplog[m], a.hlc = b.hlc
               PROVE  a = b
    BY DEF OneStampOneOp
  <2>1. a \in Op /\ a.origin = b.origin /\ a \in oplog[a.origin] /\ b \in oplog[a.origin]
    BY DEF MeshInv, FromOrigin, StampsOwned, LogInv, EdgeInv, TypeOK
  <2>2. a.origin \in Node
    BY <2>1 DEF Op
  <2> QED
    BY <2>1, <2>2 DEF MeshInv, StampsApart
<1> QED
  BY <1>1, MeshInvariant, PTL

\* What a node writes is later than every op it has, its own and those it got
\* from others: merge_hlc before materialize_op is what makes this true.
WritesAreLater ==
    [][\A n \in Node : \A a \in oplog[n], b \in oplog'[n] \ oplog[n] :
          b.origin = n => Before(a.hlc, b.hlc)]_vars

\* ... in every step, for any number of nodes.
THEOREM MeshWritesAreLater ==
    ASSUME Serialized, SlowRestart PROVE Spec => WritesAreLater
<1>1. ASSUME MeshInv, [Next]_vars
      PROVE  \A n \in Node : \A a \in oplog[n], b \in oplog'[n] \ oplog[n] :
                b.origin = n => Before(a.hlc, b.hlc)
  BY <1>1, OwnIsNewest DEF Newest
<1> QED
  BY <1>1, MeshInvariant, PTL DEF Spec, WritesAreLater

\* A node at rest has every op a node made.
LEMMA RestHasAll ==
    ASSUME MeshInv, NEW n \in Node, AtRest(n), NEW m \in Node, NEW a \in oplog[m],
           a.origin = m
    PROVE  a \in oplog[n]
<1>1. CASE m = n
  BY <1>1
<1>2. CASE m # n
  <2>1. a \notin Wanted(n, m)
    BY <1>2 DEF AtRest
  <2>2. ~Past(a, mark[n][m])
    BY <1>2, <2>1 DEF Wanted
  <2> QED
    BY <1>2, <2>2 DEF MeshInv, LogInv, MarksSound, Covered, Placed
<1> QED
  BY <1>1, <1>2

\* Nodes that have pulled all there is have the same ops, whoever relayed them.
LEMMA RestSameLog ==
    ASSUME MeshInv, NEW n \in Node, NEW m \in Node, AtRest(n), AtRest(m)
    PROVE  oplog[n] = oplog[m]
<1>1. ASSUME NEW x \in Node, NEW y \in Node, AtRest(y), NEW a \in oplog[x]
      PROVE  a \in oplog[y]
  <2>1. a \in Op /\ a \in oplog[a.origin]
    BY DEF MeshInv, FromOrigin, LogInv, EdgeInv, TypeOK
  <2>2. a.origin \in Node
    BY <2>1 DEF Op
  <2> QED
    BY <1>1, <2>1, <2>2, RestHasAll
<1> QED
  BY <1>1

\* What a row of a node at rest is of, the node has.
LEMMA RestHasMade ==
    ASSUME MeshInv, NEW n \in Node, AtRest(n), NEW kind, NEW x, NEW e, Made(kind, x, e)
    PROVE  \E a \in oplog[n] : a.kind = kind /\ a.on = x /\ a.edge = e
<1>1. PICK m \in Node : \E a \in oplog[m] :
         a.origin = m /\ a.kind = kind /\ a.on = x /\ a.edge = e
  BY DEF Made
<1>2. PICK a \in oplog[m] : a.origin = m /\ a.kind = kind /\ a.on = x /\ a.edge = e
  BY <1>1
<1>3. a \in oplog[n]
  BY <1>2, RestHasAll
<1> QED
  BY <1>2, <1>3

\* An edge of a node at rest has its newest write.
LEMMA RestNewestWrite ==
    ASSUME MeshInv, NEW n \in Node, AtRest(n), NEW k \in Key
    PROVE  /\ edges[n][k] \in Writes(n, k) \cup {Zero}
           /\ \A t \in Writes(n, k) : ~Before(edges[n][k], t)
<1>1. edges[n][k] \in Writes(n, k) \cup {Zero}
  <2>1. CASE edges[n][k] = Zero
    BY <2>1
  <2>2. CASE Made("relate", k, edges[n][k])
    <3>1. \E a \in oplog[n] : a.kind = "relate" /\ a.on = k /\ a.edge = edges[n][k]
      BY <2>2, RestHasMade
    <3> QED
      BY <3>1 DEF Writes
  <2>3. ASSUME NEW c \in Caller, call[c].pc \in {"stamp", "log"}, call[c].node = n
        PROVE  FALSE
    BY <2>3 DEF AtRest, Running, NoCall
  <2> QED
    BY <2>1, <2>2, <2>3 DEF MeshInv, EdgesMade
<1>2. ASSUME NEW t \in Writes(n, k) PROVE ~Before(edges[n][k], t)
  <2>1. PICK a \in oplog[n] : a.kind = "relate" /\ a.on = k /\ t = a.edge
    BY DEF Writes
  <2> QED
    BY <2>1 DEF MeshInv, LogInRows, Applied
<1> QED
  BY <1>1, <1>2

\* A memory of a node at rest is there when its record is in the log, and is
\* forgotten only when its forget is.
LEMMA RestRows ==
    ASSUME MeshInv, NEW n \in Node, AtRest(n), NEW r \in Id
    PROVE  /\ mem[n][r] # "absent" <=> Has(n, "record", r)
           /\ mem[n][r] = "tombstoned" => Has(n, "forget", r)
<1>1. Has(n, "record", r) => mem[n][r] # "absent"
  BY DEF Has, MeshInv, LogInRows, Applied
<1>2. ASSUME mem[n][r] # "absent" PROVE Has(n, "record", r)
  <2>1. Made("record", r, Zero)
    BY <1>2 DEF MeshInv, RowsMade
  <2> QED
    BY <2>1, RestHasMade DEF Has
<1>3. ASSUME mem[n][r] = "tombstoned" PROVE Has(n, "forget", r)
  <2>1. Made("forget", r, Zero)
    BY <1>3 DEF MeshInv, RowsMade
  <2> QED
    BY <2>1, RestHasMade DEF Has
<1> QED
  BY <1>1, <1>2, <1>3

\* The newest of a set of writes is one.
LEMMA RestSameEdges ==
    ASSUME MeshInv, NEW n \in Node, NEW m \in Node, AtRest(n), AtRest(m)
    PROVE  edges[n] = edges[m]
<1>1. \A k \in Key : Writes(n, k) = Writes(m, k)
  BY RestSameLog DEF Writes
<1>2. ASSUME NEW x \in Node, NEW k \in Key, NEW t \in Writes(x, k)
      PROVE  t \in Stamp \cup {Zero} /\ ~Before(t, Zero)
  <2>1. PICK a \in oplog[x] : t = a.edge
    BY DEF Writes
  <2>2. t \in Stamp \cup {Zero}
    BY <2>1, OpFields DEF MeshInv, LogInv, EdgeInv, TypeOK
  <2> QED
    BY <2>2, StampIsTriple DEF Before, Zero, Triple
<1>3. ASSUME NEW k \in Key PROVE edges[n][k] = edges[m][k]
  <2> DEFINE s == edges[n][k]
             t == edges[m][k]
  <2>1. s \in Writes(n, k) \cup {Zero} /\ t \in Writes(n, k) \cup {Zero}
    BY <1>1, RestNewestWrite
  <2>2. \A u \in Writes(n, k) : ~Before(s, u) /\ ~Before(t, u)
    BY <1>1, RestNewestWrite
  <2>3. s \in Stamp \cup {Zero} /\ t \in Stamp \cup {Zero}
    BY DEF MeshInv, LogInv, EdgeInv, TypeOK
  <2>4. ~Before(s, Zero) /\ ~Before(t, Zero)
    BY <2>3, StampIsTriple DEF Before, Zero, Triple
  <2> HIDE DEF s, t
  <2>5. ~Before(s, t) /\ ~Before(t, s)
    BY <2>1, <2>2, <2>4
  <2>6. s = t
    BY <2>3, <2>5, BeforeTotal
  <2> QED
    BY <2>6 DEF s, t
<1> QED
  BY <1>3 DEF MeshInv, LogInv, EdgeInv, TypeOK

\* However many databases sync, nodes that have pulled all there is have the same
\* log and the same edges (README.md:463, "merge without conflicts"); the edges
\* are the newest writes of that log; and they have the same memories, none
\* forgotten without a forget in that log.  That a forget always takes hold needs
\* two nodes: CaughtUpPairAgrees.
CaughtUpNodesAgree ==
    /\ \A n, m \in Node : AtRest(n) /\ AtRest(m) => oplog[n] = oplog[m] /\ edges[n] = edges[m]
    /\ \A n \in Node : AtRest(n) =>
          /\ \A k \in Key :
                /\ edges[n][k] \in Writes(n, k) \cup {Zero}
                /\ \A t \in Writes(n, k) : ~Before(edges[n][k], t)
          /\ \A r \in Id :
                /\ mem[n][r] # "absent" <=> Has(n, "record", r)
                /\ mem[n][r] = "tombstoned" => Has(n, "forget", r)

\* ... in every reachable state, for any number of nodes.
THEOREM MeshCaughtUpNodesAgree ==
    ASSUME Serialized, SlowRestart PROVE Spec => []CaughtUpNodesAgree
<1>1. MeshInv => CaughtUpNodesAgree
  BY RestSameLog, RestSameEdges, RestNewestWrite, RestRows DEF CaughtUpNodesAgree
<1> QED
  BY <1>1, MeshInvariant, PTL
=============================================================================
