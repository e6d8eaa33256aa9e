--------------------------- MODULE SyncPairProofs ---------------------------
(***************************************************************************)
(* What holds between two databases that each run one call or pull at a     *)
(* time: a forget or a correction finds its record; so the rows of a node   *)
(* at rest are those its log determines, and two nodes at rest agree.  The  *)
(* second part is what replicated corrections owe to one correcting node:   *)
(* at rest, a live memory has its newest text and a history with every      *)
(* other one.                                                               *)
(***************************************************************************)
EXTENDS SyncMeshProofs

\* There are no three different nodes.
AtMostTwo == \A a, b, c \in Node : a = b \/ b = c \/ a = c

-----------------------------------------------------------------------------
(***************************************************************************)
(* The rows follow the log.  A forget or a correction comes after its       *)
(* record: on its own node by its stamp, so in a pull; from the other node  *)
(* because the record was made here.                                        *)
(***************************************************************************)

\* A forget or a correction in a log has taken hold of the memory's row.
Obeyed(n, a) ==
    /\ a.kind = "forget" => mem[n][a.on] = "tombstoned"
    /\ a.kind = "correct" => mem[n][a.on] # "absent"

LogObeyed == \A n \in Node : \A a \in oplog[n] : Obeyed(n, a)

ReceivedObeyed ==
    \A p \in Node : pull[p].pc = "log" =>
        \A op \in pull[p].todo : IsFirst(op, pull[p].todo) => Obeyed(p, op)

RecordsFirst ==
    \A n \in Node : \A f \in oplog[n] :
        f.kind \in {"forget", "correct"} /\ f.origin = n =>
            \E m \in Node : \E a \in oplog[m] :
                /\ a.origin = m /\ a.kind = "record" /\ a.on = f.on
                /\ m = n => Before(a.hlc, f.hlc)

RowInv == MeshInv /\ LogObeyed /\ ReceivedObeyed /\ RecordsFirst

LEMMA RowInvInit == ASSUME Serialized PROVE Init => RowInv
<1> SUFFICES ASSUME Init PROVE RowInv
  OBVIOUS
<1>1. MeshInv
  BY MeshInvInit
<1>2. LogObeyed /\ RecordsFirst
  BY DEF Init, LogObeyed, RecordsFirst
<1>3. ReceivedObeyed
  BY DEF Init, NoPull, ReceivedObeyed
<1> QED
  BY <1>1, <1>2, <1>3 DEF RowInv

\* Of two nodes, the op a pull applies is one its source made.
LEMMA PulledOp ==
    ASSUME AtMostTwo, RowInv, NEW p \in Node, NEW op \in pull[p].todo
    PROVE  /\ op \in Op /\ pull[p] # NoPull /\ pull[p].from \in Node /\ pull[p].from # p
           /\ op \in oplog[pull[p].from] /\ op.origin = pull[p].from
  BY MeshInvMade, PulledFrom DEF AtMostTwo, RowInv

\* What the source made before the op a pull is at, the puller has.
LEMMA EarlierPulled ==
    ASSUME AtMostTwo, RowInv, NEW p \in Node, NEW f \in pull[p].todo,
           IsFirst(f, pull[p].todo), NEW a \in oplog[pull[p].from],
           a.origin = pull[p].from, Past(f, Cursor(a))
    PROVE  a \in oplog[p]
<1>1. /\ f \in Op /\ pull[p] # NoPull /\ pull[p].from \in Node /\ pull[p].from # p
      /\ f \in oplog[pull[p].from] /\ f.origin = pull[p].from
  BY PulledOp
<1>2. a \in Op
  BY <1>1 DEF RowInv, MeshInv, LogInv, EdgeInv, TypeOK
<1>3. ~Past(a, Cursor(f))
  BY <1>1, <1>2, PastAsymmetric
<1>4. a # f
  BY <1>1, PastTotal
<1>5. a \notin pull[p].todo
  BY <1>3, <1>4 DEF IsFirst
<1>6. ~Past(a, pull[p].last)
  BY <1>1, <1>3, <1>5 DEF RowInv, MeshInv, LogInv, PullsSound, PullSound, Prefix, Placed
<1> QED
  BY <1>1, <1>6 DEF RowInv, MeshInv, LogInv, PullsSound, PullSound, Covered, Placed

\* A forget or a correction finds the row: its record was made by the puller, or
\* by the source before it, so that the puller has pulled it.
LEMMA RecordIsThere ==
    ASSUME AtMostTwo, RowInv, NEW p \in Node, NEW f \in pull[p].todo,
           IsFirst(f, pull[p].todo), f.kind \in {"forget", "correct"}
    PROVE  mem[p][f.on] # "absent"
<1>1. /\ f \in Op /\ pull[p] # NoPull /\ pull[p].from \in Node /\ pull[p].from # p
      /\ f \in oplog[pull[p].from] /\ f.origin = pull[p].from
  BY PulledOp
<1>2. PICK m \in Node : \E a \in oplog[m] :
         /\ a.origin = m /\ a.kind = "record" /\ a.on = f.on
         /\ m = pull[p].from => Before(a.hlc, f.hlc)
  BY <1>1 DEF RowInv, RecordsFirst
<1>3. PICK a \in oplog[m] :
         /\ a.origin = m /\ a.kind = "record" /\ a.on = f.on
         /\ m = pull[p].from => Before(a.hlc, f.hlc)
  BY <1>2
<1>4. a \in Op
  BY DEF RowInv, MeshInv, LogInv, EdgeInv, TypeOK
<1>5. a \in oplog[p]
  <2>1. CASE m = p
    BY <2>1
  <2>2. CASE m = pull[p].from
    <3>1. Past(f, Cursor(a))
      BY <1>1, <1>3, <1>4, <2>2, PastTotal
    <3> QED
      BY <1>3, <2>2, <3>1, EarlierPulled
  <2> QED
    BY <1>1, <2>1, <2>2 DEF AtMostTwo
<1> QED
  BY <1>3, <1>5 DEF RowInv, MeshInv, LogInRows, Applied

LEMMA ObeyedKept ==
    ASSUME RowInv, [Next]_vars, NEW n \in Node, NEW a \in Op, Obeyed(n, a)
    PROVE  Obeyed(n, a)'
<1>1. CASE a.kind \in {"forget", "correct"}
  <2>1. a.on \in Id
    BY <1>1, OpFields
  <2> QED
    BY MeshInvMade, <1>1, <2>1, RowsForward DEF Obeyed, RowInv
<1>2. CASE a.kind \notin {"forget", "correct"}
  BY <1>2 DEF Obeyed
<1> QED
  BY <1>1, <1>2

LEMMA MaterializeObeyed ==
    ASSUME AtMostTwo, RowInv, [Next]_vars,
           NEW p \in Node, NEW op \in pull[p].todo, Materialize(p, op)
    PROVE  Obeyed(p, op)'
<1>1. op \in Op /\ IsFirst(op, pull[p].todo)
  BY MeshInvMade, PulledFrom DEF Materialize, NextOp, RowInv
<1>2. CASE op.kind = "forget"
  <2>1. op.on \in Id /\ mem' = [mem EXCEPT ![p][op.on] = Materialized(@, op)]
    BY <1>1, <1>2, OpFields DEF Materialize
  <2>2. mem'[p][op.on] = Materialized(mem[p][op.on], op)
    BY <2>1 DEF RowInv, MeshInv, LogInv, EdgeInv, TypeOK
  <2>3. mem[p][op.on] # "absent"
    BY <1>1, <1>2, RecordIsThere
  <2> QED
    BY <1>2, <2>2, <2>3 DEF Materialized, Obeyed
<1>3. CASE op.kind = "correct"
  <2>1. mem[p][op.on] # "absent" /\ mem' = mem
    BY <1>1, <1>3, RecordIsThere DEF Materialize
  <2> QED
    BY <1>3, <2>1 DEF Obeyed
<1>4. CASE op.kind \notin {"forget", "correct"}
  BY <1>4 DEF Obeyed
<1> QED
  BY <1>2, <1>3, <1>4

LEMMA LogObeyedStep ==
    ASSUME RowInv, [Next]_vars PROVE LogObeyed'
<1> SUFFICES ASSUME NEW n \in Node, NEW a \in oplog'[n] PROVE Obeyed(n, a)'
  BY DEF LogObeyed
<1>1. CASE a \in oplog[n]
  <2>1. a \in Op /\ Obeyed(n, a)
    BY <1>1 DEF RowInv, MeshInv, LogInv, EdgeInv, TypeOK, LogObeyed
  <2> QED
    BY <2>1, ObeyedKept
<1>2. CASE a.kind \notin {"forget", "correct"}
  BY <1>2 DEF Obeyed
<1>3. ASSUME NEW r \in Id, Forget(n, r),
             a = OpOf(minted + 1, "forget", r, Zero, Now(n), n)
      PROVE  Obeyed(n, a)'
  <2>1. a.kind = "forget" /\ a.on = r
    BY <1>3 DEF OpOf
  <2>2. mem'[n][r] = "tombstoned"
    BY <1>3 DEF Forget, RowInv, MeshInv, LogInv, EdgeInv, TypeOK
  <2> QED
    BY <2>1, <2>2 DEF Obeyed
<1>4. ASSUME NEW r \in Id, NEW num \in Id, Correct(n, r),
             a = CorrectOf(minted + 1, r, num, Now(n), n)
      PROVE  Obeyed(n, a)'
  <2>1. a.kind = "correct" /\ a.on = r
    BY <1>4 DEF CorrectOf
  <2>2. mem[n][r] = "active" /\ mem' = mem
    BY <1>4 DEF Correct
  <2> QED
    BY <2>1, <2>2 DEF Obeyed
<1>5. CASE a \in pull[n].todo /\ LogApplied(n, a)
  <2>1. a \in Op /\ Obeyed(n, a)
    BY MeshInvMade, <1>5, PulledFrom DEF LogApplied, RowInv, ReceivedObeyed
  <2> QED
    BY <2>1, ObeyedKept
<1> QED
  BY MeshInvMade, <1>1, <1>2, <1>3, <1>4, <1>5, WhatEnters DEF OpOf, RowInv

LEMMA ReceivedObeyedStep ==
    ASSUME AtMostTwo, RowInv, [Next]_vars PROVE ReceivedObeyed'
<1> SUFFICES ASSUME NEW p \in Node, pull'[p].pc = "log", NEW op \in pull'[p].todo,
                    IsFirst(op, pull'[p].todo)
             PROVE  Obeyed(p, op)'
  BY DEF ReceivedObeyed
<1>1. op \in pull[p].todo /\ op \in Op
  BY MeshInvMade, LoggingPull, PulledFrom DEF RowInv
<1>2. CASE pull'[p] = pull[p]
  <2>1. Obeyed(p, op)
    BY <1>2 DEF RowInv, ReceivedObeyed
  <2> QED
    BY <1>1, <2>1, ObeyedKept
<1>3. CASE Materialize(p, op)
  BY <1>1, <1>3, MaterializeObeyed
<1> QED
  BY <1>2, <1>3, LoggingPull DEF RowInv

LEMMA RecordsFirstStep ==
    ASSUME AtMostTwo, RowInv, [Next]_vars PROVE RecordsFirst'
<1> SUFFICES ASSUME NEW n \in Node, NEW f \in oplog'[n], f.kind \in {"forget", "correct"}, f.origin = n
             PROVE  \E m \in Node : \E a \in oplog'[m] :
                       /\ a.origin = m /\ a.kind = "record" /\ a.on = f.on
                       /\ m = n => Before(a.hlc, f.hlc)
  BY DEF RecordsFirst
<1>1. CASE f \in oplog[n]
  BY MeshInvMade, <1>1, LogsGrow DEF RowInv, RecordsFirst
<1>2. ASSUME NEW r \in Id, mem[n][r] = "active", f.on = r, f.hlc = Now(n)
      PROVE  \E m \in Node : \E a \in oplog'[m] :
                /\ a.origin = m /\ a.kind = "record" /\ a.on = f.on
                /\ m = n => Before(a.hlc, f.hlc)
  <2>2. Made("record", r, Zero)
    BY <1>2 DEF RowInv, MeshInv, RowsMade
  <2>3. PICK m \in Node : \E a \in oplog[m] : a.origin = m /\ a.kind = "record" /\ a.on = r
    BY <2>2 DEF Made
  <2>4. PICK a \in oplog[m] : a.origin = m /\ a.kind = "record" /\ a.on = r
    BY <2>3
  <2>5. m = n => Before(a.hlc, f.hlc)
    BY <1>2, NowIsNewest DEF RowInv, MeshInv, Newest
  <2>6. a \in oplog'[m]
    BY MeshInvMade, LogsGrow DEF RowInv
  <2> QED
    BY <1>2, <2>4, <2>5, <2>6
<1>3. CASE f \in pull[n].todo
  <2>1. f.origin # n
    BY <1>3, PulledOp
  <2> QED
    BY <2>1
<1>4. \/ f \in oplog[n]
      \/ \E r \in Id : mem[n][r] = "active" /\ f.on = r /\ f.hlc = Now(n)
      \/ f \in pull[n].todo
  BY MeshInvMade, WhatEnters DEF RowInv, OpOf, CorrectOf, Forget, Correct
<1> QED
  BY <1>1, <1>2, <1>3, <1>4

LEMMA RowInvNext ==
    ASSUME Serialized, SlowRestart, AtMostTwo, RowInv, [Next]_vars PROVE RowInv'
<1>1. MeshInv'
  BY MeshInvNext DEF RowInv
<1> QED
  BY <1>1, LogObeyedStep, ReceivedObeyedStep, RecordsFirstStep DEF RowInv

LEMMA RowInvariant == ASSUME Serialized, SlowRestart, AtMostTwo PROVE Spec => []RowInv
<1>1. Init => RowInv
  BY RowInvInit
<1>2. RowInv /\ [Next]_vars => RowInv'
  BY RowInvNext
<1> QED
  BY <1>1, <1>2, PTL DEF Spec

\* A node whose log has the forget of a memory does not serve the memory.
TombstoneWins ==
    \A n \in Node : \A op \in oplog[n] :
        op.kind = "forget" => mem[n][op.on] # "active"

\* Between two nodes that holds, because a record always arrives before its forget.
\* With a third the forget may come first, over another node: materialize_forget
\* finds no row to update and the record is then inserted as active, although
\* replication.rs:1149 has it that the tombstone wins "even if the memory doesn't
\* exist locally yet".
THEOREM PairTombstonesWin ==
    ASSUME Serialized, SlowRestart, AtMostTwo PROVE Spec => []TombstoneWins
<1>1. RowInv => TombstoneWins
  BY DEF RowInv, LogObeyed, Obeyed, TombstoneWins
<1> QED
  BY <1>1, RowInvariant, PTL

\* The rows of a node at rest are those its log determines.
LEMMA RestFollowsLog == ASSUME RowInv PROVE RowsFollowLog
<1> SUFFICES ASSUME NEW n \in Node, AtRest(n), NEW r \in Id
             PROVE  mem[n][r] =
                       CASE Has(n, "record", r) /\ Has(n, "forget", r) -> "tombstoned"
                         [] Has(n, "record", r) /\ ~Has(n, "forget", r) -> "active"
                         [] OTHER -> "absent"
  BY RestNewestWrite DEF RowsFollowLog, RowInv
<1>1. mem[n][r] \in {"absent", "active", "tombstoned"}
  BY DEF RowInv, MeshInv, LogInv, EdgeInv, TypeOK
<1>2. Has(n, "record", r) <=> mem[n][r] # "absent"
  BY RestRows DEF RowInv
<1>3. Has(n, "forget", r) <=> mem[n][r] = "tombstoned"
  <2>1. Has(n, "forget", r) => mem[n][r] = "tombstoned"
    BY DEF Has, RowInv, LogObeyed, Obeyed
  <2> QED
    BY <2>1, RestRows DEF RowInv
<1>4. CASE mem[n][r] = "absent"
  BY <1>2, <1>3, <1>4
<1>5. CASE mem[n][r] = "active"
  BY <1>2, <1>3, <1>5
<1>6. CASE mem[n][r] = "tombstoned"
  BY <1>2, <1>3, <1>6
<1> QED
  BY <1>1, <1>4, <1>5, <1>6

\* Between two nodes, the rows of a node at rest are those its log determines,
\* so two nodes at rest with equal logs agree.
THEOREM PairRowsFollowLog ==
    ASSUME Serialized, SlowRestart, AtMostTwo PROVE Spec => []RowsFollowLog
<1>1. RowInv => RowsFollowLog
  BY RestFollowsLog
<1> QED
  BY <1>1, RowInvariant, PTL

\* Two nodes that have pulled all there is are in one state: the same log, the
\* same edges, the same memories (README.md:463, "merge without conflicts").
\* Converges says that they get there; this, that nothing else can be at rest.
CaughtUpPairAgrees ==
    \A n, m \in Node : AtRest(n) /\ AtRest(m) =>
        oplog[n] = oplog[m] /\ edges[n] = edges[m] /\ mem[n] = mem[m]

\* ... in every reachable state of two nodes.
THEOREM PairAgreesAtRest ==
    ASSUME Serialized, SlowRestart, AtMostTwo PROVE Spec => []CaughtUpPairAgrees
<1>1. RowInv => CaughtUpPairAgrees
  <2> SUFFICES ASSUME RowInv, NEW n \in Node, NEW m \in Node, AtRest(n), AtRest(m)
               PROVE  oplog[n] = oplog[m] /\ edges[n] = edges[m] /\ mem[n] = mem[m]
    BY DEF CaughtUpPairAgrees
  <2>1. oplog[n] = oplog[m] /\ edges[n] = edges[m]
    BY RestSameLog, RestSameEdges DEF RowInv
  <2>2. ASSUME NEW r \in Id PROVE mem[n][r] = mem[m][r]
    <3>1. \A kind : Has(n, kind, r) <=> Has(m, kind, r)
      BY <2>1 DEF Has
    <3> QED
      BY <3>1, RestFollowsLog DEF RowsFollowLog
  <2>3. mem[n] = mem[m]
    BY <2>2 DEF RowInv, MeshInv, LogInv, EdgeInv, TypeOK
  <2> QED
    BY <2>1, <2>3
<1> QED
  BY <1>1, RowInvariant, PTL

-----------------------------------------------------------------------------
(***************************************************************************)
(* Corrections.  They rest on the order of arrival, since                   *)
(* apply_replicated_correct compares no timestamps: TextSound says that the *)
(* node has every op older than the one its text is from, and a history row *)
(* for each correction it applied.                                          *)
(***************************************************************************)

\* No two nodes have applications that correct.
OneCorrector == \A a, b \in Corrector : a = b

\* A node has what was made before an op it has, where that was made.
OriginOrder ==
    \A n \in Node : \A b \in oplog[n] : \A a \in oplog[b.origin] :
        a.origin = b.origin /\ Past(b, Cursor(a)) => a \in oplog[n]

CorrectorsCorrect ==
    \A n \in Node : \A a \in oplog[n] : a.kind = "correct" => a.origin \in Corrector

NumbersDiffer ==
    \A m \in Corrector, r \in Id : \A a, b \in Corrections(m, r) : a.num = b.num => a = b

\* The corrections of r that p has applied: logged, or just materialized.
Done(p, r, m) == {a \in Corrections(m, r) : a \in oplog[p] \/ a.id = text[p][r]}

TextSound(p, r, m) ==
    /\ text[p][r] = r => Corrections(p, r) = {}
    /\ \A b \in Corrections(m, r) : b.id = text[p][r] =>
          /\ \A a \in Corrections(p, r) : a = b \/ Past(b, Cursor(a))
          /\ \A a \in oplog[m] : a.origin = m /\ Past(b, Cursor(a)) => a \in oplog[p]
    /\ \A a \in Done(p, r, m) : \E h \in history[p][r] : h.num = a.num
    /\ \A h \in history[p][r] : \E a \in Done(p, r, m) : h.num = a.num
    /\ \A a \in Done(p, r, m) : a.id = text[p][r] \/ \E h \in history[p][r] : h.prior = a.id

TextKnown(p, r) ==
    /\ text[p][r] = r \/ \E m \in Corrector : \E b \in Corrections(m, r) : b.id = text[p][r]
    /\ text[p][r] = r \/ \E h \in history[p][r] : h.prior = r

TextsSound ==
    \A p \in Node, r \in Id :
        /\ mem[p][r] = "absent" => text[p][r] = r /\ history[p][r] = {}
        /\ mem[p][r] = "active" =>
              TextKnown(p, r) /\ \A m \in Corrector : TextSound(p, r, m)

ReceivedText ==
    \A p \in Node : pull[p].pc = "log" =>
        \A op \in pull[p].todo :
            IsFirst(op, pull[p].todo) /\ op.kind = "correct" /\ mem[p][op.on] = "active" =>
                text[p][op.on] = op.id

TextInv ==
    /\ RowInv /\ OriginOrder /\ CorrectorsCorrect /\ NumbersDiffer
    /\ TextsSound /\ ReceivedText

LEMMA TextInvInit == ASSUME Serialized PROVE Init => TextInv
<1> SUFFICES ASSUME Init PROVE TextInv
  OBVIOUS
<1>1. RowInv
  BY RowInvInit
<1>2. \A n \in Node : oplog[n] = {}
  BY DEF Init
<1>3. OriginOrder /\ CorrectorsCorrect
  BY <1>2 DEF OriginOrder, CorrectorsCorrect
<1>4. \A n \in Node, r \in Id : Corrections(n, r) = {}
  BY <1>2 DEF Corrections
<1>5. NumbersDiffer
  BY <1>4, SyncAssumption DEF NumbersDiffer
<1>6. TextsSound
  BY DEF Init, TextsSound
<1>7. ReceivedText
  BY DEF Init, NoPull, ReceivedText
<1> QED
  BY <1>1, <1>3, <1>5, <1>6, <1>7 DEF TextInv

LEMMA OriginOrderStep ==
    ASSUME AtMostTwo, TextInv, [Next]_vars PROVE OriginOrder'
<1> SUFFICES ASSUME NEW n \in Node, NEW b \in oplog'[n], NEW a \in oplog'[b.origin],
                    a.origin = b.origin, Past(b, Cursor(a))
             PROVE  a \in oplog'[n]
  BY DEF OriginOrder
<1>1. RowInv /\ MeshInv /\ oplog \in [Node -> SUBSET Op]
  BY DEF TextInv, RowInv, MeshInv, LogInv, EdgeInv, TypeOK
<1>2. CASE b.origin = n
  BY <1>2
<1>3. CASE b \in oplog[n]
  <2>1. b \in Op /\ b \in oplog[b.origin]
    BY <1>1, <1>3 DEF TextInv, RowInv, MeshInv, FromOrigin
  <2>2. b.origin \in Node
    BY <2>1 DEF Op
  <2>3. CASE a \in oplog[b.origin]
    <3>1. a \in oplog[n]
      BY <1>3, <2>3 DEF TextInv, OriginOrder
    <3> QED
      BY MeshInvMade, <1>1, <3>1, LogsGrow
  <2>4. CASE a \notin oplog[b.origin]
    <3>1. a \in Op /\ Before(b.hlc, a.hlc)
      BY <1>1, <2>1, <2>2, <2>4, OwnIsNewest DEF Newest
    <3>2. ~Past(b, Cursor(a))
      BY <2>1, <3>1, PastTotal, PastAsymmetric
    <3> QED
      BY <3>2
  <2> QED
    BY <2>3, <2>4
<1>4. CASE b \in pull[n].todo /\ LogApplied(n, b)
  <2>1. /\ b \in Op /\ pull[n].from \in Node /\ pull[n].from # n
        /\ b.origin = pull[n].from
    BY <1>1, <1>4, PulledOp
  <2>2. a \in oplog[pull[n].from]
    BY <1>1, <1>4, <2>1 DEF LogApplied
  <2>3. a \in oplog[n]
    BY <1>1, <1>4, <2>1, <2>2, EarlierPulled DEF LogApplied
  <2> QED
    BY MeshInvMade, <1>1, <2>3, LogsGrow
<1> QED
  BY MeshInvMade, <1>1, <1>2, <1>3, <1>4, WhatEnters DEF OpOf, CorrectOf

LEMMA CorrectorsCorrectStep ==
    ASSUME AtMostTwo, TextInv, [Next]_vars PROVE CorrectorsCorrect'
<1> SUFFICES ASSUME NEW n \in Node, NEW a \in oplog'[n], a.kind = "correct"
             PROVE  a.origin \in Corrector
  BY DEF CorrectorsCorrect
<1>1. RowInv /\ MeshInv
  BY DEF TextInv, RowInv
<1>2. CASE a \in oplog[n]
  BY <1>2 DEF TextInv, CorrectorsCorrect
<1>3. CASE a \in pull[n].todo
  <2>1. pull[n].from \in Node /\ a \in oplog[pull[n].from]
    BY <1>1, <1>3, PulledOp
  <2> QED
    BY <2>1 DEF TextInv, CorrectorsCorrect
<1>4. ASSUME NEW r \in Id, NEW num \in Id, Correct(n, r),
             a = CorrectOf(minted + 1, r, num, Now(n), n)
      PROVE  a.origin \in Corrector
  BY <1>4 DEF Correct, CorrectOf
<1> QED
  BY MeshInvMade, <1>1, <1>2, <1>3, <1>4, WhatEnters DEF OpOf

\* The number a correction takes, and the op that carries it.
LEMMA CorrectParts ==
    ASSUME TextInv, NEW n \in Node, NEW r \in Id, Correct(n, r)
    PROVE  \E num \in Id :
              /\ \A h \in history[n][r] : h.num < num
              /\ Revised(n, r, num, minted + 1)
              /\ \A a \in oplog'[n] \ oplog[n] : a = CorrectOf(minted + 1, r, num, Now(n), n)
              /\ CorrectOf(minted + 1, r, num, Now(n), n) \in oplog'[n]
<1>1. PICK num \in Id :
         /\ IsNext(num, history[n][r])
         /\ Revised(n, r, num, minted + 1)
         /\ oplog' = [oplog EXCEPT ![n] = @ \cup {CorrectOf(minted + 1, r, num, Now(n), n)}]
  BY DEF Correct
<1>2. \A h \in history[n][r] : h.num < num
  BY <1>1 DEF IsNext
<1>3. oplog'[n] = oplog[n] \cup {CorrectOf(minted + 1, r, num, Now(n), n)}
  BY <1>1 DEF TextInv, RowInv, MeshInv, LogInv, EdgeInv, TypeOK
<1> QED
  BY <1>1, <1>2, <1>3

\* A correction a corrector's log gains is one it makes.
LEMMA CorrectionEnters ==
    ASSUME AtMostTwo, OneCorrector, TextInv, [Next]_vars, NEW m \in Corrector, NEW r \in Id,
           NEW a \in Corrections(m, r)', a \notin oplog[m]
    PROVE  Correct(m, r) /\ a.id = minted + 1 /\ \A p \in Node : a \notin oplog[p]
<1>1. m \in Node /\ a \in oplog'[m] /\ a.kind = "correct" /\ a.on = r
  BY SyncAssumption DEF Corrections
<1>2. RowInv /\ MeshInv
  BY DEF TextInv, RowInv
<1>3. a \notin pull[m].todo
  <2> SUFFICES ASSUME a \in pull[m].todo PROVE FALSE
    OBVIOUS
  <2>1. /\ pull[m].from \in Node /\ pull[m].from # m
        /\ a \in oplog[pull[m].from] /\ a.origin = pull[m].from
    BY <1>1, <1>2, PulledOp
  <2>2. a.origin \in Corrector
    BY <1>1, <2>1 DEF TextInv, CorrectorsCorrect
  <2> QED
    BY <2>1, <2>2 DEF OneCorrector
<1>4. \E x \in Id, num \in Id : Correct(m, x) /\ a = CorrectOf(minted + 1, x, num, Now(m), m)
  BY MeshInvMade, <1>1, <1>2, <1>3, WhatEnters DEF OpOf
<1>5. Correct(m, r) /\ a.id = minted + 1
  BY <1>1, <1>4 DEF CorrectOf
<1>6. ASSUME NEW p \in Node, a \in oplog[p] PROVE FALSE
  <2>1. a.id <= minted /\ minted \in Nat
    BY <1>2, <1>6, SyncAssumption DEF RowInv, MeshInv, LogInv, Numbered, EdgeInv, TypeOK
  <2> QED
    BY <1>5, <2>1
<1> QED
  BY <1>5, <1>6

LEMMA NumbersDifferStep ==
    ASSUME AtMostTwo, OneCorrector, TextInv, [Next]_vars PROVE NumbersDiffer'
<1> SUFFICES ASSUME NEW m \in Corrector, NEW r \in Id,
                    NEW a \in Corrections(m, r)', NEW b \in Corrections(m, r)', a.num = b.num
             PROVE  a = b
  BY DEF NumbersDiffer
<1>1. m \in Node /\ RowInv /\ MeshInv
  BY SyncAssumption DEF TextInv, RowInv
<1>2. CASE a \in oplog[m] /\ b \in oplog[m]
  <2>1. a \in Corrections(m, r) /\ b \in Corrections(m, r)
    BY <1>2 DEF Corrections
  <2> QED
    BY <2>1 DEF TextInv, NumbersDiffer
<1>3. ASSUME NEW x \in Corrections(m, r)', NEW y \in Corrections(m, r)',
             x \in oplog[m], y \notin oplog[m]
      PROVE  x.num # y.num
  <2>1. Correct(m, r)
    BY <1>3, CorrectionEnters
  <2>2. PICK num \in Id :
           /\ \A h \in history[m][r] : h.num < num
           /\ \A o \in oplog'[m] \ oplog[m] : o = CorrectOf(minted + 1, r, num, Now(m), m)
    BY <1>1, <2>1, CorrectParts
  <2>3. y = CorrectOf(minted + 1, r, num, Now(m), m)
    BY <1>3, <2>2 DEF Corrections
  <2>4. y.num = num
    BY <2>3 DEF CorrectOf
  <2>5. TextSound(m, r, m)
    BY <1>1, <2>1 DEF Correct, TextInv, TextsSound
  <2>6. x \in Done(m, r, m)
    BY <1>3 DEF Done, Corrections
  <2>7. PICK h \in history[m][r] : h.num = x.num
    BY <2>5, <2>6 DEF TextSound
  <2>8. h.num \in Nat /\ num \in Nat
    <3>1. history[m][r] \subseteq [num : Id, prior : Id]
      BY <1>1 DEF RowInv, MeshInv, LogInv, EdgeInv, TypeOK
    <3>2. h.num \in Id
      BY <3>1
    <3> QED
      BY <3>2, SyncAssumption DEF Id
  <2> QED
    BY <2>2, <2>4, <2>7, <2>8
<1>4. ASSUME a \notin oplog[m], b \notin oplog[m] PROVE a = b
  <2>1. Correct(m, r)
    BY <1>4, CorrectionEnters
  <2>2. PICK num \in Id :
           \A o \in oplog'[m] \ oplog[m] : o = CorrectOf(minted + 1, r, num, Now(m), m)
    BY <1>1, <2>1, CorrectParts
  <2> QED
    BY <1>4, <2>2 DEF Corrections
<1> QED
  BY <1>2, <1>3, <1>4

\* The text of a memory changes with a correction of it, made or applied.
LEMMA TextMoves ==
    ASSUME TextInv, [Next]_vars, NEW p \in Node, NEW r \in Id
    PROVE  \/ text'[p][r] = text[p][r] /\ history'[p][r] = history[p][r]
           \/ Correct(p, r)
           \/ \E op \in pull[p].todo :
                 /\ Materialize(p, op) /\ op.kind = "correct" /\ op.on = r
                 /\ mem[p][r] = "active" /\ Revised(p, r, op.num, op.id)
<1> DEFINE Same == text'[p][r] = text[p][r] /\ history'[p][r] = history[p][r]
<1>1. /\ text \in [Node -> [Id -> Id]]
      /\ history \in [Node -> [Id -> SUBSET [num : Id, prior : Id]]]
  BY DEF TextInv, RowInv, MeshInv, LogInv, EdgeInv, TypeOK
<1>2. CASE text' = text /\ history' = history
  BY <1>2
<1>3. ASSUME NEW n \in Node, NEW x \in Id, NEW num, NEW id, Revised(n, x, num, id),
             ~(n = p /\ x = r)
      PROVE  Same
  BY <1>1, <1>3 DEF Revised
<1>4. ASSUME NEW n \in Node, NEW x \in Id, Correct(n, x) PROVE Same \/ Correct(p, r)
  <2>1. PICK num \in Id : Revised(n, x, num, minted + 1)
    BY <1>4 DEF Correct
  <2> QED
    BY <1>3, <1>4, <2>1
<1>5. ASSUME NEW q \in Node, NEW op \in pull[q].todo, Materialize(q, op)
      PROVE  \/ Same
             \/ /\ q = p /\ op.kind = "correct" /\ op.on = r
                /\ mem[p][r] = "active" /\ Revised(p, r, op.num, op.id)
  <2>1. CASE op.kind # "correct"
    BY <1>5, <2>1 DEF Materialize
  <2>2. CASE op.kind = "correct"
    <3>1. op.on \in Id
      BY <2>2, HandledTyped, OpFields DEF TextInv, RowInv, MeshInv, LogInv, EdgeInv
    <3>2. Corrected(q, op)
      BY <1>5, <2>2 DEF Materialize
    <3> QED
      BY <1>3, <2>2, <3>1, <3>2 DEF Corrected
  <2> QED
    BY <2>1, <2>2
<1>6. \/ text' = text /\ history' = history
      \/ \E n \in Node, x \in Id : Correct(n, x)
      \/ \E q \in Node : \E op \in pull[q].todo : Materialize(q, op)
  <2>1. CASE UNCHANGED vars
    BY <2>1 DEF vars
  <2>2. CASE \E c \in Caller : CallStep(c)
    BY <2>2 DEF CallStep, CommitRecord, Upsert, StampOp, LogOp
  <2>3. CASE \E n \in Node : Tick(n) \/ Restart(n)
    BY <2>3 DEF Tick, Restart
  <2>4. CASE \/ \E c \in Caller, n \in Node : StartRecord(c, n)
             \/ \E c \in Caller, n \in Node, k \in Key : StartRelate(c, n, k)
             \/ \E n \in Node, x \in Id : Forget(n, x)
             \/ \E n, s \in Node : StartPull(n, s)
             \/ \E n \in Node : \E op \in pull[n].todo : Deferred(n, op)
    BY <2>4 DEF StartRecord, StartRelate, Forget, StartPull, Deferred
  <2>5. ASSUME NEW q \in Node, PullStep(q)
        PROVE  \/ text' = text /\ history' = history
               \/ \E op \in pull[q].todo : Materialize(q, op)
    BY <2>5 DEF PullStep, SkipKnown, LogApplied, Acknowledge
  <2> QED
    BY <2>1, <2>2, <2>3, <2>4, <2>5 DEF Next
<1> QED
  BY <1>2, <1>4, <1>5, <1>6

\* A node that has received an op corrects nothing.
LEMMA LoggingCorrectsNothing ==
    ASSUME Serialized, TextInv, NEW p \in Node, pull[p].pc = "log"
    PROVE  /\ \A r \in Id : ~Correct(p, r)
           /\ \A op \in pull[p].todo : ~Materialize(p, op)
  BY DEF Correct, MayStart, Materialize, NextOp, NoPull

LEMMA ReceivedTextStep ==
    ASSUME Serialized, AtMostTwo, TextInv, [Next]_vars PROVE ReceivedText'
<1> SUFFICES ASSUME NEW p \in Node, pull'[p].pc = "log", NEW op \in pull'[p].todo,
                    IsFirst(op, pull'[p].todo), op.kind = "correct",
                    mem'[p][op.on] = "active"
             PROVE  text'[p][op.on] = op.id
  BY DEF ReceivedText
<1>1. RowInv /\ MeshInv
  BY DEF TextInv, RowInv
<1>2. op \in pull[p].todo /\ op \in Op /\ op.on \in Id
  BY <1>1, LoggingPull, PulledOp, OpFields
<1>3. CASE pull'[p] = pull[p]
  <2>1. mem[p][op.on] # "absent"
    BY <1>1, <1>3 DEF RowInv, ReceivedObeyed, Obeyed
  <2>2. mem[p][op.on] = "active"
    BY MeshInvMade, <1>1, <1>2, <2>1, RowsForward DEF RowInv, MeshInv, LogInv, EdgeInv, TypeOK
  <2>3. text[p][op.on] = op.id
    BY <1>3, <2>2 DEF TextInv, ReceivedText
  <2> QED
    BY <1>2, <1>3, <2>3, TextMoves, LoggingCorrectsNothing
<1>4. CASE Materialize(p, op)
  <2>1. mem' = mem /\ Corrected(p, op)
    BY <1>4 DEF Materialize
  <2>2. text' = [text EXCEPT ![p][op.on] = op.id]
    BY <2>1 DEF Corrected, Revised
  <2> QED
    BY <1>1, <1>2, <2>2 DEF RowInv, MeshInv, LogInv, EdgeInv, TypeOK
<1> QED
  BY <1>1, <1>3, <1>4, LoggingPull
\* The name of a memory is the id of its record, of no correction.
LEMMA RecordIds ==
    ASSUME RowInv, NEW p \in Node, NEW r \in Id, mem[p][r] # "absent"
    PROVE  /\ r <= minted
           /\ \A n \in Node : \A b \in oplog[n] : b.kind = "correct" => b.id # r
<1>1. Made("record", r, Zero)
  BY DEF RowInv, MeshInv, RowsMade
<1>2. PICK m \in Node : \E a \in oplog[m] : a.kind = "record" /\ a.on = r
  BY <1>1 DEF Made
<1>3. PICK a \in oplog[m] : a.kind = "record" /\ a.on = r
  BY <1>2
<1>4. a.id = r
  BY <1>3 DEF RowInv, MeshInv, RecordsNamed
<1> QED
  BY <1>3, <1>4 DEF RowInv, MeshInv, LogInv, Numbered

LEMMA TextIsOld ==
    ASSUME TextInv, NEW p \in Node, NEW r \in Id, mem[p][r] = "active"
    PROVE  text[p][r] \in Nat /\ text[p][r] <= minted /\ minted \in Nat /\ r \in Nat
<1>1. r \in Nat /\ text[p][r] \in Nat /\ minted \in Nat
  <2>1. text[p][r] \in Id
    BY DEF TextInv, RowInv, MeshInv, LogInv, EdgeInv, TypeOK
  <2>2. minted \in 0..MaxOps
    BY DEF TextInv, RowInv, MeshInv, LogInv, EdgeInv, TypeOK
  <2> QED
    BY <2>1, <2>2, SyncAssumption DEF Id
<1>2. CASE text[p][r] = r
  BY <1>1, <1>2, RecordIds DEF TextInv
<1>3. CASE \E m \in Corrector : \E b \in Corrections(m, r) : b.id = text[p][r]
  BY <1>1, <1>3, SyncAssumption DEF Corrections, TextInv, RowInv, MeshInv, LogInv, Numbered
<1> QED
  BY <1>1, <1>2, <1>3 DEF TextInv, TextsSound, TextKnown

\* Other steps than a correction of the memory, made or applied here.
LEMMA TextSoundKept ==
    ASSUME Serialized, SlowRestart, AtMostTwo, OneCorrector, TextInv, [Next]_vars,
           NEW p \in Node, NEW r \in Id, NEW m \in Corrector, mem[p][r] = "active",
           text'[p][r] = text[p][r], history'[p][r] = history[p][r], ~Correct(p, r)
    PROVE  TextSound(p, r, m)'
<1>1. m \in Node /\ RowInv /\ MeshInv /\ TextSound(p, r, m)
  BY SyncAssumption DEF TextInv, RowInv, TextsSound
<1>2. oplog \in [Node -> SUBSET Op] /\ \A n \in Node : oplog[n] \subseteq oplog'[n]
  BY MeshInvMade, <1>1, LogsGrow DEF RowInv, MeshInv, LogInv, EdgeInv, TypeOK
<1>3. ASSUME NEW a \in Corrections(p, r)'
      PROVE  a \in Corrections(p, r) \/ a.id = text[p][r]
  <2>1. a \in oplog'[p] /\ a.kind = "correct" /\ a.on = r
    BY DEF Corrections
  <2>2. CASE a \in oplog[p]
    BY <2>1, <2>2 DEF Corrections
  <2>3. CASE a \in pull[p].todo /\ LogApplied(p, a)
    BY <2>1, <2>3 DEF LogApplied, TextInv, ReceivedText
  <2>4. ASSUME NEW x \in Id, NEW num \in Id, Correct(p, x),
               a = CorrectOf(minted + 1, x, num, Now(p), p)
        PROVE  FALSE
    BY <2>1, <2>4 DEF CorrectOf
  <2> QED
    BY MeshInvMade, <1>1, <2>1, <2>2, <2>3, <2>4, WhatEnters DEF OpOf
<1>4. ASSUME NEW a \in Corrections(m, r)'
      PROVE  \/ a \in Corrections(m, r)
             \/ a.id # text[p][r] /\ a \notin oplog'[p]
  <2>1. a \in oplog'[m] /\ a.kind = "correct" /\ a.on = r
    BY DEF Corrections
  <2>2. CASE a \in oplog[m]
    BY <2>1, <2>2 DEF Corrections
  <2>3. CASE a \notin oplog[m]
    <3>1. Correct(m, r) /\ a.id = minted + 1 /\ a \notin oplog[p]
      BY <2>3, CorrectionEnters
    <3>2. oplog'[p] = oplog[p]
      BY <1>1, <1>2, <3>1 DEF Correct
    <3>3. a.id # text[p][r]
      BY <3>1, TextIsOld
    <3> QED
      BY <3>1, <3>2, <3>3
  <2> QED
    BY <2>2, <2>3
<1>5. ASSUME NEW a \in oplog'[m], a.origin = m, a \notin oplog[m], NEW b \in oplog[m]
      PROVE  ~Past(b, Cursor(a))
  <2>1. a \in Op /\ b \in Op /\ Before(b.hlc, a.hlc)
    BY <1>1, <1>2, <1>5, OwnIsNewest DEF Newest
  <2> QED
    BY <2>1, PastTotal, PastAsymmetric
<1>6. text'[p][r] = r => Corrections(p, r)' = {}
  <2> SUFFICES ASSUME text'[p][r] = r, NEW a \in Corrections(p, r)' PROVE FALSE
    OBVIOUS
  <2>1. a \notin Corrections(p, r)
    BY <1>1 DEF TextSound
  <2>2. a.id = r
    BY <1>3, <2>1
  <2>3. a \in oplog'[p] /\ a.kind = "correct" /\ a \notin oplog[p]
    BY <2>1 DEF Corrections
  <2>4. a \in pull[p].todo
    <3>1. ASSUME NEW x \in Id, NEW num \in Id, Correct(p, x),
                 a = CorrectOf(minted + 1, x, num, Now(p), p)
          PROVE  FALSE
      BY <1>1, <2>2, <3>1, RecordIds, TextIsOld DEF CorrectOf
    <3> QED
      BY MeshInvMade, <1>1, <2>3, <3>1, WhatEnters DEF OpOf
  <2>5. pull[p].from \in Node /\ a \in oplog[pull[p].from]
    BY <1>1, <2>4, PulledOp
  <2> QED
    BY <1>1, <2>2, <2>3, <2>5, RecordIds
<1>7. \A x, y : x \in oplog'[p] /\ y \in oplog'[m] /\ x.id = y.id => x = y
  <2>1. Numbered'
    BY <1>1, RowInvNext DEF RowInv, MeshInv, LogInv
  <2> QED
    BY <1>1, <2>1 DEF Numbered
<1>8. Done(p, r, m)' = Done(p, r, m)
  <2>1. ASSUME NEW a \in Done(p, r, m)' PROVE a \in Done(p, r, m)
    <3>1. a \in Corrections(m, r)' /\ (a \in oplog'[p] \/ a.id = text[p][r])
      BY DEF Done
    <3>2. a \in Corrections(m, r)
      BY <1>4, <3>1
    <3>3. a \in oplog'[p] => a \in oplog[p] \/ a.id = text[p][r]
      BY <1>3, <3>1 DEF Corrections
    <3> QED
      BY <3>1, <3>2, <3>3 DEF Done
  <2>2. ASSUME NEW a \in Done(p, r, m) PROVE a \in Done(p, r, m)'
    BY <1>1, <1>2, <2>2 DEF Done, Corrections
  <2> QED
    BY <2>1, <2>2
<1>9. ASSUME NEW b \in Corrections(m, r)', b.id = text'[p][r]
      PROVE  /\ \A a \in Corrections(p, r)' : a = b \/ Past(b, Cursor(a))
             /\ \A a \in oplog'[m] : a.origin = m /\ Past(b, Cursor(a)) => a \in oplog'[p]
  <2>1. b \in Corrections(m, r) /\ b \in oplog[m]
    BY <1>4, <1>9 DEF Corrections
  <2>2. ASSUME NEW a \in Corrections(p, r)' PROVE a = b \/ Past(b, Cursor(a))
    <3>1. CASE a \in Corrections(p, r)
      BY <1>1, <1>9, <2>1, <3>1 DEF TextSound
    <3>2. CASE a.id = text[p][r]
      BY <1>7, <1>9, <2>2, <3>2 DEF Corrections
    <3> QED
      BY <1>3, <3>1, <3>2
  <2>3. ASSUME NEW a \in oplog'[m], a.origin = m, Past(b, Cursor(a)) PROVE a \in oplog'[p]
    <3>1. a \in oplog[m]
      BY <1>5, <2>1, <2>3
    <3>2. a \in oplog[p]
      BY <1>1, <1>9, <2>1, <2>3, <3>1 DEF TextSound
    <3> QED
      BY <1>2, <3>2
  <2> QED
    BY <2>2, <2>3
<1>10. /\ \A a \in Done(p, r, m) : \E h \in history[p][r] : h.num = a.num
       /\ \A h \in history[p][r] : \E a \in Done(p, r, m) : h.num = a.num
       /\ \A a \in Done(p, r, m) : a.id = text[p][r] \/ \E h \in history[p][r] : h.prior = a.id
  BY <1>1 DEF TextSound
<1> QED
  BY <1>6, <1>8, <1>9, <1>10 DEF TextSound

\* A correction made here.
LEMMA CorrectSound ==
    ASSUME AtMostTwo, OneCorrector, TextInv, [Next]_vars,
           NEW p \in Corrector, NEW r \in Id, Correct(p, r)
    PROVE  TextKnown(p, r)' /\ TextSound(p, r, p)'
<1>1. /\ p \in Node /\ RowInv /\ MeshInv /\ mem[p][r] = "active"
      /\ TextSound(p, r, p) /\ TextKnown(p, r)
  BY SyncAssumption DEF Correct, TextInv, RowInv, TextsSound
<1>2. PICK num \in Id :
         /\ \A h \in history[p][r] : h.num < num
         /\ Revised(p, r, num, minted + 1)
         /\ \A a \in oplog'[p] \ oplog[p] : a = CorrectOf(minted + 1, r, num, Now(p), p)
         /\ CorrectOf(minted + 1, r, num, Now(p), p) \in oplog'[p]
  BY <1>1, CorrectParts
<1>3. PICK op : op = CorrectOf(minted + 1, r, num, Now(p), p)
  OBVIOUS
<1>4. /\ op.id = minted + 1 /\ op.kind = "correct" /\ op.on = r /\ op.num = num /\ op.origin = p
      /\ op.hlc = Now(p)
  BY <1>3 DEF CorrectOf
<1>5. /\ op \in oplog'[p] /\ \A a \in oplog'[p] : a \in oplog[p] \/ a = op
      /\ op \in Corrections(p, r)' /\ \A a \in Corrections(p, r)' : a \in Corrections(p, r) \/ a = op
      /\ \A a \in Corrections(p, r) : a \in Corrections(p, r)'
  BY MeshInvMade, <1>1, <1>2, <1>3, <1>4, LogsGrow DEF Corrections
<1>6. PICK row : row = [num |-> num, prior |-> text[p][r]]
  OBVIOUS
<1>7. text'[p][r] = op.id /\ history'[p][r] = history[p][r] \cup {row}
  <2>1. /\ text \in [Node -> [Id -> Id]]
        /\ history \in [Node -> [Id -> SUBSET [num : Id, prior : Id]]]
    BY <1>1 DEF RowInv, MeshInv, LogInv, EdgeInv, TypeOK
  <2>2. \A h \in history[p][r] : h.num # num
    <3>1. \A h \in history[p][r] : h.num \in Nat
      <4>1. \A h \in history[p][r] : h.num \in Id
        BY <1>1, <2>1
      <4> QED
        BY <4>1, SyncAssumption DEF Id
    <3> QED
      BY <1>2, <3>1
  <2> QED
    BY <1>1, <1>2, <1>4, <1>6, <2>1, <2>2 DEF Revised
<1>8. op.id # r /\ \A n \in Node : \A b \in oplog[n] : b.id # op.id
  BY <1>1, <1>4, TextIsOld, RecordIds DEF RowInv, MeshInv, LogInv, Numbered
<1>9. row \in history'[p][r] /\ row.num = op.num /\ row.prior = text[p][r]
  BY <1>4, <1>6, <1>7
<1>10. TextKnown(p, r)'
  BY <1>1, <1>5, <1>7, <1>9 DEF TextKnown
<1>11. Done(p, r, p) = Corrections(p, r) /\ Done(p, r, p)' = Corrections(p, r)'
  BY DEF Done, Corrections
<1>12. text'[p][r] # r
  BY <1>7, <1>8
<1>13. ASSUME NEW b \in Corrections(p, r)', b.id = text'[p][r]
       PROVE  /\ \A a \in Corrections(p, r)' : a = b \/ Past(b, Cursor(a))
              /\ \A a \in oplog'[p] : a.origin = p /\ Past(b, Cursor(a)) => a \in oplog'[p]
  <2>1. b = op
    BY <1>1, <1>5, <1>7, <1>8, <1>13 DEF Corrections
  <2>2. op \in Op /\ Newest(p, op.hlc)
    BY <1>1, <1>4, <1>5, <1>8, OwnIsNewest
  <2>3. ASSUME NEW a \in Corrections(p, r) PROVE Past(op, Cursor(a))
    <3>1. a \in Op /\ Before(a.hlc, op.hlc)
      BY <1>1, <2>2 DEF Corrections, Newest, RowInv, MeshInv, LogInv, EdgeInv, TypeOK
    <3> QED
      BY <2>2, <3>1, PastTotal
  <2> QED
    BY <1>5, <2>1, <2>3
<1>14. ASSUME NEW a \in Corrections(p, r)'
       PROVE  /\ \E h \in history'[p][r] : h.num = a.num
              /\ a.id = text'[p][r] \/ \E h \in history'[p][r] : h.prior = a.id
  <2>1. CASE a = op
    BY <1>7, <1>9, <2>1
  <2>2. CASE a \in Corrections(p, r)
    BY <1>1, <1>7, <1>9, <1>11, <2>2 DEF TextSound
  <2> QED
    BY <1>5, <2>1, <2>2
<1>15. ASSUME NEW h \in history'[p][r] PROVE \E a \in Corrections(p, r)' : h.num = a.num
  <2>1. CASE h = row
    BY <1>5, <1>9, <2>1
  <2>2. CASE h \in history[p][r]
    <3>1. \E a \in Corrections(p, r) : h.num = a.num
      BY <1>1, <1>11, <2>2 DEF TextSound
    <3> QED
      BY <1>5, <3>1
  <2> QED
    BY <1>7, <2>1, <2>2
<1> QED
  BY <1>10, <1>11, <1>12, <1>13, <1>14, <1>15 DEF TextSound
\* A correction applied here: the first one of what the source made that the
\* node does not have.
LEMMA MaterializeSound ==
    ASSUME AtMostTwo, OneCorrector, TextInv, [Next]_vars,
           NEW p \in Node, NEW r \in Id, mem[p][r] = "active",
           NEW op \in pull[p].todo, Materialize(p, op), op.kind = "correct", op.on = r,
           Revised(p, r, op.num, op.id)
    PROVE  TextKnown(p, r)' /\ \A m \in Corrector : TextSound(p, r, m)'
<1>1. RowInv /\ MeshInv /\ TextKnown(p, r) /\ oplog' = oplog
  BY DEF TextInv, RowInv, TextsSound, Materialize
<1>2. /\ op \in Op /\ pull[p].from \in Node /\ pull[p].from # p
      /\ op \in oplog[pull[p].from] /\ op.origin = pull[p].from
      /\ IsFirst(op, pull[p].todo) /\ op \notin oplog[p]
  BY <1>1, PulledOp DEF Materialize, NextOp
<1>3. PICK m \in Corrector : m = pull[p].from
  BY <1>2 DEF TextInv, CorrectorsCorrect
<1>4. /\ m \in Node /\ op \in oplog[m] /\ op.origin = m /\ op \in Corrections(m, r)
      /\ TextSound(p, r, m) /\ \A x \in Corrector : x = m
  BY <1>2, <1>3 DEF Corrections, TextInv, TextsSound, OneCorrector
<1>5. /\ text' = [text EXCEPT ![p][r] = op.id]
      /\ history' = [history EXCEPT ![p][r] =
                       IF \E h \in @ : h.num = op.num THEN @
                       ELSE @ \cup {[num |-> op.num, prior |-> text[p][r]]}]
      /\ text \in [Node -> [Id -> Id]]
      /\ history \in [Node -> [Id -> SUBSET [num : Id, prior : Id]]]
  BY <1>1 DEF Revised, RowInv, MeshInv, LogInv, EdgeInv, TypeOK
<1>6. text'[p][r] = op.id
  BY <1>5
<1>7. /\ \A n \in Node, x \in Id : Corrections(n, x)' = Corrections(n, x)
      /\ Corrections(m, r) \subseteq oplog[m] /\ oplog[m] \subseteq Op
      /\ \A b \in oplog[m] : b.id = op.id => b = op
  BY <1>1, <1>4 DEF Corrections, RowInv, MeshInv, LogInv, EdgeInv, TypeOK, Numbered
<1>8. CASE \E h \in history[p][r] : h.num = op.num
  <2>1. PICK a \in Done(p, r, m) : a.num = op.num
    BY <1>4, <1>8 DEF TextSound
  <2>2. a = op
    BY <1>4, <2>1 DEF Done, TextInv, NumbersDiffer
  <2>3. text[p][r] = op.id
    BY <1>2, <2>1, <2>2 DEF Done
  <2>4. text'[p][r] = text[p][r] /\ history'[p][r] = history[p][r]
    BY <1>5, <1>6, <1>8, <2>3
  <2>5. TextSound(p, r, m)'
    <3>1. Done(p, r, m)' = Done(p, r, m)
      BY <1>1, <1>4, <1>7, <2>4 DEF Done
    <3> QED
      BY <1>1, <1>4, <1>7, <2>4, <3>1 DEF TextSound
  <2>6. TextKnown(p, r)'
    BY <1>1, <1>4, <1>6, <1>7, <2>4 DEF TextKnown
  <2> QED
    BY <1>4, <2>5, <2>6
<1>9. CASE ~\E h \in history[p][r] : h.num = op.num
  <2>1. PICK row : row = [num |-> op.num, prior |-> text[p][r]]
    OBVIOUS
  <2>2. history'[p][r] = history[p][r] \cup {row} /\ row.num = op.num /\ row.prior = text[p][r]
    BY <1>5, <1>9, <2>1
  <2>3. op.id # r
    BY <1>1, <1>4, RecordIds
  <2>4. ASSUME NEW a \in oplog[m], a.origin = m, Past(op, Cursor(a)) PROVE a \in oplog[p]
    BY <1>1, <1>2, <1>3, <2>4, EarlierPulled
  <2>5. ASSUME NEW a \in Corrections(p, r)
        PROVE  a \in Corrections(m, r) /\ Past(op, Cursor(a))
    <3>1. a \in Op /\ a \in oplog[p] /\ a.kind = "correct" /\ a.on = r
      BY <1>1 DEF Corrections, RowInv, MeshInv, LogInv, EdgeInv, TypeOK
    <3>2. a.origin = m
      BY <1>4, <3>1 DEF TextInv, CorrectorsCorrect
    <3>3. a \in Corrections(m, r)
      BY <3>1, <3>2 DEF Corrections, TextInv, RowInv, MeshInv, FromOrigin
    <3>4. ~Past(a, Cursor(op))
      BY <1>2, <1>4, <3>1, <3>2 DEF TextInv, OriginOrder
    <3>5. a.id # op.id
      BY <1>2, <1>7, <3>1, <3>3
    <3> QED
      BY <1>2, <3>1, <3>3, <3>4, <3>5, PastTotal
  <2>6. ASSUME NEW b \in Corrections(m, r), b.id = text[p][r] PROVE b \in oplog[p]
    <3>1. b \in oplog[m] /\ b \in Op /\ b.origin = m
      BY <1>4, <1>7 DEF Corrections, TextInv, CorrectorsCorrect
    <3>2. b \in Done(p, r, m)
      BY <2>6 DEF Done
    <3>3. b # op
      BY <1>4, <1>9, <3>2 DEF TextSound
    <3>4. ~Past(b, Cursor(op))
      BY <1>2, <1>4, <2>6 DEF TextSound
    <3>5. Past(op, Cursor(b))
      BY <1>2, <1>7, <3>1, <3>3, <3>4, PastTotal
    <3> QED
      BY <2>4, <3>1, <3>5
  <2>7. /\ op \in Done(p, r, m)' /\ Done(p, r, m) \subseteq Done(p, r, m)'
        /\ \A a \in Done(p, r, m)' : a \in Done(p, r, m) \/ a = op
    BY <1>1, <1>4, <1>6, <1>7, <2>6 DEF Done
  <2>8. ASSUME NEW a \in Done(p, r, m)'
        PROVE  /\ \E h \in history'[p][r] : h.num = a.num
               /\ a.id = text'[p][r] \/ \E h \in history'[p][r] : h.prior = a.id
    <3>1. CASE a = op
      BY <1>6, <2>2, <3>1
    <3>2. CASE a \in Done(p, r, m)
      BY <1>4, <2>2, <3>2 DEF TextSound
    <3> QED
      BY <2>7, <3>1, <3>2
  <2>9. ASSUME NEW h \in history'[p][r] PROVE \E a \in Done(p, r, m)' : h.num = a.num
    <3>1. CASE h = row
      BY <2>2, <2>7, <3>1
    <3>2. CASE h \in history[p][r]
      <4>1. \E a \in Done(p, r, m) : h.num = a.num
        BY <1>4, <3>2 DEF TextSound
      <4> QED
        BY <2>7, <4>1
    <3> QED
      BY <2>2, <3>1, <3>2
  <2>10. ASSUME NEW b \in Corrections(m, r)', b.id = text'[p][r]
         PROVE  /\ \A a \in Corrections(p, r)' : a = b \/ Past(b, Cursor(a))
                /\ \A a \in oplog'[m] : a.origin = m /\ Past(b, Cursor(a)) => a \in oplog'[p]
    <3>1. b = op
      BY <1>4, <1>6, <1>7, <2>10
    <3> QED
      BY <1>1, <1>7, <2>4, <2>5, <3>1
  <2>11. text'[p][r] # r
    BY <1>6, <2>3
  <2>12. TextSound(p, r, m)'
    BY <2>8, <2>9, <2>10, <2>11 DEF TextSound
  <2>13. TextKnown(p, r)'
    BY <1>1, <1>4, <1>6, <1>7, <2>2 DEF TextKnown
  <2> QED
    BY <1>4, <2>12, <2>13
<1> QED
  BY <1>8, <1>9

\* A memory that appears has no correction yet.
LEMMA RowAppears ==
    ASSUME Serialized, SlowRestart, AtMostTwo, TextInv, [Next]_vars,
           NEW p \in Node, NEW r \in Id, mem[p][r] = "absent", mem'[p][r] = "active",
           text'[p][r] = r, history'[p][r] = {}
    PROVE  TextKnown(p, r)' /\ \A m \in Corrector : TextSound(p, r, m)'
<1>1. RowInv /\ MeshInv /\ RowInv'
  BY RowInvNext DEF TextInv, RowInv
<1>2. ASSUME NEW a \in Corrections(p, r)' PROVE FALSE
  <2>1. a \in oplog'[p] /\ a.kind = "correct" /\ a.on = r
    BY DEF Corrections
  <2>2. a \notin oplog[p]
    BY <1>1, <2>1 DEF RowInv, LogObeyed, Obeyed
  <2>3. ~(a \in pull[p].todo /\ LogApplied(p, a))
    BY <1>1, <2>1 DEF LogApplied, RowInv, ReceivedObeyed, Obeyed
  <2>4. ASSUME NEW x \in Id, NEW num \in Id, Correct(p, x),
               a = CorrectOf(minted + 1, x, num, Now(p), p)
        PROVE  FALSE
    BY <2>1, <2>4 DEF CorrectOf, Correct
  <2> QED
    BY MeshInvMade, <1>1, <2>1, <2>2, <2>3, <2>4, WhatEnters DEF OpOf
<1>3. ASSUME NEW m \in Node, NEW b \in Corrections(m, r)', b.id = r PROVE FALSE
  <2>1. PICK n \in Node : \E a \in oplog'[n] : a.kind = "record" /\ a.on = r
    BY <1>1 DEF RowInv, MeshInv, RowsMade, Made
  <2>2. PICK a \in oplog'[n] : a.kind = "record" /\ a.on = r
    BY <2>1
  <2>3. a.id = r
    BY <1>1, <2>2 DEF RowInv, MeshInv, RecordsNamed
  <2>4. b = a
    BY <1>1, <1>3, <2>3 DEF Corrections, RowInv, MeshInv, LogInv, Numbered
  <2> QED
    BY <2>2, <2>4 DEF Corrections
<1>4. ASSUME NEW m \in Corrector PROVE TextSound(p, r, m)'
  <2>1. m \in Node
    BY SyncAssumption
  <2>2. Done(p, r, m)' = {}
    BY <1>2, <1>3, <2>1 DEF Done, Corrections
  <2> QED
    BY <1>2, <1>3, <2>1, <2>2 DEF TextSound
<1> QED
  BY <1>4 DEF TextKnown

LEMMA TextsSoundStep ==
    ASSUME Serialized, SlowRestart, AtMostTwo, OneCorrector, TextInv, [Next]_vars
    PROVE  TextsSound'
<1> SUFFICES ASSUME NEW p \in Node, NEW r \in Id
             PROVE  /\ mem'[p][r] = "absent" => text'[p][r] = r /\ history'[p][r] = {}
                    /\ mem'[p][r] = "active" =>
                          TextKnown(p, r)' /\ \A m \in Corrector : TextSound(p, r, m)'
  BY DEF TextsSound
<1>1. RowInv /\ MeshInv /\ mem[p][r] \in {"absent", "active", "tombstoned"}
  BY DEF TextInv, RowInv, MeshInv, LogInv, EdgeInv, TypeOK
<1>2. CASE mem[p][r] = "absent"
  <2>1. text'[p][r] = text[p][r] /\ history'[p][r] = history[p][r]
    BY <1>2, TextMoves DEF Correct
  <2>2. text'[p][r] = r /\ history'[p][r] = {}
    BY <1>2, <2>1 DEF TextInv, TextsSound
  <2> QED
    BY <1>2, <2>2, RowAppears
<1>3. CASE mem[p][r] = "active"
  <2>1. mem'[p][r] # "absent"
    BY MeshInvMade, <1>1, <1>3, RowsForward
  <2>2. CASE Correct(p, r)
    <3>1. p \in Corrector /\ \A m \in Corrector : m = p
      BY <2>2 DEF Correct, OneCorrector
    <3> QED
      BY <2>1, <2>2, <3>1, CorrectSound
  <2>3. CASE ~Correct(p, r) /\ text'[p][r] = text[p][r] /\ history'[p][r] = history[p][r]
    <3>1. \A m \in Corrector : TextSound(p, r, m)'
      BY <1>3, <2>3, TextSoundKept
    <3>2. TextKnown(p, r)'
      <4>1. TextKnown(p, r) /\ \A m \in Node : Corrections(m, r) \subseteq Corrections(m, r)'
        BY MeshInvMade, <1>1, <1>3, LogsGrow DEF TextInv, TextsSound, Corrections
      <4> QED
        BY <2>3, <4>1, SyncAssumption DEF TextKnown
    <3> QED
      BY <2>1, <3>1, <3>2
  <2>4. CASE \E op \in pull[p].todo :
                /\ Materialize(p, op) /\ op.kind = "correct" /\ op.on = r
                /\ mem[p][r] = "active" /\ Revised(p, r, op.num, op.id)
    BY <2>1, <2>4, MaterializeSound
  <2> QED
    BY <2>2, <2>3, <2>4, TextMoves
<1>4. CASE mem[p][r] = "tombstoned"
  BY MeshInvMade, <1>1, <1>4, RowsForward
<1> QED
  BY <1>1, <1>2, <1>3, <1>4

LEMMA TextInvNext ==
    ASSUME Serialized, SlowRestart, AtMostTwo, OneCorrector, TextInv, [Next]_vars
    PROVE  TextInv'
<1>1. RowInv'
  BY RowInvNext DEF TextInv
<1> QED
  BY <1>1, OriginOrderStep, CorrectorsCorrectStep, NumbersDifferStep,
     TextsSoundStep, ReceivedTextStep DEF TextInv

\* At rest a node has every correction, so its text is the newest one.
LEMMA RestHasNewestText ==
    ASSUME OneCorrector, TextInv PROVE CorrectionsFollowLog
<1> SUFFICES ASSUME NEW n \in Node, NEW r \in Id, AtRest(n), mem[n][r] = "active"
             PROVE  /\ text[n][r] \in Texts(n, r)
                    /\ \A op \in Corrections(n, r) :
                          \/ text[n][r] = op.id
                          \/ \E newer \in Corrections(n, r) :
                                newer.id = text[n][r] /\ Past(newer, Cursor(op))
                    /\ Texts(n, r) \subseteq {text[n][r]} \cup {h.prior : h \in history[n][r]}
  BY DEF CorrectionsFollowLog
<1>1. RowInv /\ MeshInv /\ TextKnown(n, r) /\ \A m \in Corrector : TextSound(n, r, m)
  BY DEF TextInv, RowInv, TextsSound
<1>2. ASSUME NEW m \in Corrector, NEW b \in Corrections(m, r) PROVE b \in Corrections(n, r)
  <2>1. m \in Node /\ b \in oplog[m] /\ b.origin \in Corrector
    BY SyncAssumption DEF Corrections, TextInv, CorrectorsCorrect
  <2>2. b.origin = m
    BY <2>1 DEF OneCorrector
  <2> QED
    BY <1>1, <2>1, <2>2, RestHasAll DEF Corrections
<1>3. ASSUME NEW a \in Corrections(n, r)
      PROVE  \E m \in Corrector : a \in Done(n, r, m)
  <2>1. a \in oplog[n] /\ a.origin \in Corrector /\ a \in oplog[a.origin]
    BY DEF Corrections, TextInv, RowInv, MeshInv, CorrectorsCorrect, FromOrigin
  <2> QED
    BY <2>1 DEF Done, Corrections
<1>4. text[n][r] = r \/ \E b \in Corrections(n, r) : b.id = text[n][r]
  BY <1>1, <1>2 DEF TextKnown
<1>5. ASSUME NEW op \in Corrections(n, r)
      PROVE  \/ text[n][r] = op.id
             \/ \E newer \in Corrections(n, r) :
                   newer.id = text[n][r] /\ Past(newer, Cursor(op))
  <2>1. PICK m \in Corrector : op \in Done(n, r, m)
    BY <1>3
  <2>2. text[n][r] # r
    BY <1>1, <2>1 DEF TextSound
  <2>3. PICK x \in Corrector : \E b \in Corrections(x, r) : b.id = text[n][r]
    BY <1>1, <2>2 DEF TextKnown
  <2>4. PICK b \in Corrections(x, r) : b.id = text[n][r]
    BY <2>3
  <2>5. op = b \/ Past(b, Cursor(op))
    BY <1>1, <2>4 DEF TextSound
  <2> QED
    BY <1>2, <2>4, <2>5
<1>6. ASSUME NEW a \in Corrections(n, r)
      PROVE  a.id = text[n][r] \/ \E h \in history[n][r] : h.prior = a.id
  BY <1>1, <1>3 DEF TextSound
<1>7. text[n][r] = r \/ \E h \in history[n][r] : h.prior = r
  BY <1>1 DEF TextKnown
<1> QED
  BY <1>4, <1>5, <1>6, <1>7 DEF Texts

\* Between two nodes of which one corrects: a live memory of a node at rest has
\* the newest text its log knows, and its history has every other one.
THEOREM PairCorrectionsFollowLog ==
    ASSUME Serialized, SlowRestart, AtMostTwo, OneCorrector
    PROVE  Spec => []CorrectionsFollowLog
<1>1. Init => TextInv
  BY TextInvInit
<1>2. TextInv /\ [Next]_vars => TextInv'
  BY TextInvNext
<1>3. TextInv => CorrectionsFollowLog
  BY RestHasNewestText
<1> QED
  BY <1>1, <1>2, <1>3, PTL DEF Spec

\* Then two nodes that have pulled all there is also serve the same text of every
\* live memory: the newest, although no timestamp is compared on arrival.
CaughtUpTextsAgree ==
    \A n, m \in Node, r \in Id :
        AtRest(n) /\ AtRest(m) /\ mem[n][r] = "active" =>
            mem[m][r] = "active" /\ text[n][r] = text[m][r]

\* ... in every reachable state of two nodes of which one corrects.
THEOREM PairTextsAgreeAtRest ==
    ASSUME Serialized, SlowRestart, AtMostTwo, OneCorrector
    PROVE  Spec => []CaughtUpTextsAgree
<1>1. Init => TextInv
  BY TextInvInit
<1>2. TextInv /\ [Next]_vars => TextInv'
  BY TextInvNext
<1>3. TextInv => CaughtUpTextsAgree
  <2> SUFFICES ASSUME TextInv, NEW n \in Node, NEW m \in Node, NEW r \in Id,
                      AtRest(n), AtRest(m), mem[n][r] = "active"
               PROVE  mem[m][r] = "active" /\ text[n][r] = text[m][r]
    BY DEF CaughtUpTextsAgree
  <2>1. oplog[n] = oplog[m] /\ mem[m][r] = "active"
    <3>1. oplog[n] = oplog[m]
      BY RestSameLog DEF TextInv, RowInv
    <3>2. \A kind : Has(n, kind, r) <=> Has(m, kind, r)
      BY <3>1 DEF Has
    <3> QED
      BY <3>1, <3>2, RestFollowsLog DEF TextInv, RowsFollowLog
  <2>2. Corrections(m, r) = Corrections(n, r) /\ Texts(m, r) = Texts(n, r)
    BY <2>1 DEF Corrections, Texts
  <2>3. \A x \in {n, m} :
           /\ text[x][r] \in Texts(n, r)
           /\ \A op \in Corrections(n, r) :
                 \/ text[x][r] = op.id
                 \/ \E newer \in Corrections(n, r) :
                       newer.id = text[x][r] /\ Past(newer, Cursor(op))
    BY <2>1, <2>2, RestHasNewestText DEF CorrectionsFollowLog
  <2>4. \A a, b \in Corrections(n, r) : a \in Op /\ (a.id = b.id => a = b)
    BY DEF Corrections, TextInv, RowInv, MeshInv, LogInv, Numbered, EdgeInv, TypeOK
  <2>5. CASE Corrections(n, r) = {}
    BY <2>1, <2>3, <2>5 DEF Texts
  <2>6. CASE Corrections(n, r) # {}
    <3>1. ASSUME NEW x \in {n, m} PROVE \E a \in Corrections(n, r) : a.id = text[x][r]
      BY <2>3, <2>6
    <3>2. PICK a \in Corrections(n, r) : a.id = text[n][r]
      BY <3>1
    <3>3. PICK b \in Corrections(n, r) : b.id = text[m][r]
      BY <3>1
    <3>4. a = b \/ Past(a, Cursor(b))
      BY <2>3, <2>4, <3>2, <3>3
    <3>5. a = b \/ Past(b, Cursor(a))
      BY <2>3, <2>4, <3>2, <3>3
    <3>6. a = b
      BY <2>4, <3>4, <3>5, PastAsymmetric
    <3> QED
      BY <2>1, <3>2, <3>3, <3>6
  <2> QED
    BY <2>1, <2>5, <2>6
<1> QED
  BY <1>1, <1>2, <1>3, PTL DEF Spec
=============================================================================
