--------------------------- MODULE ReembedProofs ----------------------------
(***************************************************************************)
(* Theorems about Reembed for every finite set of rids and writers, every  *)
(* page size, every set of steps that may fail, with and without crashes;  *)
(* OnePageLosesNothing is about migrations that fit one page.              *)
(***************************************************************************)
EXTENDS Reembed, FiniteSetTheorems, TLAPS

-----------------------------------------------------------------------------
(* The inductive invariant *)

\* The writers that hold a guard of the router.
Inside == {w \in Writer : pc[w] \in {"inside", "committed"}}

\* A running write that is not a forget has a text, and a live row has one.
Texted ==
    /\ \A w \in Writer : pc[w] # "idle" /\ job[w].op # "forget" => job[w].text \in Text
    /\ \A r \in Rid : Active(r) => rows[r].text \in Text

\* The router counts the guards, and while the cutover has drained them and
\* not yet resumed there are none.
Guarded ==
    /\ inflight = Cardinality(Inside)
    /\ phase \in {"drain", "tail", "publish", "resume"} => router = "Queueing"
    /\ phase \in {"tail", "publish", "resume"} => Inside = {}

\* The durable generation is the published one, except between the swap's
\* commit and its publish; who writes, writes in the published generation.
Generations ==
    /\ durable = IF phase = "publish" THEN gen + 1 ELSE gen
    /\ phase \notin {"idle", "resume", "verify"} => gen < MaxGen
    /\ \A w \in Inside : job[w].space = gen

\* Once the tail is read, a live row is staged or waits in the page, and the
\* page holds the texts the rows still have.
TailKnown ==
    /\ IsFiniteSet(page)
    /\ phase = "tail" =>
         /\ \A v \in page : v[2] = rows[v[1]].text
         /\ \A r \in Rid : Active(r) => \/ rows[r].staged # NoText
                                        \/ <<r, rows[r].text>> \in page

MigrationInv ==
    /\ TypeOK /\ Texted /\ Guarded /\ Generations /\ TailKnown
    /\ StoredVectorsTrue /\ IndexInOneSpace

-----------------------------------------------------------------------------
(* Helpers *)

\* A page has as many entries as it has rids.
LEMMA TextsFinite ==
    ASSUME NEW S, IsFiniteSet(S)
    PROVE  IsFiniteSet(Texts(S))
<1> DEFINE f == [r \in S |-> <<r, rows[r].text>>]
<1>1. f \in Surjection(S, Texts(S))
  BY DEF Surjection, Texts
<1> QED
  BY <1>1, FS_Surjection

\* What a page reads of live rows are texts.
LEMMA TextsType ==
    ASSUME TypeOK, Texted, NEW S, S \subseteq {r \in Rid : Active(r)}
    PROVE  Texts(S) \subseteq Rid \X Text /\ IsFiniteSet(Texts(S))
<1>1. IsFiniteSet(S)
  <2>1. IsFiniteSet(Rid)
    BY ConstantsAssumption
  <2>2. S \subseteq Rid
    OBVIOUS
  <2> QED
    BY <2>1, <2>2, FS_Subset
<1>2. Texts(S) \subseteq Rid \X Text
  BY DEF Texts, Texted
<1> QED
  BY <1>1, <1>2, TextsFinite

LEMMA PageSubset == ASSUME NEW S, NEW o PROVE Page(S, o) \subseteq S
  BY DEF Page

LEMMA InsideFinite == IsFiniteSet(Inside)
  BY ConstantsAssumption, FS_Subset, Inside \subseteq Writer DEF Inside

\* A writer that enters is counted once more.
LEMMA EnterCounts ==
    ASSUME TypeOK, inflight = Cardinality(Inside),
           NEW w \in Writer, pc[w] \in {"idle", "embedded"},
           pc' = [pc EXCEPT ![w] = "inside"], inflight' = inflight + 1
    PROVE  inflight' = Cardinality(Inside')
<1>1. Inside' = Inside \cup {w} /\ w \notin Inside
  BY DEF Inside, TypeOK
<1> QED
  BY <1>1, InsideFinite, FS_AddElement

\* A writer that leaves was counted, and is counted no more.
LEMMA LeaveCounts ==
    ASSUME TypeOK, inflight = Cardinality(Inside),
           NEW w \in Writer, pc[w] \in {"inside", "committed"},
           pc' = [pc EXCEPT ![w] = "idle"], inflight' = inflight - 1
    PROVE  inflight' = Cardinality(Inside') /\ inflight' \in Nat
<1>1. Inside' = Inside \ {w} /\ w \in Inside
  BY DEF Inside, TypeOK
<1>2. Cardinality(Inside') = Cardinality(Inside) - 1 /\ IsFiniteSet(Inside')
  BY <1>1, InsideFinite, FS_RemoveElement
<1>3. Cardinality(Inside') \in Nat
  BY <1>2, FS_CardinalityType
<1> QED
  BY <1>2, <1>3

\* No guard is held by a set of idle writers.
LEMMA NobodyInside ==
    ASSUME pc = [w \in Writer |-> "idle"]
    PROVE  Inside = {} /\ Cardinality(Inside) = 0
  BY FS_EmptySet DEF Inside

\* What a transaction, a staging write and a swap make of a row is a row.
LEMMA CommittedRowType ==
    ASSUME TypeOK, Texted, NEW w \in Writer, pc[w] # "idle"
    PROVE  CommittedRow(job[w]) \in Row
<1>1. job[w] \in Job
  BY DEF TypeOK
<1>2. CASE job[w].op = "forget"
  BY <1>1, <1>2 DEF CommittedRow, Row, TypeOK, Job
<1>3. CASE job[w].op # "forget"
  <2>1. job[w].text \in Text
    BY <1>3 DEF Texted
  <2> QED
    BY <1>1, <1>3, <2>1 DEF CommittedRow, Row, TypeOK, Job
<1> QED
  BY <1>2, <1>3

LEMMA ClearedRowType ==
    ASSUME TypeOK, NEW r \in Rid
    PROVE  [rows[r] EXCEPT !.staged = NoText] \in Row
  BY DEF TypeOK, Row

LEMMA StagedRowType ==
    ASSUME TypeOK, NEW r \in Rid
    PROVE  StagedRow(r) \in Row
<1>1. rows[r] \in Row
  BY DEF TypeOK
<1> QED
  BY <1>1 DEF StagedRow, Row

LEMMA SwappedRowType ==
    ASSUME NEW row \in Row, gen + 1 \in Gen
    PROVE  SwappedRow(row) \in Row
  BY DEF SwappedRow, Row, Next1

-----------------------------------------------------------------------------
(* The invariant holds initially and every step keeps it *)

LEMMA MigrationInvInit == Init => MigrationInv
<1> SUFFICES ASSUME Init PROVE MigrationInv
  OBVIOUS
<1> USE DEF Init
<1>1. rows \in [Rid -> Row]
  BY ConstantsAssumption DEF Absent, Row, Gen
<1>2. TypeOK
  <2>1. /\ durable \in Gen /\ gen \in Gen /\ inflight \in Nat /\ offset \in Nat
    BY ConstantsAssumption DEF Gen
  <2>2. jobState \in BOOLEAN
    OBVIOUS
  <2>3. /\ index \subseteq Rid \X Text \X Gen
        /\ page \subseteq Rid \X Text /\ built \subseteq Rid \X Text
    OBVIOUS
  <2>4. /\ pc \in [Writer -> {"idle", "embedded", "inside", "committed"}]
        /\ job \in [Writer -> Job \cup {NoJob}]
        /\ \A w \in Writer : pc[w] # "idle" => job[w] \in Job
    OBVIOUS
  <2> QED
    BY <1>1, <2>1, <2>2, <2>3, <2>4 DEF TypeOK
<1>3. Guarded
  BY NobodyInside DEF Guarded
<1>4. Generations /\ Texted /\ StoredVectorsTrue /\ IndexInOneSpace
  BY NobodyInside DEF Generations, Texted, StoredVectorsTrue, IndexInOneSpace, Active, Absent
<1>5. TailKnown
  BY FS_EmptySet DEF TailKnown
<1> QED
  BY <1>2, <1>3, <1>4, <1>5 DEF MigrationInv

\* A write begins: nothing but its own record changes.
LEMMA EmbedStep ==
    ASSUME MigrationInv, NEW w \in Writer, NEW op \in {"record", "correct"},
           NEW r \in Rid, NEW t \in Text, Embed(w, op, r, t)
    PROVE  MigrationInv'
<1> USE DEF MigrationInv, Embed, sqlVars, searchVars, routerVars, localVars
<1>1. [op |-> op, rid |-> r, text |-> t, space |-> gen] \in Job
  BY DEF Job, TypeOK
<1>2. TypeOK'
  BY <1>1 DEF TypeOK
<1>3. Inside' = Inside /\ w \notin Inside
  BY DEF Inside, TypeOK
<1>4. Guarded' /\ Generations'
  BY <1>3 DEF Guarded, Generations, Inside, TypeOK
<1>5. Texted' /\ TailKnown' /\ StoredVectorsTrue' /\ IndexInOneSpace'
  BY DEF Texted, TailKnown, StoredVectorsTrue, IndexInOneSpace, Active, TypeOK
<1> QED
  BY <1>2, <1>4, <1>5

\* A write enters the router, in the generation it was embedded for.
LEMMA EnterStep ==
    ASSUME MigrationInv, NEW w \in Writer, Enter(w)
    PROVE  MigrationInv'
<1> USE DEF MigrationInv, Enter, TryEnter, Goto, sqlVars, searchVars, localVars
<1>1. pc' = [pc EXCEPT ![w] = "inside"] /\ job' = job /\ inflight' = inflight + 1
  OBVIOUS
<1>2. TypeOK'
  BY <1>1 DEF TypeOK
<1>3. inflight' = Cardinality(Inside')
  BY <1>1, EnterCounts DEF Guarded
<1>4. Guarded'
  BY <1>1, <1>3 DEF Guarded
<1>5. Inside' = Inside \cup {w}
  BY <1>1 DEF Inside, TypeOK
<1>6. Generations'
  BY <1>1, <1>5 DEF Generations
<1>7. Texted' /\ TailKnown' /\ StoredVectorsTrue' /\ IndexInOneSpace'
  BY <1>1 DEF Texted, TailKnown, StoredVectorsTrue, IndexInOneSpace, Active, TypeOK
<1> QED
  BY <1>2, <1>4, <1>6, <1>7

\* A forget enters the router before it does anything else.
LEMMA EnterForgetStep ==
    ASSUME MigrationInv, NEW w \in Writer, NEW r \in Rid, EnterForget(w, r)
    PROVE  MigrationInv'
<1> USE DEF MigrationInv, EnterForget, TryEnter, sqlVars, searchVars, localVars
<1>1. [op |-> "forget", rid |-> r, text |-> NoText, space |-> gen] \in Job
  BY DEF Job, TypeOK
<1>2. TypeOK'
  BY <1>1 DEF TypeOK
<1>3. inflight' = Cardinality(Inside')
  BY EnterCounts DEF Guarded
<1>4. Guarded'
  BY <1>3 DEF Guarded
<1>5. Inside' = Inside \cup {w} /\ w \notin Inside
  BY DEF Inside, TypeOK
<1>6. Generations'
  BY <1>5 DEF Generations, TypeOK, Inside
<1>7. Texted' /\ TailKnown' /\ StoredVectorsTrue' /\ IndexInOneSpace'
  BY DEF Texted, TailKnown, StoredVectorsTrue, IndexInOneSpace, Active, TypeOK
<1> QED
  BY <1>2, <1>4, <1>6, <1>7

\* Embedding again and giving way to the queue touch no row and no guard.
LEMMA OutsideStep ==
    ASSUME MigrationInv, NEW w \in Writer, EmbedAgain(w) \/ Deferred(w)
    PROVE  MigrationInv'
<1> USE DEF MigrationInv, EmbedAgain, Deferred, Goto, sqlVars, searchVars, routerVars, localVars
<1>1. w \notin Inside
  BY DEF Inside
<1>2. TypeOK'
  <2>1. CASE EmbedAgain(w)
    BY <2>1 DEF TypeOK, Job
  <2>2. CASE Deferred(w)
    BY <2>2 DEF TypeOK
  <2> QED
    BY <2>1, <2>2
<1>3. Inside' = Inside
  BY DEF Inside, TypeOK
<1>4. \A x \in Inside : job'[x].space = job[x].space
  BY <1>1 DEF Inside, TypeOK
<1>5. Guarded' /\ Generations'
  BY <1>3, <1>4 DEF Guarded, Generations
<1>6. Texted'
  <2>1. CASE EmbedAgain(w)
    BY <2>1 DEF Texted, Active, TypeOK, Job
  <2>2. CASE Deferred(w)
    BY <2>2 DEF Texted, Active, TypeOK
  <2> QED
    BY <2>1, <2>2
<1>7. TailKnown' /\ StoredVectorsTrue' /\ IndexInOneSpace'
  BY DEF TailKnown, StoredVectorsTrue, IndexInOneSpace, Active
<1> QED
  BY <1>2, <1>5, <1>6, <1>7

\* The transaction of a write: its row is new or forgotten, and true.
LEMMA CommitStep ==
    ASSUME MigrationInv, NEW w \in Writer, Commit(w)
    PROVE  MigrationInv'
<1> USE DEF MigrationInv, Commit, Goto, searchVars, routerVars, localVars
<1>1. w \in Inside /\ pc[w] # "idle" /\ phase \notin {"tail", "publish", "resume"}
  BY DEF Inside, Guarded
<1>2. job[w] \in Job /\ job[w].rid \in Rid
  BY <1>1 DEF TypeOK, Job
<1>3. CommittedRow(job[w]) \in Row
  BY <1>1, CommittedRowType
<1>4. pc' = [pc EXCEPT ![w] = "committed"] /\ job' = job
  OBVIOUS
<1>5. TypeOK'
  BY <1>2, <1>3, <1>4 DEF TypeOK
<1>6. Inside' = Inside
  BY <1>4, <1>1 DEF Inside, TypeOK
<1>7. Guarded' /\ Generations'
  BY <1>4, <1>6 DEF Guarded, Generations
<1>8. TailKnown' /\ IndexInOneSpace'
  BY <1>1 DEF TailKnown, IndexInOneSpace
<1>9. job[w].space = gen /\ durable = gen
  BY <1>1 DEF Generations
<1>10. ASSUME NEW r \in Rid, Active(r)'
       PROVE  /\ rows'[r].text \in Text
              /\ rows'[r].vtext = rows'[r].text
              /\ rows'[r].space = durable' /\ rows'[r].gen = durable'
              /\ rows'[r].staged \in {NoText, rows'[r].text}
  <2>1. CASE r # job[w].rid
    BY <1>10, <2>1, <1>2 DEF TypeOK, Texted, StoredVectorsTrue, Active
  <2>2. CASE r = job[w].rid
    <3>1. rows'[r] = CommittedRow(job[w])
      BY <2>2, <1>2 DEF TypeOK
    <3>2. job[w].op # "forget"
      <4>1. rows[job[w].rid] \in Row
        BY <1>2 DEF TypeOK
      <4> QED
        BY <3>1, <1>10, <4>1 DEF CommittedRow, Active, Row
    <3>3. job[w].text \in Text
      BY <3>2, <1>1 DEF Texted
    <3> QED
      BY <3>1, <3>2, <3>3, <1>9 DEF CommittedRow
  <2> QED
    BY <2>1, <2>2
<1>11. Texted'
  BY <1>4, <1>10, <1>1 DEF Texted, TypeOK
<1>12. StoredVectorsTrue'
  BY <1>10 DEF StoredVectorsTrue
<1> QED
  BY <1>5, <1>7, <1>8, <1>11, <1>12

\* A write that gives up leaves the router as one of those counted.
LEMMA AbortStep ==
    ASSUME MigrationInv, NEW w \in Writer, Abort(w)
    PROVE  MigrationInv'
<1> USE DEF MigrationInv, Abort, Goto, sqlVars, searchVars, localVars
<1>1. pc' = [pc EXCEPT ![w] = "idle"] /\ job' = [job EXCEPT ![w] = NoJob]
  OBVIOUS
<1>2. inflight' = Cardinality(Inside') /\ inflight' \in Nat
  BY <1>1, LeaveCounts DEF Guarded
<1>3. TypeOK'
  BY <1>1, <1>2 DEF TypeOK
<1>4. Inside' = Inside \ {w}
  BY <1>1 DEF Inside, TypeOK
<1>5. Guarded' /\ Generations'
  BY <1>1, <1>2, <1>4 DEF Guarded, Generations, TypeOK, Inside
<1>6. Texted' /\ TailKnown' /\ StoredVectorsTrue' /\ IndexInOneSpace'
  BY <1>1 DEF Texted, TailKnown, StoredVectorsTrue, IndexInOneSpace, Active, TypeOK
<1> QED
  BY <1>3, <1>5, <1>6

\* What a write publishes is in the space of the index it publishes to.
LEMMA PublishStep ==
    ASSUME MigrationInv, NEW w \in Writer, Publish(w)
    PROVE  MigrationInv'
<1> USE DEF MigrationInv, Publish, Goto, sqlVars, localVars
<1>1. pc' = [pc EXCEPT ![w] = "idle"] /\ job' = [job EXCEPT ![w] = NoJob]
  OBVIOUS
<1>2. inflight' = Cardinality(Inside') /\ inflight' \in Nat
  BY <1>1, LeaveCounts DEF Guarded
<1>3. w \in Inside /\ job[w] \in Job /\ job[w].space = gen
  BY DEF Inside, TypeOK, Generations
<1>4. job[w].op # "forget" => job[w].text \in Text
  BY DEF Texted
<1>5. index' \subseteq Rid \X Text \X Gen
  BY <1>3, <1>4 DEF Others, Job, TypeOK
<1>6. IndexInOneSpace'
  BY <1>3 DEF IndexInOneSpace, Others
<1>7. TypeOK'
  BY <1>1, <1>2, <1>5 DEF TypeOK
<1>8. Inside' = Inside \ {w}
  BY <1>1 DEF Inside, TypeOK
<1>9. Guarded' /\ Generations'
  BY <1>1, <1>2, <1>8 DEF Guarded, Generations, TypeOK, Inside
<1>10. Texted' /\ TailKnown' /\ StoredVectorsTrue'
  BY <1>1 DEF Texted, TailKnown, StoredVectorsTrue, Active, TypeOK
<1> QED
  BY <1>6, <1>7, <1>9, <1>10

\* While the migration takes a step of its own, no writer's record changes.
LEMMA WritersFrame ==
    ASSUME MigrationInv, UNCHANGED <<pc, job>>, UNCHANGED gen
    PROVE  /\ Inside' = Inside
           /\ (\A w \in Inside : job[w].space = gen)'
           /\ \A w \in Writer : pc'[w] # "idle" /\ job'[w].op # "forget" => job'[w].text \in Text
  BY DEF MigrationInv, Inside, Generations, Texted

\* Recording a job clears what an earlier one staged.
LEMMA BeginStep == ASSUME MigrationInv, Begin PROVE MigrationInv'
<1> USE DEF MigrationInv, Begin, searchVars, routerVars, writerVars
<1>1. rows' \in [Rid -> Row]
  BY ClearedRowType
<1>2. TypeOK'
  BY <1>1 DEF TypeOK
<1>3. \A r \in Rid : /\ rows'[r].status = rows[r].status
                     /\ rows'[r].text = rows[r].text /\ rows'[r].vtext = rows[r].vtext
                     /\ rows'[r].space = rows[r].space /\ rows'[r].gen = rows[r].gen
                     /\ rows'[r].staged = NoText
  BY DEF TypeOK, Row
<1>4. Texted' /\ StoredVectorsTrue'
  BY <1>3 DEF Texted, StoredVectorsTrue, Active
<1>5. Guarded' /\ Generations'
  BY WritersFrame DEF Guarded, Generations
<1>6. TailKnown' /\ IndexInOneSpace'
  BY FS_EmptySet DEF TailKnown, IndexInOneSpace
<1> QED
  BY <1>2, <1>4, <1>5, <1>6

\* Reading a page, of rows to encode or of the tail.
LEMMA ReadPageStep ==
    ASSUME MigrationInv, EncodeRead \/ Drain PROVE MigrationInv'
<1> USE DEF MigrationInv, sqlVars, searchVars, routerVars, writerVars
<1>1. UNCHANGED <<rows, durable, jobState, gen, index, router, inflight, pc, job, built>>
  BY DEF EncodeRead, Drain
<1>2. Inside' = Inside
  BY <1>1 DEF Inside
<1>3. Texted' /\ StoredVectorsTrue' /\ IndexInOneSpace'
  BY <1>1 DEF Texted, StoredVectorsTrue, IndexInOneSpace, Active
<1>4. CASE EncodeRead
  <2> USE <1>4 DEF EncodeRead
  <2>1. Page(ToEncode, offset) \subseteq {r \in Rid : Active(r)}
    BY PageSubset DEF ToEncode
  <2>2. page' \subseteq Rid \X Text /\ IsFiniteSet(page')
    BY <2>1, TextsType
  <2>3. phase' \in {"rebuild", "stage"} /\ offset' \in Nat
    BY DEF TypeOK
  <2>4. TypeOK'
    BY <1>1, <2>2, <2>3 DEF TypeOK
  <2>5. TailKnown'
    BY <2>2, <2>3 DEF TailKnown
  <2>6. Guarded' /\ Generations'
    BY <1>1, <1>2, <2>3 DEF Guarded, Generations
  <2> QED
    BY <1>3, <2>4, <2>5, <2>6
<1>5. CASE Drain
  <2> USE <1>5 DEF Drain
  <2>1. page' \subseteq Rid \X Text /\ IsFiniteSet(page')
    BY TextsType DEF Tail, ToEncode
  <2>2. TypeOK'
    BY <1>1, <2>1 DEF TypeOK
  <2>3. \A r \in Rid : Active(r) /\ rows[r].staged = NoText => r \in Tail
    BY DEF Tail, ToEncode, StoredVectorsTrue, Generations, Next1, TypeOK, Gen
  <2>4. TailKnown'
    BY <1>1, <2>1, <2>3 DEF TailKnown, Texts, Active
  <2>5. Inside = {}
    BY InsideFinite, FS_EmptySet DEF Guarded
  <2>6. Guarded' /\ Generations'
    BY <1>1, <1>2, <2>5 DEF Guarded, Generations
  <2> QED
    BY <1>3, <2>2, <2>4, <2>6
<1> QED
  BY <1>4, <1>5

\* Staging writes only over rows that still have the text it encoded.
LEMMA StagePageStep == ASSUME MigrationInv, StagePage PROVE MigrationInv'
<1> USE DEF MigrationInv, StagePage, searchVars, routerVars, writerVars
<1>1. rows' \in [Rid -> Row]
  BY StagedRowType
<1>2. offset' \in Nat
  BY FS_CardinalityType DEF TypeOK, TailKnown
<1>3. TypeOK'
  BY <1>1, <1>2 DEF TypeOK
<1>4. \A r \in Rid : /\ rows'[r].status = rows[r].status
                     /\ rows'[r].text = rows[r].text /\ rows'[r].vtext = rows[r].vtext
                     /\ rows'[r].space = rows[r].space /\ rows'[r].gen = rows[r].gen
                     /\ rows'[r].staged \in {rows[r].staged, rows[r].text}
  BY DEF TypeOK, Row, StagedRow
<1>5. Texted' /\ StoredVectorsTrue'
  BY <1>4 DEF Texted, StoredVectorsTrue, Active
<1>6. Guarded' /\ Generations'
  BY WritersFrame DEF Guarded, Generations
<1>7. TailKnown' /\ IndexInOneSpace'
  BY FS_EmptySet DEF TailKnown, IndexInOneSpace
<1> QED
  BY <1>3, <1>5, <1>6, <1>7

\* Building the new index reads rows and keeps to itself.
LEMMA RebuildPageStep == ASSUME MigrationInv, RebuildPage PROVE MigrationInv'
<1> USE DEF MigrationInv, RebuildPage, sqlVars, searchVars, routerVars, writerVars
<1> DEFINE rids == Page(Staged, offset)
<1>1. rids \subseteq Staged /\ Staged \subseteq Rid /\ IsFiniteSet(rids)
  BY PageSubset, ConstantsAssumption, FS_Subset DEF Staged
<1>2. offset' \in Nat
  BY <1>1, FS_CardinalityType DEF TypeOK
<1>3. built' \subseteq Rid \X Text
  <2>1. \A r \in rids : rows[r].staged \in Text
    BY <1>1 DEF Staged, TypeOK, Row
  <2> QED
    BY <1>1, <2>1 DEF TypeOK
<1>4. phase' \in {"rebuild", "cutover"} /\ UNCHANGED <<rows, durable, jobState, gen, index, router, inflight, pc, job, page>>
  OBVIOUS
<1>5. TypeOK'
  BY <1>2, <1>3, <1>4 DEF TypeOK
<1>6. Texted' /\ StoredVectorsTrue' /\ IndexInOneSpace' /\ TailKnown'
  BY <1>4 DEF Texted, StoredVectorsTrue, IndexInOneSpace, Active, TailKnown
<1>7. Guarded' /\ Generations'
  BY <1>4, WritersFrame DEF Guarded, Generations
<1> QED
  BY <1>5, <1>6, <1>7

\* Closing the router, opening it, and ending the job.
LEMMA SwitchStep ==
    ASSUME MigrationInv, SwitchToQueueing \/ SwitchToNormal \/ Verify
    PROVE  MigrationInv'
<1> USE DEF MigrationInv, SwitchToQueueing, SwitchToNormal, Verify, sqlVars, searchVars, routerVars, writerVars
<1>1. UNCHANGED <<rows, durable, gen, index, inflight, pc, job, offset, page, built>>
  OBVIOUS
<1>2. TypeOK'
  BY <1>1 DEF TypeOK
<1>3. Texted' /\ StoredVectorsTrue' /\ IndexInOneSpace' /\ TailKnown'
  BY <1>1 DEF Texted, StoredVectorsTrue, IndexInOneSpace, Active, TailKnown
<1>4. Guarded' /\ Generations'
  BY <1>1, WritersFrame DEF Guarded, Generations
<1> QED
  BY <1>2, <1>3, <1>4

\* Catch-up takes a row out of the page by staging the row's own text.
LEMMA CatchUpStep ==
    ASSUME MigrationInv, NEW v \in page, CatchUp(v) PROVE MigrationInv'
<1> USE DEF MigrationInv, CatchUp, searchVars, routerVars, writerVars
<1>1. v[1] \in Rid /\ v[2] \in Text /\ v = <<v[1], v[2]>>
  BY DEF TypeOK
<1>2. v[2] = rows[v[1]].text
  BY DEF TailKnown
<1>3. rows' \in [Rid -> Row]
  BY <1>1 DEF TypeOK, Row
<1>4. TypeOK'
  BY <1>1, <1>3 DEF TypeOK
<1>5. \A r \in Rid : /\ rows'[r].status = rows[r].status
                     /\ rows'[r].text = rows[r].text /\ rows'[r].vtext = rows[r].vtext
                     /\ rows'[r].space = rows[r].space /\ rows'[r].gen = rows[r].gen
                     /\ rows'[r].staged = IF r = v[1] THEN rows[r].text ELSE rows[r].staged
  BY <1>1, <1>2 DEF TypeOK, Row
<1>6. Texted' /\ StoredVectorsTrue'
  BY <1>5 DEF Texted, StoredVectorsTrue, Active
<1>7. Guarded' /\ Generations'
  BY WritersFrame DEF Guarded, Generations
<1>8. IsFiniteSet(page')
  BY FS_RemoveElement DEF TailKnown
<1>9. \A u \in page' : u[1] \in Rid /\ u[2] = rows'[u[1]].text
  BY <1>5 DEF TailKnown, TypeOK
<1>10. ASSUME NEW r \in Rid, Active(r)'
       PROVE  rows'[r].staged # NoText \/ <<r, rows'[r].text>> \in page'
  <2>1. CASE r = v[1]
    BY <1>5, <1>1, <1>2, <2>1, ConstantsAssumption
  <2>2. CASE r # v[1]
    BY <1>5, <1>10, <2>2, <1>1 DEF TailKnown, Active
  <2> QED
    BY <2>1, <2>2
<1>11. TailKnown'
  BY <1>8, <1>9, <1>10 DEF TailKnown
<1>12. IndexInOneSpace'
  BY DEF IndexInOneSpace
<1> QED
  BY <1>4, <1>6, <1>7, <1>11, <1>12

\* The swap: every live row is staged with its own text by now, so every live
\* row is promoted, and to the truth.
LEMMA SqlSwapStep == ASSUME MigrationInv, SqlSwap PROVE MigrationInv'
<1> USE DEF MigrationInv, SqlSwap, searchVars, routerVars, writerVars
<1>1. gen \in Nat /\ gen + 1 \in Gen /\ durable = gen
  BY ConstantsAssumption DEF Generations, TypeOK, Gen
<1>2. rows' \in [Rid -> Row]
  BY <1>1, SwappedRowType DEF TypeOK
<1>3. TypeOK'
  BY <1>1, <1>2 DEF TypeOK, Next1
<1>4. ASSUME NEW r \in Rid, Active(r)'
      PROVE  /\ rows'[r].text \in Text
             /\ rows'[r].vtext = rows'[r].text
             /\ rows'[r].space = durable' /\ rows'[r].gen = durable'
             /\ rows'[r].staged = NoText
  <2>1. rows'[r] = SwappedRow(rows[r]) /\ rows[r] \in Row
    BY DEF TypeOK
  <2>2. rows'[r].status = rows[r].status
    BY <2>1 DEF SwappedRow, Row
  <2>3. Active(r)
    BY <1>4, <2>2 DEF Active
  <2>4. rows[r].staged # NoText /\ rows[r].staged = rows[r].text /\ rows[r].text \in Text
    BY <2>3 DEF TailKnown, StoredVectorsTrue, Texted
  <2> QED
    BY <2>1, <2>4 DEF SwappedRow, Row
<1>5. Texted' /\ StoredVectorsTrue'
  BY <1>4 DEF Texted, StoredVectorsTrue
<1>6. Guarded' /\ Generations'
  BY <1>1, WritersFrame DEF Guarded, Generations, Next1
<1>7. TailKnown' /\ IndexInOneSpace'
  BY DEF TailKnown, IndexInOneSpace
<1> QED
  BY <1>3, <1>5, <1>6, <1>7

\* The publish: nobody is inside, so nobody's generation is left behind.
LEMMA PublishStateStep == ASSUME MigrationInv, PublishState PROVE MigrationInv'
<1> USE DEF MigrationInv, PublishState, sqlVars, routerVars, writerVars
<1>1. gen + 1 \in Gen /\ durable = gen + 1
  BY ConstantsAssumption DEF Generations, TypeOK, Gen
<1>2. index' \subseteq Rid \X Text \X Gen
  BY <1>1 DEF TypeOK, Next1
<1>3. TypeOK'
  BY <1>1, <1>2 DEF TypeOK, Next1
<1>4. IndexInOneSpace'
  BY DEF IndexInOneSpace
<1>5. Inside = {} /\ Inside' = Inside
  BY DEF Guarded, Inside
<1>6. Guarded' /\ Generations'
  BY <1>1, <1>5 DEF Guarded, Generations, Next1
<1>7. Texted' /\ StoredVectorsTrue' /\ TailKnown'
  BY DEF Texted, StoredVectorsTrue, TailKnown, Active
<1> QED
  BY <1>3, <1>4, <1>6, <1>7

\* A job that fails leaves the rows as they are; only the router may open.
LEMMA FailStep ==
    ASSUME MigrationInv, FailOutside \/ FailReopens \/ FailInTail
    PROVE  MigrationInv'
<1> USE DEF MigrationInv, FailOutside, FailReopens, FailInTail, GiveUp, sqlVars, searchVars, writerVars
<1>1. /\ UNCHANGED <<rows, durable, jobState, gen, index, inflight, pc, job>>
      /\ phase' = "idle" /\ offset' = 0 /\ page' = {} /\ built' = {}
      /\ router' \in {router, "Normal"} /\ phase # "publish"
  OBVIOUS
<1>2. TypeOK'
  BY <1>1 DEF TypeOK
<1>3. Guarded' /\ Generations'
  BY <1>1, WritersFrame DEF Guarded, Generations
<1>4. TailKnown'
  BY <1>1, FS_EmptySet DEF TailKnown
<1>5. Texted' /\ StoredVectorsTrue' /\ IndexInOneSpace'
  BY <1>1 DEF Texted, StoredVectorsTrue, IndexInOneSpace, Active
<1> QED
  BY <1>2, <1>3, <1>4, <1>5

\* Recovery: the vectors stored in SQL are true, so the index built from
\* them is in the durable generation's space.
LEMMA ReopenStep == ASSUME MigrationInv, Reopen PROVE MigrationInv'
<1> USE DEF MigrationInv, Reopen
<1>1. rows' \in [Rid -> Row]
  BY ClearedRowType DEF TypeOK
<1>2. \A r \in Rid : /\ rows'[r].status = rows[r].status
                     /\ rows'[r].text = rows[r].text /\ rows'[r].vtext = rows[r].vtext
                     /\ rows'[r].space = rows[r].space /\ rows'[r].gen = rows[r].gen
                     /\ rows'[r].staged \in {rows[r].staged, NoText}
  BY DEF TypeOK, Row
<1>3. Texted' /\ StoredVectorsTrue'
  BY <1>2 DEF Texted, StoredVectorsTrue, Active
<1>4. index' \subseteq Rid \X Text \X Gen /\ IndexInOneSpace'
  BY DEF StoredVectorsTrue, Texted, IndexInOneSpace, TypeOK, Active
<1>5. job' \in [Writer -> Job \cup {NoJob}]
  OBVIOUS
<1>6. TypeOK'
  BY <1>1, <1>4, <1>5 DEF TypeOK
<1>7. Inside' = {} /\ Cardinality(Inside') = 0
  BY FS_EmptySet DEF Inside
<1>8. Guarded' /\ Generations'
  BY <1>7 DEF Guarded, Generations
<1>9. TailKnown'
  BY FS_EmptySet DEF TailKnown
<1> QED
  BY <1>3, <1>4, <1>6, <1>8, <1>9

LEMMA MigrationInvNext == MigrationInv /\ [Next]_vars => MigrationInv'
<1> SUFFICES ASSUME MigrationInv, [Next]_vars PROVE MigrationInv'
  OBVIOUS
<1>1. CASE UNCHANGED vars
  <2>1. UNCHANGED <<rows, durable, jobState, gen, index, router, inflight, pc, job, phase, offset, page, built>>
    BY <1>1 DEF vars, sqlVars, searchVars, routerVars, writerVars, localVars
  <2> QED
    BY <2>1 DEF MigrationInv, TypeOK, Texted, Guarded, Generations, TailKnown,
                StoredVectorsTrue, IndexInOneSpace, Inside, Active
<1>2. ASSUME NEW w \in Writer, Start(w) PROVE MigrationInv'
  <2>1. PICK r \in Rid : \/ EnterForget(w, r)
                         \/ \E op \in {"record", "correct"}, t \in Text : Embed(w, op, r, t)
    BY <1>2 DEF Start
  <2>2. CASE EnterForget(w, r)
    BY <2>2, EnterForgetStep
  <2>3. ASSUME NEW op \in {"record", "correct"}, NEW t \in Text, Embed(w, op, r, t)
        PROVE  MigrationInv'
    BY <2>3, EmbedStep
  <2> QED
    BY <2>1, <2>2, <2>3
<1>3. ASSUME NEW w \in Writer, Proceed(w) PROVE MigrationInv'
  BY <1>3, EnterStep, OutsideStep, CommitStep, AbortStep, PublishStep DEF Proceed
<1>4. CASE Begin
  BY <1>4, BeginStep
<1>5. CASE Migrate
  BY <1>5, ReadPageStep, StagePageStep, RebuildPageStep, SwitchStep, CatchUpStep,
     SqlSwapStep, PublishStateStep, FailStep DEF Migrate
<1>6. CASE Reopen
  BY <1>6, ReopenStep
<1> QED
  BY <1>1, <1>2, <1>3, <1>4, <1>5, <1>6 DEF Next

LEMMA MigrationInvAlways == Spec => []MigrationInv
<1>1. Init => MigrationInv
  BY MigrationInvInit
<1>2. MigrationInv /\ [Next]_vars => MigrationInv'
  BY MigrationInvNext
<1> QED
  BY <1>1, <1>2, PTL DEF Spec

-----------------------------------------------------------------------------
(* The theorems *)

\* Type correctness: every variable of the migration keeps its type, and a
\* running write has its record.
THEOREM MigrationTypeCorrect == Spec => []TypeOK
<1>1. MigrationInv => TypeOK
  BY DEF MigrationInv
<1> QED
  BY <1>1, MigrationInvAlways, PTL

\* No migration, correction, forget, failed job or crash, in any order, leaves
\* a live row with the vector of another text or of another embedder.
THEOREM MigrationKeepsVectorsTrue == Spec => []StoredVectorsTrue
<1>1. MigrationInv => StoredVectorsTrue
  BY DEF MigrationInv
<1> QED
  BY <1>1, MigrationInvAlways, PTL

\* No writer, however long it embeds, lands a vector of one space in an index
\* of another.
THEOREM MigrationKeepsOneSpace == Spec => []IndexInOneSpace
<1>1. MigrationInv => IndexInOneSpace
  BY DEF MigrationInv
<1> QED
  BY <1>1, MigrationInvAlways, PTL

\* From the tail's first read to the publish nobody writes.
THEOREM MigrationCutoverIsQuiet == Spec => []CutoverIsQuiet
<1>1. MigrationInv => CutoverIsQuiet
  <2> SUFFICES ASSUME MigrationInv, phase \in {"tail", "publish", "resume"}
               PROVE  /\ \A w \in Writer : pc[w] \notin {"inside", "committed"}
                      /\ router = "Queueing" /\ inflight = 0
    BY DEF CutoverIsQuiet
  <2>1. Inside = {} /\ router = "Queueing" /\ inflight = Cardinality(Inside)
    BY DEF MigrationInv, Guarded
  <2>2. inflight = 0
    BY <2>1, FS_EmptySet
  <2> QED
    BY <2>1, <2>2 DEF Inside
<1> QED
  BY <1>1, MigrationInvAlways, PTL

-----------------------------------------------------------------------------
(* Nothing is lost when the rebuild is one page.  What is staged is in the  *)
(* new index, or was corrected since and is unstaged, hence in the tail; a  *)
(* row that a forget is about to take out of the index is not alive again.  *)

BuiltCovers ==
    /\ \/ phase \in {"cutover", "drain", "tail"}
       \/ phase = "rebuild" /\ offset > 0
       => \A r \in Rid : Active(r) /\ rows[r].staged # NoText =>
              <<r, rows[r].text>> \in built
    /\ phase = "publish" => \A r \in Rid : Active(r) => <<r, rows[r].text>> \in built

\* A record that is on its way is the only call about its rid.
RecordAlone ==
    \A w \in Writer : pc[w] \in {"embedded", "inside"} /\ job[w].op = "record" =>
        /\ rows[job[w].rid].status = "absent"
        /\ \A v \in Writer : v # w /\ pc[v] # "idle" => job[v].rid # job[w].rid

\* Between its transaction and its publish a write is the last word on its row.
CommittedStands ==
    \A w \in Writer : pc[w] = "committed" =>
        IF job[w].op = "forget" THEN rows[job[w].rid].status = "tombstoned"
        ELSE Active(job[w].rid) /\ rows[job[w].rid].text = job[w].text

FoundInv == BuiltCovers /\ RecordAlone /\ CommittedStands /\ LiveRowsFound

\* A step that touches no text, no status, no writer and no published state.
LEMMA RowsAlike ==
    ASSUME RecordAlone, CommittedStands, LiveRowsFound,
           \A r \in Rid : rows'[r].status = rows[r].status /\ rows'[r].text = rows[r].text,
           UNCHANGED <<pc, job, gen, index>>, TypeOK
    PROVE  RecordAlone' /\ CommittedStands' /\ LiveRowsFound'
<1>1. \A w \in Writer : pc[w] # "idle" => job[w].rid \in Rid
  BY DEF TypeOK, Job
<1>2. RecordAlone'
  BY <1>1 DEF RecordAlone
<1>3. CommittedStands'
  BY <1>1 DEF CommittedStands, Active
<1>4. LiveRowsFound'
  BY DEF LiveRowsFound, Active, Publishing
<1> QED
  BY <1>2, <1>3, <1>4

\* The first page of a rebuild is everything that is staged.
LEMMA OnePage ==
    ASSUME Cardinality(Rid) <= Batch
    PROVE  Page(Staged, 0) = Staged
<1>1. Staged \subseteq Rid /\ IsFiniteSet(Rid) /\ Rid \subseteq Nat /\ Batch \in Nat \ {0}
  BY ConstantsAssumption DEF Staged
<1>2. ASSUME NEW r \in Staged
      PROVE  Cardinality({x \in Staged : x < r}) \in 0..(0 + Batch - 1)
  <2> DEFINE below == {x \in Staged : x < r}
  <2>1. below \in SUBSET Rid /\ r \in Rid /\ r \notin below
    <3>1. r \in Nat /\ r \in Rid
      BY <1>1
    <3>2. ~(r < r)
      BY <3>1
    <3> QED
      BY <1>1, <3>1, <3>2
  <2>2. /\ IsFiniteSet(below) /\ Cardinality(below) <= Cardinality(Rid)
        /\ Cardinality(Rid) = Cardinality(below) => Rid = below
    BY <1>1, <2>1, FS_Subset
  <2>3. Cardinality(below) \in Nat /\ Cardinality(Rid) \in Nat
    BY <1>1, <2>2, FS_CardinalityType
  <2>4. Cardinality(below) # Cardinality(Rid)
    BY <2>1, <2>2
  <2> HIDE DEF below
  <2>5. Cardinality(below) \in 0..(0 + Batch - 1)
    BY <1>1, <2>2, <2>3, <2>4
  <2> QED
    BY <2>5 DEF below
<1> QED
  BY <1>2 DEF Page

LEMMA FoundWriterStep ==
    ASSUME MigrationInv, MigrationInv', FoundInv, NEW w \in Writer,
           Start(w) \/ Proceed(w)
    PROVE  FoundInv'
<1>0. TypeOK /\ BuiltCovers /\ RecordAlone /\ CommittedStands /\ LiveRowsFound
  BY DEF MigrationInv, FoundInv
<1>t. \A v \in Writer : pc[v] # "idle" => job[v] \in Job /\ job[v].rid \in Rid
  BY <1>0 DEF TypeOK, Job
<1>1. ASSUME NEW op \in {"record", "correct"}, NEW r \in Rid, NEW t \in Text,
             Embed(w, op, r, t)
      PROVE  FoundInv'
  <2>1. /\ pc[w] = "idle" /\ pc'[w] = "embedded"
        /\ job'[w].op = op /\ job'[w].rid = r
        /\ \A v \in Writer : v # w => pc'[v] = pc[v] /\ job'[v] = job[v]
        /\ UNCHANGED <<rows, gen, index, phase, offset, built>>
    BY <1>0, <1>1 DEF Embed, sqlVars, searchVars, localVars, TypeOK
  <2>2. /\ op = "record" => /\ rows[r].status = "absent"
                            /\ \A v \in Writer : pc[v] # "idle" => job[v].rid # r
        /\ op = "correct" => Active(r)
    BY <1>1 DEF Embed, Absent
  <2>3. RecordAlone'
    <3>1. ASSUME NEW v \in Writer, pc'[v] \in {"embedded", "inside"}, job'[v].op = "record"
          PROVE  /\ rows'[job'[v].rid].status = "absent"
                 /\ \A u \in Writer : u # v /\ pc'[u] # "idle" => job'[u].rid # job'[v].rid
      <4>1. CASE v = w
        BY <2>1, <2>2, <3>1, <4>1
      <4>2. CASE v # w
        <5>1. /\ rows[job[v].rid].status = "absent" /\ pc[v] # "idle"
              /\ \A u \in Writer : u # v /\ pc[u] # "idle" => job[u].rid # job[v].rid
          BY <1>0, <2>1, <3>1, <4>2 DEF RecordAlone
        <5>2. r # job[v].rid
          BY <2>2, <5>1 DEF Active
        <5> QED
          BY <2>1, <4>2, <5>1, <5>2
      <4> QED
        BY <4>1, <4>2
    <3> QED
      BY <3>1 DEF RecordAlone
  <2>4. CommittedStands'
    BY <1>0, <2>1 DEF CommittedStands, Active
  <2>5. LiveRowsFound' /\ BuiltCovers'
    BY <1>0, <2>1 DEF LiveRowsFound, BuiltCovers, Active, Publishing
  <2> QED
    BY <2>3, <2>4, <2>5 DEF FoundInv
<1>2. ASSUME NEW r \in Rid, EnterForget(w, r) PROVE FoundInv'
  <2>1. /\ pc[w] = "idle" /\ pc'[w] = "inside" /\ Active(r)
        /\ job'[w].op = "forget" /\ job'[w].rid = r
        /\ \A v \in Writer : v # w => pc'[v] = pc[v] /\ job'[v] = job[v]
        /\ UNCHANGED <<rows, gen, index, phase, offset, built>>
    BY <1>0, <1>2 DEF EnterForget, sqlVars, searchVars, localVars, TypeOK
  <2>2. RecordAlone'
    <3>1. ASSUME NEW v \in Writer, pc'[v] \in {"embedded", "inside"}, job'[v].op = "record"
          PROVE  /\ rows'[job'[v].rid].status = "absent"
                 /\ \A u \in Writer : u # v /\ pc'[u] # "idle" => job'[u].rid # job'[v].rid
      <4>1. /\ v # w /\ rows[job[v].rid].status = "absent" /\ pc[v] # "idle"
            /\ \A u \in Writer : u # v /\ pc[u] # "idle" => job[u].rid # job[v].rid
        BY <1>0, <2>1, <3>1 DEF RecordAlone
      <4>2. r # job[v].rid
        BY <2>1, <4>1 DEF Active
      <4> QED
        BY <2>1, <4>1, <4>2
    <3> QED
      BY <3>1 DEF RecordAlone
  <2>3. CommittedStands'
    BY <1>0, <2>1 DEF CommittedStands, Active
  <2>4. LiveRowsFound' /\ BuiltCovers'
    BY <1>0, <2>1 DEF LiveRowsFound, BuiltCovers, Active, Publishing
  <2> QED
    BY <2>2, <2>3, <2>4 DEF FoundInv
<1>3. ASSUME Enter(w) \/ EmbedAgain(w) \/ Deferred(w) \/ Abort(w) PROVE FoundInv'
  <2>1. /\ pc[w] \in {"embedded", "inside"} /\ pc'[w] \in {"embedded", "inside", "idle"}
        /\ pc'[w] # "idle" => /\ pc[w] # "idle" /\ job'[w].op = job[w].op
                              /\ job'[w].rid = job[w].rid
        /\ \A v \in Writer : v # w => pc'[v] = pc[v] /\ job'[v] = job[v]
        /\ UNCHANGED <<rows, gen, index, phase, offset, built>>
    BY <1>0, <1>3, <1>t DEF Enter, EmbedAgain, Deferred, Abort, Goto, TypeOK, Job,
                      sqlVars, searchVars, routerVars, localVars
  <2>2. RecordAlone'
    BY <1>0, <2>1 DEF RecordAlone
  <2>3. CommittedStands'
    BY <1>0, <2>1 DEF CommittedStands, Active
  <2>4. LiveRowsFound' /\ BuiltCovers'
    BY <1>0, <2>1 DEF LiveRowsFound, BuiltCovers, Active, Publishing
  <2> QED
    BY <2>2, <2>3, <2>4 DEF FoundInv
<1>4. ASSUME Commit(w) PROVE FoundInv'
  <2>1. /\ pc[w] = "inside" /\ ConnFree
        /\ job[w].op # "record" => Active(job[w].rid)
        /\ pc'[w] = "committed" /\ job' = job
        /\ \A v \in Writer : v # w => pc'[v] = pc[v]
        /\ UNCHANGED <<gen, index, phase, offset, built>>
        /\ rows' = [rows EXCEPT ![job[w].rid] = CommittedRow(job[w])]
    BY <1>0, <1>4 DEF Commit, Goto, searchVars, localVars, TypeOK
  <2>2. PICK r \in Rid : r = job[w].rid
    BY <1>t, <2>1
  <2>3. /\ rows'[r] = CommittedRow(job[w])
        /\ \A x \in Rid : x # r => rows'[x] = rows[x]
    BY <1>0, <2>1, <2>2 DEF TypeOK
  <2>4. /\ job[w].op = "forget" => rows'[r].status = "tombstoned"
        /\ job[w].op # "forget" => /\ rows'[r].status = "active"
                                   /\ rows'[r].text = job[w].text
                                   /\ rows'[r].staged = NoText
    BY <1>0, <2>2, <2>3 DEF CommittedRow, TypeOK, Row
  <2>5. phase \notin {"tail", "publish"}
    BY <2>1 DEF MigrationInv, Guarded, Inside
  <2>6. BuiltCovers'
    BY <1>0, <2>1, <2>3, <2>4, <2>5 DEF BuiltCovers, Active
  <2>7. RecordAlone'
    <3>1. ASSUME NEW v \in Writer, pc'[v] \in {"embedded", "inside"}, job'[v].op = "record"
          PROVE  /\ rows'[job'[v].rid].status = "absent"
                 /\ \A u \in Writer : u # v /\ pc'[u] # "idle" => job'[u].rid # job'[v].rid
      <4>1. v # w /\ pc[v] \in {"embedded", "inside"} /\ job[v].rid \in Rid
        BY <1>t, <2>1, <3>1
      <4>2. /\ rows[job[v].rid].status = "absent" /\ job[w].rid # job[v].rid
            /\ \A u \in Writer : u # v /\ pc[u] # "idle" => job[u].rid # job[v].rid
        BY <1>0, <2>1, <3>1, <4>1 DEF RecordAlone
      <4> QED
        BY <2>1, <2>2, <2>3, <4>1, <4>2
    <3> QED
      BY <3>1 DEF RecordAlone
  <2>8. CommittedStands'
    <3>1. ASSUME NEW v \in Writer, v # w, pc'[v] = "committed"
          PROVE  IF job[v].op = "forget" THEN rows'[job[v].rid].status = "tombstoned"
                 ELSE rows'[job[v].rid].status = "active"
                      /\ rows'[job[v].rid].text = job[v].text
      <4>1. pc[v] = "committed" /\ job[v].op = "forget" /\ job[v].rid \in Rid
        BY <1>t, <2>1, <3>1 DEF ConnFree
      <4>2. rows[job[v].rid].status = "tombstoned"
        BY <1>0, <4>1 DEF CommittedStands
      <4>3. job[v].rid # r
        BY <1>0, <2>1, <2>2, <3>1, <4>1, <4>2 DEF RecordAlone, Active
      <4> QED
        BY <2>3, <4>1, <4>2, <4>3
    <3> QED
      BY <2>1, <2>2, <2>4, <3>1 DEF CommittedStands, Active
  <2>9. LiveRowsFound'
    <3>1. ASSUME NEW x \in Rid, Active(x)', ~Publishing(x)'
          PROVE  <<x, rows'[x].text, gen'>> \in index'
      <4>1. x # r
        BY <2>1, <2>2, <3>1 DEF Publishing
      <4>2. ~Publishing(x)
        BY <2>1, <3>1 DEF Publishing
      <4> QED
        BY <1>0, <2>1, <2>3, <3>1, <4>1, <4>2 DEF LiveRowsFound, Active
    <3> QED
      BY <3>1 DEF LiveRowsFound
  <2> QED
    BY <2>6, <2>7, <2>8, <2>9 DEF FoundInv
<1>5. ASSUME Publish(w) PROVE FoundInv'
  <2>1. /\ pc[w] = "committed" /\ pc'[w] = "idle"
        /\ \A v \in Writer : v # w => pc'[v] = pc[v] /\ job'[v] = job[v]
        /\ UNCHANGED <<rows, gen, phase, offset, built>>
    BY <1>0, <1>5 DEF Publish, Goto, sqlVars, localVars, TypeOK
  <2>2. RecordAlone'
    BY <1>0, <2>1 DEF RecordAlone
  <2>3. CommittedStands'
    BY <1>0, <2>1 DEF CommittedStands, Active
  <2>4. BuiltCovers'
    BY <1>0, <2>1 DEF BuiltCovers, Active
  <2>5. job[w].space = gen
    BY <2>1 DEF MigrationInv, Generations, Inside
  <2>6. LiveRowsFound'
    <3>1. ASSUME NEW x \in Rid, Active(x), ~Publishing(x)'
          PROVE  <<x, rows[x].text, gen>> \in index'
      <4>1. CASE x = job[w].rid
        <5>1. job[w].op # "forget" /\ rows[x].text = job[w].text
          BY <1>0, <2>1, <3>1, <4>1 DEF CommittedStands, Active
        <5> QED
          BY <1>5, <2>5, <4>1, <5>1 DEF Publish
      <4>2. CASE x # job[w].rid
        <5>1. ~Publishing(x)
          BY <2>1, <3>1, <4>2 DEF Publishing
        <5>2. <<x, rows[x].text, gen>> \in Others(job[w].rid)
          BY <1>0, <3>1, <4>2, <5>1 DEF LiveRowsFound, Others
        <5> QED
          BY <1>5, <5>2 DEF Publish
      <4> QED
        BY <4>1, <4>2
    <3> QED
      BY <2>1, <3>1 DEF LiveRowsFound, Active
  <2> QED
    BY <2>2, <2>3, <2>4, <2>6 DEF FoundInv
<1> QED
  BY <1>1, <1>2, <1>3, <1>4, <1>5 DEF Start, Proceed

LEMMA FoundJobStep ==
    ASSUME Cardinality(Rid) <= Batch, MigrationInv, MigrationInv', FoundInv,
           Begin \/ Migrate
    PROVE  FoundInv'
<1>0. /\ TypeOK /\ BuiltCovers /\ RecordAlone /\ CommittedStands /\ LiveRowsFound
      /\ StoredVectorsTrue /\ TailKnown
  BY DEF MigrationInv, FoundInv
<1>1. CASE Begin
  <2>1. \A r \in Rid : rows'[r].status = rows[r].status /\ rows'[r].text = rows[r].text
    BY <1>0, <1>1 DEF Begin, TypeOK, Row
  <2>2. UNCHANGED <<pc, job, gen, index>> /\ phase' = "encode"
    BY <1>1 DEF Begin, searchVars, writerVars
  <2> QED
    BY <1>0, <2>1, <2>2, RowsAlike DEF FoundInv, BuiltCovers
<1>2. CASE EncodeRead
  <2>1. /\ UNCHANGED <<rows, pc, job, gen, index, built>>
        /\ phase' = "stage" \/ (phase' = "rebuild" /\ offset' = 0)
    BY <1>2 DEF EncodeRead, sqlVars, searchVars, writerVars
  <2>2. BuiltCovers'
    BY <2>1, <1>0 DEF BuiltCovers, TypeOK
  <2> QED
    BY <1>0, <2>1, <2>2, RowsAlike DEF FoundInv
<1>3. CASE StagePage
  <2>1. \A r \in Rid : rows'[r].status = rows[r].status /\ rows'[r].text = rows[r].text
    BY <1>0, <1>3 DEF StagePage, StagedRow, TypeOK, Row
  <2>2. UNCHANGED <<pc, job, gen, index>> /\ phase' = "encode"
    BY <1>3 DEF StagePage, searchVars, writerVars
  <2> QED
    BY <1>0, <2>1, <2>2, RowsAlike DEF FoundInv, BuiltCovers
<1>4. CASE RebuildPage
  <2>1. UNCHANGED <<rows, pc, job, gen, index>>
    BY <1>4 DEF RebuildPage, sqlVars, searchVars, writerVars
  <2>2. PICK rids \in SUBSET Rid :
            /\ rids = Page(Staged, offset) /\ phase = "rebuild"
            /\ rids = {} => phase' = "cutover" /\ offset' = offset /\ built' = built
            /\ rids # {} => /\ phase' = phase
                            /\ built' = {v \in built : v[1] \notin rids}
                                        \cup {<<r, rows[r].staged>> : r \in rids}
    BY <1>4 DEF RebuildPage, Page, Staged
  <2>3. ASSUME NEW r \in Rid, Active(r), rows[r].staged # NoText
        PROVE  <<r, rows[r].text>> \in built'
    <3>1. r \in Staged /\ rows[r].staged = rows[r].text
      BY <1>0, <2>3 DEF Staged, StoredVectorsTrue
    <3>2. CASE r \in rids
      BY <2>2, <3>1, <3>2
    <3>3. CASE r \notin rids
      <4>1. offset # 0
        BY <2>2, <3>1, <3>3, OnePage
      <4>2. offset > 0
        BY <1>0, <4>1 DEF TypeOK
      <4>3. <<r, rows[r].text>> \in built
        BY <1>0, <2>2, <2>3, <4>2 DEF BuiltCovers
      <4> QED
        BY <2>2, <3>3, <4>3
    <3> QED
      BY <3>2, <3>3
  <2>4. phase' # "publish"
    BY <2>2
  <2>5. BuiltCovers'
    BY <2>1, <2>3, <2>4 DEF BuiltCovers, Active
  <2> QED
    BY <1>0, <2>1, <2>5, RowsAlike DEF FoundInv
<1>5. CASE SwitchToQueueing \/ Drain
  <2>1. /\ UNCHANGED <<rows, pc, job, gen, index, built, offset>>
        /\ phase \in {"cutover", "drain"} /\ phase' \in {"drain", "tail"}
    BY <1>5 DEF SwitchToQueueing, Drain, sqlVars, searchVars, writerVars
  <2>2. BuiltCovers'
    BY <1>0, <2>1 DEF BuiltCovers, Active
  <2> QED
    BY <1>0, <2>1, <2>2, RowsAlike DEF FoundInv
<1>6. ASSUME NEW v \in page, CatchUp(v) PROVE FoundInv'
  <2>1. /\ phase = "tail" /\ phase' = "tail" /\ UNCHANGED <<pc, job, gen, index, offset>>
        /\ rows' = [rows EXCEPT ![v[1]].staged = v[2]]
        /\ built' = {u \in built : u[1] # v[1]} \cup {v}
    BY <1>6 DEF CatchUp, searchVars, writerVars
  <2>2. v[1] \in Rid /\ v = <<v[1], v[2]>> /\ v[2] = rows[v[1]].text
    BY <1>0, <2>1 DEF TypeOK, TailKnown
  <2>3. \A r \in Rid : /\ rows'[r].status = rows[r].status /\ rows'[r].text = rows[r].text
                       /\ r # v[1] => rows'[r] = rows[r]
    BY <1>0, <2>1 DEF TypeOK, Row
  <2>4. BuiltCovers'
    <3>1. ASSUME NEW r \in Rid, Active(r)', rows'[r].staged # NoText
          PROVE  <<r, rows'[r].text>> \in built'
      <4>1. CASE r = v[1]
        BY <2>1, <2>2, <2>3, <4>1
      <4>2. CASE r # v[1]
        <5>1. <<r, rows[r].text>> \in built
          BY <1>0, <2>1, <2>3, <3>1, <4>2 DEF BuiltCovers, Active
        <5> QED
          BY <2>1, <2>3, <4>2, <5>1
      <4> QED
        BY <4>1, <4>2
    <3> QED
      BY <2>1, <3>1 DEF BuiltCovers
  <2> QED
    BY <1>0, <2>1, <2>3, <2>4, RowsAlike DEF FoundInv
<1>7. CASE SqlSwap
  <2>1. /\ phase = "tail" /\ page = {} /\ phase' = "publish"
        /\ UNCHANGED <<pc, job, gen, index, built>>
        /\ rows' = [r \in Rid |-> SwappedRow(rows[r])]
    BY <1>7 DEF SqlSwap, searchVars, writerVars
  <2>2. \A r \in Rid : rows'[r].status = rows[r].status /\ rows'[r].text = rows[r].text
    BY <1>0, <2>1 DEF SwappedRow, TypeOK, Row
  <2>3. \A r \in Rid : Active(r) => rows[r].staged # NoText
    BY <1>0, <2>1 DEF TailKnown
  <2>4. BuiltCovers'
    BY <1>0, <2>1, <2>2, <2>3 DEF BuiltCovers, Active
  <2> QED
    BY <1>0, <2>1, <2>2, <2>4, RowsAlike DEF FoundInv
<1>8. CASE PublishState
  <2>1. /\ phase = "publish" /\ phase' = "resume" /\ gen' = gen + 1
        /\ index' = {<<v[1], v[2], gen + 1>> : v \in built}
        /\ UNCHANGED <<rows, pc, job>>
    BY <1>8 DEF PublishState, Next1, sqlVars, writerVars
  <2>2. \A r \in Rid : Active(r) => <<r, rows[r].text>> \in built
    BY <1>0, <2>1 DEF BuiltCovers
  <2>3. LiveRowsFound'
    <3>1. ASSUME NEW r \in Rid, Active(r) PROVE <<r, rows[r].text, gen + 1>> \in index'
      <4>1. PICK v \in built : v = <<r, rows[r].text>>
        BY <2>2, <3>1
      <4>2. v[1] = r /\ v[2] = rows[r].text
        BY <4>1
      <4> QED
        BY <2>1, <4>2
    <3> QED
      BY <2>1, <3>1 DEF LiveRowsFound, Active
  <2>4. RecordAlone' /\ CommittedStands'
    BY <1>0, <2>1 DEF RecordAlone, CommittedStands, Active
  <2> QED
    BY <2>1, <2>3, <2>4 DEF FoundInv, BuiltCovers
<1>9. CASE SwitchToNormal \/ Verify \/ FailOutside \/ FailReopens \/ FailInTail
  <2>1. /\ UNCHANGED <<rows, pc, job, gen, index>>
        /\ phase' \in {"idle", "verify"}
    BY <1>9 DEF SwitchToNormal, Verify, FailOutside, FailReopens, FailInTail, GiveUp,
                sqlVars, searchVars, writerVars
  <2>2. BuiltCovers'
    BY <2>1 DEF BuiltCovers
  <2> QED
    BY <1>0, <2>1, <2>2, RowsAlike DEF FoundInv
<1> QED
  BY <1>1, <1>2, <1>3, <1>4, <1>5, <1>6, <1>7, <1>8, <1>9 DEF Migrate

LEMMA FoundReopenStep ==
    ASSUME MigrationInv, FoundInv, Reopen PROVE FoundInv'
<1>0. TypeOK /\ StoredVectorsTrue
  BY DEF MigrationInv
<1>1. \A r \in Rid : rows'[r].status = rows[r].status /\ rows'[r].text = rows[r].text
  BY <1>0 DEF Reopen, TypeOK, Row
<1>2. ASSUME NEW r \in Rid, Active(r) PROVE <<r, rows[r].text, gen'>> \in index'
  BY <1>0, <1>2 DEF Reopen, StoredVectorsTrue
<1>3. LiveRowsFound'
  BY <1>1, <1>2 DEF LiveRowsFound, Active
<1>4. phase' = "idle" /\ \A w \in Writer : pc'[w] = "idle"
  BY DEF Reopen
<1> QED
  BY <1>3, <1>4 DEF FoundInv, BuiltCovers, RecordAlone, CommittedStands

\* With the staged rows in one page, every live row is found under its own
\* text whatever writers, failures and crashes do; with more pages it is not
\* (the OFFSET of a later page moves when a row leaves the staged set).
THEOREM OnePageLosesNothing ==
    ASSUME Cardinality(Rid) <= Batch
    PROVE  Spec => []LiveRowsFound
<1>1. Init => FoundInv
  BY DEF Init, FoundInv, BuiltCovers, RecordAlone, CommittedStands, LiveRowsFound,
         Active, Absent
<1>2. MigrationInv /\ MigrationInv' /\ FoundInv /\ [Next]_vars => FoundInv'
  <2> SUFFICES ASSUME MigrationInv, MigrationInv', FoundInv, [Next]_vars
               PROVE  FoundInv'
    OBVIOUS
  <2>1. CASE UNCHANGED vars
    <3>1. UNCHANGED <<rows, gen, index, pc, job, phase, offset, built>>
      BY <2>1 DEF vars, sqlVars, searchVars, writerVars, localVars
    <3> QED
      BY <3>1 DEF FoundInv, BuiltCovers, RecordAlone, CommittedStands, LiveRowsFound,
                  Active, Publishing
  <2> QED
    BY <2>1, FoundWriterStep, FoundJobStep, FoundReopenStep DEF Next
<1>3. FoundInv => LiveRowsFound
  BY DEF FoundInv
<1> QED
  BY <1>1, <1>2, <1>3, MigrationInvAlways, PTL DEF Spec

-----------------------------------------------------------------------------
(* The safety half of RouterReopens: a closed router always has a cutover    *)
(* that will open it, and the drain never waits for a writer that is gone.   *)

Cutover == {"drain", "tail", "publish", "resume"}

\* The router is closed only while a reembed call stands between its
\* switch_to_queueing and its switch_to_normal; and while that call waits for
\* the writers inside, one of them can take its next step: a guard dropped
\* without being counted, or counted twice, would leave it waiting for nobody.
ClosedRouterHasOwner ==
    /\ router = "Queueing" => phase \in Cutover
    /\ phase = "drain" /\ inflight # 0 =>
          \E w \in Writer : pc[w] = "committed" \/ (pc[w] = "inside" /\ ConnFree)

ClosedByCutover == router = "Queueing" => phase \in Cutover

LEMMA ClosedByCutoverStep ==
    ASSUME "tail" \notin MayFail, ClosedByCutover, [Next]_vars
    PROVE  ClosedByCutover'
<1> USE DEF ClosedByCutover, Cutover
<1>1. CASE UNCHANGED vars
  BY <1>1 DEF vars, routerVars, localVars
<1>2. CASE \E w \in Writer : Start(w) \/ Proceed(w)
  <2>1. UNCHANGED <<router, phase>>
    BY <1>2 DEF Start, Proceed, EnterForget, Embed, Enter, EmbedAgain, Deferred, Commit,
                Abort, Publish, TryEnter, routerVars, localVars
  <2> QED
    BY <2>1
<1>3. CASE Begin
  BY <1>3 DEF Begin, routerVars
<1>4. CASE Reopen
  BY <1>4 DEF Reopen
<1>5. CASE Migrate
  <2>1. CASE EncodeRead \/ StagePage \/ RebuildPage
    BY <2>1 DEF EncodeRead, StagePage, RebuildPage, routerVars
  <2>2. CASE SwitchToQueueing \/ SwitchToNormal
    BY <2>2 DEF SwitchToQueueing, SwitchToNormal
  <2>3. CASE Drain \/ SqlSwap \/ PublishState \/ Verify
    BY <2>3 DEF Drain, SqlSwap, PublishState, Verify, routerVars
  <2>4. CASE \E v \in page : CatchUp(v)
    BY <2>4 DEF CatchUp, routerVars
  <2>5. CASE FailOutside \/ FailReopens \/ FailInTail
    BY <2>5 DEF FailOutside, FailReopens, FailInTail
  <2> QED
    BY <1>5, <2>1, <2>2, <2>3, <2>4, <2>5 DEF Migrate
<1> QED
  BY <1>1, <1>2, <1>3, <1>4, <1>5 DEF Next

\* Where the catch-up's bare error returns are left out (with them the code
\* does leave the router closed), the router has its owner in every reachable
\* state, whatever else fails and however often the process dies.
THEOREM ClosedRouterIsOwned ==
    ASSUME "tail" \notin MayFail
    PROVE  Spec => []ClosedRouterHasOwner
<1>1. Init => ClosedByCutover
  BY DEF Init, ClosedByCutover
<1>2. ClosedByCutover /\ [Next]_vars => ClosedByCutover'
  BY ClosedByCutoverStep
<1>3. MigrationInv /\ ClosedByCutover => ClosedRouterHasOwner
  <2> SUFFICES ASSUME MigrationInv, phase = "drain", inflight # 0
               PROVE  \E w \in Writer : pc[w] = "committed" \/ (pc[w] = "inside" /\ ConnFree)
    BY DEF ClosedRouterHasOwner, ClosedByCutover
  <2>1. inflight = Cardinality(Inside)
    BY DEF MigrationInv, Guarded
  <2>2. PICK w \in Writer : w \in Inside
    BY <2>1, FS_EmptySet DEF Inside
  <2>3. CASE ConnFree
    BY <2>2, <2>3 DEF Inside
  <2>4. CASE ~ConnFree
    BY <2>4 DEF ConnFree
  <2> QED
    BY <2>3, <2>4
<1> QED
  BY <1>1, <1>2, <1>3, MigrationInvAlways, PTL DEF Spec
=============================================================================
