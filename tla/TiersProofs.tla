----------------------------- MODULE TiersProofs -----------------------------
(***************************************************************************)
(* Theorems about Tiers for every set of records and callers, any number of *)
(* writes and embedding spaces.                                            *)
(***************************************************************************)
EXTENDS Tiers, TLAPS

-----------------------------------------------------------------------------
(* The inductive invariant *)

Tier == [Rid -> Vector \cup {NoVec}]
Call == [kind : {"archive", "hydrate", "forget"}, rid : Rid,
         seq : Seq, vec : Vector \cup {NoVec}]
Types ==
    /\ row \in [Rid -> Row] /\ cached \subseteq Rid
    /\ delta \in [Rid -> Entry] /\ cold \in Tier
    /\ gen \in Gen /\ seq \in Seq
    /\ pc \in [Caller -> {"idle", "mint", "land", "uncache"}]
    /\ call \in [Caller -> Call \cup {NoCall}]
    /\ \A c \in Caller : pc[c] # "idle" => call[c] \in Call
    /\ merge \in [on : BOOLEAN, sealed : [Rid -> Seq], tier : Tier]
    /\ rebuild \in [on : BOOLEAN, gen : Gen, tier : Tier]
    /\ cutover \in [on : BOOLEAN, tier : Tier]
    /\ touched \subseteq Rid /\ strayed \subseteq Rid /\ exposed \subseteq Rid

\* The generation the rows are in: the next one from the swap on.
RowGen == IF cutover.on THEN gen + 1 ELSE gen

\* A live row's vector is of the rows' space, a forgotten row's may be old.
Rows ==
    /\ RowGen \in Gen
    /\ \A r \in Rid :
        /\ row[r].status = "absent" => row[r] = NoRow
        /\ row[r].status # "absent" => row[r].vec \in Vector /\ row[r].vec.gen <= RowGen
        /\ Active(r) => row[r].vec.gen = RowGen

\* What a call in flight has done to its row, and carries to the index.
Calls ==
    \A c \in Caller : pc[c] # "idle" =>
        /\ row[call[c].rid].status # "absent"
        /\ call[c].kind = "forget" => row[call[c].rid].status = "tombstoned"
        /\ call[c].kind # "hydrate" => call[c].vec = NoVec
        /\ call[c].kind = "hydrate" => call[c].vec \in Vector /\ call[c].vec.gen <= RowGen
        /\ pc[c] = "uncache" => call[c].kind = "forget"

\* A forgotten record still in the cache has its forget running.
Hidden ==
    \A r \in Rid : row[r].status = "tombstoned" /\ r \in cached =>
        \E c \in Caller : pc[c] # "idle" /\ call[c].kind = "forget" /\ call[c].rid = r

\* Of one space: the index, the tier being merged, the index a cutover has
\* built, and what a rebuild has read that may still be installed.
Spaces ==
    /\ \A r \in Rid \ strayed :
          /\ delta[r].seq # 0 /\ delta[r].vec # NoVec => delta[r].vec.gen = gen
          /\ cold[r] # NoVec => cold[r].gen = gen
          /\ merge.on /\ merge.tier[r] # NoVec => merge.tier[r].gen = gen
    /\ cutover.on => \A r \in Rid : cutover.tier[r] # NoVec => cutover.tier[r].gen = gen + 1
    /\ rebuild.on => rebuild.gen <= gen
    /\ rebuild.on /\ rebuild.gen = gen /\ ~cutover.on =>
          \A r \in Rid : rebuild.tier[r] # NoVec => rebuild.tier[r].gen = gen

BaseInv == Types /\ Rows /\ Calls /\ Hidden /\ Spaces

\* One call at a time per record; its number is above what the index has.
OnePerRecord ==
    /\ \A c, d \in Caller : pc[c] # "idle" /\ pc[d] # "idle" /\ call[c].rid = call[d].rid => c = d
    /\ \A c \in Caller : pc[c] = "land" => delta[call[c].rid].seq < call[c].seq
                                           /\ call[c].seq <= seq
    /\ \A r \in Rid : /\ delta[r].seq <= seq
                      /\ merge.on => merge.sealed[r] <= delta[r].seq

\* A call's row is as the call left it, but for the space of its vector.
InFlight ==
    \A c \in Caller : pc[c] # "idle" /\ Active(call[c].rid) =>
        /\ call[c].kind = "archive" => row[call[c].rid].tier = "cold"
        /\ call[c].kind = "hydrate" =>
              row[call[c].rid].tier = "hot" /\ call[c].vec.ver = row[call[c].rid].vec.ver

\* A rebuild has read the rows as they are, but for those written since.
Reads == rebuild.on => \A r \in Rid \ touched : rebuild.tier[r] = Built(row)[r]

\* What the index should have for a record, and has once nothing is under way.
Right(r, v) ==
    /\ row[r].tier = "hot" => v = [row[r].vec EXCEPT !.gen = gen]
    /\ row[r].tier = "cold" /\ row[r].packed => v = NoVec
Settled(r) == Active(r) /\ On(r) = {} /\ r \notin exposed \cup strayed
Follows ==
    \A r \in Rid : Settled(r) =>
        /\ Right(r, Found(r))
        /\ merge.on /\ delta[r].seq = merge.sealed[r] => Right(r, merge.tier[r])

\* The index about to be published has every live record but those its pages
\* skipped, and an archive has taken one out of it only if it still runs.
Prepared ==
    cutover.on => \A r \in Rid : Active(r) /\ r \notin exposed \cup strayed =>
        /\ cutover.tier[r] = row[r].vec
        /\ row[r].tier = "cold" /\ row[r].packed => On(r) # {}

SerialInv == OnePerRecord /\ InFlight /\ Reads /\ Follows

-----------------------------------------------------------------------------
(* Helpers *)

LEMMA Consts ==
    /\ NoVec \notin Vector
    /\ NoTier \in Tier /\ NoEntry \in Entry /\ NoRow \in Row
    /\ Off \in [on : BOOLEAN, gen : Gen, tier : Tier]
    /\ NoCutover \in [on : BOOLEAN, tier : Tier]
    /\ NoMerge \in [on : BOOLEAN, sealed : [Rid -> Seq], tier : Tier]
    /\ 0 \in Seq /\ 0 \in Gen /\ Gen \subseteq Nat /\ Seq \subseteq Nat
<1>1. 0 \in Seq /\ 0 \in Gen /\ Gen \subseteq Nat /\ Seq \subseteq Nat
  BY ConstantsAssumption DEF Seq, Gen
<1>2. NoVec \notin Vector
  BY <1>1, ConstantsAssumption DEF Vector
<1>3. NoTier \in Tier /\ NoEntry \in Entry /\ NoRow \in Row
  BY <1>1 DEF NoTier, Tier, NoEntry, Entry, NoRow, Row
<1> QED
  BY <1>1, <1>2, <1>3 DEF Off, NoMerge, NoCutover

\* A vector in another space.
LEMMA Respaced ==
    ASSUME NEW v \in Vector, NEW g \in Gen
    PROVE  /\ [v EXCEPT !.gen = g] \in Vector /\ [v EXCEPT !.gen = g].gen = g
           /\ [v EXCEPT !.gen = g].ver = v.ver
           /\ v.gen = g => [v EXCEPT !.gen = g] = v
  BY DEF Vector

LEMMA RespacedTwice ==
    ASSUME NEW v \in Vector, NEW g \in Gen, NEW h \in Gen
    PROVE  [[v EXCEPT !.gen = h] EXCEPT !.gen = g] = [v EXCEPT !.gen = g]
  BY DEF Vector

LEMMA SameVector ==
    ASSUME NEW v \in Vector, NEW w \in Vector, NEW g, w.gen = g, w.ver = v.ver
    PROVE  w = [v EXCEPT !.gen = g]
  BY DEF Vector

LEMMA FoundType ==
    ASSUME Types, NEW r \in Rid
    PROVE  Found(r) \in Vector \cup {NoVec} /\ delta[r].seq \in Seq
  BY DEF Types, Found, Tier, Entry

LEMMA BuiltType ==
    ASSUME Types
    PROVE  Built(row) \in Tier
  BY DEF Types, Built, Tier, Row

LEMMA PutStep ==
    ASSUME Types, NEW r \in Rid, NEW n \in Seq, NEW v \in Vector \cup {NoVec}
    PROVE  /\ Put(r, n, v) \in [Rid -> Entry]
           /\ \A s \in Rid : s # r => Put(r, n, v)[s] = delta[s]
           /\ n > delta[r].seq => Put(r, n, v)[r] = [seq |-> n, vec |-> v]
           /\ ~(n > delta[r].seq) => Put(r, n, v)[r] = delta[r]
  BY DEF Types, Put, Entry

-----------------------------------------------------------------------------
(* Types *)

LEMMA SwapGen ==
    ASSUME Types, SwapCommit
    PROVE  gen + 1 \in Gen
<1>1. gen < MaxGen /\ gen \in Gen
  BY DEF SwapCommit, Types
<1> QED
  BY <1>1, ConstantsAssumption DEF Gen

LEMMA TypesNext ==
    ASSUME Types, Calls, Rows, [Next]_vars
    PROVE  Types'
<1> USE DEF Types
<1>1. ASSUME NEW r \in Rid, Record(r) \/ Correct(r) PROVE Types'
  <2> DEFINE v == [gen |-> gen, ver |-> seq + 1]
  <2>1. seq' = seq + 1 /\ seq + 1 \in Seq /\ v \in Vector
    BY <1>1, ConstantsAssumption DEF Record, Correct, Seq, Vector
  <2>2. delta' = Put(r, seq + 1, v)
    BY <1>1 DEF Record, Correct
  <2>3. delta' \in [Rid -> Entry]
    BY <2>1, <2>2, PutStep
  <2>4. row' \in [Rid -> Row]
    <3>1. [status |-> "active", tier |-> "hot", packed |-> FALSE, vec |-> v] \in Row
      BY <2>1 DEF Row
    <3>2. [row[r] EXCEPT !.packed = FALSE, !.vec = v] \in Row
      <4>1. row[r] \in Row /\ FALSE \in BOOLEAN
        OBVIOUS
      <4> HIDE DEF v, Types
      <4> QED
        BY <2>1, <4>1 DEF Row
    <3>3. CASE Record(r)
      BY <3>1, <3>3 DEF Record
    <3>4. CASE Correct(r)
      <4>1. row' = [row EXCEPT ![r] = [row[r] EXCEPT !.packed = FALSE, !.vec = v]]
        BY <3>4 DEF Correct
      <4> QED
        BY <3>2, <4>1
    <3> QED
      BY <1>1, <3>3, <3>4
  <2>5. cached' \subseteq Rid /\ touched' \subseteq Rid
    BY <1>1 DEF Record, Correct, Touch
  <2> QED
    BY <1>1, <2>1, <2>3, <2>4, <2>5 DEF Record, Correct, callerVars, builderVars
<1>2. ASSUME NEW c \in Caller, NEW r \in Rid, ArchiveTx(c, r) \/ HydrateTx(c, r) \/ ForgetTx(c, r)
      PROVE  Types'
  <2>1. row' \in [Rid -> Row]
    BY <1>2 DEF ArchiveTx, HydrateTx, ForgetTx, Row
  <2>2. PICK kind \in {"archive", "hydrate", "forget"}, v \in Vector \cup {NoVec} :
            Start(c, kind, r, v)
    BY <1>2 DEF ArchiveTx, HydrateTx, ForgetTx, Row
  <2>3. [kind |-> kind, rid |-> r, seq |-> 0, vec |-> v] \in Call
    BY Consts DEF Call
  <2>4. /\ pc' \in [Caller -> {"idle", "mint", "land", "uncache"}] /\ touched' \subseteq Rid
        /\ call' \in [Caller -> Call \cup {NoCall}]
        /\ \A d \in Caller : pc'[d] # "idle" => call'[d] \in Call
    BY <2>2, <2>3 DEF Start, Touch
  <2> QED
    BY <1>2, <2>1, <2>4 DEF ArchiveTx, HydrateTx, ForgetTx, indexVars, builderVars
<1>3. ASSUME NEW c \in Caller, Mint(c) PROVE Types'
  <2>1. /\ seq + 1 \in Seq /\ seq' = seq + 1 /\ call[c] \in Call
        /\ call' = [call EXCEPT ![c] = [call[c] EXCEPT !.seq = seq + 1]]
        /\ pc' = [pc EXCEPT ![c] = "land"]
    BY <1>3, ConstantsAssumption DEF Mint, Seq
  <2>2. [call[c] EXCEPT !.seq = seq + 1] \in Call
    BY <2>1 DEF Call
  <2>3. /\ pc' \in [Caller -> {"idle", "mint", "land", "uncache"}]
        /\ call' \in [Caller -> Call \cup {NoCall}]
        /\ \A d \in Caller : pc'[d] # "idle" => call'[d] \in Call
    BY <2>1, <2>2
  <2> QED
    BY <1>3, <2>1, <2>3 DEF Mint, indexVars, builderVars
<1>4. ASSUME NEW c \in Caller, Land(c) \/ LandRefused(c) \/ Uncache(c) PROVE Types'
  <2>1. /\ call[c] \in Call /\ call[c].rid \in Rid /\ call[c].seq \in Seq
        /\ call[c].vec \in Vector \cup {NoVec}
    BY <1>4 DEF Land, LandRefused, Uncache, Call
  <2>2. delta' \in [Rid -> Entry]
    <3>1. Put(call[c].rid, call[c].seq, call[c].vec) \in [Rid -> Entry]
      BY <2>1, PutStep
    <3> QED
      BY <1>4, <3>1 DEF Land, LandRefused, Uncache, indexVars
  <2>3. /\ pc' \in [Caller -> {"idle", "mint", "land", "uncache"}]
        /\ call' \in [Caller -> Call \cup {NoCall}]
        /\ \A d \in Caller : pc'[d] # "idle" => call'[d] \in Call
    BY <1>4, <2>1 DEF Land, LandRefused, Uncache, Leave
  <2>4. cached' \subseteq Rid /\ strayed' \subseteq Rid /\ exposed' \subseteq Rid
    BY <1>4, <2>1 DEF Land, LandRefused, Uncache
  <2> QED
    BY <1>4, <2>2, <2>3, <2>4 DEF Land, LandRefused, Uncache, indexVars, builderVars
<1>5. CASE CompactBuild
  <2>1. /\ [r \in Rid |-> delta[r].seq] \in [Rid -> Seq]
        /\ [r \in Rid |-> Found(r)] \in Tier
    BY FoundType DEF Tier
  <2> QED
    BY <1>5, <2>1 DEF CompactBuild, indexVars, callerVars
<1>6. CASE CompactInstall
  BY <1>6, Consts DEF CompactInstall, callerVars
<1>7. CASE RebuildRead
  BY <1>7, BuiltType DEF RebuildRead, indexVars, callerVars
<1>8. CASE RebuildInstall \/ RebuildDeferred
  BY <1>8, Consts DEF RebuildInstall, RebuildDeferred, indexVars, callerVars, Overwritten
<1>9. CASE SwapCommit
  <2>1. gen + 1 \in Gen
    BY <1>9, SwapGen
  <2>2. PICK staged, paged \in SUBSET Rid :
            /\ \A r \in staged : row[r].status # "absent"
            /\ row' = [r \in Rid |-> IF r \in staged
                                     THEN [row[r] EXCEPT !.packed = FALSE, !.vec.gen = gen + 1]
                                     ELSE row[r]]
            /\ cutover' = [on |-> TRUE, tier |-> [r \in Rid |->
                              IF r \in staged \cap paged THEN row'[r].vec ELSE NoVec]]
            /\ exposed' = exposed \cup {r \in Rid \ paged : Active(r)}
    BY <1>9 DEF SwapCommit
  <2>3. ASSUME NEW r \in staged
        PROVE  [row[r] EXCEPT !.packed = FALSE, !.vec.gen = gen + 1] \in Row
    <3>1. row[r] \in Row /\ row[r].vec \in Vector
      BY <2>2, <2>3 DEF Rows
    <3>2. [row[r].vec EXCEPT !.gen = gen + 1] \in Vector
      BY <2>1, <3>1, Respaced
    <3> QED
      BY <3>1, <3>2 DEF Row
  <2>4. row' \in [Rid -> Row]
    BY <2>2, <2>3
  <2>5. cutover' \in [on : BOOLEAN, tier : Tier]
    BY <2>2, <2>4 DEF Tier, Row
  <2> QED
    BY <1>9, <2>2, <2>4, <2>5 DEF SwapCommit, indexVars, callerVars
<1>12. CASE Publish
  <2>1. gen' \in Gen /\ cold' \in Tier /\ delta' \in [Rid -> Entry]
    BY <1>12, Consts DEF Publish, Rows, RowGen
  <2> QED
    BY <1>12, <2>1, Consts DEF Publish, callerVars
<1>10. CASE Reopen
  <2>1. cold' \in Tier /\ delta' \in [Rid -> Entry] /\ gen' \in Gen
    BY <1>10, Consts, BuiltType DEF Reopen, Rows, RowGen
  <2> QED
    BY <1>10, <2>1, Consts DEF Reopen
<1>11. CASE UNCHANGED vars
  BY <1>11 DEF vars, indexVars, callerVars, builderVars
<1> QED
  BY <1>1, <1>2, <1>3, <1>4, <1>5, <1>6, <1>7, <1>8, <1>9, <1>10, <1>11, <1>12 DEF Next

-----------------------------------------------------------------------------
(* Rows, calls, forgotten records *)

LEMMA SwapStep ==
    ASSUME SwapCommit
    PROVE  ~cutover.on /\ cutover'.on /\ exposed \subseteq exposed' /\ UNCHANGED strayed /\ UNCHANGED indexVars
<1>1. PICK staged, paged \in SUBSET Rid :
          /\ cutover' = [on |-> TRUE, tier |-> [x \in Rid |->
                            IF x \in staged \cap paged THEN row'[x].vec ELSE NoVec]]
          /\ exposed' = exposed \cup {x \in Rid \ paged : Active(x)}
  BY DEF SwapCommit
<1>2. cutover'.on
  BY <1>1
<1> QED
  BY <1>1, <1>2 DEF SwapCommit, RouterOpen

\* A swap gives the staged rows, all live ones among them, a raw vector of the
\* next space; the index built holds no other, and lacks only what it exposes.
LEMMA SwapRow ==
    ASSUME Types, Rows, SwapCommit, NEW r \in Rid
    PROVE  /\ row'[r].status = row[r].status /\ row'[r].tier = row[r].tier
           /\ row[r].status = "absent" => row'[r] = row[r]
           /\ row'[r].vec \in {row[r].vec, [row[r].vec EXCEPT !.gen = gen + 1]}
           /\ Active(r) => ~row'[r].packed /\ row'[r].vec = [row[r].vec EXCEPT !.gen = gen + 1]
           /\ cutover'.tier[r] # NoVec =>
                 row[r].status # "absent" /\ cutover'.tier[r] = [row[r].vec EXCEPT !.gen = gen + 1]
           /\ Active(r) /\ r \notin exposed' => cutover'.tier[r] = row'[r].vec
<1>1. PICK staged, paged \in SUBSET Rid :
          /\ {x \in Rid : Active(x)} \subseteq staged
          /\ \A x \in staged : row[x].status # "absent"
          /\ row' = [x \in Rid |-> IF x \in staged
                                   THEN [row[x] EXCEPT !.packed = FALSE, !.vec.gen = gen + 1]
                                   ELSE row[x]]
          /\ cutover' = [on |-> TRUE, tier |-> [x \in Rid |->
                            IF x \in staged \cap paged THEN row'[x].vec ELSE NoVec]]
          /\ exposed' = exposed \cup {x \in Rid \ paged : Active(x)}
  BY DEF SwapCommit
<1>2. row[r] \in Row
  BY DEF Types
<1>3. cutover'.tier[r] = IF r \in staged \cap paged THEN row'[r].vec ELSE NoVec
  BY <1>1
<1>4. CASE r \in staged
  <2>1. row'[r] = [row[r] EXCEPT !.packed = FALSE, !.vec.gen = gen + 1]
    BY <1>1, <1>4
  <2>2. /\ row'[r].status = row[r].status /\ row'[r].tier = row[r].tier /\ ~row'[r].packed
        /\ row'[r].vec = [row[r].vec EXCEPT !.gen = gen + 1]
    BY <1>2, <2>1 DEF Row
  <2>3. row[r].status # "absent"
    BY <1>1, <1>4
  <2>4. Active(r) /\ r \notin exposed' => r \in paged
    BY <1>1
  <2> QED
    BY <1>3, <1>4, <2>2, <2>3, <2>4
<1>5. CASE r \notin staged
  <2>1. row'[r] = row[r] /\ ~Active(r) /\ cutover'.tier[r] = NoVec
    BY <1>1, <1>3, <1>5
  <2> QED
    BY <2>1
<1> QED
  BY <1>4, <1>5

LEMMA RowsNext ==
    ASSUME Types, Types', Rows, [Next]_vars
    PROVE  Rows'
<1>1. \A r \in Rid : row[r] \in Row /\ gen \in Nat /\ seq \in Nat
  BY Consts DEF Types
<1>2. ASSUME NEW r \in Rid, Record(r) \/ Correct(r) PROVE Rows'
  <2> DEFINE v == [gen |-> gen, ver |-> seq + 1]
  <2>1. /\ UNCHANGED <<gen, cutover>> /\ RowGen = gen /\ RowGen' = gen
        /\ row'[r].status = "active" /\ row'[r].vec = v
        /\ \A s \in Rid : s # r => row'[s] = row[s]
    BY <1>1, <1>2 DEF Record, Correct, Types, Active, Row, RouterOpen, RowGen, builderVars
  <2>2. v \in Vector /\ v.gen = gen
    <3>1. seq' = seq + 1 /\ seq' \in Seq /\ gen \in Gen
      BY <1>2 DEF Record, Correct, Types
    <3> QED
      BY <3>1 DEF Vector
  <2> HIDE DEF v
  <2> QED
    BY <1>1, <2>1, <2>2 DEF Rows, Active
<1>3. ASSUME UNCHANGED <<gen, cutover>>,
             \A r \in Rid : /\ row'[r].vec = row[r].vec
                            /\ row'[r].status = "absent" <=> row[r].status = "absent"
                            /\ row[r].status = "absent" => row'[r] = row[r]
                            /\ Active(r)' => Active(r)
      PROVE  Rows'
  BY <1>3 DEF Rows, RowGen
<1>4. ASSUME NEW c \in Caller, NEW r \in Rid, ArchiveTx(c, r) \/ HydrateTx(c, r) \/ ForgetTx(c, r)
      PROVE  Rows'
  <2>1. /\ UNCHANGED <<gen, cutover>> /\ row'[r].vec = row[r].vec /\ row[r] # NoRow
        /\ row'[r].status = row[r].status \/ (Active(r) /\ row'[r].status = "tombstoned")
        /\ \A s \in Rid : s # r => row'[s] = row[s]
    BY <1>1, <1>4 DEF ArchiveTx, HydrateTx, ForgetTx, Types, Row, NoRow, Active, indexVars, builderVars
  <2>2. row[r].status # "absent"
    BY <2>1 DEF Rows
  <2> QED
    BY <1>3, <2>1, <2>2 DEF Active
<1>5. CASE SwapCommit
  <2>1. gen + 1 \in Gen /\ RowGen = gen /\ RowGen' = gen + 1
    BY <1>5, SwapGen, SwapStep DEF RowGen, indexVars
  <2>2. ASSUME NEW r \in Rid
        PROVE  /\ row'[r].status = "absent" => row'[r] = NoRow
               /\ row'[r].status # "absent" => row'[r].vec \in Vector /\ row'[r].vec.gen <= gen + 1
               /\ row'[r].status = "active" => row'[r].vec.gen = gen + 1
    <3>0. gen \in Nat /\ gen + 1 <= gen + 1 /\ \A v \in Vector : v.gen \in Nat
      <4>1. gen \in Nat /\ \A v \in Vector : v.gen \in Nat
        BY Consts DEF Types, Vector
      <4> QED
        BY <4>1
    <3>1. row[r].status # "absent" =>
             /\ row[r].vec \in Vector /\ row[r].vec.gen <= gen + 1
             /\ [row[r].vec EXCEPT !.gen = gen + 1] \in Vector
             /\ [row[r].vec EXCEPT !.gen = gen + 1].gen = gen + 1
      BY <2>1, <3>0, Respaced DEF Rows
    <3>2. row[r].status = "absent" => row[r] = NoRow
      BY DEF Rows
    <3>3. /\ row'[r].status = row[r].status
          /\ row[r].status = "absent" => row'[r] = row[r]
          /\ row'[r].vec \in {row[r].vec, [row[r].vec EXCEPT !.gen = gen + 1]}
          /\ row[r].status = "active" => row'[r].vec = [row[r].vec EXCEPT !.gen = gen + 1]
      BY <1>5, SwapRow DEF Active
    <3>4. row'[r].status # "absent" => row'[r].vec \in Vector /\ row'[r].vec.gen <= gen + 1
      BY <3>0, <3>1, <3>3
    <3> QED
      BY <3>1, <3>2, <3>3, <3>4
  <2> QED
    BY <2>1, <2>2 DEF Rows, Active
<1>6. ASSUME UNCHANGED row, RowGen' = RowGen PROVE Rows'
  BY <1>6 DEF Rows, Active
<1>7. ASSUME NEW c \in Caller, Mint(c) \/ Land(c) \/ LandRefused(c) \/ Uncache(c) PROVE Rows'
  BY <1>6, <1>7 DEF Mint, Land, LandRefused, Uncache, indexVars, builderVars, RowGen
<1>8. CASE \/ CompactBuild \/ CompactInstall \/ RebuildRead \/ RebuildInstall
           \/ RebuildDeferred \/ UNCHANGED vars
  BY <1>6, <1>8 DEF CompactBuild, CompactInstall, RebuildRead, RebuildInstall,
                    RebuildDeferred, vars, indexVars, builderVars, RowGen
<1>9. CASE Publish \/ Reopen
  BY <1>6, <1>9 DEF Publish, Reopen, RowGen, NoCutover
<1> QED
  BY <1>2, <1>4, <1>5, <1>7, <1>8, <1>9 DEF Next

\* The calls in flight after a step were in flight before it, and their rows
\* keep what the calls need.
CallsKept ==
    \A c \in Caller : pc'[c] # "idle" =>
        /\ pc[c] # "idle" /\ call'[c].kind = call[c].kind
        /\ call'[c].rid = call[c].rid /\ call'[c].vec = call[c].vec
        /\ pc'[c] = "uncache" => pc[c] = "uncache" \/ call[c].kind = "forget"
        /\ row'[call[c].rid].status = row[call[c].rid].status

LEMMA CallsFrame ==
    ASSUME Types, Types', Rows, Rows', Calls, CallsKept, RowGen <= RowGen'
    PROVE  Calls'
<1>1. RowGen \in Nat /\ RowGen' \in Nat /\ \A v \in Vector : v.gen \in Nat
  BY Consts DEF Rows, Vector
<1>2. ASSUME NEW c \in Caller, pc'[c] # "idle",
             call[c].kind = "hydrate"
      PROVE  call[c].vec.gen <= RowGen'
  BY <1>1, <1>2 DEF Calls, CallsKept
<1> QED
  BY <1>2 DEF Calls, CallsKept

LEMMA CallsNext ==
    ASSUME Types, Types', Rows, Rows', Calls, [Next]_vars
    PROVE  Calls'
<1>1. \A c \in Caller : pc[c] # "idle" => call[c] \in Call /\ call[c].rid \in Rid
  BY DEF Types, Call
<1>2. /\ RowGen \in Nat /\ RowGen <= RowGen /\ gen <= gen + 1
      /\ UNCHANGED <<gen, cutover>> => RowGen' = RowGen
  <2>1. RowGen \in Nat /\ gen \in Nat
    BY Consts DEF Rows, Types
  <2>2. UNCHANGED <<gen, cutover>> => RowGen' = RowGen
    BY DEF RowGen
  <2> QED
    BY <2>1, <2>2
<1>3. ASSUME NEW r \in Rid, Record(r) \/ Correct(r) PROVE Calls'
  <2>1. UNCHANGED <<gen, cutover, pc, call>> /\ \A s \in Rid : s # r => row'[s] = row[s]
    BY <1>3 DEF Record, Correct, Types, callerVars, builderVars
  <2>2. CASE Record(r)
    <3>1. \A c \in Caller : pc[c] # "idle" => call[c].rid # r
      BY <2>2 DEF Calls, Record
    <3> QED
      BY <1>1, <1>2, <2>1, <3>1, CallsFrame DEF CallsKept
  <2>3. CASE Correct(r)
    <3>1. row'[r].status = row[r].status
      BY <2>3 DEF Correct, Types, Row
    <3>2. \A s \in Rid : row'[s].status = row[s].status
      BY <2>1, <3>1
    <3> QED
      BY <1>1, <1>2, <2>1, <3>2, CallsFrame DEF CallsKept
  <2> QED
    BY <1>3, <2>2, <2>3
<1>4. ASSUME NEW c \in Caller, NEW r \in Rid, ArchiveTx(c, r) \/ HydrateTx(c, r) \/ ForgetTx(c, r)
      PROVE  Calls'
  <2>1. row[r] \in Row /\ row[r] # NoRow
    BY <1>4 DEF ArchiveTx, HydrateTx, ForgetTx, Types, Active, NoRow
  <2>2. row[r].status # "absent" /\ row[r].vec \in Vector /\ row[r].vec.gen <= RowGen
    BY <2>1 DEF Rows
  <2>3. PICK k \in {"archive", "hydrate", "forget"}, v \in Vector \cup {NoVec} :
            /\ Start(c, k, r, v)
            /\ k = "forget" => row'[r].status = "tombstoned"
            /\ k # "hydrate" => v = NoVec
            /\ k = "hydrate" => v = row[r].vec
            /\ row'[r].status = row[r].status \/ row'[r].status = "tombstoned"
            /\ UNCHANGED <<gen, cutover>> /\ \A s \in Rid : s # r => row'[s] = row[s]
    <3>1. CASE ArchiveTx(c, r)
      BY <2>1, <3>1 DEF ArchiveTx, Types, Row, indexVars, builderVars
    <3>2. CASE HydrateTx(c, r)
      BY <2>1, <2>2, <3>2 DEF HydrateTx, Types, Row, indexVars, builderVars
    <3>3. CASE ForgetTx(c, r)
      BY <2>1, <3>3 DEF ForgetTx, Types, Row, indexVars, builderVars
    <3> QED
      BY <1>4, <3>1, <3>2, <3>3
  <2>4. /\ pc'[c] = "mint" /\ call'[c] = [kind |-> k, rid |-> r, seq |-> 0, vec |-> v]
        /\ \A d \in Caller : d # c => pc'[d] = pc[d] /\ call'[d] = call[d]
    BY <2>3 DEF Start, Types
  <2>5. ASSUME NEW d \in Caller, d # c, pc'[d] # "idle"
        PROVE  /\ row'[call'[d].rid].status # "absent"
               /\ call'[d].kind = "forget" => row'[call'[d].rid].status = "tombstoned"
    <3>1. pc[d] # "idle" /\ call'[d] = call[d] /\ call[d].rid \in Rid
      BY <1>1, <2>4, <2>5
    <3> QED
      BY <2>2, <2>3, <3>1 DEF Calls
  <2> QED
    BY <1>2, <2>2, <2>3, <2>4, <2>5 DEF Calls
<1>5. ASSUME NEW c \in Caller, Mint(c) PROVE Calls'
  <2>1. /\ UNCHANGED <<row, gen, cutover>> /\ call[c] \in Call /\ pc[c] = "mint"
        /\ call' = [call EXCEPT ![c] = [call[c] EXCEPT !.seq = seq + 1]]
        /\ pc' = [pc EXCEPT ![c] = "land"]
    BY <1>5 DEF Mint, Types, indexVars, builderVars
  <2>2. /\ call'[c].kind = call[c].kind /\ call'[c].rid = call[c].rid /\ call'[c].vec = call[c].vec
        /\ pc'[c] = "land"
        /\ \A d \in Caller : d # c => pc'[d] = pc[d] /\ call'[d] = call[d]
    BY <2>1 DEF Types, Call
  <2> QED
    BY <1>2, <2>1, <2>2, CallsFrame DEF CallsKept
<1>6. ASSUME NEW c \in Caller, Land(c) \/ LandRefused(c) \/ Uncache(c) PROVE Calls'
  <2>1. /\ UNCHANGED <<row, gen, cutover>> /\ pc[c] # "idle"
        /\ \/ pc' = [pc EXCEPT ![c] = "idle"] /\ call' = [call EXCEPT ![c] = NoCall]
           \/ /\ call[c].kind = "forget" /\ pc' = [pc EXCEPT ![c] = "uncache"]
              /\ UNCHANGED call
    BY <1>6 DEF Land, LandRefused, Uncache, Leave, indexVars, builderVars
  <2>2. /\ pc'[c] = "idle" \/ (pc'[c] = "uncache" /\ call[c].kind = "forget" /\ call'[c] = call[c])
        /\ \A d \in Caller : d # c => pc'[d] = pc[d] /\ call'[d] = call[d]
    BY <2>1 DEF Types
  <2> QED
    BY <1>2, <2>1, <2>2, CallsFrame DEF CallsKept
<1>7. CASE SwapCommit
  <2>1. \A r \in Rid : row'[r].status = row[r].status
    BY <1>7, SwapRow
  <2>2. UNCHANGED <<pc, call>> /\ RowGen <= RowGen'
    BY <1>2, <1>7, SwapStep DEF SwapCommit, RowGen, indexVars, callerVars
  <2> QED
    BY <1>1, <2>1, <2>2, CallsFrame DEF CallsKept
<1>10. CASE Publish
  BY <1>2, <1>10, CallsFrame DEF Publish, RowGen, NoCutover, callerVars, CallsKept
<1>8. CASE \/ CompactBuild \/ CompactInstall \/ RebuildRead \/ RebuildInstall
           \/ RebuildDeferred \/ UNCHANGED vars
  <2>1. UNCHANGED <<row, gen, cutover, pc, call>>
    BY <1>8 DEF CompactBuild, CompactInstall, RebuildRead, RebuildInstall,
                RebuildDeferred, vars, indexVars, callerVars, builderVars
  <2> QED
    BY <1>2, <2>1, CallsFrame DEF CallsKept
<1>9. CASE Reopen
  BY <1>9 DEF Reopen, Calls
<1> QED
  BY <1>3, <1>4, <1>5, <1>6, <1>7, <1>8, <1>9, <1>10 DEF Next

LEMMA HiddenNext ==
    ASSUME Types, Types', Rows, Calls, Hidden, [Next]_vars
    PROVE  Hidden'
<1>1. ASSUME NEW r \in Rid, Record(r) \/ Correct(r) PROVE Hidden'
  <2>1. /\ UNCHANGED <<pc, call>> /\ row'[r].status = "active" /\ cached' \subseteq cached \cup {r}
        /\ \A s \in Rid : s # r => row'[s] = row[s]
    BY <1>1 DEF Record, Correct, Types, Row, Active, callerVars
  <2> QED
    BY <2>1 DEF Hidden
<1>2. ASSUME NEW c \in Caller, NEW r \in Rid, ArchiveTx(c, r) \/ HydrateTx(c, r) PROVE Hidden'
  <2>1. /\ UNCHANGED cached /\ \A s \in Rid : row'[s].status = row[s].status
        /\ \A d \in Caller : pc[d] # "idle" => pc'[d] = pc[d] /\ call'[d] = call[d]
    <3>1. CASE ArchiveTx(c, r)
      BY <3>1 DEF ArchiveTx, Start, Types, Row
    <3>2. CASE HydrateTx(c, r)
      BY <3>2 DEF HydrateTx, Start, Types, Row
    <3> QED
      BY <1>2, <3>1, <3>2
  <2> QED
    BY <2>1 DEF Hidden
<1>3. ASSUME NEW c \in Caller, NEW r \in Rid, ForgetTx(c, r) PROVE Hidden'
  <2>1. /\ UNCHANGED cached /\ \A s \in Rid : s # r => row'[s] = row[s]
        /\ \A d \in Caller : pc[d] # "idle" => pc'[d] = pc[d] /\ call'[d] = call[d]
        /\ pc'[c] # "idle" /\ call'[c].kind = "forget" /\ call'[c].rid = r
    BY <1>3 DEF ForgetTx, Start, Types
  <2> QED
    BY <2>1 DEF Hidden
<1>4. ASSUME NEW c \in Caller, Mint(c) PROVE Hidden'
  <2>1. /\ UNCHANGED <<row, cached>> /\ call[c] \in Call
        /\ call' = [call EXCEPT ![c] = [call[c] EXCEPT !.seq = seq + 1]]
        /\ pc' = [pc EXCEPT ![c] = "land"]
    BY <1>4 DEF Mint, Types
  <2>2. \A d \in Caller : pc[d] # "idle" => /\ pc'[d] # "idle" /\ call'[d].kind = call[d].kind
                                            /\ call'[d].rid = call[d].rid
    BY <2>1 DEF Types, Call
  <2> QED
    BY <2>1, <2>2 DEF Hidden
<1>5. ASSUME NEW c \in Caller, Land(c) \/ LandRefused(c) PROVE Hidden'
  <2>1. \A d \in Caller : pc[d] # "idle" /\ call[d].kind = "forget" =>
            pc'[d] # "idle" /\ call'[d] = call[d]
    BY <1>5 DEF Land, LandRefused, Leave, Types
  <2>2. UNCHANGED <<row, cached>>
    BY <1>5 DEF Land, LandRefused
  <2> QED
    BY <2>1, <2>2 DEF Hidden
<1>6. ASSUME NEW c \in Caller, Uncache(c) PROVE Hidden'
  <2>1. /\ UNCHANGED row /\ cached' = cached \ {call[c].rid}
        /\ \A d \in Caller : d # c => pc'[d] = pc[d] /\ call'[d] = call[d]
    BY <1>6 DEF Uncache, Leave, Types
  <2> QED
    BY <2>1 DEF Hidden
<1>7. CASE SwapCommit \/ Publish
  <2>1. UNCHANGED <<cached, pc, call>> /\ \A r \in Rid : row'[r].status = row[r].status
    BY <1>7, SwapRow DEF SwapCommit, Publish, callerVars
  <2> QED
    BY <2>1 DEF Hidden
<1>8. CASE \/ CompactBuild \/ CompactInstall \/ RebuildRead \/ RebuildInstall
           \/ RebuildDeferred \/ UNCHANGED vars
  <2>1. UNCHANGED <<row, cached, pc, call>>
    BY <1>8 DEF CompactBuild, CompactInstall, RebuildRead, RebuildInstall,
                RebuildDeferred, vars, callerVars
  <2> QED
    BY <2>1 DEF Hidden
<1>9. CASE Reopen
  BY <1>9 DEF Reopen, Hidden, Active
<1> QED
  BY <1>1, <1>2, <1>3, <1>4, <1>5, <1>6, <1>7, <1>8, <1>9 DEF Next

-----------------------------------------------------------------------------
(* One embedding space *)

LEMMA BuiltSpace ==
    ASSUME Types, Rows, NEW r \in Rid, Built(row)[r] # NoVec
    PROVE  Built(row)[r].gen = RowGen
  BY DEF Built, Rows, Active

LEMMA SpacesNext ==
    ASSUME Types, Types', Rows, Calls, Spaces, [Next]_vars
    PROVE  Spaces'
<1>1. ASSUME NEW r \in Rid, NEW n \in Seq, NEW v \in Vector \cup {NoVec}, delta' = Put(r, n, v),
             UNCHANGED <<cold, gen, merge, rebuild, cutover>>, strayed \subseteq strayed',
             v # NoVec /\ v.gen # gen => r \in strayed'
      PROVE  Spaces'
  <2>1. ASSUME NEW s \in Rid \ strayed', delta'[s].seq # 0, delta'[s].vec # NoVec
        PROVE  delta'[s].vec.gen = gen
    <3>1. CASE delta'[s] = delta[s]
      BY <1>1, <2>1, <3>1 DEF Spaces
    <3>2. CASE s = r /\ delta'[s] = [seq |-> n, vec |-> v]
      BY <1>1, <2>1, <3>2
    <3> QED
      BY <1>1, <3>1, <3>2, PutStep
  <2> QED
    BY <1>1, <2>1 DEF Spaces
<1>2. ASSUME NEW r \in Rid, Record(r) \/ Correct(r) PROVE Spaces'
  <2> DEFINE v == [gen |-> gen, ver |-> seq + 1]
  <2>1. delta' = Put(r, seq + 1, v) /\ UNCHANGED <<cold, gen, merge, rebuild, cutover, strayed>>
        /\ seq' = seq + 1
    BY <1>2 DEF Record, Correct, builderVars
  <2>2. seq + 1 \in Seq /\ v \in Vector /\ v.gen = gen
    BY <2>1 DEF Types, Vector
  <2> HIDE DEF v
  <2> QED
    BY <1>1, <2>1, <2>2
<1>3. ASSUME NEW c \in Caller, Land(c) PROVE Spaces'
  <2>1. call[c] \in Call /\ call[c].rid \in Rid /\ call[c].seq \in Seq
        /\ call[c].vec \in Vector \cup {NoVec}
    BY <1>3 DEF Land, Types, Call
  <2>2. /\ delta' = Put(call[c].rid, call[c].seq, call[c].vec)
        /\ strayed' = IF Strays(c) THEN strayed \cup {call[c].rid} ELSE strayed
        /\ UNCHANGED <<cold, gen, merge, rebuild, cutover>>
    BY <1>3 DEF Land, builderVars
  <2> QED
    BY <1>1, <2>1, <2>2 DEF Strays
<1>4. ASSUME UNCHANGED <<indexVars, builderVars>>, strayed \subseteq strayed' PROVE Spaces'
  BY <1>4 DEF Spaces, indexVars, builderVars
<1>5. ASSUME NEW c \in Caller, NEW r \in Rid, ArchiveTx(c, r) \/ HydrateTx(c, r) \/ ForgetTx(c, r)
      PROVE  Spaces'
  BY <1>4, <1>5 DEF ArchiveTx, HydrateTx, ForgetTx
<1>6. ASSUME NEW c \in Caller, Mint(c) \/ LandRefused(c) \/ Uncache(c) PROVE Spaces'
  BY <1>4, <1>6 DEF Mint, LandRefused, Uncache
<1>7. CASE CompactBuild
  <2>1. \A r \in Rid : merge'.tier[r] = Found(r)
    BY <1>7 DEF CompactBuild
  <2>2. \A r \in Rid \ strayed : Found(r) # NoVec => Found(r).gen = gen
    BY DEF Spaces, Found
  <2> QED
    BY <1>7, <2>1, <2>2 DEF CompactBuild, Spaces, indexVars
<1>8. CASE CompactInstall
  <2>1. \A r \in Rid : delta'[r] \in {delta[r], NoEntry} /\ cold'[r] = merge.tier[r]
    BY <1>8 DEF CompactInstall
  <2>2. ~merge'.on /\ NoEntry.seq = 0 /\ merge.on /\ UNCHANGED <<gen, rebuild, cutover, strayed>>
    BY <1>8 DEF CompactInstall, NoMerge, NoEntry
  <2> QED
    BY <2>1, <2>2 DEF Spaces
<1>9. CASE RebuildRead
  <2>1. /\ rebuild'.gen = gen /\ rebuild'.tier = Built(row)
        /\ UNCHANGED <<indexVars, merge, cutover, strayed>>
    BY <1>9 DEF RebuildRead
  <2>2. gen \in Nat /\ gen <= gen /\ (~cutover.on => RowGen = gen)
    BY Consts DEF Types, RowGen
  <2> QED
    BY <2>1, <2>2, BuiltSpace DEF Spaces, indexVars
<1>10. CASE RebuildInstall
  BY <1>10 DEF RebuildInstall, RouterOpen, Spaces, Off
<1>11. CASE RebuildDeferred
  BY <1>11 DEF RebuildDeferred, Spaces, Off, indexVars
<1>12. CASE SwapCommit
  <2>1. /\ cutover'.on /\ UNCHANGED <<delta, cold, gen, merge, rebuild>>
        /\ strayed \subseteq strayed'
    BY <1>12, SwapStep DEF SwapCommit, indexVars
  <2>2. ASSUME NEW r \in Rid, cutover'.tier[r] # NoVec
        PROVE  cutover'.tier[r].gen = gen + 1
    <3>1. row[r].status # "absent" /\ cutover'.tier[r] = [row[r].vec EXCEPT !.gen = gen + 1]
      BY <1>12, <2>2, SwapRow
    <3>2. row[r].vec \in Vector /\ gen + 1 \in Gen
      BY <1>12, <3>1, SwapGen DEF Rows
    <3> QED
      BY <3>1, <3>2, Respaced
  <2> QED
    BY <2>1, <2>2 DEF Spaces
<1>15. CASE Publish
  <2>1. /\ gen' = gen + 1 /\ cutover.on /\ ~cutover'.on /\ ~merge'.on
        /\ \A r \in Rid : delta'[r].seq = 0 /\ cold'[r] = cutover.tier[r]
        /\ UNCHANGED <<rebuild, strayed>>
    BY <1>15 DEF Publish, NoMerge, NoEntry, NoCutover
  <2>2. rebuild.on => rebuild.gen <= gen + 1 /\ rebuild.gen # gen + 1
    <3>1. gen \in Nat /\ rebuild.gen \in Nat /\ (rebuild.on => rebuild.gen <= gen)
      BY Consts DEF Types, Spaces
    <3> QED
      BY <3>1
  <2> QED
    BY <2>1, <2>2 DEF Spaces
<1>13. CASE Reopen
  <2>1. /\ \A r \in Rid : delta'[r].seq = 0
        /\ ~merge'.on /\ ~rebuild'.on /\ ~cutover'.on
        /\ cold' = Built(row) /\ gen' = RowGen
    BY <1>13 DEF Reopen, NoMerge, NoEntry, Off, NoCutover, RowGen
  <2> QED
    BY <2>1, BuiltSpace DEF Spaces
<1>14. CASE UNCHANGED vars
  BY <1>4, <1>14 DEF vars
<1> QED
  BY <1>2, <1>3, <1>5, <1>6, <1>7, <1>8, <1>9, <1>10, <1>11, <1>12, <1>13, <1>14, <1>15 DEF Next

LEMMA BaseInvInit == Init => BaseInv
<1> SUFFICES ASSUME Init PROVE BaseInv
  OBVIOUS
<1>1. Types
  <2>1. /\ row \in [Rid -> Row] /\ delta \in [Rid -> Entry] /\ cold \in Tier
        /\ merge \in [on : BOOLEAN, sealed : [Rid -> Seq], tier : Tier]
        /\ rebuild \in [on : BOOLEAN, gen : Gen, tier : Tier]
        /\ cutover \in [on : BOOLEAN, tier : Tier]
        /\ gen \in Gen /\ seq \in Seq
    BY Consts DEF Init
  <2> QED
    BY <2>1 DEF Init, Types
<1>2. Rows
  BY Consts DEF Init, Rows, NoRow, Active, RowGen, NoCutover
<1>3. Calls /\ Hidden
  BY DEF Init, Calls, Hidden
<1>4. Spaces
  BY DEF Init, Spaces, NoEntry, NoTier, NoMerge, Off, NoCutover
<1> QED
  BY <1>1, <1>2, <1>3, <1>4 DEF BaseInv

LEMMA BaseInvNext == BaseInv /\ [Next]_vars => BaseInv'
<1> SUFFICES ASSUME BaseInv, [Next]_vars PROVE BaseInv'
  OBVIOUS
<1>1. Types'
  BY TypesNext DEF BaseInv
<1>2. Rows'
  BY <1>1, RowsNext DEF BaseInv
<1> QED
  BY <1>1, <1>2, CallsNext, HiddenNext, SpacesNext DEF BaseInv

-----------------------------------------------------------------------------
(* The index follows the tier, with one call at a time per record *)

LEMMA Numbers ==
    ASSUME BaseInv
    PROVE  /\ seq \in Nat /\ gen \in Nat
           /\ \A r \in Rid : delta[r].seq \in Nat /\ merge.sealed[r] \in Nat
           /\ \A c \in Caller : pc[c] # "idle" =>
                 call[c] \in Call /\ call[c].rid \in Rid /\ call[c].seq \in Nat
           /\ \A v \in Vector : v.gen \in Nat
  BY Consts DEF BaseInv, Types, Entry, Call, Vector

\* A record that a step leaves alone.
LEMMA FollowsFrame ==
    ASSUME Follows, NEW s \in Rid, row'[s] = row[s], delta'[s] = delta[s], cold'[s] = cold[s],
           UNCHANGED <<gen, merge>>, On(s)' = {} => On(s) = {}, 
           s \notin (exposed \cup strayed)' => s \notin exposed \cup strayed,
           Settled(s)'
    PROVE  /\ Right(s, Found(s))'
           /\ (merge.on /\ delta[s].seq = merge.sealed[s] => Right(s, merge.tier[s]))'
<1>1. Settled(s) /\ Found(s)' = Found(s)
  BY DEF Settled, Active, Found
<1> QED
  BY <1>1 DEF Follows, Right

\* Nobody else is on the record of a call.
LEMMA AloneOn ==
    ASSUME BaseInv, OnePerRecord, NEW c \in Caller, pc[c] # "idle",
           NEW d \in Caller, d # c, pc[d] # "idle"
    PROVE  call[d].rid # call[c].rid
  BY DEF OnePerRecord

LEMMA WriteSerial ==
    ASSUME Serial, BaseInv, BaseInv', SerialInv, NEW r \in Rid, Record(r) \/ Correct(r)
    PROVE  SerialInv'
<1> DEFINE v == [gen |-> gen, ver |-> seq + 1]
<1>1. /\ seq' = seq + 1 /\ delta' = Put(r, seq + 1, v)
      /\ UNCHANGED <<cold, gen, pc, call, merge, rebuild, cutover, strayed, exposed>>
      /\ Touch(r) /\ ~cutover.on
  BY DEF Record, Correct, RouterOpen, callerVars, builderVars
<1>2. \A c \in Caller : pc[c] # "idle" => call[c].rid # r
  BY DEF Record, Correct, MayStart, On, BaseInv, Calls
<1>3. /\ row'[r].vec = v /\ (row'[r].tier = "hot" \/ ~row'[r].packed)
      /\ \A s \in Rid : s # r => row'[s] = row[s]
  BY DEF Record, Correct, BaseInv, Types, Row
<1>4. seq \in Nat /\ seq + 1 \in Seq /\ v \in Vector /\ v = [v EXCEPT !.gen = gen]
  BY <1>1, Consts DEF BaseInv, Types, Vector
<1>5. /\ delta'[r] = [seq |-> seq + 1, vec |-> v]
      /\ \A s \in Rid : s # r => delta'[s] = delta[s]
  <2>1. delta[r].seq \in Nat /\ delta[r].seq <= seq
    BY Numbers DEF SerialInv, OnePerRecord
  <2>2. seq + 1 > delta[r].seq
    BY <1>4, <2>1
  <2> HIDE DEF v
  <2> QED
    BY <1>1, <1>4, <2>2, PutStep DEF BaseInv
<1> HIDE DEF v
<1>6. OnePerRecord'
  <2>1. ASSUME NEW c \in Caller, pc[c] = "land"
        PROVE  delta'[call[c].rid].seq < call[c].seq /\ call[c].seq <= seq'
    <3>1. call[c].rid # r /\ call[c].rid \in Rid /\ call[c].seq \in Nat
      BY <1>2, <2>1, Numbers
    <3> QED
      BY <1>1, <1>4, <1>5, <2>1, <3>1 DEF SerialInv, OnePerRecord
  <2>2. ASSUME NEW s \in Rid
        PROVE  delta'[s].seq <= seq' /\ (merge.on => merge.sealed[s] <= delta'[s].seq)
    <3>1. delta[s].seq \in Nat /\ merge.sealed[s] \in Nat
      BY Numbers
    <3> QED
      BY <1>1, <1>4, <1>5, <3>1 DEF SerialInv, OnePerRecord
  <2> QED
    BY <1>1, <2>1, <2>2 DEF SerialInv, OnePerRecord
<1>7. InFlight'
  <2>1. \A c \in Caller : pc[c] # "idle" => row'[call[c].rid] = row[call[c].rid]
    BY <1>2, <1>3, Numbers
  <2> QED
    BY <1>1, <2>1 DEF SerialInv, InFlight, Active
<1>8. Reads'
  BY <1>1, <1>3 DEF SerialInv, Reads, Touch, Built
<1>9. Follows'
  <2>1. ASSUME NEW s \in Rid, Settled(s)'
        PROVE  /\ Right(s, Found(s))'
               /\ (merge.on /\ delta[s].seq = merge.sealed[s] => Right(s, merge.tier[s]))'
    <3>1. CASE s = r
      <4>1. merge.on => merge.sealed[r] < delta'[r].seq
        <5>1. merge.on => merge.sealed[r] <= delta[r].seq /\ delta[r].seq <= seq
          BY DEF SerialInv, OnePerRecord
        <5> QED
          BY <1>4, <1>5, <5>1, Numbers
      <4>2. merge.on => delta'[r].seq # merge.sealed[r]
        BY <1>4, <1>5, <4>1, Numbers
      <4>3. Found(r)' = row'[r].vec
        BY <1>3, <1>4, <1>5 DEF Found
      <4> QED
        BY <1>1, <1>3, <1>4, <3>1, <4>2, <4>3 DEF Right
    <3>2. CASE s # r
      <4>1. On(s)' = On(s)
        BY <1>1 DEF On
      <4> QED
        BY <1>1, <1>3, <1>5, <2>1, <3>2, <4>1, FollowsFrame DEF SerialInv
    <3> QED
      BY <3>1, <3>2
  <2> QED
    BY <2>1 DEF Follows
<1> QED
  BY <1>6, <1>7, <1>8, <1>9 DEF SerialInv

LEMMA StartSerial ==
    ASSUME Serial, BaseInv, BaseInv', SerialInv, NEW c \in Caller, NEW r \in Rid,
           ArchiveTx(c, r) \/ HydrateTx(c, r) \/ ForgetTx(c, r)
    PROVE  SerialInv'
<1>1. PICK kind \in {"archive", "hydrate", "forget"}, v \in Vector \cup {NoVec} :
          /\ Start(c, kind, r, v)
          /\ kind = "archive" => row'[r].tier = "cold"
          /\ kind = "hydrate" => row'[r].tier = "hot" /\ v = row'[r].vec
          /\ kind = "forget" => ~Active(r)'
          /\ UNCHANGED <<delta, cold, gen, seq, merge, rebuild, strayed, exposed>>
          /\ \A s \in Rid : s # r => row'[s] = row[s]
  <2>1. row[r] \in Row
    BY DEF BaseInv, Types
  <2>2. CASE ArchiveTx(c, r)
    BY <2>1, <2>2 DEF ArchiveTx, BaseInv, Types, Row, indexVars, builderVars
  <2>3. CASE HydrateTx(c, r)
    BY <2>1, <2>3 DEF HydrateTx, BaseInv, Types, Row, indexVars, builderVars
  <2>4. CASE ForgetTx(c, r)
    BY <2>1, <2>4 DEF ForgetTx, BaseInv, Types, Row, Active, indexVars, builderVars
  <2> QED
    BY <2>2, <2>3, <2>4
<1>2. /\ pc'[c] = "mint" /\ call'[c] = [kind |-> kind, rid |-> r, seq |-> 0, vec |-> v]
      /\ pc[c] = "idle" /\ On(r) = {} /\ Touch(r)
      /\ \A d \in Caller : d # c => pc'[d] = pc[d] /\ call'[d] = call[d]
  BY <1>1 DEF Start, MayStart, BaseInv, Types
<1>3. \A d \in Caller : pc[d] # "idle" => d # c /\ call[d].rid # r /\ call[d].rid \in Rid
  BY <1>2, Numbers DEF On
<1>4. OnePerRecord'
  BY <1>1, <1>2, <1>3 DEF SerialInv, OnePerRecord
<1>5. InFlight'
  <2>1. \A d \in Caller : pc[d] # "idle" => row'[call[d].rid] = row[call[d].rid]
    BY <1>1, <1>3
  <2> QED
    BY <1>1, <1>2, <1>3, <2>1 DEF SerialInv, InFlight, Active
<1>6. Reads'
  BY <1>1, <1>2 DEF SerialInv, Reads, Touch, Built
<1>7. Follows'
  <2>1. ASSUME NEW s \in Rid, Settled(s)'
        PROVE  /\ Right(s, Found(s))'
               /\ (merge.on /\ delta[s].seq = merge.sealed[s] => Right(s, merge.tier[s]))'
    <3>1. s # r
      <4>1. c \in On(r)'
        BY <1>2 DEF On
      <4> QED
        BY <2>1, <4>1 DEF Settled
    <3>2. On(s)' = {} => On(s) = {}
      BY <1>2, <1>3 DEF On
    <3> QED
      BY <1>1, <2>1, <3>1, <3>2, FollowsFrame DEF SerialInv
  <2> QED
    BY <2>1 DEF Follows
<1> QED
  BY <1>4, <1>5, <1>6, <1>7 DEF SerialInv

LEMMA MintSerial ==
    ASSUME BaseInv, BaseInv', SerialInv, NEW c \in Caller, Mint(c)
    PROVE  SerialInv'
<1>1. /\ seq' = seq + 1 /\ pc[c] = "mint" /\ call[c] \in Call
      /\ call' = [call EXCEPT ![c] = [call[c] EXCEPT !.seq = seq + 1]]
      /\ pc' = [pc EXCEPT ![c] = "land"]
      /\ UNCHANGED <<row, delta, cold, gen, merge, rebuild, touched, strayed, exposed>>
  BY Numbers DEF Mint, indexVars, builderVars
<1>2. /\ call'[c].seq = seq + 1 /\ call'[c].kind = call[c].kind
      /\ call'[c].rid = call[c].rid /\ call'[c].vec = call[c].vec /\ pc'[c] = "land"
      /\ \A d \in Caller : d # c => pc'[d] = pc[d] /\ call'[d] = call[d]
  BY <1>1 DEF BaseInv, Types, Call
<1>3. OnePerRecord'
  <2>1. ASSUME NEW d \in Caller, pc'[d] = "land"
        PROVE  delta[call'[d].rid].seq < call'[d].seq /\ call'[d].seq <= seq'
    <3>1. CASE d = c
      <4>1. call[c].rid \in Rid /\ delta[call[c].rid].seq <= seq
        BY <1>1, Numbers DEF SerialInv, OnePerRecord
      <4> QED
        BY <1>1, <1>2, <3>1, <4>1, Numbers
    <3>2. CASE d # c
      <4>1. pc[d] = "land" /\ call'[d] = call[d] /\ call[d].seq <= seq
        BY <1>2, <2>1, <3>2 DEF SerialInv, OnePerRecord
      <4> QED
        BY <1>1, <4>1, Numbers DEF SerialInv, OnePerRecord
    <3> QED
      BY <3>1, <3>2
  <2>2. \A r \in Rid : delta[r].seq <= seq'
    BY <1>1, Numbers DEF SerialInv, OnePerRecord
  <2> QED
    BY <1>1, <1>2, <2>1, <2>2 DEF SerialInv, OnePerRecord
<1>4. InFlight'
  BY <1>1, <1>2 DEF SerialInv, InFlight, Active
<1>5. Reads'
  BY <1>1 DEF SerialInv, Reads
<1>6. \A s \in Rid : On(s)' = On(s)
  BY <1>1, <1>2 DEF On
<1>7. Follows'
  BY <1>1, <1>6, FollowsFrame DEF SerialInv, Follows
<1> QED
  BY <1>3, <1>4, <1>5, <1>7 DEF SerialInv

LEMMA LandSerial ==
    ASSUME BaseInv, BaseInv', SerialInv, NEW c \in Caller, Land(c)
    PROVE  SerialInv'
<1>0. PICK r \in Rid : r = call[c].rid
  BY Numbers DEF Land
<1>1. /\ pc[c] = "land" /\ call[c] \in Call /\ r \in Rid /\ call[c].seq \in Seq
      /\ call[c].vec \in Vector \cup {NoVec}
      /\ delta' = Put(r, call[c].seq, call[c].vec)
      /\ strayed' = IF Strays(c) THEN strayed \cup {r} ELSE strayed
      /\ exposed' = IF Overtaken(c) THEN exposed \cup {r} ELSE exposed
      /\ UNCHANGED <<row, cold, gen, seq, merge, rebuild, touched>>
  BY <1>0 DEF Land, BaseInv, Types, Call, builderVars
<1>2. /\ call[c].kind = "forget" => pc'[c] = "uncache" /\ call' = call
      /\ call[c].kind # "forget" => pc'[c] = "idle"
      /\ \A d \in Caller : d # c => pc'[d] = pc[d] /\ call'[d] = call[d]
  BY DEF Land, Leave, BaseInv, Types
<1>3. delta[r].seq < call[c].seq /\ call[c].seq <= seq /\ call[c].seq \in Nat
      /\ (merge.on => merge.sealed[r] <= delta[r].seq)
  BY <1>0, <1>1, Numbers DEF SerialInv, OnePerRecord
<1>4. /\ delta'[r] = [seq |-> call[c].seq, vec |-> call[c].vec]
      /\ \A s \in Rid : s # r => delta'[s] = delta[s]
  <2>1. call[c].seq > delta[r].seq
    BY <1>1, <1>3, Numbers
  <2> QED
    BY <1>1, <2>1, PutStep DEF BaseInv
<1>5. \A d \in Caller : d # c /\ pc[d] # "idle" => call[d].rid # r /\ call[d].rid \in Rid
  BY <1>0, <1>1, AloneOn, Numbers DEF SerialInv
<1>6. OnePerRecord'
  <2>1. \A d \in Caller : pc'[d] # "idle" => /\ pc[d] # "idle" /\ call'[d] = call[d]
                                             /\ pc'[d] = "land" => d # c /\ pc[d] = "land"
    BY <1>1, <1>2
  <2>2. ASSUME NEW s \in Rid
        PROVE  delta'[s].seq <= seq /\ (merge.on => merge.sealed[s] <= delta'[s].seq)
    BY <1>1, <1>3, <1>4, Numbers DEF SerialInv, OnePerRecord
  <2> QED
    BY <1>1, <1>4, <1>5, <2>1, <2>2 DEF SerialInv, OnePerRecord
<1>7. InFlight'
  BY <1>1, <1>2 DEF SerialInv, InFlight, Active
<1>8. Reads'
  BY <1>1 DEF SerialInv, Reads
<1>9. Follows'
  <2>1. ASSUME NEW s \in Rid, Settled(s)'
        PROVE  /\ Right(s, Found(s))'
               /\ (merge.on /\ delta[s].seq = merge.sealed[s] => Right(s, merge.tier[s]))'
    <3>1. CASE s # r
      <4>1. On(s)' = {} => On(s) = {}
        BY <1>0, <1>2, <3>1 DEF On
      <4> QED
        BY <1>1, <1>4, <2>1, <3>1, <4>1, FollowsFrame DEF SerialInv
    <3>2. CASE s = r
      <4>1. Active(r) /\ call[c].kind # "forget" /\ ~Strays(c)
        <5>1. Active(r) /\ On(r)' = {} /\ r \notin (exposed \cup strayed)'
          BY <1>1, <2>1, <3>2 DEF Settled, Active
        <5>2. call[c].kind # "forget"
          BY <1>0, <1>2, <5>1 DEF On
        <5> QED
          BY <1>1, <5>1, <5>2
      <4>2. Found(r)' = call[c].vec
        BY <1>3, <1>4, Numbers DEF Found
      <4>3. ASSUME call[c].kind = "archive" PROVE Right(r, Found(r))'
        BY <1>0, <1>1, <4>1, <4>2, <4>3 DEF BaseInv, Calls, SerialInv, InFlight, Right
      <4>4. ASSUME call[c].kind = "hydrate" PROVE Right(r, Found(r))'
        <5>1. call[c].vec \in Vector /\ call[c].vec # NoVec
          BY <1>1, <4>4, Consts DEF BaseInv, Calls
        <5>2. call[c].vec.gen = gen
          BY <4>1, <5>1 DEF Strays
        <5>3. row[r].tier = "hot" /\ call[c].vec.ver = row[r].vec.ver
          BY <1>0, <1>1, <4>1, <4>4 DEF SerialInv, InFlight
        <5>4. row[r].vec \in Vector /\ gen \in Gen
          BY <1>1, <4>1 DEF BaseInv, Types, Rows, Active
        <5>5. call[c].vec = [row[r].vec EXCEPT !.gen = gen]
          BY <5>1, <5>2, <5>3, <5>4, SameVector
        <5> QED
          BY <1>1, <4>2, <5>3, <5>5 DEF Right
      <4>5. Right(r, Found(r))'
        BY <1>1, <4>1, <4>3, <4>4 DEF Call
      <4>6. merge.on => delta'[r].seq # merge.sealed[r]
        BY <1>1, <1>3, <1>4, Numbers
      <4> QED
        BY <1>1, <3>2, <4>5, <4>6
    <3> QED
      BY <3>1, <3>2
  <2> QED
    BY <2>1 DEF Follows
<1> QED
  BY <1>6, <1>7, <1>8, <1>9 DEF SerialInv

LEMMA LeaveSerial ==
    ASSUME BaseInv, BaseInv', SerialInv, NEW c \in Caller, LandRefused(c) \/ Uncache(c)
    PROVE  SerialInv'
<1> DEFINE r == call[c].rid
<1>1. /\ pc[c] # "idle" /\ r \in Rid
      /\ UNCHANGED <<row, delta, cold, gen, seq, merge, rebuild, touched>>
      /\ UNCHANGED strayed /\ exposed' \in {exposed, exposed \cup {r}}
      /\ r \in exposed' \/ pc[c] = "uncache"
  BY Numbers DEF LandRefused, Uncache, indexVars, builderVars
<1>2. pc'[c] = "idle" /\ \A d \in Caller : d # c => pc'[d] = pc[d] /\ call'[d] = call[d]
  BY DEF LandRefused, Uncache, Leave, BaseInv, Types
<1>3. OnePerRecord' /\ InFlight' /\ Reads'
  BY <1>1, <1>2 DEF SerialInv, OnePerRecord, InFlight, Reads, Active
<1>4. Follows'
  <2>1. ASSUME NEW s \in Rid, Settled(s)'
        PROVE  /\ Right(s, Found(s))'
               /\ (merge.on /\ delta[s].seq = merge.sealed[s] => Right(s, merge.tier[s]))'
    <3>1. s # r
      <4>1. pc[c] = "uncache" => ~Active(r)
        BY DEF BaseInv, Calls, Active
      <4> QED
        BY <1>1, <2>1, <4>1 DEF Settled, Active
    <3>2. On(s)' = {} => On(s) = {}
      BY <1>2, <3>1 DEF On
    <3> QED
      BY <1>1, <2>1, <3>2, FollowsFrame DEF SerialInv
  <2> QED
    BY <2>1 DEF Follows
<1> QED
  BY <1>3, <1>4 DEF SerialInv

LEMMA CompactSerial ==
    ASSUME BaseInv, BaseInv', SerialInv, CompactBuild \/ CompactInstall
    PROVE  SerialInv'
<1>1. UNCHANGED <<row, gen, seq, pc, call, rebuild, touched, strayed, exposed>>
  BY DEF CompactBuild, CompactInstall, callerVars, indexVars
<1>2. InFlight' /\ Reads'
  BY <1>1 DEF SerialInv, InFlight, Reads, Active
<1>3. \A s \in Rid : (Settled(s)' <=> Settled(s)) /\ \A v : Right(s, v)' <=> Right(s, v)
  BY <1>1 DEF Settled, Active, On, Right
<1>4. CASE CompactBuild
  <2>1. /\ UNCHANGED <<delta, cold>>
        /\ \A s \in Rid : merge'.sealed[s] = delta[s].seq /\ merge'.tier[s] = Found(s)
    BY <1>4 DEF CompactBuild, indexVars
  <2>2. OnePerRecord'
    BY <1>1, <2>1, Numbers DEF SerialInv, OnePerRecord
  <2>3. Follows'
    BY <1>1, <2>1 DEF SerialInv, Follows, Settled, Active, On, Right, Found
  <2> QED
    BY <1>2, <2>2, <2>3 DEF SerialInv
<1>5. CASE CompactInstall
  <2>1. /\ ~merge'.on /\ merge.on
        /\ \A s \in Rid : /\ cold'[s] = merge.tier[s]
                          /\ delta[s].seq = merge.sealed[s] => delta'[s].seq = 0
                          /\ delta[s].seq # merge.sealed[s] => delta'[s] = delta[s]
    BY <1>5 DEF CompactInstall, NoMerge, NoEntry
  <2>2. OnePerRecord'
    <3>1. \A s \in Rid : delta'[s].seq <= delta[s].seq /\ delta'[s].seq \in Nat
      BY <2>1, Numbers
    <3>2. ASSUME NEW d \in Caller, pc[d] = "land" PROVE delta'[call[d].rid].seq < call[d].seq
      BY <3>1, <3>2, Numbers DEF SerialInv, OnePerRecord
    <3>3. \A s \in Rid : delta'[s].seq <= seq
      BY <3>1, Numbers DEF SerialInv, OnePerRecord
    <3> QED
      BY <1>1, <2>1, <3>2, <3>3 DEF SerialInv, OnePerRecord
  <2>3. ASSUME NEW s \in Rid, Settled(s) PROVE Right(s, Found(s))'
    <3>1. CASE delta[s].seq = merge.sealed[s]
      <4>1. Found(s)' = merge.tier[s]
        BY <2>1, <3>1 DEF Found
      <4>2. Right(s, merge.tier[s])
        BY <2>1, <2>3, <3>1 DEF SerialInv, Follows
      <4> QED
        BY <1>1, <4>1, <4>2 DEF Right
    <3>2. CASE delta[s].seq # merge.sealed[s]
      <4>1. merge.sealed[s] <= delta[s].seq
        BY <2>1 DEF SerialInv, OnePerRecord
      <4>2. delta[s].seq # 0
        BY <3>2, <4>1, Numbers
      <4>3. Found(s)' = Found(s)
        BY <2>1, <3>2, <4>2 DEF Found
      <4>4. Right(s, Found(s))
        BY <2>3 DEF SerialInv, Follows
      <4> QED
        BY <1>1, <4>3, <4>4 DEF Right
    <3> QED
      BY <3>1, <3>2
  <2> QED
    BY <1>2, <1>3, <2>1, <2>2, <2>3 DEF SerialInv, Follows
<1> QED
  BY <1>4, <1>5

\* A hot row's vector is what a rebuild reads, and a cold row has none there.
LEMMA BuiltRight ==
    ASSUME BaseInv, NEW r \in Rid, Active(r), RowGen = gen
    PROVE  Right(r, Built(row)[r])
<1>1. row[r].vec \in Vector /\ row[r].vec.gen = gen /\ gen \in Gen
  BY DEF BaseInv, Types, Rows, Active
<1>2. [row[r].vec EXCEPT !.gen = gen] = row[r].vec
  BY <1>1, Respaced
<1> QED
  BY <1>2 DEF Right, Built, Active

LEMMA RebuildSerial ==
    ASSUME BaseInv, BaseInv', SerialInv, RebuildRead \/ RebuildInstall \/ RebuildDeferred
    PROVE  SerialInv'
<1>1. UNCHANGED <<row, delta, gen, seq, pc, call, merge>>
  BY DEF RebuildRead, RebuildInstall, RebuildDeferred, callerVars, indexVars
<1>2. OnePerRecord' /\ InFlight'
  BY <1>1 DEF SerialInv, OnePerRecord, InFlight, Active
<1>3. Reads'
  BY <1>1 DEF RebuildRead, RebuildInstall, RebuildDeferred, Reads, Off
<1>4. CASE RebuildRead \/ RebuildDeferred
  <2>1. UNCHANGED <<cold, strayed, exposed>>
    BY <1>4 DEF RebuildRead, RebuildDeferred, indexVars
  <2>2. Follows'
    BY <1>1, <2>1 DEF SerialInv, Follows, Settled, Active, On, Right, Found
  <2> QED
    BY <1>2, <1>3, <2>2 DEF SerialInv
<1>5. CASE RebuildInstall
  <2>1. /\ cold' = rebuild.tier /\ exposed' = exposed \cup Overwritten /\ rebuild.on /\ UNCHANGED strayed
        /\ RowGen = gen
    BY <1>5 DEF RebuildInstall, RouterOpen, RowGen
  <2>2. ASSUME NEW s \in Rid, Settled(s)'
        PROVE  Settled(s) /\ Right(s, Found(s))'
    <3>1. Settled(s) /\ s \notin Overwritten
      BY <1>1, <2>1, <2>2 DEF Settled, Active, On
    <3>2. CASE delta[s].seq # 0
      BY <1>1, <3>1, <3>2 DEF SerialInv, Follows, Found, Right
    <3>3. CASE delta[s].seq = 0
      <4>1. rebuild.tier[s] = Built(row)[s]
        BY <2>1, <3>1, <3>3 DEF Overwritten, SerialInv, Reads
      <4>2. Found(s)' = Built(row)[s]
        BY <1>1, <2>1, <3>3, <4>1 DEF Found
      <4>3. Right(s, Built(row)[s])
        BY <2>1, <3>1, BuiltRight DEF Settled
      <4> QED
        BY <1>1, <3>1, <4>2, <4>3 DEF Right
    <3> QED
      BY <3>1, <3>2, <3>3
  <2>3. Follows'
    BY <1>1, <2>2 DEF SerialInv, Follows, Right
  <2> QED
    BY <1>2, <1>3, <2>3 DEF SerialInv
<1> QED
  BY <1>4, <1>5

LEMMA SwapSerial ==
    ASSUME BaseInv, BaseInv', SerialInv, SwapCommit
    PROVE  SerialInv'
<1>1. /\ UNCHANGED <<delta, cold, gen, seq, pc, call, merge, rebuild>>
      /\ exposed \subseteq exposed' /\ UNCHANGED strayed /\ (rebuild.on => touched' = Rid)
  BY DEF SwapCommit, indexVars, callerVars
<1>2. \A r \in Rid : /\ Active(r)' <=> Active(r)
                     /\ row'[r].tier = row[r].tier /\ (Active(r) => ~row'[r].packed)
  BY SwapRow DEF BaseInv, Active
<1>3. ASSUME NEW r \in Rid, Active(r)
      PROVE  /\ row'[r].vec.ver = row[r].vec.ver
             /\ [row'[r].vec EXCEPT !.gen = gen] = [row[r].vec EXCEPT !.gen = gen]
  <2>1. row[r].vec \in Vector /\ row'[r].vec = [row[r].vec EXCEPT !.gen = gen + 1]
    BY <1>3, SwapRow DEF BaseInv, Rows, Active
  <2>2. gen \in Gen /\ gen + 1 \in Gen
    BY SwapGen DEF BaseInv, Types
  <2>3. row'[r].vec.ver = row[r].vec.ver
    BY <2>1, <2>2, Respaced
  <2>4. [row'[r].vec EXCEPT !.gen = gen] = [row[r].vec EXCEPT !.gen = gen]
    BY <2>1, <2>2, RespacedTwice
  <2> QED
    BY <2>3, <2>4
<1>4. OnePerRecord'
  BY <1>1 DEF SerialInv, OnePerRecord
<1>5. InFlight'
  <2>1. \A c \in Caller : pc[c] # "idle" => call[c].rid \in Rid
    BY Numbers
  <2> QED
    BY <1>1, <1>2, <1>3, <2>1 DEF SerialInv, InFlight
<1>6. Reads'
  BY <1>1 DEF Reads
<1>7. Follows'
  <2>1. ASSUME NEW s \in Rid, Settled(s)'
        PROVE  Settled(s) /\ Active(s) /\ \A v : Right(s, v) => Right(s, v)'
    <3>1. Settled(s)
      BY <1>1, <1>2, <2>1 DEF Settled, On
    <3> QED
      BY <1>1, <1>2, <1>3, <3>1 DEF Settled, Right
  <2>2. \A s \in Rid : Found(s)' = Found(s)
    BY <1>1 DEF Found
  <2> QED
    BY <1>1, <2>1, <2>2 DEF SerialInv, Follows
<1> QED
  BY <1>4, <1>5, <1>6, <1>7 DEF SerialInv

LEMMA PublishSerial ==
    ASSUME BaseInv, BaseInv', SerialInv, Prepared, Publish
    PROVE  SerialInv'
<1>1. /\ gen' = gen + 1 /\ cutover.on
      /\ UNCHANGED <<row, seq, pc, call, rebuild, touched, strayed, exposed>>
      /\ \A r \in Rid : delta'[r].seq = 0 /\ cold'[r] = cutover.tier[r]
      /\ ~merge'.on
  BY DEF Publish, callerVars, NoEntry, NoMerge
<1>2. OnePerRecord'
  <2>1. \A d \in Caller : pc[d] = "land" => 0 < call[d].seq
    BY Numbers DEF SerialInv, OnePerRecord
  <2>2. \A d \in Caller : pc[d] # "idle" => call[d].rid \in Rid
    BY Numbers
  <2> QED
    BY <1>1, <2>1, <2>2, Numbers DEF SerialInv, OnePerRecord
<1>3. InFlight' /\ Reads'
  BY <1>1 DEF SerialInv, InFlight, Reads, Active
<1>4. ASSUME NEW s \in Rid, Settled(s) PROVE Right(s, Found(s))'
  <2>1. /\ cutover.tier[s] = row[s].vec
        /\ ~(row[s].tier = "cold" /\ row[s].packed)
    BY <1>1, <1>4 DEF Prepared, Settled
  <2>2. row[s].vec \in Vector /\ row[s].vec.gen = gen + 1 /\ gen + 1 \in Gen
    BY <1>1, <1>4 DEF BaseInv, Rows, RowGen, Settled, Active
  <2>3. [row[s].vec EXCEPT !.gen = gen + 1] = row[s].vec
    BY <2>2, Respaced
  <2>4. Found(s)' = row[s].vec
    BY <1>1, <2>1 DEF Found
  <2> QED
    BY <1>1, <2>1, <2>3, <2>4 DEF Right
<1>5. Follows'
  BY <1>1, <1>4 DEF Follows, Settled, Active, On
<1> QED
  BY <1>2, <1>3, <1>5 DEF SerialInv

LEMMA ReopenSerial ==
    ASSUME BaseInv, BaseInv', SerialInv, Reopen
    PROVE  SerialInv'
<1>1. /\ UNCHANGED <<row, seq>> /\ cold' = Built(row)
      /\ \A r \in Rid : delta'[r].seq = 0
      /\ \A c \in Caller : pc'[c] = "idle"
      /\ ~merge'.on /\ ~rebuild'.on /\ RowGen' = gen'
  BY DEF Reopen, NoEntry, NoMerge, Off, NoCutover, RowGen
<1>2. OnePerRecord' /\ InFlight' /\ Reads'
  BY <1>1, Numbers DEF OnePerRecord, InFlight, Reads
<1>3. ASSUME NEW s \in Rid, Active(s)' PROVE Right(s, Found(s))'
  <2>1. row'[s].vec \in Vector /\ row'[s].vec.gen = gen' /\ gen' \in Gen
    BY <1>1, <1>3 DEF BaseInv, Types, Rows, Active
  <2>2. [row'[s].vec EXCEPT !.gen = gen'] = row'[s].vec
    BY <2>1, Respaced
  <2>3. Found(s)' = Built(row)[s]
    BY <1>1 DEF Found
  <2> QED
    BY <1>1, <1>3, <2>2, <2>3 DEF Right, Built, Active
<1>4. Follows'
  BY <1>1, <1>3 DEF Follows, Settled
<1> QED
  BY <1>2, <1>4 DEF SerialInv

-----------------------------------------------------------------------------
(* The index a cutover is about to publish *)

LEMMA PreparedNext ==
    ASSUME BaseInv, BaseInv', SerialInv, Prepared, [Next]_vars
    PROVE  Prepared'
<1>1. ASSUME NEW r \in Rid, Record(r) \/ Correct(r) PROVE Prepared'
  BY <1>1 DEF Record, Correct, RouterOpen, Prepared, builderVars
<1>2. ASSUME NEW c \in Caller, NEW r \in Rid, ArchiveTx(c, r) \/ HydrateTx(c, r) \/ ForgetTx(c, r)
      PROVE  Prepared'
  <2>1. /\ UNCHANGED <<cutover, strayed, exposed>>
        /\ row'[r].vec = row[r].vec /\ (Active(r)' => Active(r))
        /\ \A s \in Rid : s # r => row'[s] = row[s]
    BY <1>2 DEF ArchiveTx, HydrateTx, ForgetTx, BaseInv, Types, Row, Active, builderVars
  <2>2. c \in On(r)' /\ \A s \in Rid : On(s) \subseteq On(s)'
    <3>1. /\ pc[c] = "idle" /\ pc'[c] = "mint" /\ call'[c].rid = r
          /\ \A d \in Caller : d # c => pc'[d] = pc[d] /\ call'[d] = call[d]
      BY <1>2 DEF ArchiveTx, HydrateTx, ForgetTx, Start, BaseInv, Types
    <3> QED
      BY <3>1 DEF On
  <2> QED
    BY <2>1, <2>2 DEF Prepared, Active
<1>3. ASSUME NEW c \in Caller, Mint(c) PROVE Prepared'
  <2>1. /\ UNCHANGED <<row, cutover, strayed, exposed>> /\ call[c] \in Call
        /\ call' = [call EXCEPT ![c] = [call[c] EXCEPT !.seq = seq + 1]]
        /\ pc' = [pc EXCEPT ![c] = "land"] /\ pc[c] # "idle"
    BY <1>3, Numbers DEF Mint, builderVars
  <2>2. \A d \in Caller : pc[d] # "idle" => pc'[d] # "idle" /\ call'[d].rid = call[d].rid
    BY <2>1 DEF BaseInv, Types, Call
  <2>3. \A s \in Rid : On(s) \subseteq On(s)'
    BY <2>2 DEF On
  <2> QED
    BY <2>1, <2>3 DEF Prepared, Active
<1>4. ASSUME NEW c \in Caller, Land(c) \/ LandRefused(c) \/ Uncache(c) PROVE Prepared'
  <2>1. /\ UNCHANGED <<row, cutover>> /\ exposed \subseteq exposed' /\ strayed \subseteq strayed'
        /\ \A d \in Caller : d # c => pc'[d] = pc[d] /\ call'[d] = call[d]
    BY <1>4 DEF Land, LandRefused, Uncache, Leave, BaseInv, Types, builderVars
  <2>2. call[c] \in Call /\ pc[c] # "idle" /\ call[c].rid \in Rid
    BY <1>4, Numbers DEF Land, LandRefused, Uncache
  <2>3. ASSUME NEW s \in Rid, cutover.on, Active(s), s \notin exposed' \cup strayed',
               row[s].tier = "cold", row[s].packed
        PROVE  On(s)' # {}
    <3>1. On(s) # {}
      BY <2>1, <2>3 DEF Prepared
    <3>2. CASE call[c].rid # s
      BY <2>1, <3>1, <3>2 DEF On
    <3>3. CASE call[c].rid = s
      <4>1. call[c].kind # "forget" /\ call[c].kind # "hydrate"
        BY <2>2, <2>3, <3>3 DEF BaseInv, Calls, SerialInv, InFlight, Active
      <4>2. call[c].kind = "archive"
        BY <2>2, <4>1 DEF Call
      <4>3. s \in exposed'
        BY <1>4, <2>3, <3>3, <4>2 DEF Land, LandRefused, Uncache, Overtaken, BaseInv, Calls
      <4> QED
        BY <2>3, <4>3
    <3> QED
      BY <3>2, <3>3
  <2> QED
    BY <2>1, <2>3 DEF Prepared, Active
<1>5. CASE SwapCommit
  <2>1. ASSUME NEW r \in Rid, Active(r)', r \notin exposed'
        PROVE  cutover'.tier[r] = row'[r].vec /\ ~row'[r].packed
    BY <1>5, <2>1, SwapRow DEF BaseInv, Active
  <2> QED
    BY <2>1 DEF Prepared
<1>6. CASE Publish \/ Reopen
  BY <1>6 DEF Publish, Reopen, NoCutover, Prepared
<1>7. CASE \/ CompactBuild \/ CompactInstall \/ RebuildRead \/ RebuildInstall
           \/ RebuildDeferred \/ UNCHANGED vars
  <2>1. UNCHANGED <<row, pc, call, cutover>> /\ exposed \subseteq exposed' /\ UNCHANGED strayed
    BY <1>7 DEF CompactBuild, CompactInstall, RebuildRead, RebuildInstall, RebuildDeferred,
                vars, callerVars, builderVars
  <2> QED
    BY <2>1 DEF Prepared, Active, On
<1> QED
  BY <1>1, <1>2, <1>3, <1>4, <1>5, <1>6, <1>7 DEF Next

LEMMA SerialInvInit == BaseInv /\ Init => SerialInv /\ Prepared
  BY Consts DEF Init, SerialInv, OnePerRecord, InFlight, Reads, Follows, Settled, Active, NoRow,
     NoEntry, NoMerge, Off, Prepared, NoCutover

LEMMA SerialInvNext ==
    ASSUME Serial
    PROVE  BaseInv /\ BaseInv' /\ SerialInv /\ Prepared /\ [Next]_vars =>
               SerialInv' /\ Prepared'
<1> SUFFICES ASSUME BaseInv, BaseInv', SerialInv, Prepared, [Next]_vars
             PROVE  SerialInv'
  BY PreparedNext
<1>1. CASE UNCHANGED vars
  <2>1. UNCHANGED <<row, delta, cold, gen, seq, pc, call, merge, rebuild, touched, strayed, exposed>>
    BY <1>1 DEF vars, indexVars, callerVars, builderVars
  <2> QED
    BY <2>1 DEF SerialInv, OnePerRecord, InFlight, Reads, Follows, Settled, Active, On, Right, Found
<1> QED
  BY <1>1, WriteSerial, StartSerial, MintSerial, LandSerial, LeaveSerial, CompactSerial,
     RebuildSerial, SwapSerial, PublishSerial, ReopenSerial DEF Next

-----------------------------------------------------------------------------
(* Theorems *)

LEMMA BaseInvAlways == Spec => []BaseInv
  BY BaseInvInit, BaseInvNext, PTL DEF Spec

LEMMA SerialInvAlways ==
    ASSUME Serial
    PROVE  Spec => [](SerialInv /\ Prepared)
  BY BaseInvAlways, BaseInvInit, SerialInvInit, SerialInvNext, PTL DEF Spec

\* Every variable has its type, for any records, callers and embedding spaces.
THEOREM TierTypeCorrect == Spec => []TypeOK
<1>1. BaseInv => TypeOK
  BY DEF BaseInv, Types, TypeOK, Tier, Call
<1> QED
  BY <1>1, BaseInvAlways, PTL

\* No rebuild, compaction, cutover or late call puts a vector of another
\* embedding space into the index, but for a hydrate that crosses the swap or
\* the publish (rebuild_vec_index's generation check and guard).
THEOREM IndexIsOfOneSpace == Spec => []OneSpace
<1>1. BaseInv => OneSpace
  BY DEF BaseInv, Spaces, OneSpace, Found
<1> QED
  BY <1>1, BaseInvAlways, PTL

\* A forgotten record never comes back into the scoring cache, whatever
\* archives, hydrates, rebuilds and restarts run beside its forget.
THEOREM ForgottenStaysHidden == Spec => []ForgottenIsHidden
<1>1. BaseInv => ForgottenIsHidden
  BY DEF BaseInv, Hidden, ForgottenIsHidden, On
<1> QED
  BY <1>1, BaseInvAlways, PTL

\* Hot records are found by the text of their row in the published space and
\* archived ones are not found, but for the five gaps the property names, when
\* the host runs one operation at a time per record (storage.rs): archives and
\* hydrates may fall anywhere around the two halves of a cutover.
THEOREM IndexFollowsTheTier ==
    ASSUME Serial
    PROVE  Spec => []IndexFollowsTier
<1>1. SerialInv => IndexFollowsTier
  BY DEF SerialInv, Follows, Settled, Right, IndexFollowsTier
<1> QED
  BY <1>1, SerialInvAlways, PTL
=============================================================================
