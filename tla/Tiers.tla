-------------------------------- MODULE Tiers --------------------------------
(***************************************************************************)
(* Storage tiers and the vector index (engine/storage.rs, indices.rs).      *)
(* archive and hydrate change a row under the connection, let go of it, and *)
(* only then take a number and change the index; rebuild_vec_index reads    *)
(* every row, lets go, and replaces the cold tier of the index; the         *)
(* compactor replaces it too; a cutover swaps the rows in one transaction   *)
(* and replaces the whole index some time after it.                         *)
(*                                                                         *)
(* A vector is named by its embedding space and by the write that made its  *)
(* text.  The windows of a long record follow their parent and are left     *)
(* out.  record and correct hold the connection from the row to the index,  *)
(* so each is one step here; evict is a run of archives over a stale list.  *)
(***************************************************************************)
EXTENDS Naturals, FiniteSets

CONSTANTS Rid,     \* record ids
          NoVec,   \* no vector: a tombstone, or nothing at all
          Caller,  \* threads inside archive, hydrate or forget
          Serial,  \* TRUE: the host calls one operation at a time per record
          MaxSeq,  \* bound of the model: sequence numbers minted
          MaxGen   \* bound of the model: the last embedding space

ASSUME ConstantsAssumption ==
    /\ Serial \in BOOLEAN /\ MaxSeq \in Nat \ {0} /\ MaxGen \in Nat
    /\ NoVec \notin [gen : Nat, ver : Nat]

VARIABLES row,      \* memories: status, storage_tier, format of the blob, vector
          cached,   \* records in the scoring cache
          delta,    \* the delta's winning entry per record (number 0: none)
          cold,     \* the cold tier: a vector or NoVec per record
          gen,      \* the published generation
          seq,      \* vec_seq
          pc, call, \* per caller: its step, and the operation it runs
          merge,    \* the compaction being built: its tier, the entries it sealed
          rebuild,  \* the rebuild in flight: generation and tier it read
          cutover,  \* a cutover between its swap and its publish: the index it built
          touched,  \* records written since the rebuild read (history)
          strayed,  \* records whose vector landed in another space (history)
          exposed   \* records another gap of this code has reached (history)

indexVars   == <<delta, cold, gen>>
callerVars  == <<pc, call>>
builderVars == <<merge, rebuild, cutover>>
vars == <<row, cached, indexVars, seq, callerVars, builderVars, touched, strayed, exposed>>

Gen == 0..MaxGen
Seq == 0..MaxSeq
Vector == [gen : Gen, ver : Seq]
Entry == [seq : Seq, vec : Vector \cup {NoVec}]
NoEntry == [seq |-> 0, vec |-> NoVec]
NoTier == [r \in Rid |-> NoVec]
Off == [on |-> FALSE, gen |-> 0, tier |-> NoTier]
NoCutover == [on |-> FALSE, tier |-> NoTier]
NoMerge == [on |-> FALSE, sealed |-> [r \in Rid |-> 0], tier |-> NoTier]
NoCall == [kind |-> "none"]
Row == [status : {"absent", "active", "tombstoned"}, tier : {"hot", "cold"},
        packed : BOOLEAN, vec : Vector \cup {NoVec}]
NoRow == [status |-> "absent", tier |-> "hot", packed |-> FALSE, vec |-> NoVec]

Active(r) == row[r].status = "active"

\* build_vec_index_with_enc: the live rows of the hot tier.
Built(rows) ==
    [r \in Rid |-> IF rows[r].status = "active" /\ rows[r].tier = "hot"
                   THEN rows[r].vec ELSE NoVec]

\* What a search finds: the delta's entry shadows the cold one.
Found(r) == IF delta[r].seq # 0 THEN delta[r].vec ELSE cold[r]

Init ==
    /\ row = [r \in Rid |-> NoRow] /\ cached = {}
    /\ delta = [r \in Rid |-> NoEntry] /\ cold = NoTier
    /\ gen = 0 /\ seq = 0
    /\ pc = [c \in Caller |-> "idle"] /\ call = [c \in Caller |-> NoCall]
    /\ merge = NoMerge /\ rebuild = Off /\ cutover = NoCutover
    /\ touched = {} /\ strayed = {} /\ exposed = {}

-----------------------------------------------------------------------------
On(r) == {c \in Caller : pc[c] # "idle" /\ call[c].rid = r}
MayStart(r) == Serial => On(r) = {}

Put(r, n, v) == IF n > delta[r].seq THEN [delta EXCEPT ![r] = [seq |-> n, vec |-> v]]
                ELSE delta
Touch(r) == touched' = IF rebuild.on THEN touched \cup {r} ELSE touched

\* The writer's guard of record, correct, forget and the rebuild's install.
RouterOpen == ~cutover.on

Record(r) ==
    /\ RouterOpen /\ row[r].status = "absent" /\ seq < MaxSeq
    /\ seq' = seq + 1
    /\ LET v == [gen |-> gen, ver |-> seq + 1] IN
       /\ row' = [row EXCEPT ![r] = [status |-> "active", tier |-> "hot",
                                     packed |-> FALSE, vec |-> v]]
       /\ delta' = Put(r, seq + 1, v)
    /\ cached' = cached \cup {r}
    /\ Touch(r)
    /\ UNCHANGED <<cold, gen, callerVars, builderVars, strayed, exposed>>

\* correct writes a raw blob and publishes the vector, whatever the tier.
Correct(r) ==
    /\ RouterOpen /\ Active(r) /\ seq < MaxSeq /\ MayStart(r)
    /\ seq' = seq + 1
    /\ LET v == [gen |-> gen, ver |-> seq + 1] IN
       /\ row' = [row EXCEPT ![r].packed = FALSE, ![r].vec = v]
       /\ delta' = Put(r, seq + 1, v)
    /\ Touch(r)
    /\ UNCHANGED <<cached, cold, gen, callerVars, builderVars, strayed, exposed>>

Start(c, kind, r, v) ==
    /\ pc[c] = "idle" /\ MayStart(r)
    /\ pc' = [pc EXCEPT ![c] = "mint"]
    /\ call' = [call EXCEPT ![c] = [kind |-> kind, rid |-> r, seq |-> 0, vec |-> v]]
    /\ Touch(r)

Leave(c) == pc' = [pc EXCEPT ![c] = "idle"] /\ call' = [call EXCEPT ![c] = NoCall]

\* archive: the row of a live hot record goes cold, its blob compressed.
\* Neither archive nor hydrate asks the router.
ArchiveTx(c, r) ==
    /\ Active(r) /\ row[r].tier = "hot"
    /\ row' = [row EXCEPT ![r].tier = "cold", ![r].packed = TRUE]
    /\ Start(c, "archive", r, NoVec)
    /\ UNCHANGED <<cached, indexVars, seq, builderVars, strayed, exposed>>

\* hydrate: a cold row goes hot, forgotten or not.  A raw blob makes the
\* decoder panic before anything has changed.
HydrateTx(c, r) ==
    /\ row[r].tier = "cold" /\ row[r].packed
    /\ row' = [row EXCEPT ![r].tier = "hot", ![r].packed = FALSE]
    /\ Start(c, "hydrate", r, row[r].vec)
    /\ UNCHANGED <<cached, indexVars, seq, builderVars, strayed, exposed>>

\* forget: the row is tombstoned; it keeps its tier and its blob.
ForgetTx(c, r) ==
    /\ RouterOpen /\ Active(r)
    /\ row' = [row EXCEPT ![r].status = "tombstoned"]
    /\ Start(c, "forget", r, NoVec)
    /\ UNCHANGED <<cached, indexVars, seq, builderVars, strayed, exposed>>

\* vec_seq.fetch_add, after the connection was released.
Mint(c) ==
    /\ pc[c] = "mint" /\ seq < MaxSeq
    /\ seq' = seq + 1
    /\ call' = [call EXCEPT ![c].seq = seq + 1]
    /\ pc' = [pc EXCEPT ![c] = "land"]
    /\ UNCHANGED <<row, cached, indexVars, builderVars, touched, strayed, exposed>>

\* A vector that is not of the published space is not caught.
Strays(c) == call[c].vec # NoVec /\ call[c].vec.gen # gen

\* A tombstone that lands between swap and publish goes with the index it is in.
Overtaken(c) == call[c].kind = "archive" /\ cutover.on

\* (mutant) forget lets go of its record before the last step.
LandForgetful(c) ==
    /\ pc[c] = "land"
    /\ delta' = Put(call[c].rid, call[c].seq, call[c].vec)
    /\ call' = [call EXCEPT ![c] = NoCall]
    /\ pc' = [pc EXCEPT ![c] = IF call[c].kind = "forget" THEN "uncache" ELSE "idle"]
    /\ strayed' = IF Strays(c) THEN strayed \cup {call[c].rid} ELSE strayed
    /\ exposed' = IF Overtaken(c) THEN exposed \cup {call[c].rid} ELSE exposed
    /\ UNCHANGED <<row, cached, cold, gen, seq, builderVars, touched>>

\* The tombstone or the vector reaches the index of the state that is now
\* published; forget goes on to the cache.
Land(c) ==
    /\ pc[c] = "land"
    /\ delta' = Put(call[c].rid, call[c].seq, call[c].vec)
    /\ IF call[c].kind = "forget"
       THEN pc' = [pc EXCEPT ![c] = "uncache"] /\ UNCHANGED call
       ELSE Leave(c)
    /\ strayed' = IF Strays(c) THEN strayed \cup {call[c].rid} ELSE strayed
    /\ exposed' = IF Overtaken(c) THEN exposed \cup {call[c].rid} ELSE exposed
    /\ UNCHANGED <<row, cached, cold, gen, seq, builderVars, touched>>

\* A full delta refuses hydrate's append: the row stays hot, and a second
\* hydrate finds nothing cold.
LandRefused(c) ==
    /\ pc[c] = "land" /\ call[c].kind = "hydrate"
    /\ Leave(c)
    /\ exposed' = exposed \cup {call[c].rid}
    /\ UNCHANGED <<row, cached, indexVars, seq, builderVars, touched, strayed>>

Uncache(c) ==
    /\ pc[c] = "uncache"
    /\ cached' = cached \ {call[c].rid}
    /\ Leave(c)
    /\ UNCHANGED <<row, indexVars, seq, builderVars, touched, strayed, exposed>>

-----------------------------------------------------------------------------
(* The builders *)

\* compact: clone the cold tier and merge the delta's winners into the clone.
CompactBuild ==
    /\ ~merge.on /\ \E r \in Rid : delta[r].seq # 0
    /\ merge' = [on |-> TRUE, sealed |-> [r \in Rid |-> delta[r].seq],
                 tier |-> [r \in Rid |-> Found(r)]]
    /\ UNCHANGED <<row, cached, indexVars, seq, callerVars, rebuild, cutover,
                   touched, strayed, exposed>>

\* (mutant) what arrived during the build is retired with what was sealed.
CompactInstallAll ==
    /\ merge.on
    /\ cold' = merge.tier
    /\ delta' = [r \in Rid |-> NoEntry]
    /\ merge' = NoMerge
    /\ UNCHANGED <<row, cached, gen, seq, callerVars, rebuild, cutover,
                   touched, strayed, exposed>>

\* Install the clone, then retire exactly the sealed entries.
CompactInstall ==
    /\ merge.on
    /\ cold' = merge.tier
    /\ delta' = [r \in Rid |-> IF delta[r].seq = merge.sealed[r] THEN NoEntry
                               ELSE delta[r]]
    /\ merge' = NoMerge
    /\ UNCHANGED <<row, cached, gen, seq, callerVars, rebuild, cutover,
                   touched, strayed, exposed>>

\* rebuild_vec_index snapshots the generation and reads the rows.
RebuildRead ==
    /\ ~rebuild.on
    /\ rebuild' = [on |-> TRUE, gen |-> gen, tier |-> Built(row)]
    /\ touched' = {}
    /\ UNCHANGED <<row, cached, indexVars, seq, callerVars, merge, cutover,
                   strayed, exposed>>

\* A record written since, whose entry a compaction has taken out of the delta.
Overwritten == {r \in touched : delta[r].seq = 0}

\* (mutant) the rebuild goes into whatever state is published by now.
RebuildInstallUnchecked ==
    /\ rebuild.on /\ RouterOpen
    /\ cold' = rebuild.tier
    /\ exposed' = exposed \cup Overwritten
    /\ rebuild' = Off /\ touched' = {}
    /\ UNCHANGED <<row, cached, delta, gen, seq, callerVars, merge, cutover, strayed>>

\* Under the router's guard: the generation is still the one it read.
RebuildInstall ==
    /\ rebuild.on /\ RouterOpen /\ rebuild.gen = gen
    /\ cold' = rebuild.tier
    /\ exposed' = exposed \cup Overwritten
    /\ rebuild' = Off /\ touched' = {}
    /\ UNCHANGED <<row, cached, delta, gen, seq, callerVars, merge, cutover, strayed>>

\* IndexRebuildDeferredDuringReembed: nothing is installed.
RebuildDeferred ==
    /\ rebuild.on
    /\ rebuild' = Off /\ touched' = {}
    /\ UNCHANGED <<row, cached, indexVars, seq, callerVars, merge, cutover,
                   strayed, exposed>>

(* A cutover, the router closed and no guard held *)

\* The swap: every live row, cold ones too, and every forgotten row that was
\* staged before, is given a raw vector of the next space.  The index built
\* from the staged rows may have a forgotten one, and OFFSET paging may have
\* skipped any.
SwapCommit ==
    /\ RouterOpen /\ gen < MaxGen
    /\ \A c \in Caller : pc[c] # "idle" => call[c].kind # "forget"
    /\ \E staged, paged \in SUBSET Rid :
          /\ {r \in Rid : Active(r)} \subseteq staged
          /\ \A r \in staged : row[r].status # "absent"
          /\ row' = [r \in Rid |-> IF r \in staged
                                   THEN [row[r] EXCEPT !.packed = FALSE, !.vec.gen = gen + 1]
                                   ELSE row[r]]
          /\ cutover' = [on |-> TRUE, tier |-> [r \in Rid |-> IF r \in staged \cap paged
                                                             THEN row'[r].vec ELSE NoVec]]
          /\ exposed' = exposed \cup {r \in Rid \ paged : Active(r)}
    /\ touched' = IF rebuild.on THEN Rid ELSE touched
    /\ UNCHANGED <<cached, indexVars, seq, callerVars, merge, rebuild, strayed>>

\* The new state replaces index and generation; the router opens.  A
\* compaction under way goes on in the index that is dropped.
Publish ==
    /\ cutover.on
    /\ gen' = gen + 1
    /\ cold' = cutover.tier /\ delta' = [r \in Rid |-> NoEntry]
    /\ merge' = NoMerge /\ cutover' = NoCutover
    /\ UNCHANGED <<row, cached, seq, callerVars, rebuild, touched, strayed, exposed>>

\* (mutant) the cache is loaded with tombstoned rows as well.
ReopenWithForgotten ==
    /\ cold' = Built(row) /\ delta' = [r \in Rid |-> NoEntry]
    /\ cached' = {r \in Rid : row[r].status # "absent"}
    /\ pc' = [c \in Caller |-> "idle"] /\ call' = [c \in Caller |-> NoCall]
    /\ merge' = NoMerge /\ rebuild' = Off /\ cutover' = NoCutover
    /\ touched' = {} /\ strayed' = {} /\ exposed' = {}
    /\ gen' = IF cutover.on THEN gen + 1 ELSE gen
    /\ UNCHANGED <<row, seq>>

\* The process dies; open() builds the index and the cache from the rows,
\* at the generation the last swap has committed.
Reopen ==
    /\ cold' = Built(row) /\ delta' = [r \in Rid |-> NoEntry]
    /\ cached' = {r \in Rid : Active(r)}
    /\ pc' = [c \in Caller |-> "idle"] /\ call' = [c \in Caller |-> NoCall]
    /\ merge' = NoMerge /\ rebuild' = Off /\ cutover' = NoCutover
    /\ touched' = {} /\ strayed' = {} /\ exposed' = {}
    /\ gen' = IF cutover.on THEN gen + 1 ELSE gen
    /\ UNCHANGED <<row, seq>>

-----------------------------------------------------------------------------
Next ==
    \/ \E r \in Rid : Record(r) \/ Correct(r)
    \/ \E c \in Caller, r \in Rid : ArchiveTx(c, r) \/ HydrateTx(c, r) \/ ForgetTx(c, r)
    \/ \E c \in Caller : Mint(c) \/ Land(c) \/ LandRefused(c) \/ Uncache(c)
    \/ CompactBuild \/ CompactInstall
    \/ RebuildRead \/ RebuildInstall \/ RebuildDeferred
    \/ SwapCommit \/ Publish \/ Reopen

Spec == Init /\ [][Next]_vars

-----------------------------------------------------------------------------
(* Properties *)

\* Every variable has its type.
TypeOK ==
    /\ row \in [Rid -> Row] /\ cached \subseteq Rid
    /\ delta \in [Rid -> Entry] /\ cold \in [Rid -> Vector \cup {NoVec}]
    /\ gen \in Gen /\ seq \in Seq
    /\ pc \in [Caller -> {"idle", "mint", "land", "uncache"}]
    /\ \A c \in Caller : pc[c] # "idle" =>
           call[c] \in [kind : {"archive", "hydrate", "forget"}, rid : Rid,
                        seq : Seq, vec : Vector \cup {NoVec}]
    /\ merge \in [on : BOOLEAN, sealed : [Rid -> Seq], tier : [Rid -> Vector \cup {NoVec}]]
    /\ rebuild \in [on : BOOLEAN, gen : Gen, tier : [Rid -> Vector \cup {NoVec}]]
    /\ cutover \in [on : BOOLEAN, tier : [Rid -> Vector \cup {NoVec}]]
    /\ touched \subseteq Rid /\ strayed \subseteq Rid /\ exposed \subseteq Rid

\* With no call on it, a live record is found by a vector of its row's text in
\* the published space when it is hot, and not found when it is archived (cold,
\* its blob compressed), through compactions, rebuilds, both halves of a
\* cutover and restarts.  The exceptions are the five gaps "strayed" and
\* "exposed" name: a hydrate whose vector is of another space than the one that
\* is published; a hydrate refused, a rebuild that takes back what a compaction
\* installed meanwhile, an archive that ends between swap and publish, and a
\* record the pages of the cutover's own rebuild skipped.  A restart heals all.
IndexFollowsTier ==
    \A r \in Rid : Active(r) /\ On(r) = {} /\ r \notin exposed \cup strayed =>
        /\ row[r].tier = "hot" => Found(r) = [row[r].vec EXCEPT !.gen = gen]
        /\ row[r].tier = "cold" /\ row[r].packed => Found(r) = NoVec

\* The index holds vectors of one embedding space only, the published one, in
\* both tiers and in a tier under construction: no rebuild installs vectors it
\* read before a cutover (rebuild_vec_index: "quietly meaningless scores").
OneSpace ==
    \A r \in Rid \ strayed :
        /\ Found(r) # NoVec => Found(r).gen = gen
        /\ cold[r] # NoVec => cold[r].gen = gen
        /\ merge.on /\ merge.tier[r] # NoVec => merge.tier[r].gen = gen

\* A forgotten record may be hydrated back into the index, or come back with
\* the index a cutover built before the forget, but recall, which serves what
\* the scoring cache has, never serves it again.
ForgottenIsHidden ==
    \A r \in Rid : row[r].status = "tombstoned" /\ On(r) = {} => r \notin cached
=============================================================================
