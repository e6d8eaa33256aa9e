----------------------------- MODULE RecallProofs -----------------------------
(***************************************************************************)
(* Theorems about Recall for every set of records, writers and readers, any *)
(* number of attempts, and a log that does not repeat a write after a later *)
(* one.                                                                    *)
(***************************************************************************)
EXTENDS Recall, TLAPS

-----------------------------------------------------------------------------
(* The inductive invariant *)

\* The steps each kind of write goes through.
Fits(kind, step) ==
    \/ kind \in {"record", "correct", "record_batch", "record_with_rid"}
         /\ step \in {"commit", "publish", "cache", "bump", "notify", "release"}
    \/ kind = "replica" /\ step \in {"commit", "publish", "cache", "release"}
    \/ kind = "again" /\ step \in {"commit", "publish", "bump", "notify", "release"}
    \/ kind = "scalar" /\ step \in {"commit", "cache", "release"}
    \/ kind = "forget" /\ step \in {"bury", "bump", "notify", "uncache"}

\* Every write but a forget's tail runs under the connection, which is one;
\* the epoch is odd while a correction has it.
Holding(w) == wpc[w] # "idle" /\ op[w].kind # "forget"
OneWriter ==
    /\ \A w \in Writer : wpc[w] # "idle" => Fits(op[w].kind, wpc[w])
    /\ \A w \in Writer : Holding(w) <=> conn = w
    /\ Odd <=> \E w \in Writer : Holding(w) /\ op[w].kind \in Corrections

\* Numbers come from one counter, and a write's is fresh for its record.
Numbers ==
    /\ mark <= seq
    /\ \A r \in Rid : vec[r].seq <= seq /\ origin[r] <= seq
    /\ \A w \in Writer : wpc[w] # "idle" => op[w].seq <= seq
    /\ \A w \in Writer : Holding(w) => op[w].seq # 0
    /\ \A w \in Writer : Holding(w) /\ wpc[w] \in {"commit", "publish"} /\ op[w].kind # "again"
                            => vec[op[w].rid].seq < op[w].seq

\* The write still has to tell the index, or the cache, of its version.
VectorDue(w) ==
    wpc[w] = "publish" /\ op[w].kind \in Inserts \cup {"correct", "replica"}
CacheDue(w) ==
    \/ op[w].kind \in {"record", "correct", "replica"} /\ wpc[w] \in {"publish", "cache"}
    \/ op[w].kind = "scalar" /\ wpc[w] = "cache"
    \/ op[w].kind \in {"record_batch", "record_with_rid"}
         /\ wpc[w] \in {"publish", "bump", "notify", "cache"}

\* What the state of its record is, for a write in the middle of it.
Working(w) ==
    LET r == op[w].rid IN
    /\ op[w].kind = "forget" => row[r].status = "tombstoned"
    /\ op[w].kind = "forget" /\ wpc[w] # "bury" => vec[r].text = 0
    /\ op[w].kind \in Inserts =>
          /\ wpc[w] = "commit" => row[r].status = "absent"
          /\ wpc[w] = "release" => row[r].status # "tombstoned"
          /\ wpc[w] \notin {"commit", "release"} => Active(r)
    /\ op[w].kind \in Corrections \cup {"again"} => Active(r)
    /\ op[w].kind \in Inserts \cup {"correct", "replica"} /\ wpc[w] \notin {"commit", "release"}
          => row[r].text = op[w].seq
    /\ op[w].kind = "again" => row[r].text = op[w].seq
    /\ CacheDue(w) => row[r].facts = op[w].seq
    /\ VectorDue(w) /\ op[w].kind \in Inserts => vec[r].text = 0
    /\ CacheDue(w) /\ op[w].kind \in Inserts => cached[r] = 0
    /\ op[w].kind \in Corrections => cached[r] # 0

\* Where a record's vector or scalars are not its row's, some write still has
\* to bring them.
Recorded(r) ==
    /\ row[r].status = "absent" => vec[r].text = 0 /\ cached[r] = 0 /\ origin[r] = 0
    /\ row[r].status # "absent" => row[r].text # 0 /\ row[r].facts # 0
    /\ Active(r) => \/ vec[r].text = row[r].text
                    \/ \E w \in Writer : op[w].rid = r /\ VectorDue(w)
    /\ Active(r) => \/ cached[r] = row[r].facts
                    \/ \E w \in Writer : op[w].rid = r /\ CacheDue(w)
    /\ row[r].status = "tombstoned" =>
          /\ vec[r].text \in {0, row[r].text} /\ cached[r] \in {0, row[r].facts}
          /\ \/ vec[r].text = 0 /\ cached[r] = 0
             \/ \E w \in Writer : wpc[w] # "idle" /\ op[w].kind = "forget" /\ op[w].rid = r

StoreType ==
    /\ row \in [Rid -> [status : {"absent", "active", "tombstoned"},
                         text : Version, facts : Version]]
    /\ vec \in [Rid -> [seq : Version, text : Version]]
    /\ cached \in [Rid -> Version] /\ origin \in [Rid -> Version]
    /\ seq \in Version /\ mark \in Version /\ epoch \in Nat
    /\ conn \in Writer \cup {Nobody}
    /\ wpc \in [Writer -> {"idle", "commit", "publish", "cache", "bump", "notify",
                           "release", "bury", "uncache"}]
    /\ \A w \in Writer : wpc[w] # "idle" =>
          op[w] \in [kind : Kinds \cup {"again"}, rid : Rid, seq : Version]
    /\ op \in [Writer -> [kind : Kinds \cup {"again", "none"},
                          rid : Rid \cup {Nobody}, seq : Version]]

StoreInv ==
    /\ StoreType /\ OneWriter /\ Numbers
    /\ \A w \in Writer : wpc[w] # "idle" => Working(w)
    /\ \A r \in Rid : Recorded(r)

\* A correction that has not changed its row yet.
Correcting(w) == Holding(w) /\ wpc[w] = "commit" /\ op[w].kind \in Corrections

\* What a reader has read is one version, unless the epoch has moved on; and
\* no correction it was to see is still to come.
Reading(q) ==
    /\ rpc[q] \in {"enter", "search", "score", "hydrate", "validate", "answered"}
          => need[q] <= seq
    /\ rpc[q] \in {"search", "score", "hydrate", "validate", "answered"} =>
          /\ epoch0[q] <= epoch /\ epoch0[q] % 2 = 0
          /\ \A w \in Writer : Correcting(w) => op[w].seq > need[q]
    /\ rpc[q] \in {"score", "hydrate", "validate", "answered"} =>
          \A h \in hits[q] : row[h.rid].status # "absent"
    /\ rpc[q] \in {"score", "hydrate"} /\ epoch = epoch0[q] =>
          \A h \in hits[q] : h.vector = row[h.rid].text
    /\ rpc[q] = "hydrate" /\ epoch = epoch0[q] =>
          \A h \in hits[q] : h.scores = row[h.rid].facts
    /\ (rpc[q] = "validate" /\ epoch = epoch0[q]) \/ rpc[q] = "answered" =>
          \A h \in hits[q] : h.vector = h.text /\ h.scores = h.facts
    /\ rpc[q] \in {"validate", "answered"} =>
          \A h \in hits[q] : h.text = row[h.rid].text \/ row[h.rid].text > need[q]
    /\ rpc[q] = "validate" /\ epoch = epoch0[q] =>
          \A h \in hits[q] : h.text = row[h.rid].text /\ h.facts = row[h.rid].facts

ReadType ==
    /\ rpc \in [Reader -> {"idle", "check", "recheck", "park", "asleep", "enter",
                           "search", "score", "hydrate", "validate", "answered"}]
    /\ need \in [Reader -> Version]
    /\ epoch0 \in [Reader -> Nat] /\ tries \in [Reader -> 0..(MaxAttempts - 1)]
    /\ hits \in [Reader -> SUBSET Hit]

ReadInv == ReadType /\ \A q \in Reader : Reading(q)

-----------------------------------------------------------------------------
(* Helpers *)

LEMMA Parity ==
    ASSUME NEW n \in Nat
    PROVE  n % 2 \in {0, 1} /\ (n % 2 = 1 <=> (n + 1) % 2 = 0)
  OBVIOUS

LEMMA StepSet ==
    ASSUME NEW kind, NEW step, Fits(kind, step)
    PROVE  /\ step \in {"commit", "publish", "cache", "bump", "notify", "release",
                        "bury", "uncache"}
           /\ step # "idle"
  BY DEF Fits

\* The order of the steps of every kind of write.
LEMMA ThenSteps ==
    ASSUME NEW kind, NEW step, Fits(kind, step), step \notin {"release", "uncache"}
    PROVE  LET next == Then[kind][step] IN
           /\ Fits(kind, next)
           /\ step = "commit" => next = IF kind = "scalar" THEN "cache" ELSE "publish"
           /\ step = "publish" => next = IF kind \in {"record", "correct", "replica"}
                                         THEN "cache" ELSE "bump"
           /\ step = "cache" => next = IF kind \in {"record", "correct"}
                                       THEN "bump" ELSE "release"
           /\ step = "bump" => next = "notify"
           /\ step = "notify" => next = IF kind \in {"record_batch", "record_with_rid"}
                                        THEN "cache"
                                        ELSE IF kind = "forget" THEN "uncache" ELSE "release"
           /\ step = "bury" => next = "bump"
<1>1. CASE kind = "record" \/ kind = "correct"
  BY <1>1 DEF Fits, Then, Late
<1>2. CASE kind = "record_batch" \/ kind = "record_with_rid"
  BY <1>2 DEF Fits, Then, Early
<1>3. CASE kind = "replica"
  BY <1>3 DEF Fits, Then
<1>4. CASE kind = "again"
  BY <1>4 DEF Fits, Then
<1>5. CASE kind = "scalar"
  BY <1>5 DEF Fits, Then
<1>6. CASE kind = "forget"
  BY <1>6 DEF Fits, Then
<1> QED
  BY <1>1, <1>2, <1>3, <1>4, <1>5, <1>6 DEF Fits

\* A write that advances is at the step its kind takes next.
LEMMA AdvanceStep ==
    ASSUME StoreInv, NEW w \in Writer, wpc[w] \notin {"idle", "release", "uncache"},
           Advance(w)
    PROVE  /\ wpc' = [wpc EXCEPT ![w] = Then[op[w].kind][wpc[w]]]
           /\ wpc' \in [Writer -> {"idle", "commit", "publish", "cache", "bump", "notify",
                                   "release", "bury", "uncache"}]
           /\ wpc'[w] = Then[op[w].kind][wpc[w]]
           /\ Fits(op[w].kind, wpc[w]) /\ Fits(op[w].kind, wpc'[w]) /\ wpc'[w] # "idle"
           /\ \A x \in Writer : x # w => wpc'[x] = wpc[x]
<1>1. Fits(op[w].kind, wpc[w]) /\ Fits(op[w].kind, Then[op[w].kind][wpc[w]])
  BY ThenSteps DEF StoreInv, OneWriter
<1>2. wpc' = [wpc EXCEPT ![w] = Then[op[w].kind][wpc[w]]]
  BY DEF Advance
<1> QED
  BY <1>1, <1>2, StepSet DEF StoreInv, StoreType

\* Who is busy has a record, a number and a kind.
LEMMA OpType ==
    ASSUME StoreInv, NEW w \in Writer, wpc[w] # "idle"
    PROVE  /\ op[w].rid \in Rid /\ op[w].seq \in Version /\ op[w].seq \in Nat
           /\ op[w].kind \in Inserts \cup Corrections \cup {"again", "forget"}
           /\ op[w].kind \in Kinds \cup {"again"}
  BY ConstantsAssumption DEF StoreInv, StoreType, Version

\* While one write has the connection, every other one is a forget's tail,
\* on a record of its own.
LEMMA Alone ==
    ASSUME StoreInv, NEW w \in Writer, Holding(w), NEW x \in Writer, x # w, wpc[x] # "idle"
    PROVE  /\ op[x].kind = "forget" /\ op[x].rid \in Rid
           /\ row[op[x].rid].status = "tombstoned" /\ op[x].rid # op[w].rid
<1>1. ~Holding(x)
  BY DEF StoreInv, OneWriter
<1>2. op[x].kind = "forget"
  BY <1>1 DEF Holding
<1>3. row[op[x].rid].status = "tombstoned"
  BY <1>2 DEF StoreInv, Working
<1>4. row[op[w].rid].status # "tombstoned"
  <2>1. Fits(op[w].kind, wpc[w]) /\ Working(w) /\ op[w].kind # "forget"
    BY DEF StoreInv, OneWriter, Holding
  <2> QED
    BY <2>1 DEF Working, Fits, Active, Inserts, Corrections
<1> QED
  BY <1>2, <1>3, <1>4, OpType

\* Nobody writes while the connection is free, but forgets' tails.
LEMMA NobodyWrites ==
    ASSUME StoreInv, conn = Nobody
    PROVE  /\ \A x \in Writer : ~Holding(x) /\ ~VectorDue(x) /\ ~CacheDue(x)
           /\ \A x \in Writer : wpc[x] # "idle" => op[x].kind = "forget"
           /\ ~Odd
<1>1. \A x \in Writer : ~Holding(x)
  BY ConstantsAssumption DEF StoreInv, OneWriter
<1> QED
  BY <1>1 DEF StoreInv, OneWriter, Holding, VectorDue, CacheDue, Inserts

-----------------------------------------------------------------------------
(* The store's invariant *)

LEMMA StoreInvInit == Init => StoreInv
<1> SUFFICES ASSUME Init PROVE StoreInv
  OBVIOUS
<1>1. PICK stored \in SUBSET Rid : Opened(stored)
  BY DEF Init
<1>2. 0 \in Version /\ 1 \in Version
  BY ConstantsAssumption DEF Version
<1>3. row \in [Rid -> [status : {"absent", "active", "tombstoned"},
                       text : Version, facts : Version]]
  BY <1>1, <1>2 DEF Opened, NoRow
<1>4. /\ vec \in [Rid -> [seq : Version, text : Version]]
      /\ cached \in [Rid -> Version] /\ origin \in [Rid -> Version]
  BY <1>1, <1>2, <1>3 DEF Opened
<1>5. op \in [Writer -> [kind : Kinds \cup {"again", "none"},
                         rid : Rid \cup {Nobody}, seq : Version]]
  BY <1>2 DEF Init, NoWork
<1>6. StoreType
  BY <1>2, <1>3, <1>4, <1>5 DEF Init, StoreType
<1>7. OneWriter
  BY ConstantsAssumption DEF Init, OneWriter, Holding, Odd
<1>8. Numbers
  BY <1>1 DEF Init, Opened, Numbers, Holding
<1>9. \A r \in Rid : Recorded(r)
  BY <1>1 DEF Init, Opened, NoRow, Recorded, Active
<1> QED
  BY <1>6, <1>7, <1>8, <1>9 DEF StoreInv, Init

\* A write begins: its record is as its kind needs it, its number is fresh.
LEMMA BeginStep ==
    ASSUME StoreInv, NEW w \in Writer, NEW kind, NEW r \in Rid, Begin(w, kind, r)
    PROVE  StoreInv'
<1> USE DEF StoreInv
<1>1. /\ UNCHANGED <<row, vec, cached, origin, mark>>
      /\ wpc' = [wpc EXCEPT ![w] = "commit"]
      /\ op' = [op EXCEPT ![w] = [kind |-> kind, rid |-> r, seq |-> seq + 1]]
      /\ wpc[w] = "idle" /\ conn = Nobody /\ conn' = w /\ seq < MaxSeq /\ seq' = seq + 1
      /\ kind \in Kinds \ {"forget"}
      /\ row[r].status = (IF kind \in Inserts THEN "absent" ELSE "active")
      /\ epoch' = IF InEpoch(kind) THEN epoch + 1 ELSE epoch
  BY DEF Begin, Take, rowVars
<1>2. /\ op'[w].kind = kind /\ op'[w].rid = r /\ op'[w].seq = seq + 1 /\ wpc'[w] = "commit"
      /\ \A x \in Writer : x # w => op'[x] = op[x] /\ wpc'[x] = wpc[x]
  BY <1>1 DEF StoreType
<1>3. /\ \A x \in Writer : ~Holding(x) /\ ~VectorDue(x) /\ ~CacheDue(x)
      /\ \A x \in Writer : wpc[x] # "idle" => op[x].kind = "forget"
      /\ ~Odd
  BY <1>1, NobodyWrites
<1>4. kind \in Inserts \cup Corrections
  BY <1>1, ConstantsAssumption
<1>5. seq \in Nat /\ seq + 1 \in Version /\ MaxSeq \in Nat
  BY <1>1, ConstantsAssumption DEF StoreType, Version
<1>6. StoreType'
  <2>1. [kind |-> kind, rid |-> r, seq |-> seq + 1] \in [kind : Kinds \cup {"again"}, rid : Rid, seq : Version]
    BY <1>1, <1>5
  <2>2. \A x \in Writer : wpc'[x] # "idle" =>
          op'[x] \in [kind : Kinds \cup {"again"}, rid : Rid, seq : Version]
    BY <1>1, <2>1 DEF StoreType
  <2>3. op' \in [Writer -> [kind : Kinds \cup {"again", "none"},
                            rid : Rid \cup {Nobody}, seq : Version]]
    BY <1>1, <2>1 DEF StoreType
  <2>4. epoch' \in Nat
    BY <1>1 DEF StoreType
  <2> QED
    BY <1>1, <1>5, <2>2, <2>3, <2>4 DEF StoreType
<1>7. OneWriter'
  <2>1. Fits(kind, "commit") /\ kind # "forget"
    BY <1>1, <1>4 DEF Fits, Inserts, Corrections
  <2>2. Holding(w)' /\ \A x \in Writer : x # w => ~Holding(x)'
    BY <1>2, <1>3, <2>1 DEF Holding
  <2>3. Odd' <=> kind \in Corrections
    <3>1. epoch \in Nat /\ epoch % 2 # 1 /\ (epoch + 1) % 2 \in {0, 1}
      BY <1>3, Parity DEF Odd, StoreType
    <3>2. (epoch + 1) % 2 = 1
      BY <3>1, Parity
    <3> QED
      BY <1>1, <3>1, <3>2 DEF Odd, InEpoch
  <2> QED
    BY <1>1, <1>2, <2>1, <2>2, <2>3 DEF OneWriter, StoreType
<1>8. Numbers'
  BY <1>1, <1>2, <1>3, <1>5 DEF Numbers, Holding, StoreType, Version
<1>9. ASSUME NEW x \in Writer, wpc'[x] # "idle" PROVE Working(x)'
  <2>1. CASE x # w
    <3>1. op'[x] = op[x] /\ wpc'[x] = wpc[x] /\ Working(x) /\ op[x].kind = "forget"
      BY <1>2, <1>3, <1>9, <2>1
    <3> QED
      BY <1>1, <3>1 DEF Working, CacheDue, VectorDue, Inserts, Corrections
  <2>2. CASE x = w
    <3>1. kind \in Corrections => Active(r) /\ cached[r] # 0
      BY <1>1, <1>3 DEF Recorded, Active, Inserts, Corrections
    <3>2. kind # "again" /\ kind # "forget"
      BY <1>4 DEF Inserts, Corrections
    <3> QED
      BY <1>1, <1>2, <1>4, <2>2, <3>1, <3>2 DEF Working, CacheDue, VectorDue, Active, Inserts, Corrections
  <2> QED
    BY <2>1, <2>2
<1>10. ASSUME NEW s \in Rid PROVE Recorded(s)'
  <2>1. \A x \in Writer : wpc[x] # "idle" => op'[x] = op[x] /\ wpc'[x] = wpc[x]
    BY <1>1, <1>2
  <2> QED
    BY <1>1, <1>3, <2>1 DEF Recorded, Active
<1> QED
  BY <1>6, <1>7, <1>8, <1>9, <1>10

\* The log repeats a write whose record still has its version.
LEMMA BeginAgainStep ==
    ASSUME ~Reordered, StoreInv, NEW w \in Writer, NEW r \in Rid, BeginAgain(w, r)
    PROVE  StoreInv'
<1> USE DEF StoreInv
<1>1. /\ UNCHANGED <<row, vec, cached, mark, epoch>>
      /\ wpc' = [wpc EXCEPT ![w] = "commit"]
      /\ op' = [op EXCEPT ![w] = [kind |-> "again", rid |-> r, seq |-> origin[r]]]
      /\ origin' = [origin EXCEPT ![r] = 0]
      /\ wpc[w] = "idle" /\ conn = Nobody /\ conn' = w
      /\ origin[r] # 0 /\ Active(r) /\ row[r].text = origin[r]
      /\ seq' = Max2(seq, origin[r])
  BY DEF BeginAgain, Take
<1>2. /\ op'[w].kind = "again" /\ op'[w].rid = r /\ op'[w].seq = origin[r] /\ wpc'[w] = "commit"
      /\ \A x \in Writer : x # w => op'[x] = op[x] /\ wpc'[x] = wpc[x]
  BY <1>1 DEF StoreType
<1>3. /\ \A x \in Writer : ~Holding(x) /\ ~VectorDue(x) /\ ~CacheDue(x)
      /\ \A x \in Writer : wpc[x] # "idle" => op[x].kind = "forget"
      /\ ~Odd
  BY <1>1, NobodyWrites
<1>4. /\ origin[r] \in Version /\ origin[r] \in Nat /\ seq \in Nat /\ origin[r] <= seq
      /\ seq' = seq
  BY <1>1 DEF StoreType, Version, Numbers, Max2
<1>5. StoreType'
  <2>1. [kind |-> "again", rid |-> r, seq |-> origin[r]]
           \in [kind : Kinds \cup {"again"}, rid : Rid, seq : Version]
    BY <1>4
  <2>2. \A x \in Writer : wpc'[x] # "idle" =>
          op'[x] \in [kind : Kinds \cup {"again"}, rid : Rid, seq : Version]
    BY <1>1, <2>1 DEF StoreType
  <2>3. op' \in [Writer -> [kind : Kinds \cup {"again", "none"},
                            rid : Rid \cup {Nobody}, seq : Version]]
    BY <1>1, <2>1 DEF StoreType
  <2>4. origin' \in [Rid -> Version]
    BY <1>1, ConstantsAssumption DEF StoreType, Version
  <2> QED
    BY <1>1, <1>4, <2>2, <2>3, <2>4 DEF StoreType
<1>6. OneWriter'
  <2>1. Fits("again", "commit")
    BY DEF Fits
  <2>2. Holding(w)' /\ \A x \in Writer : x # w => ~Holding(x)'
    BY <1>2, <1>3 DEF Holding
  <2>3. ~Odd'
    BY <1>1, <1>3 DEF Odd
  <2>4. "again" \notin Corrections
    BY DEF Corrections
  <2> QED
    BY <1>1, <1>2, <2>1, <2>2, <2>3, <2>4 DEF OneWriter, StoreType
<1>7. Numbers'
  BY <1>1, <1>2, <1>3, <1>4 DEF Numbers, Holding, StoreType
<1>8. ASSUME NEW x \in Writer, wpc'[x] # "idle" PROVE Working(x)'
  <2>1. CASE x # w
    <3>1. op'[x] = op[x] /\ wpc'[x] = wpc[x] /\ Working(x) /\ op[x].kind = "forget"
      BY <1>2, <1>3, <1>8, <2>1
    <3> QED
      BY <1>1, <3>1 DEF Working, CacheDue, VectorDue, Inserts, Corrections
  <2>2. CASE x = w
    BY <1>1, <1>2, <2>2 DEF Working, CacheDue, VectorDue, Active, Inserts, Corrections
  <2> QED
    BY <2>1, <2>2
<1>9. ASSUME NEW s \in Rid PROVE Recorded(s)'
  <2>1. \A x \in Writer : wpc[x] # "idle" => op'[x] = op[x] /\ wpc'[x] = wpc[x]
    BY <1>1, <1>2
  <2>2. row[s].status = "absent" => origin'[s] = 0
    BY <1>1 DEF Recorded, StoreType
  <2> QED
    BY <1>1, <1>3, <2>1, <2>2 DEF Recorded, Active
<1> QED
  BY <1>5, <1>6, <1>7, <1>8, <1>9

\* A write that goes on keeps its kind, the connection and the epoch.
LEMMA OneWriterGoesOn ==
    ASSUME StoreInv, NEW w \in Writer, wpc[w] # "idle", wpc'[w] # "idle",
           Fits(op[w].kind, wpc'[w]), op'[w].kind = op[w].kind,
           \A x \in Writer : x # w => wpc'[x] = wpc[x] /\ op'[x] = op[x],
           UNCHANGED <<conn, epoch>>
    PROVE  OneWriter'
<1>1. \A x \in Writer : Holding(x)' <=> Holding(x)
  BY DEF Holding
<1> QED
  BY <1>1 DEF StoreInv, OneWriter, Odd

\* Under the connection the other writes' records are not this one's.
LEMMA OthersWork ==
    ASSUME StoreInv, NEW w \in Writer, Holding(w),
           \A x \in Writer : x # w => wpc'[x] = wpc[x] /\ op'[x] = op[x],
           \A s \in Rid : s # op[w].rid => row'[s] = row[s] /\ vec'[s] = vec[s]
    PROVE  \A x \in Writer : x # w /\ wpc'[x] # "idle" => Working(x)'
<1> SUFFICES ASSUME NEW x \in Writer, x # w, wpc'[x] # "idle" PROVE Working(x)'
  OBVIOUS
<1>1. wpc'[x] = wpc[x] /\ op'[x] = op[x] /\ wpc[x] # "idle"
  OBVIOUS
<1>2. op[x].kind = "forget" /\ op[x].rid \in Rid /\ op[x].rid # op[w].rid
  BY <1>1, Alone
<1>3. row'[op[x].rid] = row[op[x].rid] /\ vec'[op[x].rid] = vec[op[x].rid]
  BY <1>2
<1>4. Working(x)
  BY <1>1 DEF StoreInv
<1> QED
  BY <1>1, <1>2, <1>3, <1>4 DEF Working, CacheDue, VectorDue, Inserts, Corrections

LEMMA OthersRecorded ==
    ASSUME StoreInv, NEW w \in Writer, Holding(w), NEW s \in Rid, s # op[w].rid,
           \A x \in Writer : x # w => wpc'[x] = wpc[x] /\ op'[x] = op[x],
           row'[s] = row[s], vec'[s].text = vec[s].text, cached'[s] = cached[s],
           origin'[s] = origin[s]
    PROVE  Recorded(s)'
<1>1. \A x \in Writer : op[x].rid = s => ~VectorDue(x) /\ ~CacheDue(x)
  <2> SUFFICES ASSUME NEW x \in Writer, op[x].rid = s, wpc[x] # "idle"
               PROVE  ~VectorDue(x) /\ ~CacheDue(x)
    BY DEF VectorDue, CacheDue
  <2>1. op[x].kind = "forget"
    BY Alone
  <2> QED
    BY <2>1 DEF VectorDue, CacheDue, Inserts, Corrections
<1>2. Recorded(s)
  BY DEF StoreInv
<1>3. Active(s) => vec[s].text = row[s].text /\ cached[s] = row[s].facts
  BY <1>1, <1>2 DEF Recorded
<1>4. \A x \in Writer : wpc[x] # "idle" /\ op[x].kind = "forget" =>
          wpc'[x] # "idle" /\ op'[x].kind = "forget" /\ op'[x].rid = op[x].rid
  BY DEF Holding
<1> QED
  BY <1>2, <1>3, <1>4 DEF Recorded, Active

\* The transaction: a new row, a new version of one, or nothing.
LEMMA CommitStep ==
    ASSUME StoreInv, NEW w \in Writer, Commit(w)
    PROVE  StoreInv'
<1> USE DEF StoreInv
<1> DEFINE r == op[w].rid
           n == op[w].seq
           k == op[w].kind
<1>1. /\ UNCHANGED <<vec, cached, seq, mark, epoch, conn, op>>
      /\ row' = [row EXCEPT ![r] = Written(w)]
      /\ origin' = IF k = "record_with_rid" THEN [origin EXCEPT ![r] = n] ELSE origin
      /\ wpc[w] = "commit" /\ conn = w
      /\ k \in Corrections => Active(r)
  BY DEF Commit
<1>2. /\ r \in Rid /\ n \in Version /\ n \in Nat /\ Holding(w) /\ k # "forget"
      /\ k \in Inserts \cup Corrections \cup {"again"} /\ n <= seq /\ n # 0
  BY <1>1, OpType DEF OneWriter, Holding, Numbers, Inserts, Corrections
<1>3. /\ wpc' = [wpc EXCEPT ![w] = Then[k]["commit"]]
      /\ wpc' \in [Writer -> {"idle", "commit", "publish", "cache", "bump", "notify",
                              "release", "bury", "uncache"}]
      /\ Fits(k, wpc'[w]) /\ wpc'[w] # "idle"
      /\ \A x \in Writer : x # w => wpc'[x] = wpc[x]
  BY <1>1, AdvanceStep DEF Commit
<1>4. wpc'[w] = IF k = "scalar" THEN "cache" ELSE "publish"
  <2>1. Fits(k, "commit") /\ wpc'[w] = Then[k]["commit"]
    BY <1>1, AdvanceStep DEF Commit
  <2> QED
    BY <2>1, ThenSteps
<1>5. Working(w) /\ Recorded(r)
  BY <1>1, <1>2
<1>6. /\ k \in Inserts => row'[r] = [status |-> "active", text |-> n, facts |-> n]
      /\ k = "again" => row'[r] = row[r]
      /\ k = "scalar" => row'[r] = [row[r] EXCEPT !.facts = n]
      /\ k \in {"correct", "replica"} => row'[r] = [row[r] EXCEPT !.text = n, !.facts = n]
      /\ \A s \in Rid : s # r => row'[s] = row[s]
  BY <1>1, <1>2 DEF Written, StoreType, Inserts, Corrections
<1>7. row[r] \in [status : {"absent", "active", "tombstoned"}, text : Version, facts : Version]
  BY <1>2 DEF StoreType
<1>70. /\ [row[r] EXCEPT !.facts = n].status = row[r].status
       /\ [row[r] EXCEPT !.facts = n].text = row[r].text
       /\ [row[r] EXCEPT !.facts = n].facts = n
       /\ [row[r] EXCEPT !.text = n, !.facts = n].status = row[r].status
       /\ [row[r] EXCEPT !.text = n, !.facts = n].text = n
       /\ [row[r] EXCEPT !.text = n, !.facts = n].facts = n
  BY <1>7
<1> HIDE DEF r, n, k
<1>8. /\ k \in Inserts => row'[r].status = "active" /\ row'[r].text = n /\ row'[r].facts = n
      /\ k = "scalar" => row'[r].status = row[r].status /\ row'[r].text = row[r].text
                         /\ row'[r].facts = n
      /\ k \in {"correct", "replica"} =>
            row'[r].status = row[r].status /\ row'[r].text = n /\ row'[r].facts = n
  <2>1. CASE k \in Inserts
    BY <1>6, <2>1 DEF Inserts
  <2>2. CASE k = "scalar"
    BY <1>6, <1>70, <2>2 DEF Inserts
  <2>3. CASE k \in {"correct", "replica"}
    BY <1>6, <1>70, <2>3 DEF Inserts
  <2> QED
    BY <2>1, <2>2, <2>3
<1>9. row'[r] \in [status : {"absent", "active", "tombstoned"}, text : Version, facts : Version]
  <2>1. CASE k \in Inserts
    BY <1>2, <1>6, <2>1
  <2>2. CASE k = "scalar"
    BY <1>2, <1>6, <1>7, <2>2
  <2>3. CASE k \in {"correct", "replica"}
    BY <1>2, <1>6, <1>7, <2>3
  <2>4. CASE k = "again"
    BY <1>6, <1>7, <2>4
  <2> QED
    BY <1>2, <2>1, <2>2, <2>3, <2>4 DEF Corrections
<1> USE DEF r, n, k
<1>10. StoreType'
  <2>1. row' \in [Rid -> [status : {"absent", "active", "tombstoned"},
                          text : Version, facts : Version]]
    BY <1>1, <1>9 DEF StoreType
  <2>2. origin' \in [Rid -> Version]
    BY <1>1, <1>2 DEF StoreType
  <2>3. \A x \in Writer : wpc'[x] # "idle" =>
          op'[x] \in [kind : Kinds \cup {"again"}, rid : Rid, seq : Version]
    BY <1>1, <1>3 DEF StoreType
  <2> QED
    BY <1>1, <1>3, <2>1, <2>2, <2>3 DEF StoreType
<1>11. OneWriter'
  BY <1>1, <1>3, OneWriterGoesOn
<1>12. Numbers'
  <2>1. \A s \in Rid : origin'[s] <= seq'
    BY <1>1, <1>2 DEF Numbers, StoreType
  <2>2. \A x \in Writer : wpc'[x] # "idle" => wpc[x] # "idle"
    BY <1>1, <1>3
  <2>3. \A x \in Writer : Holding(x)' /\ wpc'[x] \in {"commit", "publish"}
                             => Holding(x) /\ wpc[x] \in {"commit", "publish"}
    BY <1>1, <1>3 DEF Holding
  <2>4. \A x \in Writer : Holding(x)' => Holding(x)
    BY <1>1, <1>3 DEF Holding
  <2> QED
    BY <1>1, <2>1, <2>2, <2>3, <2>4 DEF Numbers
<1>13. ASSUME NEW x \in Writer, wpc'[x] # "idle" PROVE Working(x)'
  <2>1. CASE x # w
    BY <1>1, <1>2, <1>3, <1>6, <1>13, <2>1, OthersWork
  <2>2. CASE x = w /\ k \in Inserts
    <3>1. vec[r].text = 0 /\ cached[r] = 0
      BY <1>1, <1>5, <2>2 DEF Working, Recorded
    <3> QED
      BY <1>1, <1>4, <1>8, <2>2, <3>1 DEF Working, Active, Inserts, Corrections, CacheDue, VectorDue
  <2>3. CASE x = w /\ k \in Corrections
    <3>1. Active(r) /\ cached[r] # 0
      BY <1>1, <1>5, <2>3 DEF Working
    <3> QED
      BY <1>1, <1>4, <1>8, <2>3, <3>1 DEF Working, Active, Inserts, Corrections, CacheDue, VectorDue
  <2>4. CASE x = w /\ k = "again"
    BY <1>1, <1>4, <1>5, <1>6, <2>4 DEF Working, Active, Inserts, Corrections, CacheDue, VectorDue
  <2> QED
    BY <1>2, <2>1, <2>2, <2>3, <2>4
<1>14. ASSUME NEW s \in Rid PROVE Recorded(s)'
  <2>1. CASE s # r
    <3>1. origin'[s] = origin[s] /\ row'[s] = row[s]
      BY <1>1, <1>6, <2>1 DEF StoreType
    <3> QED
      BY <1>1, <1>2, <1>3, <2>1, <3>1, OthersRecorded
  <2>2. CASE s = r
    <3>1. row[r].status # "tombstoned" /\ (k \notin Inserts => Active(r))
      BY <1>1, <1>2, <1>5 DEF Working, Active
    <3>2. row'[r].status = "active"
      BY <1>2, <1>6, <1>8, <3>1 DEF Active, Inserts, Corrections
    <3>3. \A x \in Writer : op[x].rid = r => x = w \/ (~VectorDue(x) /\ ~CacheDue(x))
      BY <1>2, Alone DEF VectorDue, CacheDue
    <3>4. ~VectorDue(w) /\ ~CacheDue(w)
      BY <1>1 DEF VectorDue, CacheDue
    <3>5. Active(r) => vec[r].text = row[r].text /\ cached[r] = row[r].facts
      BY <1>5, <3>3, <3>4 DEF Recorded
    <3>6. row'[r].text # 0 /\ row'[r].facts # 0
      BY <1>2, <1>5, <1>6, <1>8, <3>1 DEF Recorded, Active, Inserts, Corrections
    <3>7. vec[r].text = row'[r].text \/ VectorDue(w)'
      BY <1>1, <1>2, <1>4, <1>6, <1>8, <3>1, <3>5 DEF VectorDue, Inserts, Corrections
    <3>8. cached[r] = row'[r].facts \/ CacheDue(w)'
      BY <1>1, <1>2, <1>4, <1>6, <1>8, <3>1, <3>5 DEF CacheDue, Inserts, Corrections
    <3> QED
      BY <1>1, <2>2, <3>2, <3>6, <3>7, <3>8 DEF Recorded, Active
  <2> QED
    BY <2>1, <2>2
<1> QED
  BY <1>10, <1>11, <1>12, <1>13, <1>14

\* A write under the connection that changes nothing but its place.
LEMMA GoOnStep ==
    ASSUME StoreInv, NEW w \in Writer, Holding(w), wpc'[w] # "idle",
           Fits(op[w].kind, wpc'[w]), wpc'[w] \notin {"commit", "publish"},
           wpc' \in [Writer -> {"idle", "commit", "publish", "cache", "bump", "notify",
                                "release", "bury", "uncache"}],
           \A x \in Writer : x # w => wpc'[x] = wpc[x],
           UNCHANGED <<rowVars, seq, epoch, conn, op>>,
           mark' \in Version, mark' <= seq,
           CacheDue(w)' <=> CacheDue(w), ~VectorDue(w),
           op[w].kind \in Inserts /\ wpc'[w] # "release" => wpc[w] # "commit",
           op[w].kind \in Inserts \cup {"correct", "replica"} /\ wpc'[w] # "release"
              => wpc[w] \notin {"commit", "release"}
    PROVE  StoreInv'
<1> USE DEF StoreInv, rowVars
<1>1. op[w].kind # "forget" /\ wpc[w] # "idle" /\ Working(w) /\ op[w].rid \in Rid
  BY OpType DEF Holding
<1>2. StoreType'
  <2>1. \A x \in Writer : wpc'[x] # "idle" => wpc[x] # "idle"
    BY <1>1
  <2> QED
    BY <2>1 DEF StoreType
<1>3. OneWriter'
  BY <1>1, OneWriterGoesOn
<1>4. Numbers'
  <2>1. \A x \in Writer : wpc'[x] # "idle" => wpc[x] # "idle"
    BY <1>1
  <2>2. \A x \in Writer : Holding(x)' => Holding(x)
    BY <1>1 DEF Holding
  <2>3. \A x \in Writer : wpc'[x] \in {"commit", "publish"} => wpc[x] \in {"commit", "publish"}
    OBVIOUS
  <2> QED
    BY <2>1, <2>2, <2>3 DEF Numbers
<1>5. \A x \in Writer : x # w /\ wpc'[x] # "idle" => Working(x)'
  BY OthersWork
<1>6. ~VectorDue(w)'
  BY DEF VectorDue
<1>7. Working(w)'
  <2>1. CASE op[w].kind \in Inserts
    <3>1. wpc[w] # "commit" => row[op[w].rid].status # "tombstoned"
      BY <1>1, <2>1 DEF Working, Active
    <3>2. wpc[w] = "commit" => row[op[w].rid].status = "absent"
      BY <1>1, <2>1 DEF Working
    <3> QED
      BY <1>1, <1>6, <2>1, <3>1, <3>2 DEF Working, Active, Inserts, Corrections
  <2>2. CASE op[w].kind \in Corrections
    BY <1>1, <1>6, <2>2 DEF Working, Active, Inserts, Corrections
  <2>3. CASE op[w].kind = "again"
    BY <1>1, <1>6, <2>3 DEF Working, Active, Inserts, Corrections
  <2> QED
    BY <1>1, <2>1, <2>2, <2>3, OpType
<1>8. ASSUME NEW s \in Rid PROVE Recorded(s)'
  <2>1. \A x \in Writer : VectorDue(x)' <=> VectorDue(x)
    BY <1>6 DEF VectorDue
  <2>2. \A x \in Writer : CacheDue(x)' <=> CacheDue(x)
    BY DEF CacheDue
  <2>3. \A x \in Writer : wpc'[x] = "idle" <=> wpc[x] = "idle"
    BY <1>1
  <2> QED
    BY <2>1, <2>2, <2>3 DEF Recorded, Active
<1> QED
  BY <1>2, <1>3, <1>4, <1>5, <1>7, <1>8

LEMMA CommitFailsStep ==
    ASSUME StoreInv, NEW w \in Writer, CommitFails(w)
    PROVE  StoreInv'
<1>1. /\ wpc' = [wpc EXCEPT ![w] = "release"] /\ wpc[w] = "commit" /\ conn = w
      /\ UNCHANGED <<rowVars, seq, mark, epoch, conn, op>>
  BY DEF CommitFails
<1>2. Holding(w) /\ Fits(op[w].kind, "commit")
  BY <1>1 DEF StoreInv, OneWriter
<1>3. Fits(op[w].kind, "release")
  BY <1>2 DEF Fits
<1>4. wpc'[w] = "release" /\ \A x \in Writer : x # w => wpc'[x] = wpc[x]
  BY <1>1 DEF StoreInv, StoreType
<1>5. ~CacheDue(w) /\ ~VectorDue(w) /\ ~CacheDue(w)'
  BY <1>1, <1>4 DEF CacheDue, VectorDue
<1>6. mark' \in Version /\ mark' <= seq
  BY <1>1 DEF StoreInv, StoreType, Numbers
<1>7. wpc' \in [Writer -> {"idle", "commit", "publish", "cache", "bump", "notify",
                           "release", "bury", "uncache"}]
  BY <1>1 DEF StoreInv, StoreType
<1> QED
  BY <1>1, <1>2, <1>3, <1>4, <1>5, <1>6, <1>7, GoOnStep

\* The index takes the version of the row, or has it already.
LEMMA PublishStep ==
    ASSUME StoreInv, NEW w \in Writer, Publish(w)
    PROVE  StoreInv'
<1> USE DEF StoreInv
<1> DEFINE r == op[w].rid
           n == op[w].seq
           k == op[w].kind
<1>1. /\ UNCHANGED <<row, cached, origin, seq, mark, epoch, conn, op>>
      /\ wpc[w] = "publish" /\ Entry(r, n, n) /\ Advance(w)
  BY DEF Publish
<1>2. /\ Fits(k, "publish") /\ wpc'[w] = Then[k]["publish"] /\ wpc'[w] # "idle"
      /\ wpc' \in [Writer -> {"idle", "commit", "publish", "cache", "bump", "notify",
                              "release", "bury", "uncache"}]
      /\ Fits(k, wpc'[w]) /\ \A x \in Writer : x # w => wpc'[x] = wpc[x]
  BY <1>1, AdvanceStep
<1>3. wpc'[w] = IF k \in {"record", "correct", "replica"} THEN "cache" ELSE "bump"
  BY <1>2, ThenSteps
<1>4. k \in Inserts \cup {"correct", "replica", "again"}
  BY <1>2 DEF Fits, Inserts
<1>5. /\ Holding(w) /\ r \in Rid /\ n \in Version /\ n \in Nat /\ n <= seq /\ n # 0
      /\ Working(w) /\ Recorded(r)
  BY <1>1, <1>4, OpType DEF Holding, Numbers, Inserts
<1>6. row[r].status = "active" /\ row[r].text = n
  BY <1>1, <1>4, <1>5 DEF Working, Active, Inserts, Corrections
<1>7. vec'[r].text = row[r].text /\ vec'[r].seq <= seq /\ vec'[r].seq \in Version
  <2>1. CASE k # "again"
    <3>1. vec[r].seq < n
      BY <1>1, <1>5, <2>1 DEF Numbers
    <3>2. n > vec[r].seq
      BY <3>1, <1>5 DEF StoreType, Version
    <3>3. vec' = [vec EXCEPT ![r] = [seq |-> n, text |-> n]]
      BY <1>1, <3>2 DEF Entry
    <3> QED
      BY <1>5, <1>6, <3>3 DEF StoreType
  <2>2. CASE k = "again"
    <3>1. \A x \in Writer : op[x].rid = r => ~VectorDue(x)
      BY <1>5, <2>2, Alone DEF VectorDue, Inserts
    <3>2. vec[r].text = row[r].text
      BY <1>5, <1>6, <3>1 DEF Recorded, Active
    <3>3. vec' = vec \/ vec' = [vec EXCEPT ![r] = [seq |-> n, text |-> n]]
      BY <1>1 DEF Entry
    <3> QED
      BY <1>5, <1>6, <3>2, <3>3 DEF StoreType, Numbers
  <2> QED
    BY <2>1, <2>2
<1>8. \A s \in Rid : s # r => vec'[s] = vec[s]
  BY <1>1 DEF Entry, StoreType
<1>9. StoreType'
  <2>1. vec' \in [Rid -> [seq : Version, text : Version]]
    BY <1>1, <1>5 DEF Entry, StoreType
  <2>2. \A x \in Writer : wpc'[x] # "idle" => wpc[x] # "idle"
    BY <1>1, <1>2
  <2> QED
    BY <1>1, <1>2, <2>1, <2>2 DEF StoreType
<1>10. OneWriter'
  BY <1>1, <1>2, OneWriterGoesOn
<1>11. Numbers'
  <2>1. \A s \in Rid : vec'[s].seq <= seq'
    BY <1>1, <1>7, <1>8 DEF Numbers
  <2>2. \A x \in Writer : wpc'[x] # "idle" => wpc[x] # "idle"
    BY <1>1, <1>2
  <2>3. \A x \in Writer : Holding(x)' => Holding(x)
    BY <1>1, <1>2 DEF Holding
  <2>4. \A x \in Writer : Holding(x)' /\ wpc'[x] \in {"commit", "publish"} => FALSE
    BY <1>1, <1>2, <1>3, <1>5, <2>3 DEF OneWriter
  <2> QED
    BY <1>1, <2>1, <2>2, <2>3, <2>4 DEF Numbers
<1>12. ASSUME NEW x \in Writer, wpc'[x] # "idle" PROVE Working(x)'
  <2>1. CASE x # w
    BY <1>1, <1>2, <1>5, <1>8, <1>12, <2>1, OthersWork
  <2>2. CASE x = w
    <3>1. ~VectorDue(w)'
      BY <1>3 DEF VectorDue
    <3>2. CacheDue(w)' => CacheDue(w)
      BY <1>1, <1>3 DEF CacheDue
    <3> QED
      BY <1>1, <1>3, <1>4, <1>5, <1>6, <2>2, <3>1, <3>2 DEF Working, Active, Inserts, Corrections
  <2> QED
    BY <2>1, <2>2
<1>13. ASSUME NEW s \in Rid PROVE Recorded(s)'
  <2>1. CASE s # r
    BY <1>1, <1>2, <1>5, <1>8, <2>1, OthersRecorded
  <2>2. CASE s = r
    <3>1. CacheDue(w) => CacheDue(w)'
      BY <1>1, <1>2, <1>3 DEF CacheDue, Fits
    <3>2. \A x \in Writer : x # w => (CacheDue(x)' <=> CacheDue(x))
      BY <1>1, <1>2 DEF CacheDue
    <3>3. \/ cached[r] = row[r].facts
          \/ \E x \in Writer : op[x].rid = r /\ CacheDue(x)'
      BY <1>5, <1>6, <3>1, <3>2 DEF Recorded, Active
    <3> QED
      BY <1>1, <1>5, <1>6, <1>7, <2>2, <3>3 DEF Recorded, Active
  <2> QED
    BY <2>1, <2>2
<1> QED
  BY <1>9, <1>10, <1>11, <1>12, <1>13

\* The cache takes the scalars of the row: a new record enters, a corrected
\* one is there.
LEMMA CacheStep ==
    ASSUME StoreInv, NEW w \in Writer, Cache(w)
    PROVE  StoreInv'
<1> USE DEF StoreInv
<1> DEFINE r == op[w].rid
           n == op[w].seq
           k == op[w].kind
<1>1. /\ UNCHANGED <<row, vec, origin, seq, mark, epoch, conn, op>>
      /\ wpc[w] = "cache" /\ Advance(w)
      /\ cached' = IF k \in Inserts \/ cached[r] # 0
                   THEN [cached EXCEPT ![r] = n] ELSE cached
  BY DEF Cache
<1>2. /\ Fits(k, "cache") /\ wpc'[w] = Then[k]["cache"] /\ wpc'[w] # "idle"
      /\ wpc' \in [Writer -> {"idle", "commit", "publish", "cache", "bump", "notify",
                              "release", "bury", "uncache"}]
      /\ Fits(k, wpc'[w]) /\ \A x \in Writer : x # w => wpc'[x] = wpc[x]
  BY <1>1, AdvanceStep
<1>3. wpc'[w] = IF k \in {"record", "correct"} THEN "bump" ELSE "release"
  BY <1>2, ThenSteps
<1>4. k \in Inserts \cup Corrections
  BY <1>2 DEF Fits, Inserts, Corrections
<1>5. /\ Holding(w) /\ r \in Rid /\ n \in Version /\ n \in Nat /\ n <= seq /\ n # 0
      /\ Working(w) /\ Recorded(r) /\ CacheDue(w)
  BY <1>1, <1>4, OpType DEF Holding, Numbers, Inserts, Corrections, CacheDue
<1>6. row[r].status = "active" /\ row[r].facts = n
  BY <1>1, <1>4, <1>5 DEF Working, Active, Inserts
<1>7. cached' = [cached EXCEPT ![r] = n]
  BY <1>1, <1>4, <1>5 DEF Working
<1>8. cached'[r] = n /\ \A s \in Rid : s # r => cached'[s] = cached[s]
  BY <1>5, <1>7 DEF StoreType
<1>9. StoreType'
  <2>1. cached' \in [Rid -> Version]
    BY <1>5, <1>7 DEF StoreType
  <2>2. \A x \in Writer : wpc'[x] # "idle" => wpc[x] # "idle"
    BY <1>1, <1>2
  <2> QED
    BY <1>1, <1>2, <2>1, <2>2 DEF StoreType
<1>10. OneWriter'
  BY <1>1, <1>2, OneWriterGoesOn
<1>11. Numbers'
  <2>1. \A x \in Writer : wpc'[x] # "idle" => wpc[x] # "idle"
    BY <1>1, <1>2
  <2>2. \A x \in Writer : Holding(x)' => Holding(x)
    BY <1>1, <1>2 DEF Holding
  <2>3. \A x \in Writer : wpc'[x] \in {"commit", "publish"} => wpc[x] \in {"commit", "publish"}
    BY <1>2, <1>3
  <2> QED
    BY <1>1, <2>1, <2>2, <2>3 DEF Numbers
<1>12. ~VectorDue(w)' /\ ~VectorDue(w) /\ ~CacheDue(w)'
  BY <1>1, <1>3 DEF VectorDue, CacheDue
<1>13. ASSUME NEW x \in Writer, wpc'[x] # "idle" PROVE Working(x)'
  <2>1. CASE x # w
    BY <1>1, <1>2, <1>5, <1>13, <2>1, OthersWork
  <2>2. CASE x = w
    BY <1>1, <1>3, <1>4, <1>5, <1>6, <1>8, <1>12, <2>2
    DEF Working, Active, Inserts, Corrections
  <2> QED
    BY <2>1, <2>2
<1>14. ASSUME NEW s \in Rid PROVE Recorded(s)'
  <2>1. CASE s # r
    BY <1>1, <1>2, <1>5, <1>8, <2>1, OthersRecorded
  <2>2. CASE s = r
    <3>1. vec[r].text = row[r].text
      BY <1>5, <1>6, <1>12, Alone DEF Recorded, Active, VectorDue
    <3> QED
      BY <1>1, <1>5, <1>6, <1>8, <2>2, <3>1 DEF Recorded, Active
  <2> QED
    BY <2>1, <2>2
<1> QED
  BY <1>9, <1>10, <1>11, <1>13, <1>14

\* The tail of a forget goes on: nothing but its place and the watermark.
LEMMA TailGoesOn ==
    ASSUME StoreInv, NEW w \in Writer, op[w].kind = "forget", wpc[w] \in {"bump", "notify"},
           wpc'[w] \in {"notify", "uncache"},
           wpc' \in [Writer -> {"idle", "commit", "publish", "cache", "bump", "notify",
                                "release", "bury", "uncache"}],
           \A x \in Writer : x # w => wpc'[x] = wpc[x],
           UNCHANGED <<rowVars, seq, epoch, conn, op>>,
           mark' \in Version, mark' <= seq
    PROVE  StoreInv'
<1> USE DEF StoreInv, rowVars
<1>1. \A x \in Writer : /\ (wpc'[x] = "idle" <=> wpc[x] = "idle")
                        /\ (Holding(x)' <=> Holding(x))
                        /\ (VectorDue(x)' <=> VectorDue(x))
                        /\ (CacheDue(x)' <=> CacheDue(x))
  BY DEF Holding, VectorDue, CacheDue
<1>2. StoreType'
  BY <1>1 DEF StoreType
<1>3. OneWriter'
  <2>1. Fits("forget", wpc'[w])
    BY DEF Fits
  <2> QED
    BY <2>1, OneWriterGoesOn
<1>4. Numbers'
  BY <1>1 DEF Numbers, Holding
<1>5. ASSUME NEW x \in Writer, wpc'[x] # "idle" PROVE Working(x)'
  <2>1. CASE x = w
    BY <1>1, <2>1 DEF Working, Inserts, Corrections, CacheDue, VectorDue
  <2>2. CASE x # w
    <3>1. Working(x) /\ wpc'[x] = wpc[x] /\ op'[x] = op[x]
      BY <1>1, <1>5, <2>2
    <3> QED
      BY <1>1, <3>1 DEF Working, Active
  <2> QED
    BY <2>1, <2>2
<1>6. ASSUME NEW s \in Rid PROVE Recorded(s)'
  BY <1>1 DEF Recorded, Active
<1> QED
  BY <1>2, <1>3, <1>4, <1>5, <1>6

\* Raising the watermark and waking the waiters.
LEMMA BumpStep ==
    ASSUME StoreInv, NEW w \in Writer, Bump(w) \/ Notify(w)
    PROVE  StoreInv'
<1>1. /\ UNCHANGED <<rowVars, seq, epoch, conn, op>> /\ Advance(w)
      /\ wpc[w] \in {"bump", "notify"} /\ mark' \in {mark, Max2(mark, op[w].seq)}
  BY DEF Bump, Notify
<1>2. mark' \in Version /\ mark' <= seq
  BY <1>1, OpType DEF StoreInv, StoreType, Version, Numbers, Max2
<1>3. /\ Fits(op[w].kind, wpc[w]) /\ wpc'[w] = Then[op[w].kind][wpc[w]] /\ wpc'[w] # "idle"
      /\ wpc' \in [Writer -> {"idle", "commit", "publish", "cache", "bump", "notify",
                              "release", "bury", "uncache"}]
      /\ Fits(op[w].kind, wpc'[w]) /\ \A x \in Writer : x # w => wpc'[x] = wpc[x]
  BY <1>1, AdvanceStep
<1>4. /\ wpc[w] = "bump" => wpc'[w] = "notify"
      /\ wpc[w] = "notify" => wpc'[w] = IF op[w].kind \in {"record_batch", "record_with_rid"}
                                        THEN "cache"
                                        ELSE IF op[w].kind = "forget" THEN "uncache" ELSE "release"
  BY <1>1, <1>3, ThenSteps
<1>5. CASE op[w].kind = "forget"
  BY <1>1, <1>2, <1>3, <1>4, <1>5, TailGoesOn
<1>6. CASE op[w].kind # "forget"
  <2>1. Holding(w)
    BY <1>1, <1>6 DEF Holding
  <2>2. ~VectorDue(w)
    BY <1>1 DEF VectorDue
  <2>3. op'[w] = op[w]
    BY <1>1
  <2>4. CacheDue(w)' <=> CacheDue(w)
    BY <1>1, <1>4, <2>3 DEF CacheDue
  <2>5. wpc'[w] \notin {"commit", "publish"} /\ wpc[w] \notin {"commit", "release"}
    BY <1>1, <1>4
  <2> QED
    BY <1>1, <1>2, <1>3, <2>1, <2>2, <2>4, <2>5, GoOnStep
<1> QED
  BY <1>5, <1>6

\* The connection is free again, the epoch even, and the record coherent.
LEMMA ReleaseStep ==
    ASSUME StoreInv, NEW w \in Writer, Release(w)
    PROVE  StoreInv'
<1> USE DEF StoreInv, rowVars
<1>1. /\ UNCHANGED <<row, vec, cached, origin, seq, mark>> /\ wpc[w] = "release"
      /\ wpc' = [wpc EXCEPT ![w] = "idle"] /\ op' = [op EXCEPT ![w] = NoWork]
      /\ conn' = Nobody
      /\ epoch' = IF op[w].kind \in Corrections THEN epoch + 1 ELSE epoch
  BY DEF Release, Leave, InEpoch
<1>2. /\ wpc'[w] = "idle"
      /\ \A x \in Writer : x # w => wpc'[x] = wpc[x] /\ op'[x] = op[x]
  BY <1>1 DEF StoreType
<1>3. Fits(op[w].kind, "release") /\ Holding(w) /\ conn = w
  BY <1>1 DEF OneWriter, Holding, Fits
<1>4. \A x \in Writer : x # w => ~Holding(x)
  BY <1>3 DEF OneWriter
<1>5. NoWork \in [kind : Kinds \cup {"again", "none"}, rid : Rid \cup {Nobody}, seq : Version]
  BY ConstantsAssumption DEF NoWork, Version
<1>6. StoreType'
  <2>1. op' \in [Writer -> [kind : Kinds \cup {"again", "none"},
                            rid : Rid \cup {Nobody}, seq : Version]]
    BY <1>1, <1>5 DEF StoreType
  <2>2. \A x \in Writer : wpc'[x] # "idle" => op'[x] = op[x] /\ wpc[x] # "idle"
    BY <1>2
  <2>3. epoch' \in Nat
    BY <1>1 DEF StoreType
  <2> QED
    BY <1>1, <2>1, <2>2, <2>3 DEF StoreType
<1>7. OneWriter'
  <2>1. \A x \in Writer : ~Holding(x)'
    BY <1>2, <1>4 DEF Holding
  <2>2. ~Odd'
    <3>1. CASE op[w].kind \in Corrections
      <4>1. epoch % 2 = 1 /\ epoch \in Nat
        BY <1>3, <3>1 DEF OneWriter, Odd, StoreType
      <4>2. (epoch + 1) % 2 = 0
        BY <4>1, Parity
      <4> QED
        BY <1>1, <3>1, <4>2 DEF Odd
    <3>2. CASE op[w].kind \notin Corrections
      <4>1. ~Odd
        BY <1>3, <1>4, <3>2 DEF OneWriter
      <4> QED
        BY <1>1, <3>2, <4>1 DEF Odd
    <3> QED
      BY <3>1, <3>2
  <2>3. \A x \in Writer : wpc'[x] # "idle" => Fits(op'[x].kind, wpc'[x])
    BY <1>2 DEF OneWriter
  <2> QED
    BY <1>1, <2>1, <2>2, <2>3, ConstantsAssumption DEF OneWriter
<1>8. Numbers'
  <2>1. \A x \in Writer : wpc'[x] # "idle" => op'[x] = op[x] /\ wpc'[x] = wpc[x] /\ wpc[x] # "idle"
    BY <1>2
  <2> QED
    BY <1>1, <2>1 DEF Numbers, Holding
<1>9. ASSUME NEW x \in Writer, wpc'[x] # "idle" PROVE Working(x)'
  <2>1. op'[x] = op[x] /\ wpc'[x] = wpc[x] /\ Working(x)
    BY <1>2, <1>9
  <2> QED
    BY <1>1, <2>1 DEF Working, Active, CacheDue, VectorDue
<1>10. ASSUME NEW s \in Rid PROVE Recorded(s)'
  <2>1. ~VectorDue(w) /\ ~CacheDue(w)
    BY <1>1 DEF VectorDue, CacheDue
  <2>2. \A x \in Writer : x # w => (VectorDue(x)' <=> VectorDue(x)) /\ (CacheDue(x)' <=> CacheDue(x))
    BY <1>2 DEF VectorDue, CacheDue
  <2>3. \A x \in Writer : op[x].kind = "forget" => x # w
    BY <1>3 DEF Holding
  <2> QED
    BY <1>1, <1>2, <2>1, <2>2, <2>3 DEF Recorded, Active
<1> QED
  BY <1>6, <1>7, <1>8, <1>9, <1>10

\* A forget's transaction: its record was coherent, nobody was on it.
LEMMA ForgetStep ==
    ASSUME StoreInv, NEW w \in Writer, NEW r \in Rid, Forget(w, r)
    PROVE  StoreInv'
<1> USE DEF StoreInv
<1>1. /\ UNCHANGED <<vec, cached, origin, seq, mark, epoch, conn>>
      /\ wpc[w] = "idle" /\ conn = Nobody /\ "forget" \in Kinds /\ Active(r)
      /\ row' = [row EXCEPT ![r].status = "tombstoned"]
      /\ wpc' = [wpc EXCEPT ![w] = "bury"]
      /\ op' = [op EXCEPT ![w] = [kind |-> "forget", rid |-> r, seq |-> 0]]
  BY DEF Forget
<1>2. /\ wpc'[w] = "bury" /\ op'[w] = [kind |-> "forget", rid |-> r, seq |-> 0]
      /\ \A x \in Writer : x # w => wpc'[x] = wpc[x] /\ op'[x] = op[x]
  BY <1>1 DEF StoreType
<1>3. /\ \A x \in Writer : ~Holding(x) /\ ~VectorDue(x) /\ ~CacheDue(x)
      /\ \A x \in Writer : wpc[x] # "idle" => op[x].kind = "forget"
      /\ ~Odd
  BY <1>1, NobodyWrites
<1>4. row[r] \in [status : {"absent", "active", "tombstoned"}, text : Version, facts : Version]
  BY DEF StoreType
<1>5. /\ row'[r].status = "tombstoned" /\ row'[r].text = row[r].text /\ row'[r].facts = row[r].facts
      /\ \A s \in Rid : s # r => row'[s] = row[s]
  BY <1>1, <1>4 DEF StoreType
<1>6. StoreType'
  <2>1. [kind |-> "forget", rid |-> r, seq |-> 0] \in [kind : Kinds \cup {"again"}, rid : Rid, seq : Version]
    BY <1>1, ConstantsAssumption DEF Version
  <2>2. \A x \in Writer : wpc'[x] # "idle" =>
          op'[x] \in [kind : Kinds \cup {"again"}, rid : Rid, seq : Version]
    BY <1>1, <2>1 DEF StoreType
  <2>3. op' \in [Writer -> [kind : Kinds \cup {"again", "none"},
                            rid : Rid \cup {Nobody}, seq : Version]]
    BY <1>1, <2>1 DEF StoreType
  <2>4. row' \in [Rid -> [status : {"absent", "active", "tombstoned"},
                          text : Version, facts : Version]]
    <3>1. [row[r] EXCEPT !.status = "tombstoned"]
             \in [status : {"absent", "active", "tombstoned"}, text : Version, facts : Version]
      BY <1>4
    <3>2. row \in [Rid -> [status : {"absent", "active", "tombstoned"},
                           text : Version, facts : Version]]
      BY DEF StoreType
    <3>3. row' = [row EXCEPT ![r] = [row[r] EXCEPT !.status = "tombstoned"]]
      BY <1>1
    <3> QED
      BY <3>1, <3>2, <3>3
  <2>5. wpc' \in [Writer -> {"idle", "commit", "publish", "cache", "bump", "notify",
                             "release", "bury", "uncache"}]
    BY <1>1 DEF StoreType
  <2> QED
    BY <1>1, <2>2, <2>3, <2>4, <2>5 DEF StoreType
<1>7. OneWriter'
  <2>1. \A x \in Writer : ~Holding(x)'
    BY <1>2, <1>3 DEF Holding
  <2>2. \A x \in Writer : wpc'[x] # "idle" => Fits(op'[x].kind, wpc'[x])
    BY <1>2 DEF OneWriter, Fits
  <2> QED
    BY <1>1, <1>3, <2>1, <2>2, ConstantsAssumption DEF OneWriter, Odd
<1>8. Numbers'
  BY <1>1, <1>2, <1>3 DEF Numbers, Holding, StoreType, Version
<1>9. ASSUME NEW x \in Writer, wpc'[x] # "idle" PROVE Working(x)'
  <2>1. CASE x # w
    <3>1. /\ op'[x] = op[x] /\ wpc'[x] = wpc[x] /\ Working(x) /\ op[x].kind = "forget"
          /\ row[op[x].rid].status = "tombstoned" /\ op[x].rid \in Rid
      BY <1>2, <1>3, <1>9, <2>1, OpType DEF Working
    <3>2. row'[op[x].rid].status = "tombstoned"
      BY <1>5, <3>1
    <3> QED
      BY <1>1, <3>1, <3>2 DEF Working, Inserts, Corrections, CacheDue, VectorDue
  <2>2. CASE x = w
    BY <1>1, <1>2, <1>5, <2>2 DEF Working, Inserts, Corrections, CacheDue, VectorDue
  <2> QED
    BY <2>1, <2>2
<1>10. ASSUME NEW s \in Rid PROVE Recorded(s)'
  <2>1. Recorded(s) /\ (Active(s) => vec[s].text = row[s].text /\ cached[s] = row[s].facts)
    BY <1>3 DEF Recorded
  <2>2. \A x \in Writer : wpc[x] # "idle" => op'[x] = op[x] /\ wpc'[x] = wpc[x]
    BY <1>1, <1>2
  <2>3. CASE s # r
    BY <1>1, <1>5, <2>1, <2>2, <2>3 DEF Recorded, Active
  <2>4. CASE s = r
    BY <1>1, <1>2, <1>5, <2>1, <2>4 DEF Recorded, Active
  <2> QED
    BY <2>3, <2>4
<1> QED
  BY <1>6, <1>7, <1>8, <1>9, <1>10

\* The tombstone shadows whatever number the record's vector had.
LEMMA BuryStep ==
    ASSUME StoreInv, NEW w \in Writer, Bury(w)
    PROVE  StoreInv'
<1> USE DEF StoreInv
<1> DEFINE r == op[w].rid
<1>1. /\ UNCHANGED <<row, cached, origin, mark, epoch, conn>>
      /\ wpc[w] = "bury" /\ seq < MaxSeq /\ seq' = seq + 1
      /\ op' = [op EXCEPT ![w].seq = seq + 1] /\ Entry(r, seq + 1, 0)
      /\ Advance(w)
  BY DEF Bury
<1>2. /\ Fits(op[w].kind, "bury") /\ wpc'[w] = Then[op[w].kind]["bury"]
      /\ wpc' \in [Writer -> {"idle", "commit", "publish", "cache", "bump", "notify",
                              "release", "bury", "uncache"}]
      /\ \A x \in Writer : x # w => wpc'[x] = wpc[x]
  BY <1>1, AdvanceStep
<1>3. op[w].kind = "forget" /\ wpc'[w] = "bump"
  BY <1>2, ThenSteps DEF Fits
<1>4. /\ r \in Rid /\ seq \in Nat /\ seq + 1 \in Version
      /\ row[r].status = "tombstoned" /\ vec[r].seq \in Nat /\ vec[r].seq <= seq
  <2>1. r \in Rid
    BY <1>1, OpType
  <2>2. seq \in Nat /\ seq + 1 \in Version
    BY <1>1, ConstantsAssumption DEF StoreType, Version
  <2>3. vec[r].seq \in Nat /\ vec[r].seq <= seq
    BY <2>1 DEF StoreType, Version, Numbers
  <2>4. row[r].status = "tombstoned"
    BY <1>1, <1>3 DEF Working
  <2> QED
    BY <2>1, <2>2, <2>3, <2>4
<1>5. vec' = [vec EXCEPT ![r] = [seq |-> seq + 1, text |-> 0]]
  BY <1>1, <1>4 DEF Entry
<1>6. vec'[r].text = 0 /\ vec'[r].seq = seq + 1 /\ \A s \in Rid : s # r => vec'[s] = vec[s]
  BY <1>4, <1>5 DEF StoreType
<1>7. op[w] \in [kind : Kinds \cup {"again"}, rid : Rid, seq : Version]
  BY <1>1 DEF StoreType
<1>8. /\ op'[w].kind = "forget" /\ op'[w].rid = r /\ op'[w].seq = seq + 1
      /\ op'[w] \in [kind : Kinds \cup {"again"}, rid : Rid, seq : Version]
      /\ \A x \in Writer : x # w => op'[x] = op[x]
  BY <1>1, <1>3, <1>4, <1>7 DEF StoreType
<1>9. \A x \in Writer : /\ op'[x].kind = op[x].kind /\ op'[x].rid = op[x].rid
                        /\ (wpc'[x] = "idle" <=> wpc[x] = "idle")
  BY <1>1, <1>2, <1>3, <1>8
<1>10. StoreType'
  <2>1. vec' \in [Rid -> [seq : Version, text : Version]]
    BY <1>4, <1>5, ConstantsAssumption DEF StoreType, Version
  <2>2. \A x \in Writer : wpc'[x] # "idle" =>
          op'[x] \in [kind : Kinds \cup {"again"}, rid : Rid, seq : Version]
    BY <1>8, <1>9 DEF StoreType
  <2>3. op' \in [Writer -> [kind : Kinds \cup {"again", "none"},
                            rid : Rid \cup {Nobody}, seq : Version]]
    BY <1>1, <1>4 DEF StoreType
  <2> QED
    BY <1>1, <1>2, <1>4, <2>1, <2>2, <2>3 DEF StoreType
<1>11. OneWriter'
  <2>1. Fits(op[w].kind, wpc'[w]) /\ wpc'[w] # "idle" /\ wpc[w] # "idle"
    BY <1>1, <1>3 DEF Fits
  <2> QED
    BY <1>1, <1>2, <1>8, <1>9, <2>1, OneWriterGoesOn
<1>12. ASSUME NEW x \in Writer, wpc[x] # "idle", x # w, op[x].rid = r
       PROVE  op[x].kind = "forget"
  <2>1. CASE Holding(x)
    BY <1>1, <1>12, <2>1, Alone
  <2> QED
    BY <1>12, <2>1 DEF Holding
<1>13. Numbers'
  <2>1. \A x \in Writer : Holding(x)' => Holding(x) /\ op'[x] = op[x] /\ x # w /\ wpc'[x] = wpc[x]
    BY <1>2, <1>3, <1>8, <1>9 DEF Holding
  <2>2. \A x \in Writer : Holding(x) => op[x].rid # r /\ op[x].rid \in Rid
    BY <1>3, <1>12, OpType DEF Holding
  <2>3. \A x \in Writer : wpc'[x] # "idle" => op'[x].seq <= seq'
    BY <1>1, <1>4, <1>8, <1>9 DEF Numbers, StoreType, Version
  <2>4. \A s \in Rid : vec'[s].seq <= seq' /\ origin'[s] <= seq'
    BY <1>1, <1>4, <1>6 DEF Numbers, StoreType, Version
  <2>5. mark' <= seq'
    BY <1>1, <1>4 DEF Numbers, StoreType, Version
  <2>6. \A x \in Writer : Holding(x)' => op'[x].seq # 0
    BY <2>1 DEF Numbers
  <2>7. \A x \in Writer : Holding(x)' /\ wpc'[x] \in {"commit", "publish"} /\ op'[x].kind # "again"
                            => vec'[op'[x].rid].seq < op'[x].seq
    BY <1>6, <2>1, <2>2 DEF Numbers
  <2> QED
    BY <2>3, <2>4, <2>5, <2>6, <2>7 DEF Numbers
<1>14. ASSUME NEW x \in Writer, wpc'[x] # "idle" PROVE Working(x)'
  <2>1. CASE x = w
    <3>1. /\ op'[w].kind = "forget" /\ op'[w].rid = r /\ row'[r].status = "tombstoned"
          /\ vec'[r].text = 0 /\ wpc'[w] = "bump"
      BY <1>1, <1>3, <1>4, <1>6, <1>8
    <3>2. ~CacheDue(w)' /\ ~VectorDue(w)'
      BY <3>1 DEF CacheDue, VectorDue
    <3> QED
      BY <2>1, <3>1, <3>2 DEF Working, Inserts, Corrections
  <2>2. CASE x # w
    <3>1. op'[x] = op[x] /\ wpc'[x] = wpc[x] /\ Working(x) /\ op[x].rid \in Rid
      BY <1>2, <1>8, <1>9, <1>14, <2>2, OpType
    <3>2. vec'[op[x].rid].text \in {vec[op[x].rid].text, 0}
      BY <1>6, <3>1
    <3>3. VectorDue(x) \/ op[x].kind = "again" => op[x].rid # r
      BY <1>12, <1>14, <2>2, <3>1 DEF VectorDue, Inserts
    <3> QED
      BY <1>1, <1>6, <3>1, <3>2, <3>3 DEF Working, Active, CacheDue, VectorDue
  <2> QED
    BY <2>1, <2>2
<1>15. ASSUME NEW s \in Rid PROVE Recorded(s)'
  <2>1. ~VectorDue(w) /\ ~CacheDue(w)
    BY <1>1 DEF VectorDue, CacheDue
  <2>2. \A x \in Writer : x # w => (VectorDue(x)' <=> VectorDue(x)) /\ (CacheDue(x)' <=> CacheDue(x))
    BY <1>2, <1>8 DEF VectorDue, CacheDue
  <2>3. CASE s # r
    BY <1>1, <1>6, <1>9, <2>1, <2>2, <2>3 DEF Recorded, Active
  <2>4. CASE s = r
    <3>1. wpc'[w] # "idle" /\ op'[w].kind = "forget" /\ op'[w].rid = s
      BY <1>3, <1>8, <2>4
    <3> QED
      BY <1>1, <1>4, <1>6, <2>4, <3>1 DEF Recorded, Active
  <2> QED
    BY <2>3, <2>4
<1> QED
  BY <1>10, <1>11, <1>13, <1>14, <1>15

\* The forgotten record leaves the cache last.
LEMMA UncacheStep ==
    ASSUME StoreInv, NEW w \in Writer, Uncache(w)
    PROVE  StoreInv'
<1> USE DEF StoreInv
<1> DEFINE r == op[w].rid
<1>1. /\ UNCHANGED <<row, vec, origin, seq, mark, epoch, conn>> /\ wpc[w] = "uncache"
      /\ cached' = [cached EXCEPT ![r] = 0]
      /\ wpc' = [wpc EXCEPT ![w] = "idle"] /\ op' = [op EXCEPT ![w] = NoWork]
  BY DEF Uncache, Leave
<1>2. /\ wpc'[w] = "idle"
      /\ \A x \in Writer : x # w => wpc'[x] = wpc[x] /\ op'[x] = op[x]
  BY <1>1 DEF StoreType
<1>3. op[w].kind = "forget" /\ r \in Rid /\ row[r].status = "tombstoned" /\ vec[r].text = 0
  BY <1>1, OpType DEF OneWriter, Fits, Working
<1>4. cached'[r] = 0 /\ \A s \in Rid : s # r => cached'[s] = cached[s]
  BY <1>1, <1>3 DEF StoreType
<1>5. NoWork \in [kind : Kinds \cup {"again", "none"}, rid : Rid \cup {Nobody}, seq : Version]
  BY ConstantsAssumption DEF NoWork, Version
<1>6. StoreType'
  <2>1. op' \in [Writer -> [kind : Kinds \cup {"again", "none"},
                            rid : Rid \cup {Nobody}, seq : Version]]
    BY <1>1, <1>5 DEF StoreType
  <2>2. \A x \in Writer : wpc'[x] # "idle" => op'[x] = op[x] /\ wpc[x] # "idle"
    BY <1>2
  <2>3. cached' \in [Rid -> Version]
    BY <1>1, ConstantsAssumption DEF StoreType, Version
  <2> QED
    BY <1>1, <2>1, <2>2, <2>3 DEF StoreType
<1>7. \A x \in Writer : Holding(x)' <=> Holding(x)
  BY <1>2, <1>3 DEF Holding
<1>8. OneWriter'
  <2>1. \A x \in Writer : Holding(x) => x # w /\ op'[x] = op[x]
    BY <1>2, <1>3 DEF Holding
  <2> QED
    BY <1>1, <1>2, <1>7, <2>1 DEF OneWriter, Odd
<1>9. Numbers'
  <2>1. \A x \in Writer : wpc'[x] # "idle" => op'[x] = op[x] /\ wpc'[x] = wpc[x] /\ wpc[x] # "idle"
    BY <1>2
  <2> QED
    BY <1>1, <2>1 DEF Numbers, Holding
<1>10. ASSUME NEW x \in Writer, wpc'[x] # "idle" PROVE Working(x)'
  <2>1. op'[x] = op[x] /\ wpc'[x] = wpc[x] /\ Working(x) /\ x # w /\ wpc[x] # "idle"
    BY <1>2, <1>10
  <2>2. CASE op[x].kind = "forget"
    BY <1>1, <2>1, <2>2 DEF Working, Inserts, Corrections, CacheDue, VectorDue
  <2>3. CASE op[x].kind # "forget"
    <3>1. op[x].rid # r /\ op[x].rid \in Rid
      BY <1>1, <2>1, <2>3, Alone, OpType DEF Holding
    <3>2. cached'[op[x].rid] = cached[op[x].rid]
      BY <1>4, <3>1
    <3> QED
      BY <1>1, <2>1, <3>2 DEF Working, Active, CacheDue, VectorDue
  <2> QED
    BY <2>2, <2>3
<1>11. ASSUME NEW s \in Rid PROVE Recorded(s)'
  <2>1. ~VectorDue(w) /\ ~CacheDue(w)
    BY <1>1 DEF VectorDue, CacheDue
  <2>2. \A x \in Writer : x # w => (VectorDue(x)' <=> VectorDue(x)) /\ (CacheDue(x)' <=> CacheDue(x))
    BY <1>2 DEF VectorDue, CacheDue
  <2>3. CASE s # r
    BY <1>1, <1>2, <1>4, <2>1, <2>2, <2>3 DEF Recorded, Active
  <2>4. CASE s = r
    BY <1>1, <1>3, <1>4, <2>4 DEF Recorded, Active
  <2> QED
    BY <2>3, <2>4
<1> QED
  BY <1>6, <1>8, <1>9, <1>10, <1>11

\* The compactor changes no vector that search finds; readers change nothing.
LEMMA CompactStep ==
    ASSUME StoreInv, UNCHANGED <<row, cached, origin, seq, mark, epoch, conn, wpc, op>>,
           \/ UNCHANGED vec
           \/ \E r \in Rid : Compact(r)
    PROVE  StoreInv'
<1> USE DEF StoreInv
<1>1. \A r \in Rid : /\ vec'[r].text = vec[r].text
                     /\ vec'[r].seq = vec[r].seq \/ vec'[r].seq = 0
  BY DEF Compact, StoreType
<1>2. vec' \in [Rid -> [seq : Version, text : Version]]
  <2>1. vec \in [Rid -> [seq : Version, text : Version]] /\ 0 \in Version
    BY ConstantsAssumption DEF StoreType, Version
  <2>2. ASSUME NEW r \in Rid, Compact(r) PROVE vec' \in [Rid -> [seq : Version, text : Version]]
    BY <2>1, <2>2 DEF Compact
  <2> QED
    BY <2>1, <2>2
<1>3. StoreType'
  BY <1>2 DEF StoreType
<1>4. OneWriter'
  BY DEF OneWriter, Holding, Odd
<1>5. Numbers'
  <2>1. \A x \in Writer : Holding(x)' <=> Holding(x)
    BY DEF Holding
  <2>2. \A x \in Writer : Holding(x) => op[x].rid \in Rid /\ op[x].seq \in Nat
    BY OpType DEF Holding
  <2>3. \A r \in Rid : vec'[r].seq <= seq /\ vec'[r].seq <= vec[r].seq
    BY <1>1 DEF Numbers, StoreType, Version
  <2>4. ASSUME NEW x \in Writer, Holding(x), wpc[x] \in {"commit", "publish"}, op[x].kind # "again"
        PROVE  vec'[op[x].rid].seq < op[x].seq
    <3>1. vec[op[x].rid].seq < op[x].seq /\ vec[op[x].rid].seq \in Nat
      BY <2>2, <2>4 DEF Numbers, StoreType, Version
    <3>2. op[x].seq # 0 /\ op[x].seq \in Nat /\ op[x].rid \in Rid
      BY <2>2, <2>4 DEF Numbers
    <3> QED
      BY <1>1, <3>1, <3>2
  <2> QED
    BY <2>1, <2>3, <2>4 DEF Numbers
<1>6. ASSUME NEW x \in Writer, wpc[x] # "idle" PROVE Working(x)'
  <2>1. Working(x) /\ vec'[op[x].rid].text = vec[op[x].rid].text
    BY <1>1, <1>6, OpType
  <2> QED
    BY <2>1 DEF Working, Active, CacheDue, VectorDue
<1>7. ASSUME NEW s \in Rid PROVE Recorded(s)'
  BY <1>1 DEF Recorded, Active, CacheDue, VectorDue
<1> QED
  BY <1>3, <1>4, <1>5, <1>6, <1>7

LEMMA StoreInvNext ==
    ASSUME ~Reordered
    PROVE  StoreInv /\ [Next]_vars => StoreInv'
<1> SUFFICES ASSUME StoreInv, [Next]_vars PROVE StoreInv'
  OBVIOUS
<1>1. CASE UNCHANGED vars
  BY <1>1, CompactStep DEF vars, rowVars, writerVars, readerVars
<1>2. ASSUME NEW w \in Writer, Start(w) PROVE StoreInv'
  BY <1>2, BeginStep, BeginAgainStep, ForgetStep DEF Start
<1>3. ASSUME NEW w \in Writer, Write(w) PROVE StoreInv'
  BY <1>3, CommitStep, CommitFailsStep, PublishStep, CacheStep, BumpStep, ReleaseStep,
     BuryStep, UncacheStep DEF Write
<1>4. ASSUME NEW r \in Rid, Compact(r) PROVE StoreInv'
  BY <1>4, CompactStep DEF Compact, writerVars
<1>5. ASSUME NEW q \in Reader, Read(q) \/ \E n \in 0..MaxSeq : Call(q, n) PROVE StoreInv'
  <2>1. UNCHANGED <<rowVars, seq, mark, epoch, conn, writerVars>>
    BY <1>5 DEF Read, Check, Park, TimesOut, Expires, Enter, SpinsOut, Search, Score,
                Hydrate, Validate, Retry, Answer, Call, Return
  <2> QED
    BY <2>1, CompactStep DEF rowVars, writerVars
<1> QED
  BY <1>1, <1>2, <1>3, <1>4, <1>5 DEF Next

-----------------------------------------------------------------------------
(* The readers' invariant *)

LEMMA ReadInvInit == Init => ReadInv
  BY ConstantsAssumption DEF Init, ReadInv, ReadType, Reading, Version

\* What a writer's step may do to rows that are there: nothing, unless it is
\* the commit of a correction, and then the epoch is odd.
RowsKept ==
    \A r \in Rid : row[r].status # "absent" =>
        /\ row'[r].status # "absent"
        /\ \/ row'[r].text = row[r].text /\ row'[r].facts = row[r].facts
           \/ /\ Odd /\ epoch' = epoch
              /\ \/ row'[r].text = row[r].text
                 \/ \E w \in Writer : Correcting(w) /\ row'[r].text = op[w].seq

\* A correction that begins has a number above all those given out.
CorrectionsNew ==
    \A w \in Writer : Correcting(w)' =>
        \/ Correcting(w) /\ op'[w] = op[w]
        \/ op'[w].seq > seq

WriterMoves ==
    /\ RowsKept /\ CorrectionsNew
    /\ seq <= seq' /\ epoch <= epoch'

LEMMA QuietStep ==
    ASSUME StoreInv, UNCHANGED row, seq <= seq', epoch <= epoch',
           \A w \in Writer : wpc'[w] = "commit" =>
               (wpc[w] = "commit" /\ op'[w] = op[w]) \/ op'[w].kind \notin Corrections
    PROVE  WriterMoves
  BY DEF WriterMoves, RowsKept, CorrectionsNew, Correcting, Holding

LEMMA StartMoves ==
    ASSUME StoreInv, NEW w \in Writer, Start(w)
    PROVE  WriterMoves
<1>1. seq \in Nat /\ epoch \in Nat
  BY DEF StoreInv, StoreType, Version
<1>2. PICK r \in Rid : (\E kind \in Kinds : Begin(w, kind, r)) \/ BeginAgain(w, r) \/ Forget(w, r)
  BY DEF Start
<1>3. ASSUME NEW kind \in Kinds, Begin(w, kind, r) PROVE WriterMoves
  <2>1. /\ UNCHANGED row /\ seq' = seq + 1 /\ epoch' \in {epoch, epoch + 1}
        /\ wpc' = [wpc EXCEPT ![w] = "commit"]
        /\ op' = [op EXCEPT ![w] = [kind |-> kind, rid |-> r, seq |-> seq + 1]]
    BY <1>3 DEF Begin, Take, rowVars
  <2>2. /\ op'[w].seq = seq + 1
        /\ \A x \in Writer : x # w => op'[x] = op[x] /\ wpc'[x] = wpc[x]
    BY <2>1 DEF StoreInv, StoreType
  <2>3. CorrectionsNew
    BY <1>1, <2>2 DEF CorrectionsNew, Correcting, Holding
  <2> QED
    BY <1>1, <2>1, <2>3 DEF WriterMoves, RowsKept
<1>4. CASE BeginAgain(w, r)
  <2>1. /\ UNCHANGED <<row, epoch>> /\ seq' = Max2(seq, origin[r])
        /\ wpc' = [wpc EXCEPT ![w] = "commit"]
        /\ op' = [op EXCEPT ![w] = [kind |-> "again", rid |-> r, seq |-> origin[r]]]
    BY <1>4 DEF BeginAgain, Take
  <2>2. /\ op'[w].kind = "again"
        /\ \A x \in Writer : x # w => op'[x] = op[x] /\ wpc'[x] = wpc[x]
    BY <2>1 DEF StoreInv, StoreType
  <2>3. seq <= seq'
    BY <1>1, <2>1 DEF Max2, StoreInv, StoreType, Version
  <2>4. "again" \notin Corrections
    BY DEF Corrections
  <2> QED
    BY <1>1, <2>1, <2>2, <2>3, <2>4, QuietStep
<1>5. CASE Forget(w, r)
  <2>1. /\ UNCHANGED <<seq, epoch>> /\ row' = [row EXCEPT ![r].status = "tombstoned"]
        /\ wpc' = [wpc EXCEPT ![w] = "bury"]
        /\ op' = [op EXCEPT ![w] = [kind |-> "forget", rid |-> r, seq |-> 0]]
    BY <1>5 DEF Forget
  <2>2. \A s \in Rid : /\ row'[s].text = row[s].text /\ row'[s].facts = row[s].facts
                       /\ row[s].status # "absent" => row'[s].status # "absent"
    BY <2>1 DEF StoreInv, StoreType
  <2>3. \A x \in Writer : wpc'[x] = "commit" => wpc[x] = "commit" /\ op'[x] = op[x]
    BY <2>1 DEF StoreInv, StoreType
  <2>4. CorrectionsNew
    BY <2>3 DEF CorrectionsNew, Correcting, Holding
  <2> QED
    BY <1>1, <2>1, <2>2, <2>4 DEF WriterMoves, RowsKept
<1> QED
  BY <1>2, <1>3, <1>4, <1>5

LEMMA CommitMoves ==
    ASSUME StoreInv, NEW w \in Writer, Commit(w)
    PROVE  WriterMoves
<1> DEFINE r == op[w].rid
<1>1. /\ UNCHANGED <<seq, epoch, op>> /\ row' = [row EXCEPT ![r] = Written(w)]
      /\ wpc[w] = "commit" /\ conn = w /\ Advance(w)
  BY DEF Commit
<1>2. seq \in Nat /\ epoch \in Nat /\ r \in Rid
  BY <1>1, OpType DEF StoreInv, StoreType, Version
<1>3. /\ wpc'[w] # "commit" /\ \A x \in Writer : x # w => wpc'[x] = wpc[x]
      /\ Fits(op[w].kind, "commit") /\ Holding(w)
  <2>1. wpc'[w] = Then[op[w].kind][wpc[w]] /\ Fits(op[w].kind, wpc[w])
        /\ \A x \in Writer : x # w => wpc'[x] = wpc[x]
    BY <1>1, AdvanceStep
  <2>2. wpc'[w] # "commit"
    BY <1>1, <2>1, ThenSteps
  <2> QED
    BY <1>1, <2>1, <2>2 DEF Holding, Fits
<1>4. CorrectionsNew
  BY <1>1, <1>3 DEF CorrectionsNew, Correcting, Holding
<1>5. row'[r] = Written(w) /\ \A s \in Rid : s # r => row'[s] = row[s]
  BY <1>1, <1>2 DEF StoreInv, StoreType
<1>6. ASSUME row[r].status # "absent"
      PROVE  /\ row'[r].status # "absent"
             /\ \/ row'[r].text = row[r].text /\ row'[r].facts = row[r].facts
                \/ Odd /\ (row'[r].text = row[r].text \/ (Correcting(w) /\ row'[r].text = op[w].seq))
  <2>1. op[w].kind \notin Inserts
    <3>1. op[w].kind \in Inserts => row[r].status = "absent"
      BY <1>1 DEF StoreInv, Working
    <3> QED
      BY <1>6, <3>1
  <2>2. CASE op[w].kind = "again"
    BY <1>5, <1>6, <2>1, <2>2 DEF Written
  <2>3. CASE op[w].kind \in Corrections
    <3>1. Odd /\ Correcting(w)
      BY <1>1, <1>3, <2>3 DEF StoreInv, OneWriter, Correcting
    <3>2. row[r] \in [status : {"absent", "active", "tombstoned"}, text : Version, facts : Version]
      BY <1>2 DEF StoreInv, StoreType
    <3>3. CASE op[w].kind = "scalar"
      <4>1. row'[r] = [row[r] EXCEPT !.facts = op[w].seq]
        BY <1>5, <2>1, <3>3 DEF Written
      <4> QED
        BY <1>6, <3>1, <3>2, <4>1
    <3>4. CASE op[w].kind # "scalar"
      <4>1. row'[r] = [row[r] EXCEPT !.text = op[w].seq, !.facts = op[w].seq]
        BY <1>5, <2>1, <2>3, <3>4 DEF Written, Corrections
      <4> QED
        BY <1>6, <3>1, <3>2, <4>1
    <3> QED
      BY <3>3, <3>4
  <2> QED
    BY <1>1, <1>3, <2>1, <2>2, <2>3, OpType DEF Holding
<1>7. RowsKept
  BY <1>1, <1>5, <1>6 DEF RowsKept
<1> QED
  BY <1>1, <1>2, <1>4, <1>7 DEF WriterMoves

LEMMA WriteMoves ==
    ASSUME StoreInv, NEW w \in Writer, Write(w)
    PROVE  WriterMoves
<1>1. seq \in Nat /\ epoch \in Nat /\ seq <= seq
  BY DEF StoreInv, StoreType, Version
<1>2. ASSUME wpc[w] \in {"publish", "cache", "bump", "notify", "bury"}, Advance(w),
             UNCHANGED <<row, epoch>>, seq' \in {seq, seq + 1},
             \A x \in Writer : x # w => op'[x] = op[x]
      PROVE  WriterMoves
  <2>1. /\ wpc'[w] = Then[op[w].kind][wpc[w]] /\ Fits(op[w].kind, wpc[w])
        /\ \A x \in Writer : x # w => wpc'[x] = wpc[x]
    BY <1>2, AdvanceStep
  <2>2. wpc'[w] # "commit"
    BY <1>2, <2>1, ThenSteps
  <2> QED
    BY <1>1, <1>2, <2>1, <2>2, QuietStep
<1>3. ASSUME wpc' \in {[wpc EXCEPT ![w] = "idle"], [wpc EXCEPT ![w] = "release"]},
             UNCHANGED <<row, seq>>, epoch' \in {epoch, epoch + 1},
             \A x \in Writer : x # w => op'[x] = op[x]
      PROVE  WriterMoves
  <2>1. wpc'[w] # "commit" /\ \A x \in Writer : x # w => wpc'[x] = wpc[x]
    BY <1>3 DEF StoreInv, StoreType
  <2> QED
    BY <1>1, <1>3, <2>1, QuietStep
<1>4. CASE Commit(w)
  BY <1>4, CommitMoves
<1>5. CASE CommitFails(w)
  BY <1>3, <1>5 DEF CommitFails, rowVars
<1>6. CASE Publish(w) \/ Cache(w) \/ Bump(w) \/ Notify(w)
  BY <1>2, <1>6 DEF Publish, Cache, Bump, Notify, rowVars
<1>7. CASE Release(w) \/ Uncache(w)
  <2>1. op' = [op EXCEPT ![w] = NoWork]
    BY <1>7 DEF Release, Uncache, Leave
  <2>2. \A x \in Writer : x # w => op'[x] = op[x]
    BY <2>1 DEF StoreInv, StoreType
  <2> QED
    BY <1>3, <1>7, <2>2 DEF Release, Uncache, Leave, rowVars
<1>8. CASE Bury(w)
  <2>1. \A x \in Writer : x # w => op'[x] = op[x]
    BY <1>8 DEF Bury, StoreInv, StoreType
  <2> QED
    BY <1>2, <1>8, <2>1 DEF Bury
<1> QED
  BY <1>4, <1>5, <1>6, <1>7, <1>8 DEF Write

\* While a writer moves, a reader keeps what it knows.
LEMMA ReadersKeep ==
    ASSUME StoreInv, StoreInv', ReadInv, WriterMoves,
           UNCHANGED <<need, epoch0, tries, hits>>,
           UNCHANGED rpc \/ rpc' = [q \in Reader |-> IF rpc[q] = "asleep" THEN "check" ELSE rpc[q]]
    PROVE  ReadInv'
<1>1. \A q \in Reader : rpc'[q] = rpc[q] \/ rpc'[q] = "check"
  OBVIOUS
<1>2. ReadType'
  BY DEF ReadInv, ReadType
<1>3. ASSUME NEW q \in Reader, rpc'[q] = rpc[q],
             rpc[q] \in {"search", "score", "hydrate", "validate", "answered"}
      PROVE  Reading(q)'
  <2>1. /\ need[q] <= seq /\ epoch0[q] <= epoch /\ epoch0[q] % 2 = 0
        /\ \A w \in Writer : Correcting(w) => op[w].seq > need[q]
    BY <1>3 DEF ReadInv, Reading
  <2>2. need[q] \in Nat /\ seq \in Nat /\ epoch \in Nat /\ epoch0[q] \in Nat
    BY DEF ReadInv, ReadType, StoreInv, StoreType, Version
  <2>3. need[q] <= seq' /\ epoch0[q] <= epoch'
    <3>1. seq' \in Nat /\ epoch' \in Nat /\ seq <= seq' /\ epoch <= epoch'
      BY DEF WriterMoves, StoreInv, StoreType, Version
    <3> QED
      BY <2>1, <2>2, <3>1
  <2>4. ASSUME NEW w \in Writer, Correcting(w)' PROVE op'[w].seq > need[q]
    <3>1. CASE Correcting(w) /\ op'[w] = op[w]
      BY <2>1, <3>1
    <3>2. CASE op'[w].seq > seq
      <4>1. op'[w].seq \in Nat
        BY <2>4 DEF Correcting, Holding, StoreInv, StoreType, Version
      <4> QED
        BY <2>1, <2>2, <3>2, <4>1
    <3> QED
      BY <2>4, <3>1, <3>2 DEF WriterMoves, CorrectionsNew
  <2>5. ASSUME epoch' = epoch0[q]
        PROVE  /\ epoch = epoch0[q]
               /\ \A r \in Rid : row[r].status # "absent" =>
                     row'[r].text = row[r].text /\ row'[r].facts = row[r].facts
    <3>1. epoch' \in Nat /\ epoch <= epoch'
      BY DEF WriterMoves, StoreInv, StoreType
    <3>2. epoch = epoch0[q]
      BY <2>1, <2>2, <2>5, <3>1
    <3>3. ~Odd
      BY <2>1, <3>2 DEF Odd
    <3> QED
      BY <3>2, <3>3 DEF WriterMoves, RowsKept
  <2>6. ASSUME NEW h \in hits[q], rpc[q] # "search"
        PROVE  /\ h.rid \in Rid /\ row[h.rid].status # "absent"
               /\ row'[h.rid].status # "absent"
               /\ row'[h.rid].text = row[h.rid].text \/ row'[h.rid].text > need[q]
    <3>1. h.rid \in Rid
      BY DEF ReadInv, ReadType, Hit
    <3>2. row[h.rid].status # "absent"
      BY <1>3, <2>6 DEF ReadInv, Reading
    <3> QED
      BY <2>1, <3>1, <3>2 DEF WriterMoves, RowsKept
  <2>7. hits'[q] = hits[q] /\ need'[q] = need[q] /\ epoch0'[q] = epoch0[q] /\ rpc'[q] = rpc[q]
    BY <1>3
  <2>8. Reading(q)
    BY DEF ReadInv
  <2>9. rpc[q] \in {"score", "hydrate", "validate", "answered"} =>
           \A h \in hits[q] : row'[h.rid].status # "absent"
    BY <2>6
  <2>10. /\ rpc[q] \in {"score", "hydrate"} /\ epoch' = epoch0[q] =>
               \A h \in hits[q] : h.vector = row'[h.rid].text
         /\ rpc[q] = "hydrate" /\ epoch' = epoch0[q] =>
               \A h \in hits[q] : h.scores = row'[h.rid].facts
    BY <2>5, <2>6, <2>8 DEF Reading
  <2>11. (rpc[q] = "validate" /\ epoch' = epoch0[q]) \/ rpc[q] = "answered" =>
               \A h \in hits[q] : h.vector = h.text /\ h.scores = h.facts
    BY <2>5, <2>8 DEF Reading
  <2>12. rpc[q] \in {"validate", "answered"} =>
               \A h \in hits[q] : h.text = row'[h.rid].text \/ row'[h.rid].text > need[q]
    BY <2>6, <2>8 DEF Reading
  <2>13. rpc[q] = "validate" /\ epoch' = epoch0[q] =>
               \A h \in hits[q] : h.text = row'[h.rid].text /\ h.facts = row'[h.rid].facts
    BY <2>5, <2>6, <2>8 DEF Reading
  <2> QED
    BY <2>1, <2>3, <2>4, <2>7, <2>9, <2>10, <2>11, <2>12, <2>13 DEF Reading
<1>4. ASSUME NEW q \in Reader, rpc'[q] = rpc[q],
             rpc[q] \notin {"search", "score", "hydrate", "validate", "answered"}
      PROVE  Reading(q)'
  <2>1. rpc[q] = "enter" => need[q] <= seq
    BY <1>4 DEF ReadInv, Reading
  <2>2. need[q] \in Nat /\ seq \in Nat /\ seq' \in Nat /\ seq <= seq'
    BY DEF ReadInv, ReadType, StoreInv, StoreType, Version, WriterMoves
  <2>3. rpc[q] = "enter" => need[q] <= seq'
    BY <2>1, <2>2
  <2> QED
    BY <1>4, <2>3 DEF Reading
<1>5. ASSUME NEW q \in Reader, rpc'[q] = "check" PROVE Reading(q)'
  BY <1>5 DEF Reading
<1> QED
  BY <1>1, <1>2, <1>3, <1>4, <1>5 DEF ReadInv

\* What a reader does is nothing to the others, nor to the store.
LEMMA OthersKeep ==
    ASSUME ReadInv, NEW q \in Reader, NEW x \in Reader, x # q,
           UNCHANGED <<rowVars, seq, mark, epoch, conn, writerVars>>,
           rpc'[x] = rpc[x], need'[x] = need[x], epoch0'[x] = epoch0[x], hits'[x] = hits[x]
    PROVE  Reading(x)'
<1>1. Reading(x)
  BY DEF ReadInv
<1>2. \A w \in Writer : Correcting(w)' <=> Correcting(w)
  BY DEF Correcting, Holding, writerVars
<1> QED
  BY <1>1, <1>2 DEF Reading, rowVars, writerVars

\* One reader's step: only its own entries change, to ones of their types.
OnlyReader(q) ==
    \A x \in Reader : x # q =>
        rpc'[x] = rpc[x] /\ need'[x] = need[x] /\ epoch0'[x] = epoch0[x] /\ hits'[x] = hits[x]

LEMMA OneReads ==
    ASSUME ReadInv, NEW q \in Reader, ReadType', OnlyReader(q), Reading(q)',
           UNCHANGED <<rowVars, seq, mark, epoch, conn, writerVars>>
    PROVE  ReadInv'
<1>1. ASSUME NEW x \in Reader, x # q PROVE Reading(x)'
  BY <1>1, OthersKeep DEF OnlyReader
<1> QED
  BY <1>1 DEF ReadInv

LEMMA ReaderType ==
    ASSUME ReadInv, NEW q \in Reader
    PROVE  /\ need[q] \in Version /\ epoch0[q] \in Nat
           /\ tries[q] \in 0..(MaxAttempts - 1) /\ hits[q] \in SUBSET Hit
           /\ 0 \in Version /\ 0 \in 0..(MaxAttempts - 1) /\ need[q] \in Nat
           /\ need = [need EXCEPT ![q] = need[q]]
           /\ epoch0 = [epoch0 EXCEPT ![q] = epoch0[q]]
           /\ tries = [tries EXCEPT ![q] = tries[q]]
           /\ hits = [hits EXCEPT ![q] = hits[q]]
  BY ConstantsAssumption DEF ReadInv, ReadType, Version

LEMMA ReturnStep ==
    ASSUME ReadInv, NEW q \in Reader, Return(q)
    PROVE  ReadInv'
<1>1. /\ rpc' = [rpc EXCEPT ![q] = "idle"] /\ need' = [need EXCEPT ![q] = 0]
      /\ epoch0' = [epoch0 EXCEPT ![q] = 0] /\ tries' = [tries EXCEPT ![q] = 0]
      /\ hits' = [hits EXCEPT ![q] = {}]
      /\ UNCHANGED <<rowVars, seq, mark, epoch, conn, writerVars>>
  BY DEF Return, Goto
<1>2. /\ {} \in SUBSET Hit /\ 0 \in Nat /\ 0 \in Version /\ 0 \in 0..(MaxAttempts - 1)
  BY ReaderType
<1>3. ReadType' /\ OnlyReader(q) /\ rpc'[q] = "idle"
  BY <1>1, <1>2 DEF ReadInv, ReadType, OnlyReader
<1>4. Reading(q)'
  BY <1>3 DEF Reading
<1> QED
  BY <1>1, <1>3, <1>4, OneReads

\* A reader that only moves on: what it is about to do asks nothing of it, or
\* only that its number has been given out.
LEMMA MovesOn ==
    ASSUME StoreInv, ReadInv, NEW q \in Reader,
           NEW step \in {"check", "recheck", "park", "asleep", "enter"},
           NEW n \in Version, need' = [need EXCEPT ![q] = n],
           step = "enter" => n <= seq,
           Goto(q, step),
           UNCHANGED <<rowVars, seq, mark, epoch, conn, writerVars, epoch0>>,
           NEW t \in 0..(MaxAttempts - 1), tries' = [tries EXCEPT ![q] = t],
           NEW found \in SUBSET Hit, hits' = [hits EXCEPT ![q] = found]
    PROVE  ReadInv'
<1>1. rpc' = [rpc EXCEPT ![q] = step]
  BY DEF Goto
<1>2. /\ ReadType' /\ OnlyReader(q)
      /\ rpc'[q] = step /\ need'[q] = n
  BY <1>1 DEF ReadInv, ReadType, OnlyReader
<1>3. Reading(q)'
  BY <1>2 DEF Reading
<1> QED
  BY <1>2, <1>3, OneReads

LEMMA CallStep ==
    ASSUME StoreInv, ReadInv, NEW q \in Reader, NEW n \in 0..MaxSeq, Call(q, n)
    PROVE  ReadInv'
<1>1. n \in Version /\ 0 <= seq
  BY DEF Version, StoreInv, StoreType
<1>2. CASE n = 0
  BY <1>1, <1>2, MovesOn, ReaderType DEF Call
<1>3. CASE n # 0
  BY <1>1, <1>3, MovesOn, ReaderType DEF Call
<1> QED
  BY <1>2, <1>3

\* A reader that only moves to another step of its wait.
LEMMA WaitMoves ==
    ASSUME StoreInv, ReadInv, NEW q \in Reader,
           NEW step \in {"check", "recheck", "park", "asleep", "enter"},
           Goto(q, step), step = "enter" => need[q] <= seq,
           UNCHANGED <<rowVars, seq, mark, epoch, conn, writerVars, need, epoch0, tries, hits>>
    PROVE  ReadInv'
<1>1. /\ need[q] \in Version /\ tries[q] \in 0..(MaxAttempts - 1) /\ hits[q] \in SUBSET Hit
      /\ need = [need EXCEPT ![q] = need[q]]
      /\ tries = [tries EXCEPT ![q] = tries[q]]
      /\ hits = [hits EXCEPT ![q] = hits[q]]
  BY ReaderType
<1>2. /\ need' = [need EXCEPT ![q] = need[q]]
      /\ tries' = [tries EXCEPT ![q] = tries[q]]
      /\ hits' = [hits EXCEPT ![q] = hits[q]]
  BY <1>1
<1>3. UNCHANGED <<rowVars, seq, mark, epoch, conn, writerVars, epoch0>>
  OBVIOUS
<1>4. Goto(q, step) /\ (step = "enter" => need[q] <= seq)
  OBVIOUS
<1> QED
  BY ONLY StoreInv, ReadInv, <1>1, <1>2, <1>3, <1>4, MovesOn

\* Past the watermark the number has been given out.
LEMMA WaitSteps ==
    ASSUME StoreInv, ReadInv, NEW q \in Reader,
           Check(q) \/ Park(q) \/ TimesOut(q) \/ Expires(q)
    PROVE  ReadInv'
<1>1. Reached(q) => need[q] <= seq
  BY DEF Reached, ReadInv, ReadType, StoreInv, StoreType, Numbers, Version
<1>2. CASE Check(q)
  <2>1. PICK step \in {"recheck", "park", "enter"} :
           /\ Goto(q, step) /\ (step = "enter" => Reached(q))
           /\ UNCHANGED <<rowVars, seq, mark, epoch, conn, writerVars, need, epoch0, tries, hits>>
    <3>1. rpc[q] \in {"check", "recheck"}
      BY <1>2 DEF Check
    <3>2. CASE Reached(q)
      BY <1>2, <3>2 DEF Check
    <3>3. CASE ~Reached(q) /\ rpc[q] = "check"
      BY <1>2, <3>3 DEF Check
    <3>4. CASE ~Reached(q) /\ rpc[q] = "recheck"
      BY <1>2, <3>4 DEF Check
    <3> QED
      BY <3>1, <3>2, <3>3, <3>4
  <2> QED
    BY <1>1, <2>1, WaitMoves
<1>3. CASE Park(q)
  BY <1>3, WaitMoves DEF Park
<1>4. CASE TimesOut(q)
  <2>1. CASE Reached(q)
    <3>1. /\ Goto(q, "enter")
          /\ UNCHANGED <<rowVars, seq, mark, epoch, conn, writerVars, need, epoch0, tries, hits>>
      BY <1>4, <2>1 DEF TimesOut
    <3> QED
      BY <1>1, <2>1, <3>1, WaitMoves
  <2> QED
    BY <1>4, <2>1, ReturnStep DEF TimesOut
<1>5. CASE Expires(q)
  BY <1>5, ReturnStep DEF Expires
<1> QED
  BY <1>2, <1>3, <1>4, <1>5

\* With an even epoch the live records' vectors and cached scalars are their
\* rows', or not there yet.
LEMMA QuietReads ==
    ASSUME StoreInv, ~Odd, NEW r \in Rid
    PROVE  /\ vec[r].text # 0 => vec[r].text = row[r].text
           /\ cached[r] # 0 => cached[r] = row[r].facts
<1>1. \A w \in Writer : VectorDue(w) /\ op[w].rid = r => vec[r].text = 0
  <2>1. ASSUME NEW w \in Writer, VectorDue(w), op[w].rid = r PROVE vec[r].text = 0
    <3>1. wpc[w] # "idle" /\ Holding(w) /\ Working(w)
      BY <2>1 DEF VectorDue, Holding, Inserts, StoreInv
    <3>2. op[w].kind \notin Corrections
      BY <3>1 DEF StoreInv, OneWriter
    <3> QED
      BY <2>1, <3>1, <3>2 DEF VectorDue, Working, Corrections
  <2> QED
    BY <2>1
<1>2. \A w \in Writer : CacheDue(w) /\ op[w].rid = r => cached[r] = 0
  <2>1. ASSUME NEW w \in Writer, CacheDue(w), op[w].rid = r PROVE cached[r] = 0
    <3>1. wpc[w] # "idle" /\ Holding(w) /\ Working(w)
      BY <2>1 DEF CacheDue, Holding, StoreInv
    <3>2. op[w].kind \notin Corrections
      BY <3>1 DEF StoreInv, OneWriter
    <3> QED
      BY <2>1, <3>1, <3>2 DEF CacheDue, Working, Corrections, Inserts
  <2> QED
    BY <2>1
<1>3. Recorded(r) /\ row[r].status \in {"absent", "active", "tombstoned"}
  BY DEF StoreInv, StoreType
<1> QED
  BY <1>1, <1>2, <1>3 DEF Recorded, Active

LEMMA EnterStep ==
    ASSUME StoreInv, ReadInv, NEW q \in Reader, Enter(q)
    PROVE  ReadInv'
<1>1. /\ epoch0' = [epoch0 EXCEPT ![q] = epoch] /\ rpc' = [rpc EXCEPT ![q] = "search"]
      /\ UNCHANGED <<rowVars, seq, mark, epoch, conn, writerVars, need, tries, hits>>
      /\ rpc[q] = "enter" /\ ~Odd
  BY DEF Enter, Goto
<1>2. epoch \in Nat /\ epoch % 2 = 0 /\ epoch <= epoch
  BY <1>1, Parity DEF StoreInv, StoreType, Odd
<1>3. need[q] <= seq
  BY <1>1 DEF ReadInv, Reading
<1>4. \A w \in Writer : ~Correcting(w)'
  BY <1>1 DEF StoreInv, OneWriter, Correcting, Holding, writerVars
<1>5. ReadType' /\ OnlyReader(q) /\ rpc'[q] = "search" /\ epoch0'[q] = epoch
  BY <1>1, <1>2 DEF ReadInv, ReadType, OnlyReader
<1>6. Reading(q)'
  BY <1>1, <1>2, <1>3, <1>4, <1>5 DEF Reading
<1> QED
  BY <1>1, <1>5, <1>6, OneReads

\* What holds of a reader past the epoch's first reading, at the next step.
LEMMA InSpan ==
    ASSUME StoreInv, ReadInv, NEW q \in Reader,
           rpc[q] \in {"search", "score", "hydrate", "validate", "answered"},
           UNCHANGED <<rowVars, seq, mark, epoch, conn, writerVars, need, epoch0>>
    PROVE  /\ need'[q] <= seq' /\ epoch0'[q] <= epoch' /\ epoch0'[q] % 2 = 0
           /\ \A w \in Writer : Correcting(w)' => op'[w].seq > need'[q]
           /\ epoch = epoch0[q] => ~Odd
<1>1. Reading(q)
  BY DEF ReadInv
<1>2. \A w \in Writer : Correcting(w)' <=> Correcting(w)
  BY DEF Correcting, Holding, writerVars
<1> QED
  BY <1>1, <1>2 DEF Reading, Odd, writerVars

LEMMA SearchStep ==
    ASSUME StoreInv, ReadInv, NEW q \in Reader, Search(q)
    PROVE  ReadInv'
<1> DEFINE found == {[rid |-> r, vector |-> vec[r].text, scores |-> 0, text |-> 0, facts |-> 0]
                        : r \in {x \in Rid : vec[x].text # 0}}
           step == IF found = {} THEN "validate" ELSE "score"
<1>1. /\ hits' = [hits EXCEPT ![q] = found] /\ rpc[q] = "search"
      /\ UNCHANGED <<rowVars, seq, mark, epoch, conn, writerVars, need, epoch0, tries>>
  BY DEF Search
<1>2. hits'[q] = found
  BY <1>1 DEF ReadInv, ReadType
<1>3. rpc' = [rpc EXCEPT ![q] = step]
  BY <1>2 DEF Search, Goto
<1>4. found \in SUBSET Hit
  BY ConstantsAssumption DEF Hit, Version, StoreInv, StoreType
<1>5. ASSUME NEW h \in found
      PROVE  /\ row[h.rid].status # "absent"
             /\ epoch = epoch0[q] => h.vector = row[h.rid].text
  <2>1. PICK r \in Rid : /\ vec[r].text # 0
                         /\ h = [rid |-> r, vector |-> vec[r].text, scores |-> 0, text |-> 0, facts |-> 0]
    BY <1>5
  <2>2. h.rid = r /\ h.vector = vec[r].text
    BY <2>1
  <2>3. row[r].status # "absent"
    BY <2>1 DEF StoreInv, Recorded
  <2>4. epoch = epoch0[q] => vec[r].text = row[r].text
    BY <1>1, <2>1, InSpan, QuietReads
  <2> QED
    BY <2>2, <2>3, <2>4
<1>6. step \in {"score", "validate"} /\ (step = "validate" => found = {})
  OBVIOUS
<1> HIDE DEF found, step
<1>7. ReadType' /\ OnlyReader(q) /\ rpc'[q] = step /\ hits'[q] = found
  BY <1>1, <1>3, <1>4, <1>6 DEF ReadInv, ReadType, OnlyReader
<1>8. Reading(q)'
  <2>1. /\ need'[q] <= seq' /\ epoch0'[q] <= epoch' /\ epoch0'[q] % 2 = 0
        /\ \A w \in Writer : Correcting(w)' => op'[w].seq > need'[q]
    BY <1>1, InSpan
  <2>2. row' = row /\ epoch' = epoch /\ epoch0' = epoch0
    BY <1>1 DEF rowVars
  <2>3. step = "score" => Reading(q)'
    BY <1>5, <1>7, <2>1, <2>2 DEF Reading
  <2>4. step = "validate" => Reading(q)'
    BY <1>6, <1>7, <2>1, <2>2 DEF Reading
  <2> QED
    BY <1>6, <2>3, <2>4
<1> QED
  BY <1>1, <1>7, <1>8, OneReads

LEMMA ScoreStep ==
    ASSUME StoreInv, ReadInv, NEW q \in Reader, Score(q)
    PROVE  ReadInv'
<1> DEFINE found == {[h EXCEPT !.scores = cached[h.rid]] : h \in {x \in hits[q] : cached[x.rid] # 0}}
<1>1. /\ hits' = [hits EXCEPT ![q] = found] /\ rpc[q] = "score"
      /\ rpc' = [rpc EXCEPT ![q] = "hydrate"]
      /\ UNCHANGED <<rowVars, seq, mark, epoch, conn, writerVars, need, epoch0, tries>>
  BY DEF Score, Goto, ReadInv, ReadType
<1>2. ASSUME NEW h \in found
      PROVE  /\ h \in Hit /\ row[h.rid].status # "absent"
             /\ epoch = epoch0[q] => h.vector = row[h.rid].text /\ h.scores = row[h.rid].facts
  <2>1. PICK g \in hits[q] : cached[g.rid] # 0 /\ h = [g EXCEPT !.scores = cached[g.rid]]
    BY <1>2
  <2>2. g \in Hit
    BY ReaderType
  <2>3. g.rid \in Rid /\ cached[g.rid] \in Version
    BY <2>2 DEF Hit, StoreInv, StoreType
  <2>4. h \in Hit /\ h.rid = g.rid /\ h.vector = g.vector /\ h.scores = cached[g.rid]
    BY <2>1, <2>2, <2>3 DEF Hit
  <2>5. row[g.rid].status # "absent" /\ (epoch = epoch0[q] => g.vector = row[g.rid].text)
    BY <1>1 DEF ReadInv, Reading
  <2>6. epoch = epoch0[q] => cached[g.rid] = row[g.rid].facts
    BY <1>1, <2>1, <2>3, InSpan, QuietReads
  <2> QED
    BY <2>4, <2>5, <2>6
<1> HIDE DEF found
<1>3. found \in SUBSET Hit
  BY <1>2
<1>4. ReadType' /\ OnlyReader(q) /\ rpc'[q] = "hydrate" /\ hits'[q] = found
  BY <1>1, <1>3 DEF ReadInv, ReadType, OnlyReader
<1>5. Reading(q)'
  <2>1. /\ need'[q] <= seq' /\ epoch0'[q] <= epoch' /\ epoch0'[q] % 2 = 0
        /\ \A w \in Writer : Correcting(w)' => op'[w].seq > need'[q]
    BY <1>1, InSpan
  <2>2. row' = row /\ epoch' = epoch /\ epoch0' = epoch0
    BY <1>1 DEF rowVars
  <2> QED
    BY <1>2, <1>4, <2>1, <2>2 DEF Reading
<1> QED
  BY <1>1, <1>4, <1>5, OneReads

LEMMA HydrateStep ==
    ASSUME StoreInv, ReadInv, NEW q \in Reader, Hydrate(q)
    PROVE  ReadInv'
<1> DEFINE found == {[h EXCEPT !.text = row[h.rid].text, !.facts = row[h.rid].facts] : h \in hits[q]}
<1>1. /\ hits' = [hits EXCEPT ![q] = found] /\ rpc[q] = "hydrate"
      /\ rpc' = [rpc EXCEPT ![q] = "validate"]
      /\ UNCHANGED <<rowVars, seq, mark, epoch, conn, writerVars, need, epoch0, tries>>
  BY DEF Hydrate, Goto, ReadInv, ReadType
<1>2. ASSUME NEW h \in found
      PROVE  /\ h \in Hit /\ row[h.rid].status # "absent" /\ h.text = row[h.rid].text
             /\ h.facts = row[h.rid].facts
             /\ epoch = epoch0[q] => h.vector = h.text /\ h.scores = h.facts
  <2>1. PICK g \in hits[q] : h = [g EXCEPT !.text = row[g.rid].text, !.facts = row[g.rid].facts]
    BY <1>2
  <2>2. g \in Hit
    BY ReaderType
  <2>3. g.rid \in Rid /\ row[g.rid].text \in Version /\ row[g.rid].facts \in Version
    BY <2>2 DEF Hit, StoreInv, StoreType
  <2>4. /\ h \in Hit /\ h.rid = g.rid /\ h.vector = g.vector /\ h.scores = g.scores
        /\ h.text = row[g.rid].text /\ h.facts = row[g.rid].facts
    BY <2>1, <2>2, <2>3 DEF Hit
  <2>5. row[g.rid].status # "absent"
        /\ (epoch = epoch0[q] => g.vector = row[g.rid].text /\ g.scores = row[g.rid].facts)
    BY <1>1 DEF ReadInv, Reading
  <2> QED
    BY <2>4, <2>5
<1> HIDE DEF found
<1>3. found \in SUBSET Hit
  BY <1>2
<1>4. ReadType' /\ OnlyReader(q) /\ rpc'[q] = "validate" /\ hits'[q] = found
  BY <1>1, <1>3 DEF ReadInv, ReadType, OnlyReader
<1>5. Reading(q)'
  <2>1. /\ need'[q] <= seq' /\ epoch0'[q] <= epoch' /\ epoch0'[q] % 2 = 0
        /\ \A w \in Writer : Correcting(w)' => op'[w].seq > need'[q]
    BY <1>1, InSpan
  <2>2. row' = row /\ epoch' = epoch /\ epoch0' = epoch0
    BY <1>1 DEF rowVars
  <2> QED
    BY <1>2, <1>4, <2>1, <2>2 DEF Reading
<1> QED
  BY <1>1, <1>4, <1>5, OneReads

LEMMA ValidateStep ==
    ASSUME StoreInv, ReadInv, NEW q \in Reader, Validate(q)
    PROVE  ReadInv'
<1>1. /\ rpc[q] = "validate" /\ epoch = epoch0[q] /\ rpc' = [rpc EXCEPT ![q] = "answered"]
      /\ UNCHANGED <<rowVars, seq, mark, epoch, conn, writerVars, need, epoch0, tries, hits>>
  BY DEF Validate, Goto
<1>2. /\ need'[q] <= seq' /\ epoch0'[q] <= epoch' /\ epoch0'[q] % 2 = 0
      /\ \A w \in Writer : Correcting(w)' => op'[w].seq > need'[q]
  BY <1>1, InSpan
<1>3. Reading(q) /\ row' = row
  BY <1>1 DEF ReadInv, rowVars
<1>4. ReadType' /\ OnlyReader(q) /\ rpc'[q] = "answered"
  BY <1>1 DEF ReadInv, ReadType, OnlyReader
<1>5. Reading(q)'
  BY <1>1, <1>2, <1>3, <1>4 DEF Reading
<1> QED
  BY <1>1, <1>4, <1>5, OneReads

LEMMA RetryStep ==
    ASSUME StoreInv, ReadInv, NEW q \in Reader, Retry(q)
    PROVE  ReadInv'
<1>1. CASE tries[q] + 1 < MaxAttempts
  <2>1. /\ Goto(q, "enter") /\ tries' = [tries EXCEPT ![q] = tries[q] + 1]
        /\ hits' = [hits EXCEPT ![q] = {}] /\ rpc[q] = "validate"
        /\ UNCHANGED <<rowVars, seq, mark, epoch, conn, writerVars, need, epoch0>>
    BY <1>1 DEF Retry, ReadInv, ReadType
  <2>2. tries[q] + 1 \in 0..(MaxAttempts - 1) /\ {} \in SUBSET Hit
    BY <1>1, ReaderType, ConstantsAssumption
  <2>3. need[q] <= seq
    BY <2>1 DEF ReadInv, Reading
  <2> QED
    BY <2>1, <2>2, <2>3, MovesOn, ReaderType
<1>2. CASE ~(tries[q] + 1 < MaxAttempts)
  BY <1>2, ReturnStep DEF Retry
<1> QED
  BY <1>1, <1>2

LEMMA ReadInvNext ==
    ASSUME StoreInv, StoreInv', ReadInv, [Next]_vars
    PROVE  ReadInv'
<1>1. seq <= seq /\ epoch <= epoch
  BY DEF StoreInv, StoreType, Version
<1>2. CASE UNCHANGED vars
  <2>1. WriterMoves
    BY <1>1, <1>2 DEF vars, rowVars, writerVars, WriterMoves, RowsKept, CorrectionsNew,
                      Correcting, Holding
  <2> QED
    BY <1>2, <2>1, ReadersKeep DEF vars, readerVars
<1>3. ASSUME NEW w \in Writer, Start(w) PROVE ReadInv'
  <2>1. UNCHANGED readerVars
    BY <1>3 DEF Start, Begin, BeginAgain, Forget
  <2> QED
    BY <1>3, <2>1, StartMoves, ReadersKeep DEF readerVars
<1>4. ASSUME NEW w \in Writer, Write(w) PROVE ReadInv'
  <2>1. /\ UNCHANGED <<need, epoch0, tries, hits>>
        /\ \/ UNCHANGED rpc
           \/ rpc' = [q \in Reader |-> IF rpc[q] = "asleep" THEN "check" ELSE rpc[q]]
    BY <1>4 DEF Write, Commit, CommitFails, Publish, Cache, Bump, Notify, Release, Bury,
                Uncache, readerVars
  <2> QED
    BY <1>4, <2>1, WriteMoves, ReadersKeep
<1>5. ASSUME NEW r \in Rid, Compact(r) PROVE ReadInv'
  <2>1. UNCHANGED <<row, seq, epoch, writerVars, readerVars>>
    BY <1>5 DEF Compact
  <2>2. WriterMoves
    BY <1>1, <2>1 DEF writerVars, WriterMoves, RowsKept, CorrectionsNew, Correcting, Holding
  <2> QED
    BY <2>1, <2>2, ReadersKeep DEF readerVars
<1>6. ASSUME NEW q \in Reader, Read(q) PROVE ReadInv'
  <2>1. CASE SpinsOut(q) \/ Answer(q)
    BY <2>1, ReturnStep DEF SpinsOut, Answer
  <2> QED
    BY <1>6, <2>1, WaitSteps, EnterStep, SearchStep, ScoreStep, HydrateStep, ValidateStep,
       RetryStep DEF Read
<1>7. ASSUME NEW q \in Reader, NEW n \in 0..MaxSeq, Call(q, n) PROVE ReadInv'
  BY <1>7, CallStep
<1> QED
  BY <1>2, <1>3, <1>4, <1>5, <1>6, <1>7 DEF Next

-----------------------------------------------------------------------------
(* Theorems *)

\* The invariant: where the log repeats no write after a later one.
LEMMA RecallInv ==
    ASSUME ~Reordered
    PROVE  Spec => [](StoreInv /\ ReadInv)
<1>1. Init => StoreInv /\ ReadInv
  BY StoreInvInit, ReadInvInit
<1>2. StoreInv /\ ReadInv /\ [Next]_vars => (StoreInv /\ ReadInv)'
  BY StoreInvNext, ReadInvNext
<1> QED
  BY <1>1, <1>2, PTL DEF Spec

\* Every variable has its type, for any records, writers and readers.
THEOREM RecallTypeCorrect ==
    ASSUME ~Reordered
    PROVE  Spec => []TypeOK
<1>1. StoreInv /\ ReadInv => TypeOK
  BY DEF StoreInv, StoreType, ReadInv, ReadType, TypeOK
<1> QED
  BY <1>1, RecallInv, PTL

\* A recall that waited for a number never hands out a text that a correction
\* up to that number replaced (recall_with_seq).
THEOREM WaitedRecallsAreNew ==
    ASSUME ~Reordered
    PROVE  Spec => []NoStaleCorrection
<1>1. StoreInv /\ ReadInv => NoStaleCorrection
  <2>1. SUFFICES ASSUME StoreInv, ReadInv, NEW q \in Reader, rpc[q] = "answered",
                        NEW h \in hits[q], row[h.rid].text <= need[q]
                 PROVE  h.text = row[h.rid].text
    BY DEF NoStaleCorrection
  <2>2. h.text = row[h.rid].text \/ row[h.rid].text > need[q]
    BY <2>1 DEF ReadInv, Reading
  <2>3. h.rid \in Rid /\ need[q] \in Nat
    BY <2>1, ReaderType DEF Hit
  <2>4. row[h.rid].text \in Nat
    BY <2>1, <2>3 DEF StoreInv, StoreType, Version
  <2> QED
    BY <2>1, <2>2, <2>3, <2>4
<1> QED
  BY <1>1, RecallInv, PTL

\* A live record with no write on it is found by the vector of its text and
\* scored by its own scalars (lifecycle.rs, "highest seq == last committed
\* text").
THEOREM SettledRecordsAgree ==
    ASSUME ~Reordered
    PROVE  Spec => []SettledIsCoherent
<1>1. StoreInv /\ ReadInv => SettledIsCoherent
  <2>1. SUFFICES ASSUME StoreInv, NEW r \in Rid, Active(r), ~Busy(r)
                 PROVE  vec[r].text = row[r].text /\ cached[r] = row[r].facts
    BY DEF SettledIsCoherent
  <2>2. \A w \in Writer : op[w].rid = r => ~VectorDue(w) /\ ~CacheDue(w)
    BY <2>1 DEF Busy, VectorDue, CacheDue
  <2> QED
    BY <2>1, <2>2 DEF StoreInv, Recorded
<1> QED
  BY <1>1, RecallInv, PTL

\* A forgotten record leaves the index and the cache for good (tombstone_inner,
\* and the active recheck of correct_with_reembed).
THEOREM ForgottenRecordsAreOut ==
    ASSUME ~Reordered
    PROVE  Spec => []ForgottenIsOut
<1>1. StoreInv /\ ReadInv => ForgottenIsOut
  BY DEF StoreInv, Recorded, ForgottenIsOut, Busy
<1> QED
  BY <1>1, RecallInv, PTL

-----------------------------------------------------------------------------
(* An answer is read in one step *)

\* Versions are numbers given out, and a correction's is above its row's.
Ages ==
    /\ \A r \in Rid : row[r].text <= seq /\ row[r].facts <= seq
    /\ \A w \in Writer : Correcting(w) =>
          op[w].seq > row[op[w].rid].text /\ op[w].seq > row[op[w].rid].facts

LEMMA AgesInit == Init => Ages
<1> SUFFICES ASSUME Init PROVE Ages
  OBVIOUS
<1>1. PICK stored \in SUBSET Rid : Opened(stored)
  BY DEF Init
<1>2. ASSUME NEW r \in Rid PROVE row[r].text <= 1 /\ row[r].facts <= 1
  BY <1>1 DEF Opened, NoRow
<1> QED
  BY <1>2 DEF Init, Ages, Correcting, Holding

\* A step that leaves the versions alone: what begins to correct is newer.
LEMMA AgesKept ==
    ASSUME StoreInv, StoreInv', Ages, WriterMoves,
           \A r \in Rid : row'[r].text = row[r].text /\ row'[r].facts = row[r].facts
    PROVE  Ages'
<1>1. seq \in Nat /\ seq' \in Nat /\ seq <= seq'
  BY DEF StoreInv, StoreType, Version, WriterMoves
<1>2. \A r \in Rid : row[r].text \in Nat /\ row[r].facts \in Nat
  BY DEF StoreInv, StoreType, Version
<1>3. ASSUME NEW r \in Rid PROVE row'[r].text <= seq' /\ row'[r].facts <= seq'
  BY <1>1, <1>2, <1>3 DEF Ages
<1>4. ASSUME NEW w \in Writer, Correcting(w)'
      PROVE  op'[w].seq > row'[op'[w].rid].text /\ op'[w].seq > row'[op'[w].rid].facts
  <2>1. op'[w].rid \in Rid /\ op'[w].seq \in Nat
    BY <1>4 DEF Correcting, Holding, StoreInv, StoreType, Version
  <2>2. CASE Correcting(w) /\ op'[w] = op[w]
    BY <2>1, <2>2 DEF Ages
  <2>3. CASE op'[w].seq > seq
    <3>1. row[op'[w].rid].text <= seq /\ row[op'[w].rid].facts <= seq
      BY <2>1 DEF Ages
    <3> QED
      BY <1>1, <1>2, <2>1, <2>3, <3>1
  <2> QED
    BY <1>4, <2>2, <2>3 DEF WriterMoves, CorrectionsNew
<1> QED
  BY <1>3, <1>4 DEF Ages

LEMMA AgesCommit ==
    ASSUME StoreInv, StoreInv', Ages, NEW w \in Writer, Commit(w)
    PROVE  Ages'
<1> DEFINE r == op[w].rid
<1>1. /\ UNCHANGED <<seq, op, conn>> /\ row' = [row EXCEPT ![r] = Written(w)]
      /\ wpc[w] = "commit" /\ conn = w /\ Advance(w)
  BY DEF Commit
<1>2. r \in Rid /\ seq \in Nat /\ op[w].seq \in Nat /\ op[w].seq <= seq
  BY <1>1, OpType DEF StoreInv, StoreType, Numbers, Version
<1>3. row'[r] = Written(w) /\ \A s \in Rid : s # r => row'[s] = row[s]
  BY <1>1, <1>2 DEF StoreInv, StoreType
<1>4. /\ Written(w).text \in {row[r].text, op[w].seq}
      /\ Written(w).facts \in {row[r].facts, op[w].seq}
  <2>1. row[r] \in [status : {"absent", "active", "tombstoned"}, text : Version, facts : Version]
    BY <1>2 DEF StoreInv, StoreType
  <2> QED
    BY <2>1 DEF Written
<1>5. \A s \in Rid : row'[s].text <= seq' /\ row'[s].facts <= seq'
  BY <1>1, <1>2, <1>3, <1>4 DEF Ages
<1>6. ASSUME NEW x \in Writer, Correcting(x)' PROVE FALSE
  <2>1. conn' = x
    BY <1>6 DEF Correcting, StoreInv, OneWriter
  <2>2. wpc'[w] # "commit"
    <3>1. wpc'[w] = Then[op[w].kind][wpc[w]] /\ Fits(op[w].kind, wpc[w])
      BY <1>1, AdvanceStep
    <3> QED
      BY <1>1, <3>1, ThenSteps
  <2> QED
    BY <1>1, <1>6, <2>1, <2>2 DEF Correcting
<1> QED
  BY <1>5, <1>6 DEF Ages

LEMMA AgesNext ==
    ASSUME StoreInv, StoreInv', Ages, [Next]_vars
    PROVE  Ages'
<1>1. seq <= seq /\ epoch <= epoch
  BY DEF StoreInv, StoreType, Version
<1>2. CASE UNCHANGED <<row, seq, epoch, writerVars>>
  <2>1. WriterMoves
    BY <1>1, <1>2 DEF writerVars, WriterMoves, RowsKept, CorrectionsNew, Correcting, Holding
  <2> QED
    BY <1>2, <2>1, AgesKept
<1>3. ASSUME NEW w \in Writer, Start(w) PROVE Ages'
  <2>1. PICK r \in Rid : UNCHANGED row \/ row' = [row EXCEPT ![r].status = "tombstoned"]
    BY <1>3 DEF Start, Begin, BeginAgain, Forget, rowVars
  <2>2. \A s \in Rid : row'[s].text = row[s].text /\ row'[s].facts = row[s].facts
    BY <2>1 DEF StoreInv, StoreType
  <2> QED
    BY <1>3, <2>2, StartMoves, AgesKept
<1>4. ASSUME NEW w \in Writer, Write(w) PROVE Ages'
  <2>1. CASE Commit(w)
    BY <2>1, AgesCommit
  <2>2. CASE ~Commit(w)
    <3>1. UNCHANGED row
      BY <1>4, <2>2 DEF Write, CommitFails, Publish, Cache, Bump, Notify, Release, Bury,
                        Uncache, rowVars
    <3> QED
      BY <1>4, <3>1, WriteMoves, AgesKept
  <2> QED
    BY <2>1, <2>2
<1>5. ASSUME NEW r \in Rid, Compact(r) PROVE Ages'
  BY <1>2, <1>5 DEF Compact
<1>6. ASSUME NEW q \in Reader, Read(q) PROVE Ages'
  BY <1>2, <1>6 DEF Read, Check, Park, TimesOut, Expires, Enter, SpinsOut, Search, Score, Hydrate,
                    Validate, Retry, Answer, Return, rowVars
<1>7. ASSUME NEW q \in Reader, NEW n \in 0..MaxSeq, Call(q, n) PROVE Ages'
  BY <1>2, <1>7 DEF Call, rowVars
<1> QED
  BY <1>2, <1>3, <1>4, <1>5, <1>6, <1>7 DEF Next, vars, rowVars

\* A writer shows no answer and takes none away.
LEMMA WritersShowNothing ==
    ASSUME ReadInv, NEW w \in Writer, Start(w) \/ Write(w)
    PROVE  UNCHANGED Shown
<1>1. /\ UNCHANGED hits
      /\ \/ UNCHANGED rpc
         \/ rpc' = [q \in Reader |-> IF rpc[q] = "asleep" THEN "check" ELSE rpc[q]]
  BY DEF Start, Begin, BeginAgain, Forget, Write, Commit, CommitFails, Publish, Cache, Bump,
         Notify, Release, Bury, Uncache, readerVars
<1>2. \A q \in Reader : rpc'[q] = "answered" <=> rpc[q] = "answered"
  BY <1>1
<1> QED
  BY <1>1, <1>2 DEF Shown

LEMMA CommitMaps ==
    ASSUME StoreInv, StoreInv', Ages, NEW w \in Writer, Commit(w), UNCHANGED Shown
    PROVE  [Atomic!Next]_(Atomic!vars)
<1> DEFINE r == op[w].rid
           n == op[w].seq
<1>1. row' = [row EXCEPT ![r] = Written(w)] /\ wpc[w] = "commit"
      /\ (op[w].kind \in Corrections => Active(r))
  BY DEF Commit
<1>2. r \in Rid /\ n \in Version
  BY <1>1, OpType DEF StoreInv, StoreType
<1>3. Holding(w) /\ n # 0 /\ n \in Nat
  BY <1>1, <1>2 DEF Holding, StoreInv, OneWriter, Fits, Numbers, Version
<1>4. row[r] \in [status : {"absent", "active", "tombstoned"}, text : Version, facts : Version]
  BY <1>2 DEF StoreInv, StoreType
<1>5. op[w].kind \in Inserts \cup Corrections \cup {"again"}
  BY <1>1 DEF StoreInv, OneWriter, Fits, Inserts, Corrections
<1>6. CASE op[w].kind \in Inserts
  <2>1. row[r].status = "absent"
    BY <1>1, <1>6 DEF StoreInv, Working
  <2>2. row' = [row EXCEPT ![r] = [status |-> "active", text |-> n, facts |-> n]]
    <3>1. op[w].kind # "again" /\ op[w].kind # "scalar"
      BY <1>6 DEF Inserts
    <3>2. Written(w) = [status |-> "active", text |-> n, facts |-> n]
      BY <1>6, <3>1 DEF Written
    <3> QED
      BY <1>1, <3>2
  <2>3. Atomic!Insert(r, n)
    BY <1>3, <2>1, <2>2 DEF Atomic!Insert, Atomic!Status
  <2> QED
    BY <1>2, <2>3 DEF Atomic!Next
<1>7. CASE op[w].kind = "again"
  <2>1. row' = row
    BY <1>1, <1>2, <1>7 DEF Written, Inserts, StoreInv, StoreType
  <2> QED
    BY <2>1 DEF Atomic!vars
<1>8. CASE op[w].kind \in Corrections
  <2>1. Active(r) /\ n > row[r].text /\ n > row[r].facts
    BY <1>1, <1>3, <1>8 DEF Ages, Correcting
  <2>2. op[w].kind \notin Inserts /\ op[w].kind # "again"
    BY <1>8 DEF Inserts, Corrections
  <2>3. CASE op[w].kind = "scalar"
    <3>1. row' = [row EXCEPT ![r].facts = n]
      BY <1>1, <2>2, <2>3 DEF Written
    <3>2. Atomic!Rescore(r, n)
      BY <2>1, <3>1 DEF Atomic!Rescore, Atomic!Status, Active
    <3> QED
      BY <1>2, <3>2 DEF Atomic!Next
  <2>4. CASE op[w].kind # "scalar"
    <3>1. Written(w) = [row[r] EXCEPT !.text = n, !.facts = n]
      BY <2>2, <2>4, <1>8 DEF Written, Corrections
    <3>2. row = [x \in Rid |-> row[x]]
      BY DEF StoreInv, StoreType
    <3>3. [row EXCEPT ![r] = [row[r] EXCEPT !.text = n, !.facts = n]]
             = [row EXCEPT ![r].text = n, ![r].facts = n]
      BY ONLY <1>2, <1>4, <3>2
    <3>4. row' = [row EXCEPT ![r].text = n, ![r].facts = n]
      BY <1>1, <3>1, <3>3
    <3>5. Atomic!Correct(r, n)
      BY <2>1, <3>4 DEF Atomic!Correct, Atomic!Status, Active
    <3> QED
      BY <1>2, <3>5 DEF Atomic!Next
  <2> QED
    BY <2>3, <2>4
<1> QED
  BY <1>5, <1>6, <1>7, <1>8

\* The validation is the moment of the answer: with the epoch unmoved every hit
\* is its record's row.
LEMMA ValidateMaps ==
    ASSUME StoreInv, ReadInv, NEW q \in Reader, Validate(q)
    PROVE  Atomic!Answer(q)
<1> DEFINE found == {h.rid : h \in hits[q]}
<1>1. /\ rpc[q] = "validate" /\ epoch = epoch0[q] /\ rpc' = [rpc EXCEPT ![q] = "answered"]
      /\ UNCHANGED <<row, hits>>
  BY DEF Validate, Goto, rowVars
<1>2. /\ rpc'[q] = "answered" /\ \A x \in Reader : x # q => rpc'[x] = rpc[x]
  BY <1>1 DEF ReadInv, ReadType
<1>3. ASSUME NEW h \in hits[q]
      PROVE  h.rid \in Atomic!Known /\ h = Atomic!Current(h.rid)
  <2>1. h \in Hit /\ h.rid \in Rid
    BY ReaderType DEF Hit
  <2>2. /\ row[h.rid].status # "absent" /\ h.vector = h.text /\ h.scores = h.facts
        /\ h.text = row[h.rid].text /\ h.facts = row[h.rid].facts
    BY <1>1 DEF ReadInv, Reading
  <2>3. h = [rid |-> h.rid, vector |-> h.vector, scores |-> h.scores, text |-> h.text,
             facts |-> h.facts]
    BY <2>1 DEF Hit
  <2> QED
    BY <2>1, <2>2, <2>3 DEF Atomic!Known, Atomic!Status, Atomic!Current
<1>4. found \in SUBSET Atomic!Known
  BY <1>3
<1>5. hits[q] = {Atomic!Current(r) : r \in found}
  BY <1>3
<1>6. Shown' = [Shown EXCEPT ![q] = [given |-> TRUE, hits |-> hits[q]]]
  <2>1. Shown'[q] = [given |-> TRUE, hits |-> hits[q]]
    BY <1>1, <1>2 DEF Shown
  <2>2. \A x \in Reader : x # q => Shown'[x] = Shown[x]
    BY <1>1, <1>2 DEF Shown
  <2>3. Shown' = [x \in Reader |-> Shown'[x]] /\ Shown = [x \in Reader |-> Shown[x]]
    BY DEF Shown
  <2> QED
    BY <2>1, <2>2, <2>3
<1>7. ~Shown[q].given
  BY <1>1 DEF Shown
<1> QED
  BY <1>1, <1>4, <1>5, <1>6, <1>7 DEF Atomic!Answer

LEMMA AnswerMaps ==
    ASSUME ReadInv, NEW q \in Reader, Answer(q)
    PROVE  Atomic!Take(q)
<1>1. /\ rpc[q] = "answered" /\ rpc' = [rpc EXCEPT ![q] = "idle"]
      /\ hits' = [hits EXCEPT ![q] = {}] /\ UNCHANGED row
  BY DEF Answer, Return, Goto, rowVars
<1>2. /\ rpc'[q] = "idle"
      /\ \A x \in Reader : x # q => rpc'[x] = rpc[x] /\ hits'[x] = hits[x]
  BY <1>1 DEF ReadInv, ReadType
<1>3. Shown'[q] = Atomic!NoAnswer /\ \A x \in Reader : x # q => Shown'[x] = Shown[x]
  BY <1>2 DEF Shown, Atomic!NoAnswer
<1>4. Shown' = [x \in Reader |-> Shown'[x]] /\ Shown = [x \in Reader |-> Shown[x]]
  BY DEF Shown
<1>5. Shown' = [Shown EXCEPT ![q] = Atomic!NoAnswer]
  BY <1>3, <1>4
<1>6. Shown[q].given
  BY <1>1 DEF Shown
<1> QED
  BY <1>1, <1>5, <1>6 DEF Atomic!Take

\* Every other step of a reader is between calls, or within one.
LEMMA ReadsShowNothing ==
    ASSUME ReadInv, NEW q \in Reader,
           (Read(q) /\ ~Validate(q) /\ ~Answer(q)) \/ \E n \in 0..MaxSeq : Call(q, n)
    PROVE  UNCHANGED <<row, Shown>>
<1>1. PICK step \in {"check", "recheck", "park", "asleep", "enter", "idle", "search", "score",
                     "hydrate", "validate"} :
         rpc' = [rpc EXCEPT ![q] = step]
  <2>1. CASE Check(q)
    BY <2>1 DEF Check, Goto
  <2>2. CASE Search(q)
    BY <2>2 DEF Search, Goto
  <2>3. CASE \E n \in 0..MaxSeq : Call(q, n)
    BY <2>3 DEF Call, Goto
  <2> QED
    BY <2>1, <2>2, <2>3 DEF Read, Park, TimesOut, Expires, Enter, SpinsOut, Score, Hydrate, Retry,
                            Return, Goto
<1>2. /\ rpc[q] # "answered" /\ UNCHANGED row
      /\ UNCHANGED hits \/ \E found : hits' = [hits EXCEPT ![q] = found]
  BY DEF Read, Check, Park, TimesOut, Expires, Enter, SpinsOut, Search, Score, Hydrate, Retry,
         Return, Call, rowVars
<1>3. /\ rpc'[q] # "answered"
      /\ \A x \in Reader : x # q => rpc'[x] = rpc[x] /\ hits'[x] = hits[x]
  BY <1>1, <1>2 DEF ReadInv, ReadType
<1>4. \A x \in Reader : /\ rpc'[x] = "answered" <=> rpc[x] = "answered"
                        /\ rpc[x] = "answered" => hits'[x] = hits[x]
  BY <1>2, <1>3
<1> QED
  BY <1>2, <1>4 DEF Shown

LEMMA RecallMaps ==
    ASSUME StoreInv, StoreInv', ReadInv, Ages, [Next]_vars
    PROVE  [Atomic!Next]_(Atomic!vars)
<1>1. CASE UNCHANGED <<row, Shown>>
  BY <1>1 DEF Atomic!vars
<1>2. ASSUME NEW w \in Writer, Start(w) \/ Write(w) PROVE [Atomic!Next]_(Atomic!vars)
  <2>1. UNCHANGED Shown
    BY <1>2, WritersShowNothing
  <2>2. CASE Commit(w)
    BY <2>1, <2>2, CommitMaps
  <2>3. ASSUME NEW r \in Rid, Forget(w, r) PROVE Atomic!Forget(r)
    BY <2>1, <2>3 DEF Forget, Active, Atomic!Forget, Atomic!Status
  <2>4. CASE ~Commit(w) /\ ~(\E r \in Rid : Forget(w, r))
    <3>1. UNCHANGED row
      BY <1>2, <2>4 DEF Start, Begin, BeginAgain, Write, CommitFails, Publish, Cache, Bump,
                        Notify, Release, Bury, Uncache, rowVars
    <3> QED
      BY <1>1, <2>1, <3>1
  <2> QED
    BY <2>2, <2>3, <2>4 DEF Atomic!Next
<1>3. ASSUME NEW r \in Rid, Compact(r) PROVE [Atomic!Next]_(Atomic!vars)
  BY <1>1, <1>3 DEF Compact, readerVars, Shown
<1>4. ASSUME NEW q \in Reader, Read(q) \/ \E n \in 0..MaxSeq : Call(q, n)
      PROVE  [Atomic!Next]_(Atomic!vars)
  <2>1. CASE Validate(q)
    BY <2>1, ValidateMaps DEF Atomic!Next
  <2>2. CASE Answer(q)
    BY <2>2, AnswerMaps DEF Atomic!Next
  <2> QED
    BY <1>1, <1>4, <2>1, <2>2, ReadsShowNothing
<1>5. CASE UNCHANGED vars
  BY <1>1, <1>5 DEF vars, rowVars, readerVars, Shown
<1> QED
  BY <1>2, <1>3, <1>4, <1>5 DEF Next

LEMMA InitMaps == Init => Atomic!Init
<1> SUFFICES ASSUME Init PROVE Atomic!Init
  OBVIOUS
<1>1. PICK stored \in SUBSET Rid : Opened(stored)
  BY DEF Init
<1>2. row \in [Rid -> {[status |-> "absent", text |-> 0, facts |-> 0],
                       [status |-> "active", text |-> 1, facts |-> 1]}]
  BY <1>1 DEF Opened, NoRow
<1>3. Shown = [q \in Reader |-> Atomic!NoAnswer]
  BY DEF Init, Shown, Atomic!NoAnswer
<1> QED
  BY <1>2, <1>3 DEF Atomic!Init

\* Recalls are linearizable: beside any writers, with any number of attempts,
\* a store in which each write and each answer is one step explains all that
\* is seen, and the step of an answer is its validation (recall.rs,
\* correction_epoch_even and correction_epoch_validate).
THEOREM RecallIsAtomic ==
    ASSUME ~Reordered
    PROVE  Spec => AnswersAreAtomic
<1>1. Init => StoreInv /\ ReadInv /\ Ages
  BY StoreInvInit, ReadInvInit, AgesInit
<1>2. StoreInv /\ ReadInv /\ Ages /\ [Next]_vars => (StoreInv /\ ReadInv /\ Ages)'
  BY StoreInvNext, ReadInvNext, AgesNext
<1>3. StoreInv /\ StoreInv' /\ ReadInv /\ Ages /\ [Next]_vars => [Atomic!Next]_(Atomic!vars)
  BY RecallMaps
<1> QED
  BY <1>1, <1>2, <1>3, InitMaps, PTL DEF Spec, AnswersAreAtomic, Atomic!Spec

\* An answer is wholly old or wholly new: the vector a record was ranked by,
\* the scalars it was scored with and the text handed out are of one version,
\* whatever corrections ran meanwhile (recall.rs, the seqlock recheck).
WhollyOldOrNew ==
    \A q \in Reader : rpc[q] = "answered" =>
        \A h \in hits[q] : h.vector = h.text /\ h.scores = h.facts

\* The seqlock works: the vector an answer was ranked by, the scalars it was
\* scored with and the text it hands out are of one version (recall.rs,
\* correction_epoch_even and correction_epoch_validate).
THEOREM AnswersAreWhole ==
    ASSUME ~Reordered
    PROVE  Spec => []WhollyOldOrNew
<1>1. StoreInv /\ ReadInv => WhollyOldOrNew
  BY DEF ReadInv, Reading, WhollyOldOrNew
<1> QED
  BY <1>1, RecallInv, PTL

=============================================================================
