------------------------- MODULE DeltaIndexProofs ---------------------------
(***************************************************************************)
(* Theorems about DeltaIndex for every set of rids, callers and readers    *)
(* and every capacity.  Only IndexIsAMap assumes Ordered writers, and only *)
(* DeltaStaysBounded a build that works.                                   *)
(***************************************************************************)
EXTENDS DeltaIndex, FiniteSetTheorems, TLAPS

-----------------------------------------------------------------------------
(* Type correctness *)

\* The delta is finite, so the occupancy it is admitted against is a number;
\* a durable write carries a number that was handed out, so does its replay.
IndexInv ==
    /\ TypeOK
    /\ IsFiniteSet(delta)
    /\ \A v \in committed : v[2] <= vecSeq

\* Flipping the published flag of some entries keeps a finite delta finite.
LEMMA PublishFinite ==
    ASSUME NEW D, IsFiniteSet(D), NEW r, NEW n
    PROVE  IsFiniteSet(Published(D, r, n))
<1> DEFINE flip(e) == IF e.rid = r /\ e.seq = n
                      THEN [e EXCEPT !.published = TRUE] ELSE e
           T == {flip(e) : e \in D}
           f == [e \in D |-> flip(e)]
<1>1. f \in Surjection(D, T)
  BY DEF Surjection
<1>2. IsFiniteSet(T)
  BY <1>1, FS_Surjection
<1> QED
  BY <1>2 DEF Published

\* What a call appends to the delta is an entry.
LEMMA FreshType ==
    ASSUME NEW c \in Caller, call[c] \in Call,
           NEW t \in BOOLEAN, NEW v \in BOOLEAN
    PROVE  Fresh(c, t, v) \in Entry
  BY DEF Fresh, Entry, Call

LEMMA IndexInvInit == Init => IndexInv
<1> SUFFICES ASSUME Init PROVE IndexInv
  OBVIOUS
<1> USE DEF Init
<1>1. IsFiniteSet(delta)
  BY FS_EmptySet
<1>2. TypeOK
  <2>1. vecSeq \in 0..MaxSeq /\ compacting \in Nat
    BY ConstantsAssumption
  <2>2. /\ cold \subseteq Vector /\ delta \subseteq Entry
        /\ committed \subseteq Vector /\ sealed \subseteq Entry
        /\ rcold \in [Reader -> SUBSET Vector]
    OBVIOUS
  <2>3. dirty \in BOOLEAN
    OBVIOUS
  <2> QED
    BY <2>1, <2>2, <2>3 DEF TypeOK
<1> QED
  BY <1>1, <1>2 DEF IndexInv

LEMMA IndexInvNext == IndexInv /\ [Next]_vars => IndexInv'
<1> SUFFICES ASSUME IndexInv, [Next]_vars
             PROVE  IndexInv'
  OBVIOUS
<1> USE ConstantsAssumption
<1> USE DEF IndexInv, TypeOK, Vector, Entry, Call, NoCall, Kind, Seq, Goto,
            callerVars, compactVars, readVars
<1>1. ASSUME NEW c \in Caller, NEW kind \in Kind, NEW r \in Rid, TakeSeq(c, kind, r)
      PROVE  IndexInv'
  BY <1>1 DEF TakeSeq
<1>2. ASSUME NEW c \in Caller, NEW v \in committed, Redeliver(c, v[1], v[2])
      PROVE  IndexInv'
  <2>1. v[1] \in Rid /\ v[2] \in Seq /\ v[2] <= vecSeq
    OBVIOUS
  <2> QED
    BY <1>2, <2>1 DEF Redeliver
<1>3. ASSUME NEW c \in Caller, AlreadyPresent(c) PROVE IndexInv'
  BY <1>3 DEF AlreadyPresent
<1>4. ASSUME NEW c \in Caller, Refused(c) PROVE IndexInv'
  BY <1>4 DEF Refused
<1>5. ASSUME NEW c \in Caller, Append(c) PROVE IndexInv'
  <2>1. call[c] \in Call
    BY <1>5 DEF Append
  <2>2. delta' \subseteq Entry
    <3>1. \A p \in BOOLEAN : Fresh(c, FALSE, p) \in Entry
      BY <2>1, FreshType
    <3>2. \E p \in BOOLEAN : delta' = delta \cup {Fresh(c, FALSE, p)}
      BY <1>5 DEF Append
    <3> QED
      BY <3>1, <3>2
  <2>3. IsFiniteSet(delta')
    BY <1>5, FS_AddElement DEF Append
  <2> QED
    BY <1>5, <2>2, <2>3 DEF Append
<1>6. ASSUME NEW c \in Caller, Stamp(c) PROVE IndexInv'
  BY <1>6 DEF Stamp
<1>7. ASSUME NEW c \in Caller, Commit(c) PROVE IndexInv'
  BY <1>7 DEF Commit
<1>8. ASSUME NEW c \in Caller, RemoveAppended(c) PROVE IndexInv'
  BY <1>8, FS_Subset DEF RemoveAppended
<1>9. ASSUME NEW c \in Caller, Publish(c) PROVE IndexInv'
  <2>1. delta' \subseteq Entry
    <3>1. \A e \in Entry : [e EXCEPT !.published = TRUE] \in Entry
      OBVIOUS
    <3>2. \A x \in delta' : x \in delta \/ \E e \in delta : x = [e EXCEPT !.published = TRUE]
      BY <1>9 DEF Publish, Published
    <3> QED
      BY <3>1, <3>2
  <2>2. IsFiniteSet(delta')
    BY <1>9, PublishFinite DEF Publish
  <2> QED
    BY <1>9, <2>1, <2>2 DEF Publish
<1>10. ASSUME NEW c \in Caller, Restamp(c) PROVE IndexInv'
  BY <1>10 DEF Restamp
<1>11. ASSUME NEW c \in Caller, TombstoneInPlace(c) PROVE IndexInv'
  <2>1. call[c] \in Call
    BY <1>11 DEF TombstoneInPlace
  <2>2. delta' \subseteq Entry
    BY <1>11, <2>1 DEF TombstoneInPlace, Targets
  <2>3. IsFiniteSet(delta')
    <3>1. PICK e \in Targets(c) :
              delta' = (delta \ {e}) \cup
                       {[e EXCEPT !.tombstoned = TRUE, !.seq = call[c].seq]}
      BY <1>11 DEF TombstoneInPlace
    <3>2. IsFiniteSet(delta \ {e})
      BY FS_RemoveElement
    <3> QED
      BY <3>1, <3>2, FS_AddElement
  <2> QED
    BY <1>11, <2>2, <2>3 DEF TombstoneInPlace
<1>12. ASSUME NEW c \in Caller, TombstoneMarker(c) PROVE IndexInv'
  <2>1. call[c] \in Call
    BY <1>12 DEF TombstoneMarker
  <2>2. delta' \subseteq Entry
    BY <1>12, <2>1, FreshType DEF TombstoneMarker
  <2>3. IsFiniteSet(delta')
    BY <1>12, FS_AddElement DEF TombstoneMarker
  <2> QED
    BY <1>12, <2>2, <2>3 DEF TombstoneMarker
<1>13. CASE Snapshot
  BY <1>13, FS_Subset, FS_CardinalityType DEF Snapshot
<1>14. CASE Install
  BY <1>14 DEF Install, Compacted, Vectors, Winners
<1>15. CASE Abandon
  BY <1>15 DEF Abandon
<1>16. CASE Retire
  BY <1>16, FS_Subset DEF Retire, Retired
<1>17. ASSUME NEW q \in Reader, LoadCold(q) \/ ReadDelta(q) PROVE IndexInv'
  BY <1>17 DEF LoadCold, ReadDelta
<1>18. CASE UNCHANGED vars
  BY <1>18 DEF vars
<1> QED
  BY <1>1, <1>2, <1>3, <1>4, <1>5, <1>6, <1>7, <1>8, <1>9, <1>10, <1>11,
     <1>12, <1>13, <1>14, <1>15, <1>16, <1>17, <1>18
  DEF Next, Land, Compact

\* Every variable keeps its type, for every value of the constants.
THEOREM TypeCorrect == Spec => []TypeOK
<1>1. IndexInv => TypeOK
  BY DEF IndexInv
<1> QED
  BY IndexInvInit, IndexInvNext, <1>1, PTL DEF Spec

-----------------------------------------------------------------------------
(* The snapshot design: a sealed entry stays in the delta until it is      *)
(* retired.  Only remove_appended and an in-place tombstone take an entry   *)
(* out of the delta; the first needs the entry to be the caller's own       *)
(* reservation, which no snapshot contains.                                 *)

\* No two calls in flight carry the same number.
CallsDistinct ==
    \A c, d \in Caller : c # d /\ pc[c] # "idle" /\ pc[d] # "idle" =>
        call[c].seq # call[d].seq

ReservedHidden ==
    \A c \in Caller : MayUndo(c) =>
        \A e \in delta : e.rid = call[c].rid /\ e.seq = call[c].seq => ~e.published

SealedInv == CallsDistinct /\ ReservedHidden /\ SealedStillInDelta

\* How one caller's step changes where the callers are.
LEMMA GotoCalls ==
    ASSUME IndexInv, CallsDistinct, NEW c \in Caller, NEW label, Goto(c, label),
           pc[c] # "idle"
    PROVE  /\ CallsDistinct'
           /\ \A d \in Caller : d # c => pc'[d] = pc[d] /\ call'[d] = call[d]
           /\ pc'[c] = label
           /\ label # "idle" => call'[c] = call[c]
  BY DEF IndexInv, TypeOK, CallsDistinct, Goto

LEMMA SealedInvNext == IndexInv /\ SealedInv /\ [Next]_vars => SealedInv'
<1> SUFFICES ASSUME IndexInv, SealedInv, [Next]_vars
             PROVE  SealedInv'
  OBVIOUS
<1> USE DEF SealedInv
<1>1. ASSUME NEW c \in Caller, NEW kind \in Kind, NEW r \in Rid, TakeSeq(c, kind, r)
      PROVE  SealedInv'
  <2>1. CallsDistinct'
    BY <1>1 DEF TakeSeq, CallsDistinct, IndexInv, TypeOK, Call, Seq
  <2>2. ReservedHidden'
    BY <1>1 DEF TakeSeq, ReservedHidden, MayUndo, IndexInv, TypeOK
  <2>3. SealedStillInDelta'
    BY <1>1 DEF TakeSeq, SealedStillInDelta, compactVars
  <2> QED
    BY <2>1, <2>2, <2>3
<1>2. ASSUME NEW c \in Caller, NEW v \in committed, Redeliver(c, v[1], v[2])
      PROVE  SealedInv'
  <2>1. CallsDistinct'
    BY <1>2 DEF Redeliver, CallsDistinct, IndexInv, TypeOK
  <2>2. ReservedHidden'
    BY <1>2 DEF Redeliver, ReservedHidden, MayUndo, IndexInv, TypeOK
  <2>3. SealedStillInDelta'
    BY <1>2 DEF Redeliver, SealedStillInDelta, compactVars
  <2> QED
    BY <2>1, <2>2, <2>3
<1>3. ASSUME NEW c \in Caller,
             AlreadyPresent(c) \/ Refused(c) \/ Stamp(c) \/ Commit(c) \/ Restamp(c)
      PROVE  SealedInv'
  <2>1. /\ pc[c] # "idle"
        /\ Goto(c, "idle") \/ Goto(c, "durable") \/ (pc[c] = "stamp" /\ Goto(c, "reserved") /\ call[c].kind = "write")
        /\ delta' = delta /\ sealed' = sealed
    BY <1>3 DEF AlreadyPresent, Refused, Stamp, Commit, Restamp, compactVars
  <2>2. CallsDistinct'
    BY <2>1, GotoCalls
  <2>3. ReservedHidden'
    BY <2>1, GotoCalls DEF ReservedHidden, MayUndo
  <2>4. SealedStillInDelta'
    BY <2>1 DEF SealedStillInDelta
  <2> QED
    BY <2>2, <2>3, <2>4
<1>4. ASSUME NEW c \in Caller, Append(c) PROVE SealedInv'
  <2>1. /\ pc[c] = "taken"
        /\ ~Present(c)
        /\ delta' = delta \cup {Fresh(c, FALSE, call[c].kind = "append")}
        /\ Goto(c, IF delta = {} THEN "stamp"
                   ELSE IF call[c].kind = "write" THEN "reserved" ELSE "idle")
        /\ sealed' = sealed
    BY <1>4 DEF Append, compactVars
  <2>2. CallsDistinct'
    BY <2>1, GotoCalls
  <2>3. ASSUME NEW d \in Caller, MayUndo(d)', NEW e \in delta',
               e.rid = call'[d].rid, e.seq = call'[d].seq
        PROVE  ~e.published
    <3>1. CASE d = c
      <4>1. call[c].kind = "write" /\ call'[c] = call[c]
        BY <2>1, <2>3, <3>1, GotoCalls DEF MayUndo
      <4>2. e \notin delta
        BY <2>1, <2>3, <3>1, <4>1 DEF Present
      <4>3. e.published = (call[c].kind = "append")
        BY <2>1, <4>2 DEF Fresh
      <4> QED
        BY <4>1, <4>3
    <3>2. CASE d # c
      BY <2>1, <2>3, <3>2, GotoCalls DEF MayUndo, Fresh, ReservedHidden, CallsDistinct
    <3> QED
      BY <3>1, <3>2
  <2>4. SealedStillInDelta'
    BY <2>1 DEF SealedStillInDelta
  <2> QED
    BY <2>2, <2>3, <2>4 DEF ReservedHidden
<1>5. ASSUME NEW c \in Caller, RemoveAppended(c) PROVE SealedInv'
  <2>1. /\ pc[c] = "reserved" /\ Goto(c, "idle")
        /\ delta' = {e \in delta : ~(e.rid = call[c].rid /\ e.seq = call[c].seq)}
        /\ sealed' = sealed
    BY <1>5 DEF RemoveAppended, compactVars
  <2>2. CallsDistinct'
    BY <2>1, GotoCalls
  <2>3. ReservedHidden'
    BY <2>1, GotoCalls DEF ReservedHidden, MayUndo
  <2>4. \A e \in delta : e.published => e \in delta'
    BY <2>1 DEF ReservedHidden, MayUndo
  <2>5. SealedStillInDelta'
    BY <2>1, <2>4 DEF SealedStillInDelta
  <2> QED
    BY <2>2, <2>3, <2>5
<1>6. ASSUME NEW c \in Caller, Publish(c) PROVE SealedInv'
  <2>1. /\ pc[c] = "durable" /\ Goto(c, "restamp")
        /\ delta' = Published(delta, call[c].rid, call[c].seq)
        /\ sealed' = sealed
    BY <1>6 DEF Publish, compactVars
  <2>2. CallsDistinct'
    BY <2>1, GotoCalls
  <2>3. \A e \in delta' : \/ e \in delta
                          \/ e.rid = call[c].rid /\ e.seq = call[c].seq
    BY <2>1 DEF Published, IndexInv, TypeOK, Entry
  <2>4. ReservedHidden'
    BY <2>1, <2>3, GotoCalls DEF ReservedHidden, MayUndo, CallsDistinct
  <2>5. \A e \in delta : \E f \in delta' :
            f.rid = e.rid /\ f.seq = e.seq /\ f.tombstoned = e.tombstoned
                /\ (e.published => f.published)
    <3> TAKE e \in delta
    <3> DEFINE f == IF e.rid = call[c].rid /\ e.seq = call[c].seq
                    THEN [e EXCEPT !.published = TRUE] ELSE e
    <3>1. f \in delta'
      BY <2>1 DEF Published
    <3>2. /\ f.rid = e.rid /\ f.seq = e.seq /\ f.tombstoned = e.tombstoned
          /\ (e.published => f.published)
      BY DEF IndexInv, TypeOK, Entry
    <3> QED
      BY <3>1, <3>2
  <2>6. SealedStillInDelta'
    BY <2>1, <2>5 DEF SealedStillInDelta
  <2> QED
    BY <2>2, <2>4, <2>6
<1>7. ASSUME NEW c \in Caller, TombstoneInPlace(c) PROVE SealedInv'
  <2>1. /\ pc[c] = "taken" /\ Goto(c, "idle")
        /\ sealed' = sealed /\ call[c] \in Call
    BY <1>7 DEF TombstoneInPlace, compactVars, IndexInv, TypeOK
  <2>2. PICK e \in Targets(c) :
            delta' = (delta \ {e}) \cup
                     {[e EXCEPT !.tombstoned = TRUE, !.seq = call[c].seq]}
    BY <1>7 DEF TombstoneInPlace
  <2> DEFINE t == [e EXCEPT !.tombstoned = TRUE, !.seq = call[c].seq]
  <2>3. /\ e \in Entry /\ e.published /\ ~e.tombstoned /\ e.seq <= call[c].seq
        /\ t.rid = e.rid /\ t.seq = call[c].seq /\ t.tombstoned /\ t.published
    BY <2>1 DEF Targets, IndexInv, TypeOK, Entry
  <2>4. CallsDistinct'
    BY <2>1, GotoCalls
  <2>5. ASSUME NEW d \in Caller, MayUndo(d)', NEW f \in delta',
               f.rid = call'[d].rid, f.seq = call'[d].seq
        PROVE  ~f.published
    <3>1. d # c /\ MayUndo(d) /\ call'[d] = call[d] /\ pc[d] # "idle"
      BY <2>1, <2>5, GotoCalls DEF MayUndo
    <3>2. f # t
      <4>1. call[d].seq # call[c].seq
        BY <2>1, <3>1 DEF CallsDistinct
      <4>2. f.seq = call[d].seq /\ t.seq = call[c].seq
        BY <2>3, <2>5, <3>1
      <4> QED
        BY <4>1, <4>2
    <3> QED
      BY <2>2, <2>5, <3>1, <3>2 DEF ReservedHidden
  <2>6. ASSUME NEW s \in sealed
        PROVE  \E f \in delta' : /\ f.rid = s.rid /\ f.published
                                 /\ f.seq = s.seq \/ (f.tombstoned /\ f.seq >= s.seq)
    <3>1. PICK f \in delta : /\ f.rid = s.rid /\ f.published
                             /\ f.seq = s.seq \/ (f.tombstoned /\ f.seq >= s.seq)
      BY DEF SealedStillInDelta
    <3>2. CASE f # e
      BY <2>2, <3>1, <3>2
    <3>3. CASE f = e
      <4>1. t \in delta' /\ t.rid = s.rid /\ t.published /\ t.tombstoned
        BY <2>2, <2>3, <3>1, <3>3
      <4>2. t.seq >= s.seq
        BY <2>1, <2>3, <3>1, <3>3 DEF Call, Seq, Entry, IndexInv, TypeOK
      <4> QED
        BY <4>1, <4>2
    <3> QED
      BY <3>2, <3>3
  <2> QED
    BY <2>1, <2>4, <2>5, <2>6 DEF SealedStillInDelta, ReservedHidden
<1>8. ASSUME NEW c \in Caller, TombstoneMarker(c) PROVE SealedInv'
  <2>1. /\ pc[c] = "taken" /\ call[c].kind = "delete"
        /\ Goto(c, IF delta = {} THEN "stamp" ELSE "idle")
        /\ delta' = delta \cup {Fresh(c, TRUE, TRUE)}
        /\ sealed' = sealed
    BY <1>8 DEF TombstoneMarker, compactVars
  <2>2. CallsDistinct'
    BY <2>1, GotoCalls
  <2>3. ReservedHidden'
    BY <2>1, GotoCalls DEF ReservedHidden, MayUndo, CallsDistinct, Fresh
  <2>4. SealedStillInDelta'
    BY <2>1 DEF SealedStillInDelta
  <2> QED
    BY <2>2, <2>3, <2>4
<1>9. CASE Compact
  <2>1. UNCHANGED <<pc, call>> /\ delta' \subseteq delta
    BY <1>9 DEF Compact, Snapshot, Install, Abandon, Retire, Retired, callerVars
  <2>2. CallsDistinct' /\ ReservedHidden'
    BY <2>1 DEF CallsDistinct, ReservedHidden, MayUndo
  <2>3. CASE Snapshot
    BY <2>2, <2>3 DEF Snapshot, SealedStillInDelta
  <2>4. CASE Install
    BY <2>2, <2>4 DEF Install, SealedStillInDelta
  <2>5. CASE Abandon \/ Retire
    BY <2>2, <2>5 DEF Abandon, Retire, SealedStillInDelta
  <2> QED
    BY <1>9, <2>2, <2>3, <2>4, <2>5 DEF Compact
<1>10. ASSUME NEW q \in Reader, LoadCold(q) \/ ReadDelta(q) PROVE SealedInv'
  BY <1>10 DEF LoadCold, ReadDelta, callerVars, compactVars,
               CallsDistinct, ReservedHidden, MayUndo, SealedStillInDelta
<1>11. CASE UNCHANGED vars
  BY <1>11 DEF vars, callerVars, compactVars,
               CallsDistinct, ReservedHidden, MayUndo, SealedStillInDelta
<1> QED
  BY <1>1, <1>2, <1>3, <1>4, <1>5, <1>6, <1>7, <1>8, <1>9, <1>10, <1>11
  DEF Next, Land

\* From its snapshot to its retirement a sealed entry never leaves the delta
\* without a newer tombstone of its rid in its place.
THEOREM SealedEntriesStay == Spec => []SealedStillInDelta
<1>1. Init => SealedInv
  BY DEF Init, SealedInv, CallsDistinct, ReservedHidden, MayUndo, SealedStillInDelta
<1>2. SealedInv => SealedStillInDelta
  BY DEF SealedInv
<1> QED
  BY IndexInvInit, IndexInvNext, SealedInvNext, <1>1, <1>2, PTL DEF Spec

-----------------------------------------------------------------------------
(* A search between its two loads.  Installing a tier only changes rids the *)
(* sealed entries decide, and those are still in the delta.                 *)

\* Two tiers differ at most on the rids the entries decide.
AgreeOutside(t1, t2, entries) ==
    \A v : v[1] \notin Decided(entries) => (v \in t1 <=> v \in t2)

SearchInv ==
    /\ \A q \in Reader : rstate[q] = "fresh" => rcold[q] = cold
    /\ \A q \in Reader : rstate[q] = "behind" =>
           stage = "installed" /\ AgreeOutside(rcold[q], cold, sealed)

\* Such tiers are indistinguishable in front of a delta that decides them.
LEMMA FoundAgrees ==
    ASSUME NEW t1, NEW t2, NEW S, NEW D,
           AgreeOutside(t1, t2, S), Decided(S) \subseteq Decided(D)
    PROVE  Found(t1, D) = Found(t2, D)
  BY DEF AgreeOutside, Found

\* A build leaves the rids it was given no entry of alone.
LEMMA CompactedAgrees ==
    ASSUME NEW t, NEW S
    PROVE  AgreeOutside(t, Compacted(t, S), S)
<1>1. \A v \in Vectors(Winners(S)) : v[1] \in Decided(S)
  BY DEF Vectors, Winners, Decided
<1> QED
  BY <1>1 DEF AgreeOutside, Compacted

LEMMA SealedDecided ==
    ASSUME SealedStillInDelta
    PROVE  Decided(sealed) \subseteq Decided(delta)
  BY DEF SealedStillInDelta, Decided

LEMMA SearchInvNext == IndexInv /\ SearchInv /\ [Next]_vars => SearchInv'
<1> SUFFICES ASSUME IndexInv, SearchInv, [Next]_vars
             PROVE  SearchInv'
  OBVIOUS
<1>1. CASE UNCHANGED <<cold, stage, sealed, rstate, rcold>>
  BY <1>1 DEF SearchInv, AgreeOutside, Decided
<1>2. CASE Snapshot
  <2>1. \A q \in Reader : rstate'[q] # "behind"
    BY <1>2 DEF Snapshot, SearchInv, readVars
  <2> QED
    BY <1>2, <2>1 DEF Snapshot, SearchInv, readVars
<1>3. CASE Install
  <2>1. \A q \in Reader : rstate[q] # "behind"
    BY <1>3 DEF Install, SearchInv
  <2>2. ASSUME NEW q \in Reader, rstate'[q] = "behind"
        PROVE  stage' = "installed" /\ AgreeOutside(rcold[q], cold', sealed)
    <3>1. rstate[q] = "fresh" /\ rcold[q] = cold
      BY <1>3, <2>1, <2>2 DEF Install, SearchInv
    <3> QED
      BY <1>3, <3>1, CompactedAgrees DEF Install
  <2>3. \A q \in Reader : rstate'[q] # "fresh"
    BY <1>3 DEF Install
  <2> QED
    BY <1>3, <2>2, <2>3 DEF Install, SearchInv, AgreeOutside
<1>4. CASE Abandon
  <2>1. \A q \in Reader : rstate'[q] # "behind"
    BY <1>4 DEF Abandon, SearchInv, readVars
  <2> QED
    BY <1>4, <2>1 DEF Abandon, SearchInv, readVars
<1>5. CASE Retire
  <2>1. \A q \in Reader : rstate'[q] # "behind" /\ (rstate'[q] = "fresh" => rstate[q] = "fresh")
    BY <1>5 DEF Retire
  <2> QED
    BY <1>5, <2>1 DEF Retire, SearchInv
<1>6. ASSUME NEW q \in Reader, LoadCold(q) \/ ReadDelta(q) PROVE SearchInv'
  <2>1. /\ cold' = cold /\ stage' = stage /\ sealed' = sealed
        /\ \A p \in Reader : p # q => rstate'[p] = rstate[p] /\ rcold'[p] = rcold[p]
        /\ rstate'[q] # "behind"
        /\ rstate'[q] = "fresh" => rcold'[q] = cold
    BY <1>6 DEF LoadCold, ReadDelta, compactVars, IndexInv, TypeOK
  <2> QED
    BY <2>1 DEF SearchInv, AgreeOutside, Decided
<1>7. ASSUME NEW c \in Caller, Land(c) PROVE UNCHANGED <<cold, stage, sealed, rstate, rcold>>
  BY <1>7 DEF Land, AlreadyPresent, Refused, Append, Stamp, Commit, RemoveAppended,
              Publish, Restamp, TombstoneInPlace, TombstoneMarker,
              compactVars, readVars
<1>8. ASSUME NEW c \in Caller, NEW kind \in Kind, NEW r \in Rid, TakeSeq(c, kind, r)
      PROVE  UNCHANGED <<cold, stage, sealed, rstate, rcold>>
  BY <1>8 DEF TakeSeq, compactVars, readVars
<1>9. ASSUME NEW c \in Caller, NEW v \in committed, Redeliver(c, v[1], v[2])
      PROVE  UNCHANGED <<cold, stage, sealed, rstate, rcold>>
  BY <1>9 DEF Redeliver, compactVars, readVars
<1>10. CASE UNCHANGED vars
  BY <1>1, <1>10 DEF vars, compactVars, readVars
<1> QED
  BY <1>1, <1>2, <1>3, <1>4, <1>5, <1>6, <1>7, <1>8, <1>9, <1>10 DEF Next, Compact

\* A search that no whole install-and-retire overtakes returns what an atomic
\* search of the index would return when it reads the delta.
THEOREM SearchIsAtomic == Spec => []SearchIsCurrent
<1>1. Init => SealedInv /\ SearchInv
  BY DEF Init, SealedInv, CallsDistinct, ReservedHidden, MayUndo,
         SealedStillInDelta, SearchInv
<1>2. SealedInv /\ SearchInv => SearchIsCurrent
  BY FoundAgrees, SealedDecided DEF SealedInv, SearchInv, SearchIsCurrent
<1> QED
  BY IndexInvInit, IndexInvNext, SealedInvNext, SearchInvNext, <1>1, <1>2, PTL
  DEF Spec

-----------------------------------------------------------------------------
(* Only durable writes are served.                                         *)

\* The vectors of the published live entries.
Shown(entries) == Vectors({e \in entries : e.published})

DurableInv ==
    /\ cold \subseteq committed
    /\ \A q \in Reader : rcold[q] \subseteq committed
    /\ Shown(delta) \subseteq committed
    /\ Shown(sealed) \subseteq committed
    /\ \A c \in Caller :
           pc[c] = "durable" \/ (pc[c] = "taken" /\ call[c].kind = "append") =>
               <<call[c].rid, call[c].seq>> \in committed

LEMMA FoundShown ==
    ASSUME NEW t, NEW D, NEW W, t \subseteq W, Shown(D) \subseteq W
    PROVE  Found(t, D) \subseteq W /\ Compacted(t, D) \subseteq W
  BY DEF Found, Compacted, Shown, Vectors, Winners

LEMMA DurableInvNext == IndexInv /\ DurableInv /\ [Next]_vars => DurableInv'
<1> SUFFICES ASSUME IndexInv, DurableInv, [Next]_vars
             PROVE  DurableInv'
  OBVIOUS
<1> USE DEF DurableInv
<1>1. ASSUME NEW c \in Caller, NEW kind \in Kind, NEW r \in Rid, TakeSeq(c, kind, r)
      PROVE  DurableInv'
  <2>1. /\ committed \subseteq committed'
        /\ kind = "append" => <<r, vecSeq + 1>> \in committed'
        /\ UNCHANGED <<cold, delta, sealed, rcold>>
    BY <1>1 DEF TakeSeq, compactVars, readVars
  <2>2. \A d \in Caller : d # c => pc'[d] = pc[d] /\ call'[d] = call[d]
    BY <1>1 DEF TakeSeq, IndexInv, TypeOK
  <2>3. pc'[c] = "taken" /\ call'[c] = [kind |-> kind, rid |-> r, seq |-> vecSeq + 1]
    BY <1>1 DEF TakeSeq, IndexInv, TypeOK
  <2>4. \A d \in Caller :
           pc'[d] = "durable" \/ (pc'[d] = "taken" /\ call'[d].kind = "append") =>
               <<call'[d].rid, call'[d].seq>> \in committed'
    BY <2>1, <2>2, <2>3
  <2> QED
    BY <2>1, <2>4 DEF Shown, Vectors
<1>2. ASSUME NEW c \in Caller, NEW v \in committed, Redeliver(c, v[1], v[2])
      PROVE  DurableInv'
  BY <1>2 DEF Redeliver, Shown, Vectors, compactVars, readVars, IndexInv, TypeOK
<1>3. ASSUME NEW c \in Caller,
             AlreadyPresent(c) \/ Refused(c) \/ Stamp(c) \/ Restamp(c)
      PROVE  DurableInv'
  BY <1>3 DEF AlreadyPresent, Refused, Stamp, Restamp, Goto, Shown, Vectors,
              compactVars, readVars, IndexInv, TypeOK
<1>4. ASSUME NEW c \in Caller, Append(c) PROVE DurableInv'
  <2>1. call[c].kind = "append" => <<call[c].rid, call[c].seq>> \in committed
    BY <1>4 DEF Append
  <2>2. Shown(delta') \subseteq committed
    <3> SUFFICES ASSUME NEW e \in delta', e.published, ~e.tombstoned
                 PROVE  <<e.rid, e.seq>> \in committed
      BY DEF Shown, Vectors
    <3>1. CASE e \in delta
      BY <3>1 DEF Shown, Vectors
    <3>2. CASE e = Fresh(c, FALSE, call[c].kind = "append")
      <4>1. e.published = (call[c].kind = "append")
        BY <3>2 DEF Fresh
      <4>2. e.rid = call[c].rid /\ e.seq = call[c].seq
        BY <3>2 DEF Fresh
      <4> QED
        BY <2>1, <4>1, <4>2
    <3> QED
      BY <1>4, <3>1, <3>2 DEF Append
  <2> QED
    BY <1>4, <2>2 DEF Append, Goto, compactVars, readVars, IndexInv, TypeOK
<1>5. ASSUME NEW c \in Caller, Commit(c) PROVE DurableInv'
  BY <1>5 DEF Commit, Goto, Shown, Vectors, compactVars, readVars, IndexInv, TypeOK
<1>6. ASSUME NEW c \in Caller, RemoveAppended(c) PROVE DurableInv'
  BY <1>6 DEF RemoveAppended, Goto, Shown, Vectors, compactVars, readVars,
              IndexInv, TypeOK
<1>7. ASSUME NEW c \in Caller, Publish(c) PROVE DurableInv'
  <2>1. Shown(delta') \subseteq committed
    BY <1>7 DEF Publish, Published, Shown, Vectors, IndexInv, TypeOK, Entry
  <2> QED
    BY <1>7, <2>1 DEF Publish, Goto, compactVars, readVars, IndexInv, TypeOK
<1>8. ASSUME NEW c \in Caller, TombstoneInPlace(c) \/ TombstoneMarker(c)
      PROVE  DurableInv'
  <2>1. Shown(delta') \subseteq Shown(delta)
    <3>1. ASSUME NEW e \in delta', ~e.tombstoned PROVE e \in delta
      <4>1. CASE TombstoneMarker(c)
        BY <3>1, <4>1 DEF TombstoneMarker, Fresh
      <4>2. CASE TombstoneInPlace(c)
        <5>1. PICK t \in Targets(c) :
                  delta' = (delta \ {t}) \cup
                           {[t EXCEPT !.tombstoned = TRUE, !.seq = call[c].seq]}
          BY <4>2 DEF TombstoneInPlace
        <5>2. t \in Entry
          BY DEF Targets, IndexInv, TypeOK
        <5>3. [t EXCEPT !.tombstoned = TRUE, !.seq = call[c].seq].tombstoned
          BY <5>2 DEF Entry
        <5> QED
          BY <3>1, <5>1, <5>3
      <4> QED
        BY <1>8, <4>1, <4>2
    <3> QED
      BY <3>1 DEF Shown, Vectors
  <2> QED
    BY <1>8, <2>1 DEF TombstoneInPlace, TombstoneMarker, Goto, compactVars,
                      readVars, IndexInv, TypeOK
<1>9. CASE Snapshot \/ Abandon
  BY <1>9 DEF Snapshot, Abandon, Shown, Vectors, callerVars, readVars
<1>10. CASE Install
  BY <1>10, FoundShown DEF Install, callerVars
<1>11. CASE Retire
  BY <1>11 DEF Retire, Retired, Shown, Vectors, callerVars
<1>12. ASSUME NEW q \in Reader, LoadCold(q) \/ ReadDelta(q) PROVE DurableInv'
  BY <1>12 DEF LoadCold, ReadDelta, Shown, Vectors, callerVars, compactVars,
               IndexInv, TypeOK
<1>13. CASE UNCHANGED vars
  BY <1>13 DEF vars, callerVars, compactVars, readVars, Shown, Vectors
<1> QED
  BY <1>1, <1>2, <1>3, <1>4, <1>5, <1>6, <1>7, <1>8, <1>9, <1>10, <1>11, <1>12, <1>13
  DEF Next, Land, Compact

\* No search returns a write that is reserved or was rolled back, whatever the
\* tier it loaded and whenever the compactor ran.
THEOREM OnlyDurableServed == Spec => []FoundIsDurable
<1>1. Init => DurableInv
  BY DEF Init, DurableInv, Shown, Vectors
<1>2. DurableInv => FoundIsDurable
  BY FoundShown DEF DurableInv, FoundIsDurable
<1> QED
  BY IndexInvInit, IndexInvNext, DurableInvNext, <1>1, <1>2, PTL DEF Spec

-----------------------------------------------------------------------------
(* The build window.  Admission subtracts it from the occupancy, so it must *)
(* not outgrow the delta: while a build runs the published entries never    *)
(* become fewer.  The one step that could lose one is a tombstone that      *)
(* rewrites an entry into one the delta already holds; a delete's number is *)
(* its own, so that entry does not exist.                                   *)

PublishedOf(entries) == {e \in entries : e.published}

\* No entry carries a number that was not handed out, nor the number of a
\* delete that has not reached the index yet.
DeleteIsNew ==
    \A e \in delta :
        /\ e.seq <= vecSeq
        /\ \A c \in Caller : pc[c] = "taken" /\ call[c].kind = "delete" =>
               e.seq # call[c].seq

WindowInv ==
    /\ DeleteIsNew
    /\ IsFiniteSet(sealed)
    /\ stage = "idle" => compacting = 0 /\ sealed = {}
    /\ stage # "idle" => compacting = Cardinality(sealed)
    /\ Cardinality(sealed) <= Cardinality(PublishedOf(delta))

LEMMA WindowInvInit == Init => WindowInv
<1> SUFFICES ASSUME Init PROVE WindowInv
  OBVIOUS
<1>1. PublishedOf(delta) = {}
  BY DEF Init, PublishedOf
<1> QED
  BY <1>1, FS_EmptySet DEF Init, WindowInv, DeleteIsNew

LEMMA WindowIsHonestOf == IndexInv /\ WindowInv => WindowIsHonest
<1> SUFFICES ASSUME IndexInv, WindowInv PROVE WindowIsHonest
  OBVIOUS
<1>1. /\ IsFiniteSet(PublishedOf(delta))
      /\ Cardinality(PublishedOf(delta)) <= Cardinality(delta)
  <2>1. PublishedOf(delta) \in SUBSET delta
    BY DEF PublishedOf
  <2> QED
    BY <2>1, FS_Subset DEF IndexInv
<1>2. /\ Cardinality(delta) \in Nat /\ Cardinality(sealed) \in Nat
      /\ Cardinality(PublishedOf(delta)) \in Nat
  BY <1>1, FS_CardinalityType DEF IndexInv, WindowInv
<1>3. Cardinality(sealed) <= Cardinality(delta)
  BY <1>1, <1>2 DEF WindowInv
<1> QED
  BY <1>2, <1>3 DEF WindowInv, WindowIsHonest

\* A step that leaves the build alone and takes no published entry away.
LEMMA WindowKept ==
    ASSUME IndexInv, IndexInv', WindowInv, DeleteIsNew',
           sealed' = sealed, stage' = stage, compacting' = compacting,
           PublishedOf(delta) \subseteq PublishedOf(delta')
    PROVE  WindowInv'
<1>1. PublishedOf(delta') \in SUBSET delta'
  BY DEF PublishedOf
<1>2. IsFiniteSet(PublishedOf(delta'))
  BY <1>1, FS_Subset DEF IndexInv
<1>3. /\ IsFiniteSet(PublishedOf(delta))
      /\ Cardinality(PublishedOf(delta)) <= Cardinality(PublishedOf(delta'))
  BY <1>2, FS_Subset
<1>4. /\ Cardinality(PublishedOf(delta)) \in Nat /\ Cardinality(sealed) \in Nat
      /\ Cardinality(PublishedOf(delta')) \in Nat
  BY <1>2, <1>3, FS_CardinalityType DEF WindowInv
<1>5. Cardinality(sealed') <= Cardinality(PublishedOf(delta'))
  BY <1>3, <1>4 DEF WindowInv
<1> QED
  BY <1>5 DEF WindowInv

\* What a caller's step adds to the delta carries the caller's own number.
LEMMA DeleteIsNewKept ==
    ASSUME IndexInv, SealedInv, DeleteIsNew, NEW c \in Caller, NEW label,
           pc[c] # "idle", label # "taken", Goto(c, label), vecSeq' = vecSeq,
           \A f \in delta' : \/ \E e \in delta : f.seq = e.seq
                             \/ f.seq = call[c].seq
    PROVE  DeleteIsNew'
<1>1. CallsDistinct
  BY DEF SealedInv
<1>2. ASSUME NEW f \in delta' PROVE f.seq <= vecSeq'
  BY <1>2 DEF DeleteIsNew, IndexInv, TypeOK
<1>3. ASSUME NEW f \in delta', NEW d \in Caller,
             pc'[d] = "taken", call'[d].kind = "delete"
      PROVE  f.seq # call'[d].seq
  <2>1. d # c /\ pc[d] = "taken" /\ call'[d] = call[d]
    BY <1>1, <1>3, GotoCalls
  <2>2. call[d].seq # call[c].seq
    BY <1>1, <2>1 DEF CallsDistinct
  <2> QED
    BY <1>3, <2>1, <2>2 DEF DeleteIsNew
<1> QED
  BY <1>2, <1>3 DEF DeleteIsNew

LEMMA WindowInvNext ==
    IndexInv /\ IndexInv' /\ SealedInv /\ WindowInv /\ [Next]_vars => WindowInv'
<1> SUFFICES ASSUME IndexInv, IndexInv', SealedInv, WindowInv, [Next]_vars
             PROVE  WindowInv'
  OBVIOUS
<1>a. DeleteIsNew
  BY DEF WindowInv
<1>1. ASSUME NEW c \in Caller, NEW kind \in Kind, NEW r \in Rid, TakeSeq(c, kind, r)
      PROVE  WindowInv'
  <2>1. DeleteIsNew'
    <3>1. ASSUME NEW e \in delta' PROVE e.seq <= vecSeq' /\ e.seq # vecSeq + 1
      BY <1>1, <1>a, <3>1 DEF TakeSeq, DeleteIsNew, IndexInv, TypeOK, Entry, Seq
    <3>2. ASSUME NEW e \in delta', NEW d \in Caller,
                 pc'[d] = "taken", call'[d].kind = "delete"
          PROVE  e.seq # call'[d].seq
      <4>1. CASE d = c
        BY <1>1, <3>1, <4>1 DEF TakeSeq, IndexInv, TypeOK
      <4>2. CASE d # c
        BY <1>1, <1>a, <3>2, <4>2 DEF TakeSeq, DeleteIsNew, IndexInv, TypeOK
      <4> QED
        BY <4>1, <4>2
    <3> QED
      BY <3>1, <3>2 DEF DeleteIsNew
  <2> QED
    BY <1>1, <2>1, WindowKept DEF TakeSeq, compactVars
<1>2. ASSUME NEW c \in Caller, NEW v \in committed, Redeliver(c, v[1], v[2])
      PROVE  WindowInv'
  <2>1. DeleteIsNew'
    BY <1>2, <1>a DEF Redeliver, DeleteIsNew, IndexInv, TypeOK
  <2> QED
    BY <1>2, <2>1, WindowKept DEF Redeliver, compactVars
<1>3. ASSUME NEW c \in Caller,
             AlreadyPresent(c) \/ Refused(c) \/ Stamp(c) \/ Commit(c) \/ Restamp(c)
      PROVE  WindowInv'
  <2>1. PICK label \in {"idle", "durable", "reserved"} :
            /\ pc[c] # "idle" /\ Goto(c, label) /\ vecSeq' = vecSeq
            /\ delta' = delta /\ compacting' = compacting
            /\ sealed' = sealed /\ stage' = stage
    BY <1>3 DEF AlreadyPresent, Refused, Stamp, Commit, Restamp, compactVars
  <2>2. DeleteIsNew'
    BY <1>a, <2>1, DeleteIsNewKept
  <2> QED
    BY <2>1, <2>2, WindowKept
<1>4. ASSUME NEW c \in Caller, Append(c) \/ TombstoneMarker(c)
      PROVE  WindowInv'
  <2>1. PICK label \in {"idle", "stamp", "reserved"}, n \in BOOLEAN, p \in BOOLEAN :
            /\ pc[c] # "idle" /\ Goto(c, label) /\ vecSeq' = vecSeq
            /\ delta' = delta \cup {Fresh(c, n, p)} /\ compacting' = compacting
            /\ sealed' = sealed /\ stage' = stage
    BY <1>4 DEF Append, TombstoneMarker, compactVars
  <2>2. Fresh(c, n, p).seq = call[c].seq
    BY DEF Fresh
  <2>3. DeleteIsNew'
    BY <1>a, <2>1, <2>2, DeleteIsNewKept
  <2>4. PublishedOf(delta) \subseteq PublishedOf(delta')
    BY <2>1 DEF PublishedOf
  <2> QED
    BY <2>1, <2>3, <2>4, WindowKept
<1>5. ASSUME NEW c \in Caller, RemoveAppended(c) PROVE WindowInv'
  <2>1. /\ pc[c] # "idle" /\ Goto(c, "idle") /\ vecSeq' = vecSeq
        /\ delta' \subseteq delta /\ compacting' = compacting
        /\ sealed' = sealed /\ stage' = stage
    BY <1>5 DEF RemoveAppended, compactVars
  <2>2. DeleteIsNew'
    BY <1>a, <2>1, DeleteIsNewKept
  <2>3. PublishedOf(delta) \subseteq PublishedOf(delta')
    BY <1>5 DEF RemoveAppended, PublishedOf, SealedInv, ReservedHidden, MayUndo
  <2> QED
    BY <2>1, <2>2, <2>3, WindowKept
<1>6. ASSUME NEW c \in Caller, Publish(c) PROVE WindowInv'
  <2>1. /\ pc[c] # "idle" /\ Goto(c, "restamp") /\ vecSeq' = vecSeq
        /\ delta' = Published(delta, call[c].rid, call[c].seq)
        /\ compacting' = compacting /\ sealed' = sealed /\ stage' = stage
    BY <1>6 DEF Publish, compactVars
  <2>2. \A f \in delta' : \E e \in delta : f.seq = e.seq
    BY <2>1 DEF Published, IndexInv, TypeOK, Entry
  <2>3. DeleteIsNew'
    BY <1>a, <2>1, <2>2, DeleteIsNewKept
  <2>4. ASSUME NEW e \in delta, e.published PROVE e \in delta'
    <3>1. [e EXCEPT !.published = TRUE] = e
      BY <2>4 DEF IndexInv, TypeOK, Entry
    <3> QED
      BY <2>1, <3>1 DEF Published
  <2>5. PublishedOf(delta) \subseteq PublishedOf(delta')
    BY <2>4 DEF PublishedOf
  <2> QED
    BY <2>1, <2>3, <2>5, WindowKept
<1>7. ASSUME NEW c \in Caller, TombstoneInPlace(c) PROVE WindowInv'
  <2>1. /\ pc[c] = "taken" /\ call[c].kind = "delete"
        /\ Goto(c, "idle") /\ vecSeq' = vecSeq
        /\ compacting' = compacting /\ sealed' = sealed /\ stage' = stage
    BY <1>7 DEF TombstoneInPlace, compactVars
  <2>2. PICK e \in Targets(c) :
            delta' = (delta \ {e}) \cup
                     {[e EXCEPT !.tombstoned = TRUE, !.seq = call[c].seq]}
    BY <1>7 DEF TombstoneInPlace
  <2>3. PICK t : t = [e EXCEPT !.tombstoned = TRUE, !.seq = call[c].seq]
    OBVIOUS
  <2>4. e \in delta /\ e \in Entry /\ e.published
    BY DEF Targets, IndexInv, TypeOK
  <2>5. t.seq = call[c].seq /\ t.published
    BY <2>3, <2>4 DEF Entry
  <2>6. DeleteIsNew'
    <3>1. \A f \in delta' : f \in delta \/ f.seq = call[c].seq
      BY <2>2, <2>3, <2>5
    <3> QED
      BY <1>a, <2>1, <3>1, DeleteIsNewKept
  <2>7. t \notin delta
    BY <1>a, <2>1, <2>5 DEF DeleteIsNew
  <2>8. PublishedOf(delta') = (PublishedOf(delta) \ {e}) \cup {t}
    BY <2>2, <2>3, <2>5 DEF PublishedOf
  <2>9. IsFiniteSet(PublishedOf(delta))
    <3>1. PublishedOf(delta) \in SUBSET delta
      BY DEF PublishedOf
    <3> QED
      BY <3>1, FS_Subset DEF IndexInv
  <2>10. e \in PublishedOf(delta) /\ t \notin PublishedOf(delta) \ {e}
    BY <2>4, <2>7 DEF PublishedOf
  <2>11. /\ IsFiniteSet(PublishedOf(delta) \ {e})
         /\ Cardinality(PublishedOf(delta) \ {e}) = Cardinality(PublishedOf(delta)) - 1
    BY <2>9, <2>10, FS_RemoveElement
  <2>12. Cardinality(PublishedOf(delta')) = Cardinality(PublishedOf(delta) \ {e}) + 1
    BY <2>8, <2>10, <2>11, FS_AddElement
  <2>13. Cardinality(PublishedOf(delta)) \in Nat
    BY <2>9, FS_CardinalityType
  <2>14. Cardinality(PublishedOf(delta')) = Cardinality(PublishedOf(delta))
    BY <2>11, <2>12, <2>13
  <2> QED
    BY <2>1, <2>6, <2>14 DEF WindowInv
<1>8. CASE Compact
  <2>1. DeleteIsNew'
    <3>1. UNCHANGED <<pc, call, vecSeq>> /\ delta' \subseteq delta
      BY <1>8 DEF Compact, Snapshot, Install, Abandon, Retire, Retired, callerVars
    <3> QED
      BY <1>a, <3>1 DEF DeleteIsNew
  <2>2. CASE Snapshot
    <3>1. delta' = delta /\ sealed' = PublishedOf(delta)
      BY <2>2 DEF Snapshot, PublishedOf
    <3>2. IsFiniteSet(sealed')
      <4>1. sealed' \in SUBSET delta
        BY <3>1 DEF PublishedOf
      <4> QED
        BY <4>1, FS_Subset DEF IndexInv
    <3>3. Cardinality(sealed') <= Cardinality(PublishedOf(delta'))
      BY <3>1, <3>2, FS_CardinalityType
    <3>4. stage' = "idle" => compacting' = 0 /\ sealed' = {}
      BY <2>2, FS_EmptySet DEF Snapshot
    <3>5. stage' # "idle" => compacting' = Cardinality(sealed')
      BY <2>2 DEF Snapshot
    <3> QED
      BY <2>1, <3>2, <3>3, <3>4, <3>5 DEF WindowInv
  <2>3. CASE Install
    BY <2>1, <2>3 DEF Install, WindowInv
  <2>4. CASE Abandon \/ Retire
    <3>1. sealed' = {} /\ stage' = "idle" /\ compacting' = 0
      BY <2>4 DEF Abandon, Retire
    <3>2. PublishedOf(delta') \in SUBSET delta'
      BY DEF PublishedOf
    <3>3. Cardinality(PublishedOf(delta')) \in Nat
      BY <3>2, FS_Subset, FS_CardinalityType DEF IndexInv
    <3> QED
      BY <2>1, <3>1, <3>3, FS_EmptySet DEF WindowInv
  <2> QED
    BY <1>8, <2>2, <2>3, <2>4 DEF Compact
<1>9. ASSUME NEW q \in Reader, LoadCold(q) \/ ReadDelta(q) PROVE WindowInv'
  BY <1>9 DEF LoadCold, ReadDelta, callerVars, compactVars, WindowInv, DeleteIsNew
<1>10. CASE UNCHANGED vars
  BY <1>10 DEF vars, callerVars, compactVars, WindowInv, DeleteIsNew
<1> QED
  BY <1>1, <1>2, <1>3, <1>4, <1>5, <1>6, <1>7, <1>8, <1>9, <1>10
  DEF Next, Land

\* The build window is the size of the build in flight, closes with it and is
\* never larger than the delta, so admission's subtraction never saturates.
THEOREM WindowStaysHonest == Spec => []WindowIsHonest
<1>1. Init => SealedInv
  BY DEF Init, SealedInv, CallsDistinct, ReservedHidden, MayUndo, SealedStillInDelta
<1> QED
  BY IndexInvInit, IndexInvNext, SealedInvNext, WindowInvInit, WindowInvNext,
     WindowIsHonestOf, <1>1, PTL DEF Spec

-----------------------------------------------------------------------------
(* The bound on the vectors in the delta, while no build fails.  What is   *)
(* admitted is counted against DeltaMax and the size of the build; the     *)
(* entries of the build, or the tombstones that replaced them, still fill  *)
(* the delta, so the entries outside it never exceed DeltaMax.             *)

\* Vectors that are not in the build, and the entries that stand for it.
Outside == {e \in delta : ~e.tombstoned /\ e \notin sealed}
Standing == {e \in delta : e.tombstoned \/ e \in sealed}
SealedVectors == {s \in sealed : ~s.tombstoned}

BoundInv ==
    /\ \A e \in delta : e.tombstoned => e.published
    /\ \A s \in sealed : s.published
    /\ Cardinality(Outside) <= DeltaMax
    /\ Cardinality(SealedVectors) <= DeltaMax
    /\ Cardinality(sealed) <= Cardinality(Standing)

\* A part of a finite set is finite and not larger.
LEMMA PartBound ==
    ASSUME NEW S, IsFiniteSet(S), NEW T, T \subseteq S
    PROVE  /\ IsFiniteSet(T) /\ Cardinality(T) <= Cardinality(S)
           /\ Cardinality(T) \in Nat /\ Cardinality(S) \in Nat
<1>1. T \in SUBSET S
  OBVIOUS
<1> QED
  BY <1>1, FS_Subset, FS_CardinalityType

LEMMA PartsFinite ==
    ASSUME IndexInv, WindowInv
    PROVE  /\ IsFiniteSet(Outside) /\ Cardinality(Outside) \in Nat
           /\ IsFiniteSet(Standing) /\ Cardinality(Standing) \in Nat
           /\ IsFiniteSet(SealedVectors) /\ Cardinality(SealedVectors) \in Nat
           /\ Cardinality(sealed) \in Nat
<1>1. Outside \subseteq delta /\ Standing \subseteq delta /\ SealedVectors \subseteq sealed
  BY DEF Outside, Standing, SealedVectors
<1> QED
  BY <1>1, PartBound DEF IndexInv, WindowInv

LEMMA BoundImplies == IndexInv /\ WindowInv /\ BoundInv => VectorsBounded
<1> SUFFICES ASSUME IndexInv, WindowInv, BoundInv PROVE VectorsBounded
  OBVIOUS
<1> DEFINE live == {e \in delta : ~e.tombstoned}
<1>1. live \subseteq Outside \cup SealedVectors
  BY DEF Outside, SealedVectors
<1>2. /\ IsFiniteSet(Outside \cup SealedVectors)
      /\ Cardinality(Outside \cup SealedVectors) =
             Cardinality(Outside) + Cardinality(SealedVectors)
                 - Cardinality(Outside \cap SealedVectors)
  BY PartsFinite, FS_Union
<1>3. Cardinality(Outside \cap SealedVectors) \in Nat
  <2>1. Outside \cap SealedVectors \subseteq Outside
    OBVIOUS
  <2> QED
    BY <2>1, PartsFinite, PartBound
<1>4. Cardinality(live) <= Cardinality(Outside \cup SealedVectors)
  BY <1>1, <1>2, PartBound
<1>5. Cardinality(live) \in Nat
  BY <1>1, <1>2, PartBound
<1> HIDE DEF live
<1>6. Cardinality(live) <= 2 * DeltaMax
  BY <1>2, <1>3, <1>4, <1>5, PartsFinite, ConstantsAssumption DEF BoundInv
<1> QED
  BY <1>6 DEF VectorsBounded, live

\* A step beside the build: the entries that stand for it may only grow, and
\* what is outside it keeps within the capacity.
LEMMA BoundKept ==
    ASSUME IndexInv, IndexInv', WindowInv, WindowInv', BoundInv, sealed' = sealed,
           \A e \in delta' : e.tombstoned => e.published,
           Cardinality(Outside') <= DeltaMax,
           Standing \subseteq Standing'
    PROVE  BoundInv'
<1>1. IsFiniteSet(Standing')
  <2>1. Standing' \subseteq delta'
    BY DEF Standing
  <2> QED
    BY <2>1, PartBound DEF IndexInv
<1>2. Cardinality(Standing) <= Cardinality(Standing') /\ Cardinality(Standing') \in Nat
  BY <1>1, PartBound
<1>3. Cardinality(sealed') <= Cardinality(Standing')
  BY <1>2, PartsFinite DEF BoundInv
<1>4. SealedVectors' = SealedVectors
  BY DEF SealedVectors
<1> QED
  BY <1>3, <1>4 DEF BoundInv

\* The admission test leaves room for one vector outside the build.
LEMMA AdmittedOutside ==
    ASSUME IndexInv, WindowInv, BoundInv, ~Full
    PROVE  Cardinality(Outside) + 1 <= DeltaMax
<1>1. delta = Outside \cup Standing /\ Outside \cap Standing = {}
  BY DEF Outside, Standing
<1>2. Cardinality(delta) = Cardinality(Outside) + Cardinality(Standing)
  <2>1. Cardinality(Outside \cap Standing) = 0
    BY <1>1, FS_EmptySet
  <2>2. Cardinality(Outside \cup Standing) =
            Cardinality(Outside) + Cardinality(Standing)
                - Cardinality(Outside \cap Standing)
    BY PartsFinite, FS_Union
  <2> QED
    BY <1>1, <2>1, <2>2, PartsFinite
<1>3. compacting = Cardinality(sealed)
  BY FS_EmptySet DEF WindowInv
<1>4. Cardinality(delta) < DeltaMax + Cardinality(sealed)
  BY <1>2, <1>3, PartsFinite, ConstantsAssumption DEF Full
<1> QED
  BY <1>2, <1>4, PartsFinite, ConstantsAssumption DEF BoundInv

LEMMA BoundInvNext ==
    ASSUME ~BuildMayFail
    PROVE  /\ IndexInv /\ SealedInv /\ WindowInv /\ BoundInv
           /\ IndexInv' /\ WindowInv' /\ [Next]_vars
           => BoundInv'
<1> SUFFICES ASSUME IndexInv, SealedInv, WindowInv, BoundInv,
                    IndexInv', WindowInv', [Next]_vars
             PROVE  BoundInv'
  OBVIOUS
<1>1. CASE UNCHANGED <<delta, sealed>>
  BY <1>1 DEF BoundInv, Outside, Standing, SealedVectors
<1>2. ASSUME NEW c \in Caller, Append(c) PROVE BoundInv'
  <2>1. PICK p \in BOOLEAN : delta' = delta \cup {Fresh(c, FALSE, p)}
    BY <1>2 DEF Append
  <2>2. ~Fresh(c, FALSE, p).tombstoned
    BY DEF Fresh
  <2>3. sealed' = sealed /\ ~Full
    BY <1>2 DEF Append, compactVars
  <2>4. Outside' \subseteq Outside \cup {Fresh(c, FALSE, p)}
    BY <2>1, <2>3 DEF Outside
  <2>5. /\ IsFiniteSet(Outside \cup {Fresh(c, FALSE, p)})
        /\ Cardinality(Outside \cup {Fresh(c, FALSE, p)}) <= Cardinality(Outside) + 1
    <3>1. /\ IsFiniteSet(Outside \cup {Fresh(c, FALSE, p)})
          /\ \/ Cardinality(Outside \cup {Fresh(c, FALSE, p)}) = Cardinality(Outside)
             \/ Cardinality(Outside \cup {Fresh(c, FALSE, p)}) = Cardinality(Outside) + 1
      BY PartsFinite, FS_AddElement
    <3> QED
      BY <3>1, PartsFinite
  <2>6. /\ Cardinality(Outside') <= Cardinality(Outside \cup {Fresh(c, FALSE, p)})
        /\ Cardinality(Outside') \in Nat
        /\ Cardinality(Outside \cup {Fresh(c, FALSE, p)}) \in Nat
    BY <2>4, <2>5, PartBound
  <2>7. Cardinality(Outside') <= DeltaMax
    BY <2>3, <2>5, <2>6, AdmittedOutside, PartsFinite, ConstantsAssumption
  <2>8. Standing \subseteq Standing'
    BY <2>1, <2>3 DEF Standing
  <2>9. \A e \in delta' : e.tombstoned => e.published
    BY <2>1, <2>2 DEF BoundInv
  <2> QED
    BY <2>3, <2>7, <2>8, <2>9, BoundKept
<1>3. ASSUME NEW c \in Caller, RemoveAppended(c) PROVE BoundInv'
  <2>1. sealed' = sealed /\ delta' \subseteq delta
    BY <1>3 DEF RemoveAppended, compactVars
  <2>2. \A e \in delta : e.published => e \in delta'
    BY <1>3 DEF RemoveAppended, SealedInv, ReservedHidden, MayUndo
  <2>3. Outside' \subseteq Outside
    BY <2>1 DEF Outside
  <2>4. Standing \subseteq Standing'
    BY <2>1, <2>2 DEF Standing, BoundInv
  <2>5. Cardinality(Outside') <= DeltaMax
    BY <2>3, PartsFinite, PartBound, ConstantsAssumption DEF BoundInv
  <2> QED
    BY <2>1, <2>4, <2>5, BoundKept DEF BoundInv
<1>4. ASSUME NEW c \in Caller, Publish(c) PROVE BoundInv'
  <2> DEFINE flip(e) == IF e.rid = call[c].rid /\ e.seq = call[c].seq
                        THEN [e EXCEPT !.published = TRUE] ELSE e
  <2>1. sealed' = sealed /\ delta' = {flip(e) : e \in delta}
    BY <1>4 DEF Publish, Published, compactVars
  <2>2. \A e \in delta : /\ flip(e).tombstoned = e.tombstoned
                         /\ e.published => flip(e) = e
                         /\ flip(e).published \/ flip(e) = e
    BY DEF IndexInv, TypeOK, Entry
  <2>3. Standing \subseteq Standing'
    <3>1. ASSUME NEW e \in Standing PROVE e \in Standing'
      <4>1. e \in delta /\ e.published
        BY DEF Standing, BoundInv
      <4>2. e \in delta'
        BY <2>1, <2>2, <4>1
      <4> QED
        BY <2>1, <4>2 DEF Standing
    <3> QED
      BY <3>1
  <2>4. ASSUME NEW f \in delta', f.tombstoned PROVE f.published
    <3>1. PICK e \in delta : f = flip(e)
      BY <2>1
    <3>2. e.tombstoned
      BY <2>2, <2>4, <3>1
    <3> QED
      BY <2>2, <3>1, <3>2 DEF BoundInv
  <2>5. Outside' \subseteq {flip(e) : e \in Outside}
    <3>1. ASSUME NEW f \in Outside' PROVE \E e \in Outside : f = flip(e)
      <4>1. PICK e \in delta : f = flip(e)
        BY <2>1 DEF Outside
      <4>2. ~f.tombstoned /\ f \notin sealed
        BY <2>1 DEF Outside
      <4>3. ~e.tombstoned
        BY <2>2, <4>1, <4>2
      <4>4. e \notin sealed
        BY <2>2, <4>1, <4>2 DEF BoundInv
      <4> QED
        BY <4>1, <4>3, <4>4 DEF Outside
    <3> QED
      BY <3>1
  <2>6. /\ IsFiniteSet({flip(e) : e \in Outside})
        /\ Cardinality({flip(e) : e \in Outside}) <= Cardinality(Outside)
    <3> DEFINE T == {flip(e) : e \in Outside}
               g == [e \in Outside |-> flip(e)]
    <3>1. g \in Surjection(Outside, T)
      BY DEF Surjection
    <3> QED
      BY <3>1, PartsFinite, FS_Surjection
  <2>7. /\ Cardinality(Outside') <= Cardinality({flip(e) : e \in Outside})
        /\ Cardinality(Outside') \in Nat
        /\ Cardinality({flip(e) : e \in Outside}) \in Nat
    BY <2>5, <2>6, PartBound
  <2> HIDE DEF flip
  <2>8. Cardinality(Outside') <= DeltaMax
    BY <2>6, <2>7, PartsFinite, ConstantsAssumption DEF BoundInv
  <2> QED
    BY <2>1, <2>3, <2>4, <2>8, BoundKept
<1>5. ASSUME NEW c \in Caller, TombstoneInPlace(c) PROVE BoundInv'
  <2>1. /\ pc[c] = "taken" /\ call[c].kind = "delete" /\ sealed' = sealed
    BY <1>5 DEF TombstoneInPlace, compactVars
  <2>2. PICK e \in Targets(c) :
            delta' = (delta \ {e}) \cup
                     {[e EXCEPT !.tombstoned = TRUE, !.seq = call[c].seq]}
    BY <1>5 DEF TombstoneInPlace
  <2>3. PICK t : t = [e EXCEPT !.tombstoned = TRUE, !.seq = call[c].seq]
    OBVIOUS
  <2>4. e \in delta /\ e \in Entry /\ e.published
    BY DEF Targets, IndexInv, TypeOK
  <2>5. t.seq = call[c].seq /\ t.tombstoned /\ t.published
    BY <2>3, <2>4 DEF Entry
  <2>6. t \notin delta
    BY <2>1, <2>5 DEF WindowInv, DeleteIsNew
  <2>7. Outside' \subseteq Outside
    BY <2>1, <2>2, <2>3, <2>5 DEF Outside
  <2>8. Cardinality(Outside') <= DeltaMax
    BY <2>7, PartsFinite, PartBound, ConstantsAssumption DEF BoundInv
  <2>9. (Standing \ {e}) \cup {t} \subseteq Standing'
    BY <2>1, <2>2, <2>3, <2>5 DEF Standing
  <2>10. /\ IsFiniteSet(Standing \ {e})
         /\ Cardinality(Standing \ {e}) >= Cardinality(Standing) - 1
         /\ Cardinality(Standing \ {e}) \in Nat
    <3>1. /\ IsFiniteSet(Standing \ {e})
          /\ \/ Cardinality(Standing \ {e}) = Cardinality(Standing)
             \/ Cardinality(Standing \ {e}) = Cardinality(Standing) - 1
      BY PartsFinite, FS_RemoveElement
    <3>2. Cardinality(Standing \ {e}) \in Nat
      BY <3>1, FS_CardinalityType
    <3> QED
      BY <3>1, <3>2, PartsFinite
  <2>11. t \notin Standing \ {e}
    BY <2>6 DEF Standing
  <2>12. /\ IsFiniteSet((Standing \ {e}) \cup {t})
         /\ Cardinality((Standing \ {e}) \cup {t}) = Cardinality(Standing \ {e}) + 1
    BY <2>10, <2>11, FS_AddElement
  <2>13. Standing' \subseteq delta'
    BY DEF Standing
  <2>14. IsFiniteSet(Standing')
    BY <2>13, PartBound DEF IndexInv
  <2>15. /\ Cardinality((Standing \ {e}) \cup {t}) <= Cardinality(Standing')
         /\ Cardinality(Standing') \in Nat
    BY <2>9, <2>14, PartBound
  <2>16. Cardinality(sealed') <= Cardinality(Standing')
    BY <2>1, <2>10, <2>12, <2>15, PartsFinite DEF BoundInv
  <2>17. \A f \in delta' : f.tombstoned => f.published
    BY <2>2, <2>3, <2>5 DEF BoundInv
  <2>18. SealedVectors' = SealedVectors /\ \A s \in sealed' : s.published
    BY <2>1 DEF SealedVectors, BoundInv
  <2> QED
    BY <2>8, <2>16, <2>17, <2>18 DEF BoundInv
<1>6. ASSUME NEW c \in Caller, TombstoneMarker(c) PROVE BoundInv'
  <2>1. /\ sealed' = sealed /\ delta' = delta \cup {Fresh(c, TRUE, TRUE)}
        /\ Fresh(c, TRUE, TRUE).tombstoned /\ Fresh(c, TRUE, TRUE).published
    BY <1>6 DEF TombstoneMarker, compactVars, Fresh
  <2>2. Outside' = Outside
    BY <2>1 DEF Outside
  <2>3. Standing \subseteq Standing'
    BY <2>1 DEF Standing
  <2>4. \A e \in delta' : e.tombstoned => e.published
    BY <2>1 DEF BoundInv
  <2>5. Cardinality(Outside') <= DeltaMax
    BY <2>2 DEF BoundInv
  <2> QED
    BY <2>1, <2>3, <2>4, <2>5, BoundKept
<1>7. CASE Snapshot
  <2>1. delta' = delta /\ sealed' = PublishedOf(delta) /\ sealed = {}
    BY <1>7 DEF Snapshot, PublishedOf, WindowInv
  <2>2. Outside' \subseteq Outside /\ SealedVectors' \subseteq Outside
    BY <2>1 DEF Outside, SealedVectors, PublishedOf
  <2>3. Cardinality(Outside') <= DeltaMax /\ Cardinality(SealedVectors') <= DeltaMax
    BY <2>2, PartsFinite, PartBound, ConstantsAssumption DEF BoundInv
  <2>4. sealed' \subseteq Standing' /\ Standing' \subseteq delta'
    BY <2>1 DEF Standing, PublishedOf
  <2>5. IsFiniteSet(Standing')
    BY <2>4, PartBound DEF IndexInv
  <2>6. Cardinality(sealed') <= Cardinality(Standing')
    BY <2>4, <2>5, PartBound
  <2> QED
    BY <2>1, <2>3, <2>6 DEF BoundInv, PublishedOf
<1>8. CASE Install
  BY <1>1, <1>8 DEF Install
<1>9. CASE Abandon
  BY <1>9 DEF Abandon
<1>10. CASE Retire
  <2>1. sealed' = {} /\ delta' = Retired(delta)
    BY <1>10 DEF Retire
  <2>2. Outside' \subseteq Outside /\ SealedVectors' = {}
    BY <2>1 DEF Outside, SealedVectors, Retired
  <2>3. Cardinality(Outside') <= DeltaMax
    BY <2>2, PartsFinite, PartBound, ConstantsAssumption DEF BoundInv
  <2>4. Standing' \subseteq delta'
    BY DEF Standing
  <2>5. Cardinality(Standing') \in Nat
    BY <2>4, PartBound DEF IndexInv
  <2>6. \A e \in delta' : e.tombstoned => e.published
    BY <2>1 DEF Retired, BoundInv
  <2> QED
    BY <2>1, <2>2, <2>3, <2>5, <2>6, FS_EmptySet, ConstantsAssumption DEF BoundInv
<1>11. ASSUME NEW c \in Caller,
              AlreadyPresent(c) \/ Refused(c) \/ Stamp(c) \/ Commit(c) \/ Restamp(c)
       PROVE  BoundInv'
  <2>1. UNCHANGED <<delta, sealed>>
    BY <1>11 DEF AlreadyPresent, Refused, Stamp, Commit, Restamp, compactVars
  <2> QED
    BY <1>1, <2>1
<1>12. ASSUME NEW c \in Caller, NEW kind \in Kind, NEW r \in Rid, TakeSeq(c, kind, r)
       PROVE  BoundInv'
  BY <1>1, <1>12 DEF TakeSeq, compactVars
<1>13. ASSUME NEW c \in Caller, NEW v \in committed, Redeliver(c, v[1], v[2])
       PROVE  BoundInv'
  BY <1>1, <1>13 DEF Redeliver, compactVars
<1>14. ASSUME NEW q \in Reader, LoadCold(q) \/ ReadDelta(q) PROVE BoundInv'
  BY <1>1, <1>14 DEF LoadCold, ReadDelta, compactVars
<1>15. CASE UNCHANGED vars
  BY <1>1, <1>15 DEF vars, compactVars
<1> QED
  BY <1>2, <1>3, <1>4, <1>5, <1>6, <1>7, <1>8, <1>9, <1>10, <1>11, <1>12,
     <1>13, <1>14, <1>15
  DEF Next, Land, Compact

\* While no build fails the delta never holds more than two capacities' worth
\* of vectors, whatever the callers do and however often it is compacted.
THEOREM DeltaStaysBounded ==
    ASSUME ~BuildMayFail
    PROVE  Spec => []VectorsBounded
<1>1. Init => SealedInv
  BY DEF Init, SealedInv, CallsDistinct, ReservedHidden, MayUndo, SealedStillInDelta
<1>2. Init => BoundInv
  <2> SUFFICES ASSUME Init PROVE BoundInv
    OBVIOUS
  <2>1. Outside = {} /\ Standing = {} /\ SealedVectors = {}
    BY DEF Init, Outside, Standing, SealedVectors
  <2> QED
    BY <2>1, FS_EmptySet, ConstantsAssumption DEF Init, BoundInv
<1>3. /\ IndexInv /\ SealedInv /\ WindowInv /\ BoundInv
      /\ IndexInv' /\ WindowInv' /\ [Next]_vars
      => BoundInv'
  BY BoundInvNext
<1> QED
  BY IndexInvInit, IndexInvNext, SealedInvNext, WindowInvInit, WindowInvNext,
     BoundImplies, <1>1, <1>2, <1>3, PTL DEF Spec

-----------------------------------------------------------------------------
(* The refinement.  When the writes of one rid reach the index one after   *)
(* the other, the call under way for a rid carries the newest number of    *)
(* that rid anywhere; so what it publishes or deletes wins over the delta, *)
(* over the build and over the cold tier, and retiring a build uncovers in *)
(* the cold tier exactly the winners the delta showed.                     *)

\* At most one call of a rid is under way.
OneCallPerRid ==
    \A c, d \in Caller : c # d /\ pc[c] # "idle" /\ pc[d] # "idle" =>
        call[c].rid # call[d].rid

NumbersHandedOut ==
    /\ \A e \in delta \cup sealed : e.seq <= vecSeq
    /\ \A v \in cold : v[2] <= vecSeq

\* A number names one entry; an entry of the build still in the delta is
\* there as it was.
OneEntryPerNumber ==
    \A e, f \in delta \cup sealed : e.seq = f.seq => e = f

Newest(c) ==
    Unseen(c) =>
        /\ \A e \in delta : e.rid = call[c].rid =>
               e.seq < call[c].seq \/ e = Fresh(c, FALSE, FALSE)
        /\ \A s \in sealed : s.rid = call[c].rid => s.seq < call[c].seq
        /\ \A v \in cold : v[1] = call[c].rid => v[2] < call[c].seq
        /\ pc[c] = "taken" => \A e \in delta \cup sealed : e.seq # call[c].seq
        /\ Holding(c) => Fresh(c, FALSE, FALSE) \in delta

CallIsNewest == \A c \in Caller : Newest(c)

\* What became visible during a build is newer than the build's entries.
LaterIsNewer ==
    \A s \in sealed :
        /\ s.published
        /\ \A e \in delta : e.published /\ e.rid = s.rid /\ e \notin sealed =>
               e.seq > s.seq

\* After the install the cold tier holds the winners of the build.
InstalledTier ==
    stage = "installed" =>
        \A v : v[1] \in Decided(sealed) => (v \in cold <=> v \in Vectors(Winners(sealed)))

MapInv ==
    /\ OneCallPerRid /\ NumbersHandedOut /\ OneEntryPerNumber
    /\ CallIsNewest /\ LaterIsNewer /\ InstalledTier

\* Entries nobody published decide nothing.
LEMMA FoundHidden ==
    ASSUME NEW t, NEW D, NEW E, PublishedOf(D) = PublishedOf(E)
    PROVE  Found(t, D) = Found(t, E)
<1>1. \A e : (e \in D /\ e.published) <=> (e \in E /\ e.published)
  BY DEF PublishedOf
<1>2. Winners(D) = Winners(E) /\ Decided(D) = Decided(E)
  BY <1>1 DEF Winners, Decided
<1> QED
  BY <1>2 DEF Found

\* A published entry newer than the others of its rid decides that rid, and
\* no other.
LEMMA FoundWinner ==
    ASSUME NEW t, NEW D \in SUBSET Entry, NEW E \in SUBSET Entry, NEW w \in E,
           w.published,
           \A e \in E : e.published /\ e.rid = w.rid => e = w \/ e.seq < w.seq,
           \A e \in Entry : e.published /\ e.rid # w.rid => (e \in D <=> e \in E)
    PROVE  Found(t, E) = {v \in Found(t, D) : v[1] # w.rid}
                         \cup (IF w.tombstoned THEN {} ELSE {<<w.rid, w.seq>>})
<1>1. \A e \in Winners(E) : e.rid = w.rid <=> e = w
  BY DEF Winners, Entry, Seq
<1>2. w \in Winners(E)
  BY DEF Winners, Entry, Seq
<1>3. \A e : e.rid # w.rid => (e \in Winners(D) <=> e \in Winners(E))
  BY DEF Winners, Entry
<1>4. \A r : r # w.rid => (r \in Decided(D) <=> r \in Decided(E))
  BY DEF Decided, Entry
<1>5. w.rid \in Decided(E)
  BY DEF Decided
<1>6. ASSUME NEW v \in Vectors(Winners(E))
      PROVE  v \in {x \in Found(t, D) : x[1] # w.rid}
                   \cup (IF w.tombstoned THEN {} ELSE {<<w.rid, w.seq>>})
  <2>1. PICK e \in Winners(E) : ~e.tombstoned /\ v = <<e.rid, e.seq>>
    BY <1>6 DEF Vectors
  <2>2. CASE e = w
    BY <2>1, <2>2
  <2>3. CASE e # w
    <3>1. e.rid # w.rid /\ e \in Winners(D)
      BY <1>1, <1>3, <2>3
    <3> QED
      BY <2>1, <3>1 DEF Found, Vectors
  <2> QED
    BY <2>2, <2>3
<1>7. ASSUME NEW v \in Found(t, D), v[1] # w.rid PROVE v \in Found(t, E)
  <2>1. CASE v \in Vectors(Winners(D))
    <3>1. PICK e \in Winners(D) : ~e.tombstoned /\ v = <<e.rid, e.seq>>
      BY <2>1 DEF Vectors
    <3>2. e \in Winners(E)
      BY <1>3, <1>7, <3>1
    <3> QED
      BY <3>1, <3>2 DEF Found, Vectors
  <2>2. CASE v \in t /\ v[1] \notin Decided(D)
    BY <1>4, <1>7, <2>2 DEF Found
  <2> QED
    BY <1>7, <2>1, <2>2 DEF Found
<1>8. ASSUME NEW v \in t, v[1] \notin Decided(E)
      PROVE  v \in Found(t, D) /\ v[1] # w.rid
  BY <1>4, <1>5, <1>8 DEF Found
<1>9. ~w.tombstoned => <<w.rid, w.seq>> \in Found(t, E)
  BY <1>2 DEF Found, Vectors
<1> QED
  BY <1>6, <1>7, <1>8, <1>9 DEF Found

\* What a caller's step does to the other callers and to the build.
LEMMA CallerMapKept ==
    ASSUME IndexInv, SealedInv, MapInv, NEW c \in Caller, NEW label,
           pc[c] # "idle", label # "taken", Goto(c, label), vecSeq' = vecSeq,
           cold' = cold, sealed' = sealed, stage' = stage,
           \A f \in delta' : \/ \E e \in delta : f = e
                             \/ f.rid = call[c].rid /\ f.seq = call[c].seq,
           \A e \in delta : e \in delta' \/ e.rid = call[c].rid
    PROVE  /\ OneCallPerRid' /\ NumbersHandedOut' /\ InstalledTier'
           /\ \A d \in Caller : d # c => Newest(d)'
<1>1. CallsDistinct
  BY DEF SealedInv
<1>2. /\ \A d \in Caller : d # c => pc'[d] = pc[d] /\ call'[d] = call[d]
      /\ pc'[c] = label /\ (label # "idle" => call'[c] = call[c])
  BY <1>1, GotoCalls
<1>3. OneCallPerRid'
  BY <1>2 DEF MapInv, OneCallPerRid
<1>4. NumbersHandedOut'
  BY DEF MapInv, NumbersHandedOut, IndexInv, TypeOK
<1>5. InstalledTier'
  BY DEF MapInv, InstalledTier
<1>6. ASSUME NEW d \in Caller, d # c, Unseen(d)' PROVE Newest(d)'
  <2>1. pc'[d] = pc[d] /\ call'[d] = call[d] /\ Unseen(d) /\ pc[d] # "idle"
    BY <1>2, <1>6 DEF Unseen, Holding, MayUndo
  <2>2. call[c].rid # call[d].rid /\ call[c].seq # call[d].seq
    BY <1>1, <1>6, <2>1 DEF MapInv, OneCallPerRid, CallsDistinct
  <2>3. Newest(d)
    BY DEF MapInv, CallIsNewest
  <2>4. Fresh(d, FALSE, FALSE)' = Fresh(d, FALSE, FALSE)
    BY <2>1 DEF Fresh
  <2>5. Fresh(d, FALSE, FALSE).rid = call[d].rid
    BY DEF Fresh
  <2>6. \A e \in delta' : e.rid = call[d].rid => e \in delta
    BY <2>2
  <2>7. \A e \in delta' \cup sealed' : e \in delta \cup sealed \/ e.seq = call[c].seq
    OBVIOUS
  <2>8. Holding(d)' <=> Holding(d)
    BY <2>1 DEF Holding, MayUndo
  <2>9. \A e \in delta' : e.rid = call'[d].rid =>
            e.seq < call'[d].seq \/ e = Fresh(d, FALSE, FALSE)'
    BY <2>1, <2>3, <2>4, <2>6 DEF Newest
  <2>10. \A e \in sealed' : e.rid = call'[d].rid => e.seq < call'[d].seq
    BY <2>1, <2>3 DEF Newest
  <2>11. \A v \in cold' : v[1] = call'[d].rid => v[2] < call'[d].seq
    BY <2>1, <2>3 DEF Newest
  <2>12. pc'[d] = "taken" => \A e \in delta' \cup sealed' : e.seq # call'[d].seq
    BY <2>1, <2>2, <2>3, <2>7 DEF Newest
  <2>13. Holding(d)' => Fresh(d, FALSE, FALSE)' \in delta'
    BY <2>1, <2>2, <2>3, <2>4, <2>5, <2>8 DEF Newest
  <2> QED
    BY <2>9, <2>10, <2>11, <2>12, <2>13 DEF Newest
<1>7. ASSUME NEW d \in Caller, d # c PROVE Newest(d)'
  <2>1. CASE Unseen(d)'
    BY <1>6, <1>7, <2>1
  <2>2. CASE ~Unseen(d)'
    BY <2>2 DEF Newest
  <2> QED
    BY <2>1, <2>2
<1> QED
  BY <1>3, <1>4, <1>5, <1>7

\* The entry a call reserved becomes the published one; nothing else changes.
LEMMA PublishSwaps ==
    ASSUME IndexInv, MapInv, NEW c \in Caller, pc[c] = "durable"
    PROVE  /\ Published(delta, call[c].rid, call[c].seq) =
                  (delta \ {Fresh(c, FALSE, FALSE)}) \cup {Fresh(c, FALSE, TRUE)}
           /\ Fresh(c, FALSE, FALSE) \in delta
           /\ Fresh(c, FALSE, TRUE) \in Entry
<1>1. Newest(c) /\ Holding(c) /\ Unseen(c) /\ call[c] \in Call
  BY DEF MapInv, CallIsNewest, Holding, Unseen, IndexInv, TypeOK
<1> DEFINE o == Fresh(c, FALSE, FALSE)
           p == Fresh(c, FALSE, TRUE)
           flip(e) == IF e.rid = call[c].rid /\ e.seq = call[c].seq
                      THEN [e EXCEPT !.published = TRUE] ELSE e
<1>2. o \in delta /\ o \in Entry /\ p \in Entry
  BY <1>1, FreshType DEF Newest
<1>3. flip(o) = p
  BY <1>1 DEF Fresh, Call
<1>4. ASSUME NEW e \in delta, e # o PROVE flip(e) = e
  <2>1. e.rid = call[c].rid => e.seq < call[c].seq
    BY <1>1, <1>4 DEF Newest
  <2>2. e.seq \in Nat /\ call[c].seq \in Nat
    BY <1>1 DEF IndexInv, TypeOK, Entry, Call, Seq
  <2>3. ~(e.rid = call[c].rid /\ e.seq = call[c].seq)
    BY <2>1, <2>2
  <2> QED
    BY <2>3
<1>5. Published(delta, call[c].rid, call[c].seq) = {flip(e) : e \in delta}
  BY DEF Published
<1> HIDE DEF o, p, flip
<1>6. {flip(e) : e \in delta} = (delta \ {o}) \cup {p}
  BY <1>2, <1>3, <1>4
<1> QED
  BY <1>2, <1>5, <1>6 DEF o, p

LEMMA MapInvNext ==
    ASSUME Ordered
    PROVE  IndexInv /\ IndexInv' /\ SealedInv /\ MapInv /\ [Next]_vars => MapInv'
<1> SUFFICES ASSUME IndexInv, IndexInv', SealedInv, MapInv, [Next]_vars
             PROVE  MapInv'
  OBVIOUS
<1>0. /\ OneCallPerRid /\ NumbersHandedOut /\ OneEntryPerNumber
      /\ CallIsNewest /\ LaterIsNewer /\ InstalledTier
  BY DEF MapInv
<1>a. \A c \in Caller : pc[c] # "idle" => call[c] \in Call /\ call[c].seq \in Seq
  BY DEF IndexInv, TypeOK, Call
<1>b. \A e \in delta \cup sealed : e \in Entry /\ e.seq \in Seq
  BY DEF IndexInv, TypeOK, Entry
<1>1. ASSUME NEW c \in Caller, NEW kind \in Kind, NEW r \in Rid, TakeSeq(c, kind, r)
      PROVE  MapInv'
  <2>1. /\ vecSeq' = vecSeq + 1 /\ vecSeq \in Nat
        /\ call'[c] = [kind |-> kind, rid |-> r, seq |-> vecSeq + 1]
        /\ pc'[c] = "taken"
        /\ \A d \in Caller : d # c => pc'[d] = pc[d] /\ call'[d] = call[d]
        /\ UNCHANGED <<cold, delta, sealed, stage>>
    BY <1>1 DEF TakeSeq, compactVars, IndexInv, TypeOK
  <2>2. OneCallPerRid'
    BY <1>0, <1>1, <2>1 DEF TakeSeq, MayStart, OneCallPerRid
  <2>3. NumbersHandedOut'
    BY <1>0, <1>b, <2>1 DEF NumbersHandedOut, Seq, IndexInv, TypeOK, Vector
  <2>4. OneEntryPerNumber' /\ LaterIsNewer' /\ InstalledTier'
    BY <1>0, <2>1 DEF OneEntryPerNumber, LaterIsNewer, InstalledTier
  <2>5. Newest(c)'
    <3>1. ~Holding(c)'
      BY <2>1 DEF Holding, MayUndo
    <3>2. \A e \in delta' \cup sealed' : e.seq < call'[c].seq /\ e.seq # call'[c].seq
      BY <1>0, <1>b, <2>1 DEF NumbersHandedOut, Seq
    <3>3. \A v \in cold' : v[2] < call'[c].seq
      BY <1>0, <2>1 DEF NumbersHandedOut, Seq, IndexInv, TypeOK, Vector
    <3> QED
      BY <3>1, <3>2, <3>3 DEF Newest
  <2>6. ASSUME NEW d \in Caller, d # c PROVE Newest(d)'
    <3>1. Fresh(d, FALSE, FALSE)' = Fresh(d, FALSE, FALSE)
      BY <2>1, <2>6 DEF Fresh
    <3>2. Newest(d)
      BY <1>0 DEF CallIsNewest
    <3> QED
      BY <2>1, <2>6, <3>1, <3>2 DEF Newest, Unseen, Holding, MayUndo
  <2> QED
    BY <2>2, <2>3, <2>4, <2>5, <2>6 DEF MapInv, CallIsNewest
<1>2. ASSUME NEW c \in Caller, NEW v \in committed, Redeliver(c, v[1], v[2])
      PROVE  MapInv'
  BY <1>2 DEF Redeliver
<1>3. ASSUME NEW c \in Caller,
             AlreadyPresent(c) \/ Refused(c) \/ Stamp(c) \/ Commit(c) \/ Restamp(c)
      PROVE  MapInv'
  <2>1. PICK label \in {"idle", "durable", "reserved"} :
            /\ pc[c] # "idle" /\ Goto(c, label) /\ vecSeq' = vecSeq
            /\ cold' = cold /\ delta' = delta /\ sealed' = sealed /\ stage' = stage
            /\ label # "idle" => Holding(c)
    BY <1>3 DEF AlreadyPresent, Refused, Stamp, Commit, Restamp, compactVars,
                Holding, MayUndo
  <2>2. /\ OneCallPerRid' /\ NumbersHandedOut' /\ InstalledTier'
        /\ \A d \in Caller : d # c => Newest(d)'
    BY <2>1, CallerMapKept
  <2>3. pc'[c] = label /\ (label # "idle" => call'[c] = call[c])
    BY <2>1, GotoCalls DEF SealedInv
  <2>4. Newest(c)'
    <3>1. CASE label = "idle"
      BY <2>3, <3>1 DEF Newest, Unseen, Holding, MayUndo
    <3>2. CASE label # "idle"
      <4>1. Newest(c) /\ Holding(c) /\ Unseen(c)
        BY <1>0, <2>1, <3>2 DEF CallIsNewest, Unseen
      <4>2. Fresh(c, FALSE, FALSE)' = Fresh(c, FALSE, FALSE) /\ call'[c] = call[c]
        BY <2>3, <3>2 DEF Fresh
      <4> QED
        BY <2>1, <2>3, <4>1, <4>2 DEF Newest
    <3> QED
      BY <3>1, <3>2
  <2>5. OneEntryPerNumber' /\ LaterIsNewer'
    BY <1>0, <2>1 DEF OneEntryPerNumber, LaterIsNewer
  <2> QED
    BY <2>2, <2>4, <2>5 DEF MapInv, CallIsNewest
<1>4. ASSUME NEW c \in Caller, Append(c) \/ TombstoneMarker(c) PROVE MapInv'
  <2>1. PICK label \in {"idle", "stamp", "reserved"}, n \in BOOLEAN, p \in BOOLEAN :
            /\ pc[c] = "taken" /\ Goto(c, label) /\ vecSeq' = vecSeq
            /\ delta' = delta \cup {Fresh(c, n, p)}
            /\ cold' = cold /\ sealed' = sealed /\ stage' = stage
            /\ Append(c) => n = FALSE /\ p = (call[c].kind = "append")
            /\ label = "reserved" => call[c].kind = "write"
            /\ ~Append(c) => call[c].kind = "delete"
    BY <1>4 DEF Append, TombstoneMarker, compactVars
  <2>2. Fresh(c, n, p).rid = call[c].rid /\ Fresh(c, n, p).seq = call[c].seq
    BY DEF Fresh
  <2>3. Newest(c) /\ Unseen(c)
    BY <1>0, <2>1 DEF CallIsNewest, Unseen
  <2>4. /\ OneCallPerRid' /\ NumbersHandedOut' /\ InstalledTier'
        /\ \A d \in Caller : d # c => Newest(d)'
    BY <2>1, <2>2, CallerMapKept
  <2>5. \A e \in delta \cup sealed : e.seq # call[c].seq
    BY <2>1, <2>3 DEF Newest
  <2>6. OneEntryPerNumber'
    BY <1>0, <2>1, <2>2, <2>5 DEF OneEntryPerNumber
  <2>7. LaterIsNewer'
    BY <1>0, <2>1, <2>2, <2>3, <1>a, <1>b DEF LaterIsNewer, Newest, Seq
  <2>8. Newest(c)'
    <3>1. CASE ~Unseen(c)'
      BY <3>1 DEF Newest
    <3>2. CASE Unseen(c)'
      <4>1. pc'[c] = label /\ (label # "idle" => call'[c] = call[c])
        BY <2>1, GotoCalls DEF SealedInv
      <4>2. label # "idle" /\ call[c].kind = "write" /\ call'[c] = call[c]
        BY <2>1, <3>2, <4>1 DEF Unseen, Holding, MayUndo
      <4>3. Fresh(c, n, p) = Fresh(c, FALSE, FALSE)
        BY <2>1, <4>2
      <4>4. Fresh(c, FALSE, FALSE)' = Fresh(c, FALSE, FALSE)
        BY <4>2 DEF Fresh
      <4>5. pc'[c] # "taken"
        BY <2>1, <4>1
      <4> QED
        BY <2>1, <2>3, <4>2, <4>3, <4>4, <4>5 DEF Newest
    <3> QED
      BY <3>1, <3>2
  <2> QED
    BY <2>4, <2>6, <2>7, <2>8 DEF MapInv, CallIsNewest
<1>5. ASSUME NEW c \in Caller, RemoveAppended(c) PROVE MapInv'
  <2>1. /\ pc[c] # "idle" /\ Goto(c, "idle") /\ vecSeq' = vecSeq
        /\ cold' = cold /\ sealed' = sealed /\ stage' = stage
        /\ delta' = {e \in delta : ~(e.rid = call[c].rid /\ e.seq = call[c].seq)}
    BY <1>5 DEF RemoveAppended, compactVars
  <2>2. /\ OneCallPerRid' /\ NumbersHandedOut' /\ InstalledTier'
        /\ \A d \in Caller : d # c => Newest(d)'
    BY <2>1, CallerMapKept
  <2>3. pc'[c] = "idle"
    BY <2>1, GotoCalls DEF SealedInv
  <2>4. Newest(c)'
    BY <2>3 DEF Newest, Unseen, Holding, MayUndo
  <2>5. OneEntryPerNumber' /\ LaterIsNewer'
    BY <1>0, <2>1 DEF OneEntryPerNumber, LaterIsNewer
  <2> QED
    BY <2>2, <2>4, <2>5 DEF MapInv, CallIsNewest
<1>6. ASSUME NEW c \in Caller, Publish(c) PROVE MapInv'
  <2>1. /\ pc[c] = "durable" /\ pc[c] # "idle" /\ Goto(c, "restamp") /\ vecSeq' = vecSeq
        /\ cold' = cold /\ sealed' = sealed /\ stage' = stage
        /\ delta' = Published(delta, call[c].rid, call[c].seq)
    BY <1>6 DEF Publish, compactVars
  <2>2. PICK o : o = Fresh(c, FALSE, FALSE)
    OBVIOUS
  <2>3. PICK p : p = Fresh(c, FALSE, TRUE)
    OBVIOUS
  <2>4. delta' = (delta \ {o}) \cup {p} /\ o \in delta
    BY <2>1, <2>2, <2>3, PublishSwaps
  <2>5. /\ o.rid = call[c].rid /\ o.seq = call[c].seq /\ ~o.published
        /\ p.rid = call[c].rid /\ p.seq = call[c].seq /\ p.published
    BY <2>2, <2>3 DEF Fresh
  <2>6. /\ OneCallPerRid' /\ NumbersHandedOut' /\ InstalledTier'
        /\ \A d \in Caller : d # c => Newest(d)'
    BY <2>1, <2>4, <2>5, CallerMapKept
  <2>7. pc'[c] = "restamp"
    BY <2>1, GotoCalls DEF SealedInv
  <2>8. Newest(c)'
    BY <2>7 DEF Newest, Unseen, Holding, MayUndo
  <2>9. \A e \in (delta \ {o}) \cup sealed : e.seq # p.seq
    BY <1>0, <2>4, <2>5 DEF OneEntryPerNumber, LaterIsNewer
  <2>10. OneEntryPerNumber'
    BY <1>0, <2>1, <2>4, <2>9 DEF OneEntryPerNumber
  <2>11. Newest(c) /\ Unseen(c)
    BY <1>0, <2>1 DEF CallIsNewest, Unseen, Holding
  <2>12. LaterIsNewer'
    BY <1>0, <2>1, <2>4, <2>5, <2>11, <1>a, <1>b DEF LaterIsNewer, Newest, Seq
  <2> QED
    BY <2>6, <2>8, <2>10, <2>12 DEF MapInv, CallIsNewest
<1>7. ASSUME NEW c \in Caller, TombstoneInPlace(c) PROVE MapInv'
  <2>1. /\ pc[c] = "taken" /\ pc[c] # "idle" /\ Goto(c, "idle") /\ vecSeq' = vecSeq
        /\ cold' = cold /\ sealed' = sealed /\ stage' = stage
    BY <1>7 DEF TombstoneInPlace, compactVars
  <2>2. PICK e \in Targets(c) :
            delta' = (delta \ {e}) \cup
                     {[e EXCEPT !.tombstoned = TRUE, !.seq = call[c].seq]}
    BY <1>7 DEF TombstoneInPlace
  <2>3. PICK t : t = [e EXCEPT !.tombstoned = TRUE, !.seq = call[c].seq]
    OBVIOUS
  <2>4. /\ e \in delta /\ e.rid = call[c].rid
        /\ t.rid = call[c].rid /\ t.seq = call[c].seq /\ t.published
    BY <2>3, <1>b DEF Targets, Entry
  <2>5. delta' = (delta \ {e}) \cup {t}
    BY <2>2, <2>3
  <2>6. /\ OneCallPerRid' /\ NumbersHandedOut' /\ InstalledTier'
        /\ \A d \in Caller : d # c => Newest(d)'
    BY <2>1, <2>4, <2>5, CallerMapKept
  <2>7. pc'[c] = "idle"
    BY <2>1, GotoCalls DEF SealedInv
  <2>8. Newest(c)'
    BY <2>7 DEF Newest, Unseen, Holding, MayUndo
  <2>9. Newest(c) /\ Unseen(c)
    BY <1>0, <2>1 DEF CallIsNewest, Unseen
  <2>10. \A f \in delta \cup sealed : f.seq # t.seq
    BY <2>1, <2>4, <2>9 DEF Newest
  <2>11. OneEntryPerNumber'
    BY <1>0, <2>1, <2>5, <2>10 DEF OneEntryPerNumber
  <2>12. LaterIsNewer'
    BY <1>0, <2>1, <2>4, <2>5, <2>9, <1>a, <1>b DEF LaterIsNewer, Newest, Seq
  <2> QED
    BY <2>6, <2>8, <2>11, <2>12 DEF MapInv, CallIsNewest
<1>8. ASSUME Compact PROVE MapInv'
  <2>1. UNCHANGED <<pc, call, vecSeq>>
    BY <1>8 DEF Compact, Snapshot, Install, Abandon, Retire, callerVars
  <2>2. OneCallPerRid'
    BY <1>0, <2>1 DEF OneCallPerRid
  <2>3. \A c \in Caller : /\ Fresh(c, FALSE, FALSE)' = Fresh(c, FALSE, FALSE)
                          /\ Unseen(c)' <=> Unseen(c)
                          /\ Holding(c)' <=> Holding(c)
    BY <2>1 DEF Fresh, Unseen, Holding, MayUndo
  <2>4. CASE Snapshot
    <3>1. /\ delta' = delta /\ cold' = cold /\ stage' # "installed"
          /\ sealed' = {e \in delta : e.published}
      BY <2>4 DEF Snapshot
    <3>2. NumbersHandedOut' /\ OneEntryPerNumber' /\ LaterIsNewer' /\ InstalledTier'
      BY <1>0, <2>1, <3>1 DEF NumbersHandedOut, OneEntryPerNumber, LaterIsNewer, InstalledTier
    <3>3. ASSUME NEW c \in Caller PROVE Newest(c)'
      <4>1. Newest(c) /\ ~Fresh(c, FALSE, FALSE).published
        BY <1>0 DEF CallIsNewest, Fresh
      <4> QED
        BY <2>1, <2>3, <3>1, <4>1 DEF Newest
    <3> QED
      BY <2>2, <3>2, <3>3 DEF MapInv, CallIsNewest
  <2>5. CASE Install
    <3>1. delta' = delta /\ sealed' = sealed /\ cold' = Compacted(cold, sealed)
      BY <2>5 DEF Install
    <3>2. \A v \in cold' : \/ v \in cold
                           \/ \E e \in sealed : v = <<e.rid, e.seq>>
      BY <3>1 DEF Compacted, Vectors, Winners
    <3>3. NumbersHandedOut'
      BY <1>0, <2>1, <3>1, <3>2 DEF NumbersHandedOut
    <3>4. OneEntryPerNumber' /\ LaterIsNewer'
      BY <1>0, <3>1 DEF OneEntryPerNumber, LaterIsNewer
    <3>5. InstalledTier'
      BY <3>1 DEF InstalledTier, Compacted
    <3>6. ASSUME NEW c \in Caller PROVE Newest(c)'
      <4>1. Newest(c)
        BY <1>0 DEF CallIsNewest
      <4>2. ASSUME Unseen(c), NEW v \in cold', v[1] = call[c].rid
            PROVE  v[2] < call[c].seq
        BY <3>2, <4>1, <4>2 DEF Newest
      <4> QED
        BY <2>1, <2>3, <3>1, <4>1, <4>2 DEF Newest
    <3> QED
      BY <2>2, <3>3, <3>4, <3>5, <3>6 DEF MapInv, CallIsNewest
  <2>6. CASE Abandon \/ Retire
    <3>1. /\ delta' \subseteq delta /\ sealed' = {} /\ cold' = cold
          /\ stage' = "idle" /\ Retired(delta) \subseteq delta'
      BY <2>6 DEF Abandon, Retire, Retired
    <3>2. NumbersHandedOut' /\ OneEntryPerNumber' /\ LaterIsNewer' /\ InstalledTier'
      BY <1>0, <2>1, <3>1 DEF NumbersHandedOut, OneEntryPerNumber, LaterIsNewer, InstalledTier
    <3>3. ASSUME NEW c \in Caller PROVE Newest(c)'
      <4>1. Newest(c)
        BY <1>0 DEF CallIsNewest
      <4>2. ASSUME Holding(c) PROVE Fresh(c, FALSE, FALSE) \in Retired(delta)
        <5>1. Unseen(c) /\ pc[c] # "idle"
          BY <4>2 DEF Unseen, Holding, MayUndo
        <5>2. \A s \in sealed : s.rid = call[c].rid => s.seq # call[c].seq
          BY <1>a, <1>b, <4>1, <5>1 DEF Newest, Seq
        <5>3. /\ Fresh(c, FALSE, FALSE) \in delta
              /\ Fresh(c, FALSE, FALSE).rid = call[c].rid
              /\ Fresh(c, FALSE, FALSE).seq = call[c].seq
          BY <4>1, <4>2, <5>1 DEF Newest, Fresh
        <5> QED
          BY <5>2, <5>3 DEF Retired
      <4> QED
        BY <2>1, <2>3, <3>1, <4>1, <4>2 DEF Newest
    <3> QED
      BY <2>2, <3>2, <3>3 DEF MapInv, CallIsNewest
  <2> QED
    BY <1>8, <2>4, <2>5, <2>6 DEF Compact
<1>9. CASE (\E q \in Reader : LoadCold(q) \/ ReadDelta(q)) \/ UNCHANGED vars
  <2>1. UNCHANGED <<cold, delta, vecSeq, pc, call, stage, sealed>>
    BY <1>9 DEF LoadCold, ReadDelta, vars, callerVars, compactVars
  <2>2. \A c \in Caller : Newest(c)'
    BY <1>0, <2>1 DEF CallIsNewest, Newest, Unseen, Holding, MayUndo, Fresh
  <2>3. OneCallPerRid' /\ NumbersHandedOut' /\ OneEntryPerNumber' /\ LaterIsNewer' /\ InstalledTier'
    BY <1>0, <2>1 DEF OneCallPerRid, NumbersHandedOut, OneEntryPerNumber,
                      LaterIsNewer, InstalledTier
  <2> QED
    BY <2>2, <2>3 DEF MapInv, CallIsNewest
<1> QED
  BY <1>1, <1>2, <1>3, <1>4, <1>5, <1>6, <1>7, <1>8, <1>9 DEF Next, Land

\* Retiring a build uncovers in the cold tier what the delta showed.
LEMMA RetireHidden ==
    ASSUME IndexInv, SealedInv, MapInv, stage = "installed"
    PROVE  Found(cold, Retired(delta)) = Found(cold, delta)
<1> DEFINE left == Retired(delta)
<1>0. /\ OneEntryPerNumber /\ LaterIsNewer /\ InstalledTier /\ SealedStillInDelta
  BY DEF MapInv, SealedInv
<1>1. /\ left = delta \ sealed
      /\ \A e \in delta \cup sealed : e \in Entry /\ e.seq \in Nat
      /\ \A e \in delta \cup sealed : ~\E s \in sealed : s.seq = e.seq /\ s # e
  <2>1. \A e \in delta \cup sealed : e \in Entry /\ e.seq \in Nat
    BY DEF IndexInv, TypeOK, Entry, Seq
  <2> QED
    BY <1>0, <2>1 DEF Retired, OneEntryPerNumber
<1> HIDE DEF left
<1>2. Decided(left) \subseteq Decided(delta)
  BY <1>1 DEF Decided
<1>3. ASSUME NEW r \in Decided(left), NEW w, w.rid = r
      PROVE  w \in Winners(left) <=> w \in Winners(delta)
  <2>1. PICK f \in left : f.published /\ f.rid = r
    BY DEF Decided
  <2>2. \A s \in sealed : s.rid = r => s.seq < f.seq
    BY <1>0, <1>1, <2>1 DEF LaterIsNewer
  <2>3. ASSUME w \in Winners(delta) PROVE w \in Winners(left)
    <3>1. w \in delta /\ w.published /\ f.seq <= w.seq
      BY <1>1, <1>3, <2>1, <2>3 DEF Winners
    <3>2. w \notin sealed
      BY <1>1, <1>3, <2>1, <2>2, <3>1
    <3> QED
      BY <1>1, <2>3, <3>1, <3>2 DEF Winners
  <2>4. ASSUME w \in Winners(left) PROVE w \in Winners(delta)
    <3>1. w \in left /\ w.published /\ f.seq <= w.seq
      BY <1>3, <2>1, <2>4 DEF Winners
    <3>2. ASSUME NEW g \in delta, g.published, g.rid = r PROVE g.seq <= w.seq
      <4>1. CASE g \in left
        BY <1>3, <2>4, <3>2, <4>1 DEF Winners
      <4>2. CASE g \in sealed
        BY <1>1, <2>1, <2>2, <3>1, <3>2, <4>2
      <4> QED
        BY <1>1, <3>2, <4>1, <4>2
    <3> QED
      BY <1>1, <1>3, <3>1, <3>2 DEF Winners
  <2> QED
    BY <2>3, <2>4
<1>4. ASSUME NEW r \in Decided(delta), r \notin Decided(left)
      PROVE  /\ r \in Decided(sealed)
             /\ \A w : w.rid = r => (w \in Winners(sealed) <=> w \in Winners(delta))
  <2>1. \A e \in delta : e.published /\ e.rid = r => e \in sealed
    BY <1>1, <1>4 DEF Decided
  <2>2. r \in Decided(sealed)
    BY <2>1 DEF Decided
  <2>3. ASSUME NEW s \in sealed, s.rid = r
        PROVE  \E e \in delta : e.published /\ e.rid = r /\ e.seq >= s.seq
    <3>1. PICK e \in delta : /\ e.rid = s.rid /\ e.published
                             /\ e.seq = s.seq \/ (e.tombstoned /\ e.seq >= s.seq)
      BY <1>0 DEF SealedStillInDelta
    <3>2. e.seq >= s.seq
      BY <1>1, <3>1
    <3> QED
      BY <2>3, <3>1, <3>2
  <2>4. ASSUME NEW w, w.rid = r, w \in Winners(sealed) PROVE w \in Winners(delta)
    <3>1. w \in sealed /\ w.published
      BY <2>4 DEF Winners
    <3>2. PICK e \in delta : e.published /\ e.rid = r /\ e.seq >= w.seq
      BY <2>3, <2>4, <3>1
    <3>3. e \in sealed /\ e.seq <= w.seq
      BY <2>1, <2>4, <3>2 DEF Winners
    <3>4. e.seq = w.seq
      BY <1>1, <3>1, <3>2, <3>3
    <3>5. e = w
      BY <1>1, <3>1, <3>3, <3>4
    <3>6. \A g \in delta : g.published /\ g.rid = w.rid => g.seq <= w.seq
      BY <2>1, <2>4 DEF Winners
    <3> QED
      BY <3>1, <3>2, <3>5, <3>6 DEF Winners
  <2>5. ASSUME NEW w, w.rid = r, w \in Winners(delta) PROVE w \in Winners(sealed)
    <3>1. w \in delta /\ w.published /\ w \in sealed
      BY <2>1, <2>5 DEF Winners
    <3>2. ASSUME NEW s \in sealed, s.rid = r PROVE s.seq <= w.seq
      <4>1. PICK e \in delta : e.published /\ e.rid = r /\ e.seq >= s.seq
        BY <2>3, <3>2
      <4>2. e.seq <= w.seq
        BY <2>5, <4>1 DEF Winners
      <4> QED
        BY <1>1, <3>1, <3>2, <4>1, <4>2
    <3> QED
      BY <2>5, <3>1, <3>2 DEF Winners
  <2> QED
    BY <2>2, <2>4, <2>5
<1>5. ASSUME NEW v \in Found(cold, left) PROVE v \in Found(cold, delta)
  <2>1. CASE v \in Vectors(Winners(left))
    <3>1. PICK w \in Winners(left) : ~w.tombstoned /\ v = <<w.rid, w.seq>>
      BY <2>1 DEF Vectors
    <3>2. w.rid \in Decided(left)
      BY <3>1 DEF Winners, Decided
    <3>3. w \in Winners(delta)
      BY <1>3, <3>1, <3>2
    <3> QED
      BY <3>1, <3>3 DEF Found, Vectors
  <2>2. CASE v \in cold /\ v[1] \notin Decided(left)
    <3>1. CASE v[1] \notin Decided(delta)
      BY <2>2, <3>1 DEF Found
    <3>2. CASE v[1] \in Decided(delta)
      <4>1. /\ v[1] \in Decided(sealed)
            /\ \A w : w.rid = v[1] => (w \in Winners(sealed) <=> w \in Winners(delta))
        BY <1>4, <2>2, <3>2
      <4>2. v \in Vectors(Winners(sealed))
        BY <1>0, <2>2, <4>1 DEF InstalledTier
      <4>3. PICK w \in Winners(sealed) : ~w.tombstoned /\ v = <<w.rid, w.seq>>
        BY <4>2 DEF Vectors
      <4>4. w \in Winners(delta)
        BY <4>1, <4>3
      <4> QED
        BY <4>3, <4>4 DEF Found, Vectors
    <3> QED
      BY <3>1, <3>2
  <2> QED
    BY <1>5, <2>1, <2>2 DEF Found
<1>6. ASSUME NEW v \in Found(cold, delta) PROVE v \in Found(cold, left)
  <2>1. CASE v \in Vectors(Winners(delta))
    <3>1. PICK w \in Winners(delta) : ~w.tombstoned /\ v = <<w.rid, w.seq>>
      BY <2>1 DEF Vectors
    <3>2. w.rid \in Decided(delta)
      BY <3>1 DEF Winners, Decided
    <3>3. CASE w.rid \in Decided(left)
      <4>1. w \in Winners(left)
        BY <1>3, <3>1, <3>3
      <4> QED
        BY <3>1, <4>1 DEF Found, Vectors
    <3>4. CASE w.rid \notin Decided(left)
      <4>1. w \in Winners(sealed) /\ w.rid \in Decided(sealed)
        BY <1>4, <3>1, <3>2, <3>4
      <4>2. v \in Vectors(Winners(sealed)) /\ v[1] = w.rid
        BY <3>1, <4>1 DEF Vectors
      <4>3. v \in cold
        BY <1>0, <4>1, <4>2 DEF InstalledTier
      <4> QED
        BY <3>4, <4>2, <4>3 DEF Found
    <3> QED
      BY <3>3, <3>4
  <2>2. CASE v \in cold /\ v[1] \notin Decided(delta)
    BY <1>2, <2>2 DEF Found
  <2> QED
    BY <1>6, <2>1, <2>2 DEF Found
<1>7. Found(cold, left) = Found(cold, delta)
  BY <1>5, <1>6
<1> QED
  BY <1>7 DEF left

\* The calls the map still has to serve.
Asked == {call[c] : c \in {d \in Caller : Unseen(d)}}

\* Only a write reserves a slot.
WritesReserve ==
    \A c \in Caller : pc[c] \in {"reserved", "durable"} => call[c].kind = "write"

LEMMA WritesReserveNext ==
    IndexInv /\ SealedInv /\ WritesReserve /\ [Next]_vars => WritesReserve'
<1> SUFFICES ASSUME IndexInv, SealedInv, WritesReserve, [Next]_vars
             PROVE  WritesReserve'
  OBVIOUS
<1>0. CallsDistinct
  BY DEF SealedInv
<1>1. ASSUME NEW c \in Caller, Land(c) PROVE WritesReserve'
  <2>1. PICK label : /\ pc[c] # "idle" /\ Goto(c, label)
                     /\ label \in {"reserved", "durable"} => call[c].kind = "write"
    <3>1. CASE AlreadyPresent(c) \/ Refused(c)
      <4>1. pc[c] # "idle" /\ Goto(c, "idle")
        BY <3>1 DEF AlreadyPresent, Refused
      <4> QED
        BY <4>1
    <3>2. CASE RemoveAppended(c) \/ Restamp(c) \/ TombstoneInPlace(c)
      <4>1. pc[c] # "idle" /\ Goto(c, "idle")
        BY <3>2 DEF RemoveAppended, Restamp, TombstoneInPlace
      <4> QED
        BY <4>1
    <3>3. CASE Append(c)
      <4>1. PICK label \in {"stamp", "reserved", "idle"} :
                 Goto(c, label) /\ (label = "reserved" => call[c].kind = "write")
        BY <3>3 DEF Append
      <4> QED
        BY <3>3, <4>1 DEF Append
    <3>4. CASE Stamp(c)
      <4>1. PICK label \in {"reserved", "idle"} :
                 Goto(c, label) /\ (label = "reserved" => call[c].kind = "write")
        BY <3>4 DEF Stamp
      <4> QED
        BY <3>4, <4>1 DEF Stamp
    <3>5. CASE Commit(c)
      <4>1. pc[c] = "reserved" /\ Goto(c, "durable")
        BY <3>5 DEF Commit
      <4>2. call[c].kind = "write"
        BY <4>1 DEF WritesReserve
      <4> QED
        BY <4>1, <4>2
    <3>6. CASE Publish(c)
      <4>1. pc[c] # "idle" /\ Goto(c, "restamp")
        BY <3>6 DEF Publish
      <4> QED
        BY <4>1
    <3>7. CASE TombstoneMarker(c)
      <4>1. PICK label \in {"stamp", "idle"} : Goto(c, label)
        BY <3>7 DEF TombstoneMarker
      <4> QED
        BY <3>7, <4>1 DEF TombstoneMarker
    <3> QED
      BY <1>1, <3>1, <3>2, <3>3, <3>4, <3>5, <3>6, <3>7 DEF Land
  <2>2. /\ \A d \in Caller : d # c => pc'[d] = pc[d] /\ call'[d] = call[d]
        /\ pc'[c] = label /\ (label # "idle" => call'[c] = call[c])
    BY <1>0, <2>1, GotoCalls
  <2> QED
    BY <2>1, <2>2 DEF WritesReserve
<1>2. ASSUME NEW c \in Caller, NEW kind \in Kind, NEW r \in Rid, TakeSeq(c, kind, r)
      PROVE  WritesReserve'
  BY <1>2 DEF TakeSeq, WritesReserve, IndexInv, TypeOK
<1>3. ASSUME NEW c \in Caller, NEW v \in committed, Redeliver(c, v[1], v[2])
      PROVE  WritesReserve'
  BY <1>3 DEF Redeliver, WritesReserve, IndexInv, TypeOK
<1>4. CASE Compact \/ (\E q \in Reader : LoadCold(q) \/ ReadDelta(q)) \/ UNCHANGED vars
  <2>1. UNCHANGED <<pc, call>>
    BY <1>4 DEF Compact, Snapshot, Install, Abandon, Retire, LoadCold, ReadDelta,
                callerVars, vars
  <2> QED
    BY <2>1 DEF WritesReserve
<1> QED
  BY <1>1, <1>2, <1>3, <1>4 DEF Next

\* A step after which no search has anything left to see of the call.
LEMMA AskedSettled ==
    ASSUME IndexInv, CallsDistinct, NEW c \in Caller, NEW label, Goto(c, label),
           Unseen(c), ~Unseen(c)'
    PROVE  Asked' = Asked \ {call[c]} /\ call[c] \in Asked
<1>1. pc[c] # "idle"
  BY DEF Unseen, Holding, MayUndo
<1>2. \A d \in Caller : d # c => pc'[d] = pc[d] /\ call'[d] = call[d]
  BY <1>1, GotoCalls
<1>3. \A d \in Caller : d # c => (Unseen(d)' <=> Unseen(d))
  BY <1>2 DEF Unseen, Holding, MayUndo
<1>4. \A d \in Caller : d # c /\ Unseen(d) => call[d] # call[c]
  BY <1>1 DEF Unseen, Holding, MayUndo, CallsDistinct
<1> QED
  BY <1>2, <1>3, <1>4 DEF Asked

\* A step after which the call is as seen, or as unseen, as it was.
LEMMA AskedKept ==
    ASSUME IndexInv, CallsDistinct, NEW c \in Caller, NEW label, Goto(c, label),
           pc[c] # "idle", Unseen(c)' <=> Unseen(c)
    PROVE  Asked' = Asked
<1>1. /\ \A d \in Caller : d # c => pc'[d] = pc[d] /\ call'[d] = call[d]
      /\ pc'[c] = label /\ (label # "idle" => call'[c] = call[c])
  BY GotoCalls
<1>2. \A d \in Caller : d # c => (Unseen(d)' <=> Unseen(d))
  BY <1>1 DEF Unseen, Holding, MayUndo
<1>3. Unseen(c)' => call'[c] = call[c]
  BY <1>1 DEF Unseen, Holding, MayUndo
<1> QED
  BY <1>1, <1>2, <1>3 DEF Asked

\* What the map does in a step of a call: nothing, or the step's operation.
LEMMA CallStep ==
    ASSUME IndexInv, IndexInv', SealedInv, MapInv, WritesReserve,
           NEW c \in Caller, Land(c)
    PROVE  Map!Next \/ UNCHANGED Map!vars
<1>0. CallIsNewest /\ OneEntryPerNumber
  BY DEF MapInv
<1>a. pc[c] # "idle" => call[c] \in Call
  BY DEF IndexInv, TypeOK
<1>b. /\ delta \in SUBSET Entry /\ delta' \in SUBSET Entry
      /\ \A e \in delta : e.seq \in Nat
  BY DEF IndexInv, TypeOK, Entry, Seq
<1>c. CallsDistinct
  BY DEF SealedInv
<1>1. ASSUME UNCHANGED <<cold, delta>>, NEW label, Goto(c, label), pc[c] # "idle",
             Unseen(c)' <=> Unseen(c)
      PROVE  UNCHANGED Map!vars
  BY <1>c, <1>1, AskedKept DEF Map!vars, Asked
<1>2. CASE AlreadyPresent(c) \/ Refused(c)
  <2>1. /\ UNCHANGED <<cold, delta>> /\ Goto(c, "idle") /\ pc[c] = "taken"
        /\ call[c].kind # "delete"
    BY <1>2 DEF AlreadyPresent, Refused
  <2>2. Unseen(c) /\ ~Unseen(c)'
    BY <1>c, <2>1, GotoCalls DEF Unseen, Holding, MayUndo
  <2>3. Asked' = Asked \ {call[c]} /\ call[c] \in Asked
    BY <1>c, <2>1, <2>2, AskedSettled
  <2>4. PICK op \in Call : op = call[c]
    BY <1>a, <2>1
  <2>5. Map!Refuse(op)
    BY <2>1, <2>3, <2>4 DEF Map!Refuse, Map!Done, Asked
  <2> QED
    BY <2>5 DEF Map!Next
<1>d. CASE Stamp(c) \/ Commit(c) \/ Restamp(c)
  <2>1. PICK label : /\ UNCHANGED <<cold, delta>> /\ Goto(c, label) /\ pc[c] # "idle"
                     /\ \/ pc[c] = "stamp" /\ call[c].kind = "write" /\ label = "reserved"
                        \/ pc[c] = "stamp" /\ call[c].kind # "write" /\ label = "idle"
                        \/ pc[c] = "reserved" /\ label = "durable"
                        \/ pc[c] = "restamp" /\ label = "idle"
    BY <1>d DEF Stamp, Commit, Restamp
  <2>2. Unseen(c)' <=> Unseen(c)
    BY <1>c, <2>1, GotoCalls DEF Unseen, Holding, MayUndo
  <2> QED
    BY <1>1, <2>1, <2>2
<1> SUFFICES ASSUME pc[c] # "idle", cold' = cold,
                    Append(c) \/ RemoveAppended(c) \/ Publish(c)
                        \/ TombstoneInPlace(c) \/ TombstoneMarker(c)
             PROVE  Map!Next \/ UNCHANGED Map!vars
  BY <1>2, <1>d DEF Land, Append, RemoveAppended, Publish, TombstoneInPlace, TombstoneMarker
<1>3. PICK r \in Rid, s \in Seq : r = call[c].rid /\ s = call[c].seq
  BY <1>a DEF Call
<1>g. PICK op \in Call : op = call[c]
  BY <1>a
<1>e. ASSUME NEW label, Goto(c, label), Unseen(c), ~Unseen(c)'
      PROVE  Asked' = Asked \ {call[c]} /\ call[c] \in Asked
  BY <1>c, <1>e, AskedSettled
<1>f. ASSUME NEW label, Goto(c, label)
      PROVE  pc'[c] = label /\ (label # "idle" => call'[c] = call[c])
  BY <1>c, <1>f, GotoCalls
<1>4. s \in Nat
  BY DEF Seq
<1>5. \A v \in Found(cold, delta) : v[1] = r /\ Unseen(c) => v[2] < s
  <2>1. ASSUME NEW v \in Found(cold, delta), v[1] = r, Unseen(c) PROVE v[2] < s
    <3>1. Newest(c)
      BY <1>0 DEF CallIsNewest
    <3>2. CASE v \in Vectors(Winners(delta))
      <4>1. PICK e \in Winners(delta) : v = <<e.rid, e.seq>>
        BY <3>2 DEF Vectors
      <4>2. e \in delta /\ e.published /\ e.rid = call[c].rid
        BY <1>3, <2>1, <4>1 DEF Winners
      <4>3. e # Fresh(c, FALSE, FALSE)
        BY <4>2 DEF Fresh
      <4> QED
        BY <1>3, <2>1, <3>1, <4>1, <4>2, <4>3 DEF Newest
    <3>3. CASE v \in cold
      BY <1>3, <2>1, <3>1, <3>3 DEF Newest
    <3> QED
      BY <2>1, <3>2, <3>3 DEF Found
  <2> QED
    BY <2>1
<1>6. CASE Append(c)
  <2>1. PICK w : w = Fresh(c, FALSE, call[c].kind = "append")
    OBVIOUS
  <2>2. delta' = delta \cup {w} /\ pc[c] = "taken" /\ Unseen(c) /\ Newest(c)
    BY <1>0, <1>6, <2>1 DEF Append, Unseen, CallIsNewest
  <2>3. /\ w.rid = r /\ w.seq = s /\ ~w.tombstoned
        /\ w.published = (call[c].kind = "append")
    BY <1>3, <2>1 DEF Fresh
  <2>4. \A e \in delta : e.seq # s
    BY <1>3, <2>2 DEF Newest
  <2>5. \A e \in delta : e.rid = r => e.seq < s
    BY <1>3, <2>2, <2>4 DEF Newest, Fresh
  <2>6. CASE call[c].kind = "append"
    <3>1. w.published
      BY <2>3, <2>6
    <3>2. /\ \A e \in delta' : e.published /\ e.rid = w.rid => e = w \/ e.seq < w.seq
          /\ \A e \in Entry : e.published /\ e.rid # w.rid => (e \in delta <=> e \in delta')
          /\ w \in delta'
      BY <2>2, <2>3, <2>5
    <3>3. Found(cold, delta') = {v \in Found(cold, delta) : v[1] # w.rid}
                                \cup (IF w.tombstoned THEN {} ELSE {<<w.rid, w.seq>>})
      BY <1>b, <3>1, <3>2, FoundWinner
    <3>4. Found(cold', delta') = {v \in Found(cold, delta) : v[1] # r} \cup {<<r, s>>}
      BY <2>3, <3>3
    <3>5. PICK label \in {"stamp", "idle"} : Goto(c, label)
      BY <1>6, <2>6 DEF Append
    <3>6. ~Unseen(c)'
      BY <1>f, <2>6, <3>5 DEF Unseen, Holding, MayUndo
    <3>7. Asked' = Asked \ {call[c]} /\ call[c] \in Asked
      BY <1>e, <2>2, <3>5, <3>6
    <3>8. Map!Write(op)
      BY <1>3, <1>g, <1>5, <2>2, <2>6, <3>4, <3>7
         DEF Map!Write, Map!Done, Map!Newer, Map!Without, Asked
    <3> QED
      BY <3>8 DEF Map!Next
  <2>7. CASE call[c].kind # "append"
    <3>1. ~w.published
      BY <2>3, <2>7
    <3>2. PublishedOf(delta') = PublishedOf(delta)
      BY <2>2, <3>1 DEF PublishedOf
    <3>3. Found(cold', delta') = Found(cold, delta)
      BY <3>2, FoundHidden
    <3>4. call[c].kind = "write"
      BY <1>6, <1>a, <2>7 DEF Append, Call, Kind
    <3>5. PICK label \in {"stamp", "reserved"} : Goto(c, label)
      BY <1>6, <3>4 DEF Append
    <3>6. Unseen(c)'
      BY <1>f, <3>4, <3>5 DEF Unseen, Holding, MayUndo
    <3>7. Asked' = Asked
      BY <1>c, <2>2, <3>5, <3>6, AskedKept
    <3> QED
      BY <3>3, <3>7 DEF Map!vars, Asked
  <2> QED
    BY <2>6, <2>7
<1>7. CASE RemoveAppended(c)
  <2>1. delta' = {e \in delta : ~(e.rid = r /\ e.seq = s)}
    BY <1>3, <1>7 DEF RemoveAppended
  <2>2. Newest(c) /\ Unseen(c) /\ Holding(c)
    BY <1>0, <1>7 DEF RemoveAppended, CallIsNewest, Unseen, Holding, MayUndo
  <2>3. PICK o : o = Fresh(c, FALSE, FALSE)
    OBVIOUS
  <2>4. o \in delta /\ o.rid = r /\ o.seq = s /\ ~o.published
    BY <1>3, <2>2, <2>3 DEF Newest, Fresh
  <2>5. \A e \in delta : e.rid = r /\ e.seq = s => e = o
    BY <1>0, <2>4 DEF OneEntryPerNumber
  <2>6. PublishedOf(delta') = PublishedOf(delta)
    BY <2>1, <2>4, <2>5 DEF PublishedOf
  <2>7. Found(cold', delta') = Found(cold, delta)
    BY <2>6, FoundHidden
  <2>8. ~Unseen(c)' /\ Goto(c, "idle") /\ call[c].kind = "write"
    BY <1>7, <1>f DEF RemoveAppended, Unseen, Holding, MayUndo, WritesReserve
  <2>9. Asked' = Asked \ {call[c]} /\ call[c] \in Asked
    BY <1>e, <2>2, <2>8
  <2>10. Map!Refuse(op)
    BY <1>g, <2>7, <2>8, <2>9 DEF Map!Refuse, Map!Done, Asked
  <2> QED
    BY <2>10 DEF Map!Next
<1>8. CASE Publish(c)
  <2>1. PICK o : o = Fresh(c, FALSE, FALSE)
    OBVIOUS
  <2>2. PICK w : w = Fresh(c, FALSE, TRUE)
    OBVIOUS
  <2>3. pc[c] = "durable" /\ delta' = (delta \ {o}) \cup {w} /\ o \in delta
    BY <1>8, <2>1, <2>2, PublishSwaps DEF Publish
  <2>4. /\ o.rid = r /\ o.seq = s /\ ~o.published
        /\ w.rid = r /\ w.seq = s /\ w.published /\ ~w.tombstoned
    BY <1>3, <2>1, <2>2 DEF Fresh
  <2>5. Newest(c) /\ Unseen(c)
    BY <1>0, <2>3 DEF CallIsNewest, Unseen, Holding
  <2>6. \A e \in delta : e.rid = r => e.seq < s \/ e = o
    BY <1>3, <2>1, <2>5 DEF Newest
  <2>7. /\ \A e \in delta' : e.published /\ e.rid = w.rid => e = w \/ e.seq < w.seq
        /\ \A e \in Entry : e.published /\ e.rid # w.rid => (e \in delta <=> e \in delta')
        /\ w \in delta'
    BY <2>3, <2>4, <2>6
  <2>8. Found(cold, delta') = {v \in Found(cold, delta) : v[1] # w.rid}
                              \cup (IF w.tombstoned THEN {} ELSE {<<w.rid, w.seq>>})
    BY <1>b, <2>4, <2>7, FoundWinner
  <2>9. Found(cold', delta') = {v \in Found(cold, delta) : v[1] # r} \cup {<<r, s>>}
    BY <2>4, <2>8
  <2>10. ~Unseen(c)' /\ Goto(c, "restamp") /\ call[c].kind = "write"
    BY <1>8, <1>f DEF Publish, Unseen, Holding, MayUndo, WritesReserve
  <2>11. Asked' = Asked \ {call[c]} /\ call[c] \in Asked
    BY <1>e, <2>5, <2>10
  <2>12. Map!Write(op)
    BY <1>3, <1>g, <1>5, <2>5, <2>9, <2>10, <2>11
       DEF Map!Write, Map!Done, Map!Newer, Map!Without, Asked
  <2> QED
    BY <2>12 DEF Map!Next
<1>9. CASE TombstoneInPlace(c) \/ TombstoneMarker(c)
  <2>1. pc[c] = "taken" /\ Unseen(c) /\ Newest(c)
    BY <1>0, <1>9 DEF TombstoneInPlace, TombstoneMarker, CallIsNewest, Unseen
  <2>2. \A e \in delta : e.rid = r => e.seq < s
    BY <1>3, <2>1 DEF Newest, Fresh
  <2>3. PICK w \in delta' :
            /\ \A e \in delta' : e = w \/ e \in delta
            /\ \A e \in delta : e \in delta' \/ (e.rid = r /\ e.published)
            /\ w.rid = r /\ w.seq = s /\ w.published /\ w.tombstoned
    <3>1. CASE TombstoneMarker(c)
      <4>1. PICK t : t = Fresh(c, TRUE, TRUE)
        OBVIOUS
      <4>2. /\ delta' = delta \cup {t}
            /\ t.rid = r /\ t.seq = s /\ t.published /\ t.tombstoned
        BY <1>3, <3>1, <4>1 DEF TombstoneMarker, Fresh
      <4> QED
        BY <4>2
    <3>2. CASE TombstoneInPlace(c)
      <4>1. PICK e \in Targets(c) :
                delta' = (delta \ {e}) \cup
                         {[e EXCEPT !.tombstoned = TRUE, !.seq = call[c].seq]}
        BY <3>2 DEF TombstoneInPlace
      <4>2. e \in Entry /\ e.rid = r /\ e.published
        BY <1>3, <1>b DEF Targets
      <4>3. PICK t : t = [e EXCEPT !.tombstoned = TRUE, !.seq = call[c].seq]
        OBVIOUS
      <4>4. t.rid = r /\ t.seq = s /\ t.published /\ t.tombstoned
        BY <1>3, <4>2, <4>3 DEF Entry
      <4>5. delta' = (delta \ {e}) \cup {t}
        BY <4>1, <4>3
      <4> QED
        BY <4>2, <4>4, <4>5
    <3> QED
      BY <1>9, <3>1, <3>2
  <2>4. /\ \A e \in delta' : e.published /\ e.rid = w.rid => e = w \/ e.seq < w.seq
        /\ \A e \in Entry : e.published /\ e.rid # w.rid => (e \in delta <=> e \in delta')
        /\ w \in delta'
    BY <2>2, <2>3
  <2>5. Found(cold, delta') = {v \in Found(cold, delta) : v[1] # w.rid}
                              \cup (IF w.tombstoned THEN {} ELSE {<<w.rid, w.seq>>})
    BY <1>b, <2>3, <2>4, FoundWinner
  <2>6. Found(cold', delta') = {v \in Found(cold, delta) : v[1] # r}
    BY <2>3, <2>5
  <2>7. PICK label \in {"stamp", "idle"} : Goto(c, label)
    BY <1>9 DEF TombstoneInPlace, TombstoneMarker
  <2>8. call[c].kind = "delete" /\ ~Unseen(c)'
    BY <1>9, <1>f, <2>7 DEF TombstoneInPlace, TombstoneMarker, Unseen, Holding, MayUndo
  <2>9. Asked' = Asked \ {call[c]} /\ call[c] \in Asked
    BY <1>e, <2>1, <2>7, <2>8
  <2>10. Map!Delete(op)
    BY <1>3, <1>g, <1>5, <2>1, <2>6, <2>8, <2>9
       DEF Map!Delete, Map!Done, Map!Newer, Map!Without, Asked
  <2> QED
    BY <2>10 DEF Map!Next
<1> QED
  BY <1>6, <1>7, <1>8, <1>9

LEMMA MapStep ==
    ASSUME Ordered
    PROVE  IndexInv /\ IndexInv' /\ SealedInv /\ MapInv /\ WritesReserve /\ [Next]_vars
           => Map!Next \/ UNCHANGED Map!vars
<1> SUFFICES ASSUME IndexInv, IndexInv', SealedInv, MapInv, WritesReserve, [Next]_vars
             PROVE  Map!Next \/ UNCHANGED Map!vars
  OBVIOUS
<1>0. ASSUME UNCHANGED <<pc, call>> PROVE Asked' = Asked
  BY <1>0 DEF Asked, Unseen, Holding, MayUndo
<1>1. ASSUME UNCHANGED <<cold, delta, pc, call>> PROVE UNCHANGED Map!vars
  BY <1>0, <1>1 DEF Map!vars, Asked
<1>2. ASSUME NEW c \in Caller, Land(c) PROVE Map!Next \/ UNCHANGED Map!vars
  BY <1>2, CallStep
<1>3. CASE Install
  <2>1. Found(cold', delta') = Found(cold, delta)
    <3>1. Decided(sealed) \subseteq Decided(delta)
      BY SealedDecided DEF SealedInv
    <3>2. Found(cold, delta) = Found(Compacted(cold, sealed), delta)
      BY <3>1, CompactedAgrees, FoundAgrees
    <3> QED
      BY <1>3, <3>2 DEF Install
  <2>2. Asked' = Asked
    BY <1>0, <1>3 DEF Install, callerVars
  <2> QED
    BY <2>1, <2>2 DEF Map!vars, Asked
<1>4. CASE Retire
  <2>1. cold' = cold /\ delta' = Retired(delta) /\ stage = "installed"
    BY <1>4 DEF Retire
  <2>2. Found(cold', delta') = Found(cold, delta)
    BY <2>1, RetireHidden
  <2>3. Asked' = Asked
    BY <1>0, <1>4 DEF Retire, callerVars
  <2> QED
    BY <2>2, <2>3 DEF Map!vars, Asked
<1>5. CASE Snapshot \/ Abandon
  <2>1. UNCHANGED <<cold, delta, pc, call>>
    BY <1>5 DEF Snapshot, Abandon, callerVars
  <2> QED
    BY <1>1, <2>1
<1>6. ASSUME NEW q \in Reader, LoadCold(q) \/ ReadDelta(q)
      PROVE  UNCHANGED Map!vars
  BY <1>1, <1>6 DEF LoadCold, ReadDelta, callerVars
<1>7. ASSUME NEW c \in Caller, NEW kind \in Kind, NEW r \in Rid, TakeSeq(c, kind, r)
      PROVE  Map!Next
  <2>1. PICK op \in Call : op = [kind |-> kind, rid |-> r, seq |-> vecSeq + 1]
    BY <1>7 DEF TakeSeq, Call, Seq, IndexInv, TypeOK
  <2>2. /\ call' = [call EXCEPT ![c] = op] /\ pc' = [pc EXCEPT ![c] = "taken"]
        /\ pc[c] = "idle" /\ UNCHANGED <<cold, delta>>
    BY <1>7, <2>1 DEF TakeSeq
  <2>3. /\ pc'[c] = "taken" /\ call'[c] = op
        /\ \A d \in Caller : d # c => pc'[d] = pc[d] /\ call'[d] = call[d]
    BY <2>2 DEF IndexInv, TypeOK
  <2>4. /\ Unseen(c)' /\ ~Unseen(c)
        /\ \A d \in Caller : d # c => (Unseen(d)' <=> Unseen(d))
    BY <2>2, <2>3 DEF Unseen, Holding, MayUndo
  <2>5. \A d \in Caller : Unseen(d) => call[d].seq <= vecSeq
    BY DEF Unseen, Holding, MayUndo, IndexInv, TypeOK
  <2>6. op \notin Asked
    BY <2>1, <2>5 DEF Asked, IndexInv, TypeOK
  <2>7. Asked' = Asked \cup {op}
    BY <2>3, <2>4 DEF Asked
  <2>8. Map!Ask(op)
    BY <2>2, <2>6, <2>7 DEF Map!Ask, Asked
  <2> QED
    BY <2>8 DEF Map!Next
<1>8. ASSUME NEW c \in Caller, NEW v \in committed, Redeliver(c, v[1], v[2])
      PROVE  FALSE
  BY <1>8 DEF Redeliver
<1>9. CASE UNCHANGED vars
  BY <1>1, <1>9 DEF vars, callerVars
<1> QED
  BY <1>2, <1>3, <1>4, <1>5, <1>6, <1>7, <1>8, <1>9 DEF Next, Compact

\* Seen from outside the index is a map of newest vectors: what a search can
\* return changes only in the step in which a call takes effect, for the rid of
\* that call; searches, builds that succeed or fail, reservations, refused
\* writes and the age clock change nothing.
THEOREM IndexIsAMap ==
    ASSUME Ordered
    PROVE  Spec => ImplementsMap
<1>1. Init => Map!Init
  BY DEF Init, Map!Init, Found, Vectors, Winners, Unseen, Holding, MayUndo
<1>a. Init => WritesReserve
  BY DEF Init, WritesReserve
<1>2. Init => SealedInv
  BY DEF Init, SealedInv, CallsDistinct, ReservedHidden, MayUndo, SealedStillInDelta
<1>3. Init => MapInv
  BY DEF Init, MapInv, OneCallPerRid, NumbersHandedOut, OneEntryPerNumber,
         CallIsNewest, Newest, Unseen, Holding, MayUndo, LaterIsNewer, InstalledTier
<1>4. IndexInv /\ IndexInv' /\ SealedInv /\ MapInv /\ [Next]_vars => MapInv'
  BY MapInvNext
<1>5. IndexInv /\ IndexInv' /\ SealedInv /\ MapInv /\ WritesReserve /\ [Next]_vars
      => [Map!Next]_(Map!vars)
  BY MapStep
<1>6. Spec => Map!Spec
  BY IndexInvInit, IndexInvNext, SealedInvNext, WritesReserveNext, <1>1, <1>a, <1>2,
     <1>3, <1>4, <1>5, PTL DEF Spec, Map!Spec
<1> QED
  BY <1>6 DEF ImplementsMap
-----------------------------------------------------------------------------
(* No reservation is leaked *)

\* A call whose entry is in the delta and not published yet.
Owes(c) == MayUndo(c) \/ pc[c] = "durable"
OwnsEntry(c, e) == Owes(c) /\ call[c].rid = e.rid /\ call[c].seq = e.seq

\* What is in the delta and cannot be found, nor compacted, belongs to a call
\* that will publish it or take it back (append_reserved, ReservationGuard).
ReservationsOwned == \A e \in delta : ~e.published => \E c \in Caller : OwnsEntry(c, e)

\* A full delta nobody writes to, with no build under way, is the compactor's:
\* its trigger holds and every entry goes into the snapshot (should_compact).
FullIsCompactable ==
    Full /\ stage = "idle" /\ (\A c \in Caller : pc[c] = "idle") =>
        ShouldCompact /\ delta # {} /\ \A e \in delta : e.published

LEMMA ReservationsOwnedNext ==
    ASSUME IndexInv, SealedInv, ReservationsOwned, [Next]_vars
    PROVE  ReservationsOwned'
<1> USE DEF OwnsEntry, Owes, MayUndo
<1>1. ASSUME NEW c \in Caller, pc[c] \in {"idle", "taken", "restamp"},
             \A d \in Caller : d # c => pc'[d] = pc[d] /\ call'[d] = call[d],
             \A e \in delta' : ~e.published => e \in delta \/ OwnsEntry(c, e)'
      PROVE  ReservationsOwned'
  BY <1>1 DEF ReservationsOwned
<1>2. ASSUME NEW c \in Caller, NEW kind \in Kind, NEW r \in Rid, TakeSeq(c, kind, r)
      PROVE  ReservationsOwned'
  BY <1>1, <1>2 DEF TakeSeq, IndexInv, TypeOK
<1>3. ASSUME NEW c \in Caller, NEW v \in committed, Redeliver(c, v[1], v[2])
      PROVE  ReservationsOwned'
  BY <1>1, <1>3 DEF Redeliver, IndexInv, TypeOK
<1>4. ASSUME NEW c \in Caller, AlreadyPresent(c) \/ Refused(c) \/ Restamp(c)
      PROVE  ReservationsOwned'
  BY <1>1, <1>4, GotoCalls DEF AlreadyPresent, Refused, Restamp, SealedInv
<1>5. ASSUME NEW c \in Caller, Append(c) PROVE ReservationsOwned'
  <2>1. /\ pc[c] = "taken" /\ delta' = delta \cup {Fresh(c, FALSE, call[c].kind = "append")}
        /\ Goto(c, IF delta = {} THEN "stamp"
                   ELSE IF call[c].kind = "write" THEN "reserved" ELSE "idle")
        /\ call[c].kind # "delete" /\ call[c] \in Call
    BY <1>5 DEF Append, IndexInv, TypeOK
  <2>2. /\ \A d \in Caller : d # c => pc'[d] = pc[d] /\ call'[d] = call[d]
        /\ call[c].kind = "write" => pc'[c] \in {"stamp", "reserved"} /\ call'[c] = call[c]
    BY <2>1, GotoCalls DEF SealedInv
  <2>3. call[c].kind \in {"write", "append"}
    BY <2>1 DEF Call, Kind
  <2>4. ASSUME NEW e \in delta', ~e.published, e \notin delta PROVE OwnsEntry(c, e)'
    <3>1. e = Fresh(c, FALSE, call[c].kind = "append")
      BY <2>1, <2>4
    <3>2. /\ e.rid = call[c].rid /\ e.seq = call[c].seq
          /\ e.published = (call[c].kind = "append")
      BY <3>1 DEF Fresh
    <3>3. call[c].kind = "write"
      BY <2>3, <2>4, <3>2
    <3> QED
      BY <2>2, <3>2, <3>3
  <2> QED
    BY <1>1, <2>1, <2>2, <2>4
<1>6. ASSUME NEW c \in Caller, Stamp(c) \/ Commit(c) PROVE ReservationsOwned'
  <2>1. /\ pc[c] # "idle" /\ delta' = delta
        /\ \/ pc[c] = "stamp" /\ call[c].kind = "write" /\ Goto(c, "reserved")
           \/ pc[c] = "stamp" /\ call[c].kind # "write" /\ Goto(c, "idle")
           \/ pc[c] = "reserved" /\ Goto(c, "durable")
    BY <1>6 DEF Stamp, Commit
  <2>2. /\ \A d \in Caller : d # c => pc'[d] = pc[d] /\ call'[d] = call[d]
        /\ Owes(c) => Owes(c)' /\ call'[c] = call[c]
    BY <2>1, GotoCalls DEF SealedInv
  <2> QED
    BY <2>1, <2>2 DEF ReservationsOwned
<1>7. ASSUME NEW c \in Caller, RemoveAppended(c) \/ Publish(c) PROVE ReservationsOwned'
  <2>1. \A d \in Caller : d # c => pc'[d] = pc[d] /\ call'[d] = call[d]
    BY <1>7, GotoCalls DEF RemoveAppended, Publish, SealedInv
  <2>2. ASSUME NEW e \in delta', ~e.published
        PROVE  e \in delta /\ ~(e.rid = call[c].rid /\ e.seq = call[c].seq)
    <3>1. CASE RemoveAppended(c)
      BY <2>2, <3>1 DEF RemoveAppended
    <3>2. CASE Publish(c)
      <4>1. PICK f \in delta :
               e = IF f.rid = call[c].rid /\ f.seq = call[c].seq
                   THEN [f EXCEPT !.published = TRUE] ELSE f
        BY <2>2, <3>2 DEF Publish, Published
      <4>2. f \in Entry
        BY DEF IndexInv, TypeOK
      <4>3. ~(f.rid = call[c].rid /\ f.seq = call[c].seq)
        BY <2>2, <4>1, <4>2 DEF Entry
      <4> QED
        BY <4>1, <4>3
    <3> QED
      BY <1>7, <3>1, <3>2
  <2> QED
    BY <2>1, <2>2 DEF ReservationsOwned
<1>8. ASSUME NEW c \in Caller, TombstoneInPlace(c) PROVE ReservationsOwned'
  <2>1. pc[c] = "taken" /\ Goto(c, "idle")
    BY <1>8 DEF TombstoneInPlace
  <2>2. PICK e \in Targets(c) :
            delta' = (delta \ {e}) \cup
                     {[e EXCEPT !.tombstoned = TRUE, !.seq = call[c].seq]}
    BY <1>8 DEF TombstoneInPlace
  <2>3. [e EXCEPT !.tombstoned = TRUE, !.seq = call[c].seq].published
    BY <2>2 DEF Targets, IndexInv, TypeOK, Entry
  <2>4. \A d \in Caller : d # c => pc'[d] = pc[d] /\ call'[d] = call[d]
    BY <2>1, GotoCalls DEF SealedInv
  <2> QED
    BY <1>1, <2>1, <2>2, <2>3, <2>4
<1>9. ASSUME NEW c \in Caller, TombstoneMarker(c) PROVE ReservationsOwned'
  <2>1. /\ pc[c] = "taken" /\ delta' = delta \cup {Fresh(c, TRUE, TRUE)}
        /\ Goto(c, IF delta = {} THEN "stamp" ELSE "idle")
    BY <1>9 DEF TombstoneMarker
  <2>2. \A d \in Caller : d # c => pc'[d] = pc[d] /\ call'[d] = call[d]
    BY <2>1, GotoCalls DEF SealedInv
  <2> QED
    BY <1>1, <2>1, <2>2 DEF Fresh
<1>10. CASE UNCHANGED <<pc, call>> /\ delta' \subseteq delta
  BY <1>10 DEF ReservationsOwned
<1>11. CASE Compact \/ (\E q \in Reader : LoadCold(q) \/ ReadDelta(q)) \/ UNCHANGED vars
  BY <1>10, <1>11 DEF Compact, Snapshot, Install, Abandon, Retire, Retired, LoadCold,
                      ReadDelta, vars, callerVars
<1> QED
  BY <1>2, <1>3, <1>4, <1>5, <1>6, <1>7, <1>8, <1>9, <1>11 DEF Next, Land

LEMMA ReservationsAlwaysOwned == Spec => []ReservationsOwned
<1>1. Init => SealedInv /\ ReservationsOwned
  BY DEF Init, SealedInv, CallsDistinct, ReservedHidden, MayUndo, SealedStillInDelta,
         ReservationsOwned
<1>2. IndexInv /\ SealedInv /\ ReservationsOwned /\ [Next]_vars => ReservationsOwned'
  BY ReservationsOwnedNext
<1> QED
  BY IndexInvInit, IndexInvNext, SealedInvNext, <1>1, <1>2, PTL DEF Spec

\* Backpressure is never a leak: what fills the delta is on its way to be
\* published or taken back, and once the calls are over the compactor's next
\* poll takes all of it.
THEOREM FullDeltaIsCompactable == Spec => [](ReservationsOwned /\ FullIsCompactable)
<1>1. ReservationsOwned /\ WindowIsHonest /\ IndexInv => FullIsCompactable
  <2> SUFFICES ASSUME ReservationsOwned, WindowIsHonest, IndexInv, Full, stage = "idle",
                      \A c \in Caller : pc[c] = "idle"
               PROVE  ShouldCompact /\ delta # {} /\ \A e \in delta : e.published
    BY DEF FullIsCompactable
  <2>1. Cardinality(delta) >= DeltaMax /\ Cardinality(delta) \in Nat
    BY ConstantsAssumption, FS_CardinalityType DEF Full, WindowIsHonest, IndexInv
  <2>2. ShouldCompact
    BY <2>1, ConstantsAssumption DEF ShouldCompact
  <2>3. delta # {}
    BY <2>1, ConstantsAssumption, FS_EmptySet
  <2>4. \A e \in delta : e.published
    BY DEF ReservationsOwned, OwnsEntry, Owes, MayUndo, IndexInv, TypeOK
  <2> QED
    BY <2>2, <2>3, <2>4
<1>2. Spec => []IndexInv
  BY IndexInvInit, IndexInvNext, PTL DEF Spec
<1> QED
  BY <1>1, <1>2, ReservationsAlwaysOwned, WindowStaysHonest, PTL
=============================================================================
