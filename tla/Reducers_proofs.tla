-------------------------- MODULE Reducers_proofs --------------------------
(***************************************************************************)
(* Proofs about the reducer maps: for every number of slots, of reducers   *)
(* and of strands, the maps stay within their arrays, IDs are unique, the  *)
(* merge skips no view, and every view holds its strand's updates in       *)
(* serial order.                                                           *)
(***************************************************************************)
EXTENDS Reducers, FiniteSetTheorems, SequenceTheorems, TLAPS

\* The loop of cilkred_map_merge.
Loop == INSTANCE FoldInduction WITH Op <- MergeSlot

-----------------------------------------------------------------------------
(* One map *)

\* What ReducersInv says of a map by itself.
GoodMap(m) ==
    /\ m \in Map
    /\ Len(m.log) <= spa_cap \div 2
    /\ ~m.overflow => Views(m) \subseteq ToSet(m.log)
    /\ Cardinality(Views(m)) <= m.num_of_vinfo
    /\ \A i \in Ids : m.vinfo[i].key = None => m.vinfo[i] = EmptyView

\* A value that a slot of a map may have.
Slot == {v \in View : v.key = None => v = EmptyView}

\* The sizes of an instance are numbers.
LEMMA Sizes ==
  ASSUME bounds \in Bounds
  PROVE  /\ spa_cap \in Nat \ {0} /\ spa_cap \div 2 \in Nat
         /\ Ids = 0 .. spa_cap - 1 /\ None \notin Ids
         /\ Map = MapOfSize(spa_cap) /\ None \notin Map
         /\ EmptyView \in Slot
<1>1. spa_cap \in Nat \ {0} /\ None \notin Map
  BY ReducersAssumption DEF spa_cap, Map
<1>2. spa_cap \div 2 \in Nat
  BY <1>1
<1>3. EmptyView \in Slot
  BY DEF EmptyView, Slot, View
<1> QED BY <1>1, <1>2, <1>3, ReducersAssumption DEF Ids, Map

\* The fields of a map.
LEMMA MapFields ==
  ASSUME bounds \in Bounds, NEW m \in Map
  PROVE  /\ m = [log |-> m.log, overflow |-> m.overflow, num_of_vinfo |-> m.num_of_vinfo,
                 merging |-> m.merging, vinfo |-> m.vinfo]
         /\ m.log \in Seq(Ids) /\ Len(m.log) \in Nat
         /\ m.overflow \in BOOLEAN /\ m.num_of_vinfo \in 0 .. spa_cap
         /\ m.merging \in BOOLEAN
         /\ m.vinfo \in [Ids -> View]
<1>1. m \in MapOfSize(spa_cap) /\ Ids = 0 .. spa_cap - 1 /\ spa_cap \in Nat
  BY Sizes
<1>2. /\ m = [log |-> m.log, overflow |-> m.overflow, num_of_vinfo |-> m.num_of_vinfo,
               merging |-> m.merging, vinfo |-> m.vinfo]
      /\ m.log \in Seq(Ids) /\ m.num_of_vinfo \in 0 .. spa_cap
      /\ m.vinfo \in [Ids -> View]
  BY <1>1 DEF MapOfSize
<1>3. m.overflow \in BOOLEAN /\ m.merging \in BOOLEAN
  BY <1>1, Zenon DEF MapOfSize
<1> QED BY <1>2, <1>3, LenProperties

\* A map with another view in one slot.
LEMMA WithSlot ==
  ASSUME bounds \in Bounds, NEW m \in Map, NEW i \in Ids, NEW v \in View
  PROVE  LET r == [m EXCEPT !.vinfo[i] = v] IN
         /\ r \in Map
         /\ r = [log |-> m.log, overflow |-> m.overflow, num_of_vinfo |-> m.num_of_vinfo,
                 merging |-> m.merging, vinfo |-> [m.vinfo EXCEPT ![i] = v]]
<1> DEFINE r == [m EXCEPT !.vinfo[i] = v]
<1>1. r = [log |-> m.log, overflow |-> m.overflow, num_of_vinfo |-> m.num_of_vinfo,
           merging |-> m.merging, vinfo |-> [m.vinfo EXCEPT ![i] = v]]
  BY MapFields
<1> HIDE DEF r
<1>2. r.overflow \in BOOLEAN /\ r.merging \in BOOLEAN
  BY <1>1, MapFields, Zenon
<1>3. [m.vinfo EXCEPT ![i] = v] \in [Ids -> View]
  BY MapFields
<1>4. r \in Map
  BY <1>1, <1>2, <1>3, MapFields, Sizes DEF MapOfSize
<1> QED BY <1>1, <1>4 DEF r

\* The views of a map are finitely many.
LEMMA ViewsFinite ==
  ASSUME bounds \in Bounds, NEW m
  PROVE  IsFiniteSet(Views(m)) /\ Cardinality(Views(m)) \in Nat
<1>1. IsFiniteSet(Ids)
  BY Sizes, FS_Interval
<1>2. Views(m) \in SUBSET Ids
  BY DEF Views
<1> QED BY <1>1, <1>2, FS_Subset, FS_CardinalityType

\* A new view in an empty slot is counted and logged, or the log is given up.
LEMMA LogGood ==
  ASSUME bounds \in Bounds, NEW m, GoodMap(m), NEW i \in Ids, m.vinfo[i].key = None,
         NEW v \in Slot, ~Full(m)
  PROVE  LET r == LogId([m EXCEPT !.vinfo[i] = v], i) IN
         /\ GoodMap(r)
         /\ r.vinfo = [m.vinfo EXCEPT ![i] = v]
         /\ r.merging = m.merging
<1> DEFINE w == [m EXCEPT !.vinfo[i] = v]
           r == LogId(w, i)
<1>1. m \in Map
  BY DEF GoodMap
<1>2. w = [log |-> m.log, overflow |-> m.overflow, num_of_vinfo |-> m.num_of_vinfo,
           merging |-> m.merging, vinfo |-> [m.vinfo EXCEPT ![i] = v]]
  BY <1>1, MapFields
<1>3. ~Full(w)
  BY <1>2 DEF Full
<1> DEFINE logged == Len(m.log) < spa_cap \div 2 /\ ~m.overflow
<1>4. r = [log |-> IF logged THEN Append(m.log, i) ELSE m.log,
           overflow |-> m.overflow \/ Len(m.log) = spa_cap \div 2,
           num_of_vinfo |-> m.num_of_vinfo + 1, merging |-> m.merging,
           vinfo |-> [m.vinfo EXCEPT ![i] = v]]
  BY <1>2, <1>3 DEF LogId
<1> HIDE DEF r, w
<1>5. r.merging = m.merging /\ r.overflow = (m.overflow \/ Len(m.log) = spa_cap \div 2)
  BY <1>4, Zenon
<1>6. v \in View /\ (v.key = None => v = EmptyView)
  BY DEF Slot
<1>7. r.vinfo \in [Ids -> View] /\ r.vinfo = [m.vinfo EXCEPT ![i] = v]
  BY <1>1, <1>4, <1>6, MapFields
<1>8. r.num_of_vinfo = m.num_of_vinfo + 1 /\ r.num_of_vinfo \in 0 .. spa_cap
  BY <1>1, <1>4, MapFields, Sizes DEF Full
<1>9. r.log \in Seq(Ids) /\ Len(r.log) <= spa_cap \div 2
  BY <1>1, <1>4, MapFields, Sizes DEF GoodMap
<1>10. r \in Map
  <2>1. r.overflow \in BOOLEAN
    BY <1>5
  <2>2. r.merging \in BOOLEAN
    BY <1>1, <1>5, MapFields, Zenon
  <2> QED BY <2>1, <2>2, <1>4, <1>7, <1>8, <1>9, Sizes DEF MapOfSize
<1>11. ASSUME ~r.overflow PROVE Views(r) \subseteq ToSet(r.log)
  <2>1. ~m.overflow /\ logged
    <3>1. ~m.overflow /\ Len(m.log) # spa_cap \div 2
      BY <1>11, <1>5
    <3> QED BY <1>1, <3>1, MapFields, Sizes DEF GoodMap
  <2>2. r.log = Append(m.log, i)
    BY <2>1, <1>4
  <2>3. i \in ToSet(r.log) /\ ToSet(m.log) \subseteq ToSet(r.log)
    <3>1. DOMAIN m.log = 1 .. Len(m.log)
      BY <1>1, MapFields
    <3>2. DOMAIN r.log = 1 .. Len(m.log) + 1 /\ r.log[Len(m.log) + 1] = i
          /\ \A k \in 1 .. Len(m.log) : r.log[k] = m.log[k]
      BY <1>1, <2>2, MapFields
    <3> QED BY <3>1, <3>2, <1>1, MapFields DEF ToSet
  <2>4. Views(r) \subseteq Views(m) \cup {i}
    BY <1>1, <1>7, MapFields DEF Views
  <2>5. Views(m) \subseteq ToSet(m.log)
    BY <2>1 DEF GoodMap
  <2> QED BY <2>3, <2>4, <2>5
<1>12. Cardinality(Views(r)) <= r.num_of_vinfo
  <2>1. Views(r) \in SUBSET (Views(m) \cup {i}) /\ i \notin Views(m)
    BY <1>1, <1>7, MapFields DEF Views
  <2>2. /\ IsFiniteSet(Views(m) \cup {i})
        /\ Cardinality(Views(m) \cup {i}) = Cardinality(Views(m)) + 1
    BY <2>1, ViewsFinite, FS_AddElement
  <2>3. Cardinality(Views(r)) <= Cardinality(Views(m) \cup {i})
    BY <2>1, <2>2, FS_Subset
  <2>4. Cardinality(Views(m)) <= m.num_of_vinfo /\ m.num_of_vinfo \in Nat
    BY <1>1, MapFields, Sizes DEF GoodMap
  <2> QED BY <2>2, <2>3, <2>4, <1>8, ViewsFinite
<1>13. \A j \in Ids : r.vinfo[j].key = None => r.vinfo[j] = EmptyView
  BY <1>1, <1>6, <1>7, MapFields DEF GoodMap
<1>14. GoodMap(r)
  BY <1>9, <1>10, <1>11, <1>12, <1>13 DEF GoodMap
<1> QED BY <1>7, <1>14, <1>5 DEF r, w

\* A view may get another value.
LEMMA SetGood ==
  ASSUME bounds \in Bounds, NEW m, GoodMap(m), NEW i \in Ids, m.vinfo[i].key # None,
         NEW v \in View, v.key = m.vinfo[i].key
  PROVE  LET r == [m EXCEPT !.vinfo[i] = v] IN
         GoodMap(r) /\ r.vinfo = [m.vinfo EXCEPT ![i] = v] /\ r.merging = m.merging
<1> DEFINE r == [m EXCEPT !.vinfo[i] = v]
<1>1. m \in Map
  BY DEF GoodMap
<1>2. r = [log |-> m.log, overflow |-> m.overflow, num_of_vinfo |-> m.num_of_vinfo,
           merging |-> m.merging, vinfo |-> [m.vinfo EXCEPT ![i] = v]]
  BY <1>1, MapFields
<1> HIDE DEF r
<1>3. r \in Map
  BY <1>1, <1>2, MapFields, Sizes DEF MapOfSize
<1>4. Views(r) = Views(m)
  BY <1>1, <1>2, MapFields DEF Views
<1>5. \A j \in Ids : r.vinfo[j].key = None => r.vinfo[j] = EmptyView
  BY <1>1, <1>2, MapFields DEF GoodMap
<1>6. GoodMap(r)
  BY <1>2, <1>3, <1>4, <1>5 DEF GoodMap
<1>7. r.vinfo = [m.vinfo EXCEPT ![i] = v] /\ r.merging = m.merging
  BY <1>2
<1> QED BY <1>6, <1>7 DEF r

\* merging is not part of what makes a map good.
LEMMA MergingGood ==
  ASSUME bounds \in Bounds, NEW m, GoodMap(m), NEW b \in BOOLEAN
  PROVE  LET r == [m EXCEPT !.merging = b] IN GoodMap(r) /\ r.vinfo = m.vinfo
<1> DEFINE r == [m EXCEPT !.merging = b]
<1>1. m \in Map
  BY DEF GoodMap
<1>2. r = [log |-> m.log, overflow |-> m.overflow, num_of_vinfo |-> m.num_of_vinfo,
           merging |-> b, vinfo |-> m.vinfo]
  BY <1>1, MapFields
<1> HIDE DEF r
<1>3. r \in Map
  BY <1>1, <1>2, MapFields, Sizes DEF MapOfSize
<1>4. Views(r) = Views(m)
  BY <1>2 DEF Views
<1>5. GoodMap(r)
  BY <1>2, <1>3, <1>4 DEF GoodMap
<1> QED BY <1>2, <1>5 DEF r

\* A destroyed view is counted off and its slot cleared.  The log may keep
\* naming the slot; it is emptied only when no view is left.
LEMMA UnlogGood ==
  ASSUME bounds \in Bounds, NEW m, GoodMap(m), NEW i \in Views(m)
  PROVE  LET r == UnlogId(m, i) IN
         GoodMap(r) /\ r.vinfo = [m.vinfo EXCEPT ![i] = EmptyView]
<1> DEFINE r == UnlogId(m, i)
           last == m.num_of_vinfo = 1
<1>1. m \in Map /\ i \in Ids /\ m.vinfo[i].key # None
  BY DEF GoodMap, Views
<1>2. r = [log |-> IF last THEN <<>> ELSE m.log, overflow |-> ~last /\ m.overflow,
           num_of_vinfo |-> m.num_of_vinfo - 1, merging |-> m.merging,
           vinfo |-> [m.vinfo EXCEPT ![i] = EmptyView]]
  <2> DEFINE over == ~last /\ m.overflow
  <2>1. r = [m EXCEPT !.vinfo[i] = EmptyView, !.num_of_vinfo = m.num_of_vinfo - 1,
                      !.log = IF last THEN <<>> ELSE m.log, !.overflow = over]
    BY Zenon DEF UnlogId
  <2> HIDE DEF r, over
  <2>2. r = [log |-> IF last THEN <<>> ELSE m.log, overflow |-> over,
             num_of_vinfo |-> m.num_of_vinfo - 1, merging |-> m.merging,
             vinfo |-> [m.vinfo EXCEPT ![i] = EmptyView]]
    <3>1. m = [log |-> m.log, overflow |-> m.overflow, num_of_vinfo |-> m.num_of_vinfo,
               merging |-> m.merging, vinfo |-> m.vinfo]
      BY <1>1, MapFields
    <3> DEFINE log == IF last THEN <<>> ELSE m.log
               count == m.num_of_vinfo - 1
    <3>2. r = [m EXCEPT !.vinfo[i] = EmptyView, !.num_of_vinfo = count, !.log = log,
                        !.overflow = over]
      BY <2>1
    <3> HIDE DEF log, count
    <3>3. r = [log |-> log, overflow |-> over, num_of_vinfo |-> count, merging |-> m.merging,
               vinfo |-> [m.vinfo EXCEPT ![i] = EmptyView]]
      BY ONLY <3>1, <3>2
    <3> QED BY <3>3 DEF log, count
  <2> QED BY <2>2 DEF over
<1> HIDE DEF r
<1>3. r.merging = m.merging /\ r.overflow = (~last /\ m.overflow)
  BY <1>2, Zenon
<1>4. Cardinality(Views(r)) = Cardinality(Views(m)) - 1
  <2>1. Views(r) = Views(m) \ {i}
    BY <1>1, <1>2, MapFields DEF Views, EmptyView
  <2> QED BY <2>1, ViewsFinite, FS_RemoveElement
<1>5. Cardinality(Views(m)) >= 1 /\ Cardinality(Views(m)) <= m.num_of_vinfo
      /\ m.num_of_vinfo \in 1 .. spa_cap
  BY <1>1, <1>4, MapFields, Sizes, ViewsFinite DEF GoodMap
<1>6. r \in Map
  <2>1. r.overflow \in BOOLEAN
    BY <1>3
  <2>2. r.merging \in BOOLEAN
    BY <1>1, <1>3, MapFields, Zenon
  <2>3. r.vinfo \in [Ids -> View]
    BY <1>1, <1>2, MapFields, Sizes DEF Slot
  <2>4. r.log \in Seq(Ids) /\ r.num_of_vinfo \in 0 .. spa_cap
    BY <1>1, <1>2, <1>5, MapFields, Sizes
  <2> QED BY <2>1, <2>2, <2>3, <2>4, <1>2, Sizes DEF MapOfSize
<1>7. Len(r.log) <= spa_cap \div 2
  BY <1>1, <1>2, Sizes DEF GoodMap
<1>8. ASSUME ~r.overflow PROVE Views(r) \subseteq ToSet(r.log)
  <2>1. CASE last
    <3>1. Cardinality(Views(r)) = 0
      BY <2>1, <1>4, <1>5, ViewsFinite
    <3> QED BY <3>1, ViewsFinite, FS_EmptySet
  <2>2. CASE ~last
    <3>1. ~m.overflow /\ r.log = m.log
      BY <2>2, <1>2, <1>3, <1>8
    <3>2. Views(m) \subseteq ToSet(m.log)
      BY <3>1 DEF GoodMap
    <3>3. Views(r) \subseteq Views(m)
      BY <1>1, <1>2, MapFields DEF Views, EmptyView
    <3> QED BY <3>1, <3>2, <3>3
  <2> QED BY <2>1, <2>2
<1>9. Cardinality(Views(r)) <= r.num_of_vinfo
  BY <1>2, <1>4, <1>5, ViewsFinite
<1>10. \A j \in Ids : r.vinfo[j].key = None => r.vinfo[j] = EmptyView
  BY <1>1, <1>2, MapFields DEF GoodMap
<1>11. GoodMap(r)
  BY <1>6, <1>7, <1>8, <1>9, <1>10 DEF GoodMap
<1> QED BY <1>2, <1>11 DEF r

-----------------------------------------------------------------------------
(* The merge of two maps *)

Kinds == {"MERGE_INTO_LEFT", "MERGE_INTO_RIGHT"}

\* What the merge makes of two slots.
Joined(mine, others, kind) ==
    IF mine.key = None THEN others
    ELSE [key |-> mine.key, val |-> Reduced(mine.val, others.val, kind)]

\* The merge with a view that is not there changes nothing, and the merge of
\* two views is one.
LEMMA JoinedSlot ==
  ASSUME NEW a \in Slot, NEW b \in Slot, NEW kind
  PROVE  /\ Joined(a, b, kind) \in Slot
         /\ Joined(a, EmptyView, kind) = a
         /\ a.val \in Seq(Nat) /\ b.val \in Seq(Nat)
<1>1. /\ a = [key |-> a.key, val |-> a.val] /\ a.key \in Hyperobjects \cup {None}
      /\ b = [key |-> b.key, val |-> b.val] /\ b.key \in Hyperobjects \cup {None}
      /\ a.val \in Seq(Nat) /\ b.val \in Seq(Nat)
      /\ (a.key = None => a = EmptyView) /\ (b.key = None => b = EmptyView)
  BY DEF Slot, View
<1>2. Reduced(a.val, b.val, kind) \in Seq(Nat)
  BY <1>1, ConcatProperties DEF Reduced
<1>3. Reduced(a.val, <<>>, kind) = a.val
  BY <1>1, ConcatEmptySeq DEF Reduced
<1> QED BY <1>1, <1>2, <1>3 DEF Joined, Slot, View, EmptyView

LoopState == [this : Map, other : Map, kind : Kinds, bug : {"none", "merge_key", "spa_resize"}]

\* The state of the loop when the slots of S have been visited.
Visiting(s, this, other, kind, S) ==
    /\ s \in LoopState
    /\ s.kind = kind /\ s.other.overflow = other.overflow
    /\ s.bug = "none" =>
         /\ GoodMap(s.this)
         /\ \A i \in Ids :
              IF i \in S
              THEN /\ s.this.vinfo[i] = Joined(this.vinfo[i], other.vinfo[i], kind)
                   /\ s.other.vinfo[i] = EmptyView
              ELSE /\ s.this.vinfo[i] = this.vinfo[i]
                   /\ s.other.vinfo[i] = other.vinfo[i]

\* The slots of a good map.
LEMMA GoodSlots ==
  ASSUME bounds \in Bounds, NEW m, GoodMap(m)
  PROVE  m \in Map /\ \A i \in Ids : m.vinfo[i] \in Slot
<1>1. m \in Map
  BY DEF GoodMap
<1> QED BY <1>1, MapFields DEF GoodMap, Slot

\* One turn of the loop: the slot is visited, also when it was visited before,
\* unless the assertion on the keys or the test for a full map fails.
LEMMA SlotVisited ==
  ASSUME bounds \in Bounds, NEW this, GoodMap(this), NEW other, GoodMap(other),
         NEW kind \in Kinds, NEW S, NEW s, Visiting(s, this, other, kind, S), NEW i \in Ids
  PROVE  Visiting(MergeSlot(s, i), this, other, kind, S \cup {i})
<1> DEFINE r == MergeSlot(s, i)
           mine == s.this.vinfo[i]
           others == s.other.vinfo[i]
           cleared == [s.other EXCEPT !.vinfo[i] = EmptyView]
<1>1. /\ s = [this |-> s.this, other |-> s.other, kind |-> kind, bug |-> s.bug]
      /\ s.this \in Map /\ s.other \in Map /\ s.bug \in {"none", "merge_key", "spa_resize"}
  BY DEF Visiting, LoopState
<1>2. CASE s.bug # "none"
  <2>1. r = s
    BY <1>2 DEF MergeSlot
  <2> QED BY <1>2, <2>1 DEF Visiting
<1>3. CASE s.bug = "none"
  <2>1. GoodMap(s.this) /\ mine \in Slot
    BY <1>3, GoodSlots DEF Visiting
  <2>2. \A j \in Ids : this.vinfo[j] \in Slot /\ other.vinfo[j] \in Slot
    BY GoodSlots
  <2>3. /\ i \in S => mine = Joined(this.vinfo[i], other.vinfo[i], kind) /\ others = EmptyView
        /\ i \notin S => mine = this.vinfo[i] /\ others = other.vinfo[i]
    BY <1>3 DEF Visiting
  <2>4. others \in Slot
    BY <2>2, <2>3, Sizes
  <2>5. cleared \in Map /\ cleared.overflow = s.other.overflow
        /\ cleared.vinfo = [s.other.vinfo EXCEPT ![i] = EmptyView]
    <3>1. EmptyView \in View
      BY Sizes DEF Slot
    <3>2. /\ cleared \in Map
          /\ cleared = [log |-> s.other.log, overflow |-> s.other.overflow,
                        num_of_vinfo |-> s.other.num_of_vinfo, merging |-> s.other.merging,
                        vinfo |-> [s.other.vinfo EXCEPT ![i] = EmptyView]]
      BY <1>1, <3>1, WithSlot, Zenon
    <3> QED BY <3>2, Zenon
  <2> HIDE DEF cleared
  <2>6. CASE s.other.overflow /\ others.key = None
    <3>1. r = s
      BY <1>3, <2>6 DEF MergeSlot
    <3>2. others = EmptyView
      BY <2>4, <2>6 DEF Slot
    <3>3. mine = Joined(this.vinfo[i], other.vinfo[i], kind)
      BY <2>2, <2>3, <3>2, JoinedSlot
    <3> QED BY <1>3, <3>1, <3>2, <3>3 DEF Visiting
  <2>7. CASE ~(s.other.overflow /\ others.key = None) /\ mine.key # None
    <3> DEFINE v == [key |-> mine.key, val |-> Reduced(mine.val, others.val, kind)]
               m == [s.this EXCEPT !.vinfo[i] = v]
               b == IF others.key = mine.key THEN "none" ELSE "merge_key"
    <3>1. v = Joined(mine, others, kind) /\ v \in Slot
      BY <2>1, <2>4, <2>7, JoinedSlot DEF Joined
    <3>2. GoodMap(m) /\ m.vinfo = [s.this.vinfo EXCEPT ![i] = v]
      BY <2>1, <2>7, <3>1, SetGood DEF Slot
    <3>3. r = [this |-> m, other |-> cleared, kind |-> kind, bug |-> b]
      <4>1. s.kind = kind
        BY DEF Visiting
      <4> QED BY <1>3, <2>7, <4>1 DEF MergeSlot, cleared
    <3> HIDE DEF r, v, m
    <3>4. r \in LoopState
      BY <2>5, <3>2, <3>3 DEF LoopState, Kinds, GoodMap
    <3>5. r.kind = kind /\ r.other.overflow = other.overflow
      BY <2>5, <3>3 DEF Visiting
    <3>6. ASSUME r.bug = "none", NEW j \in Ids
          PROVE  IF j \in S \cup {i}
                 THEN /\ r.this.vinfo[j] = Joined(this.vinfo[j], other.vinfo[j], kind)
                      /\ r.other.vinfo[j] = EmptyView
                 ELSE /\ r.this.vinfo[j] = this.vinfo[j]
                      /\ r.other.vinfo[j] = other.vinfo[j]
      <4>1. others.key = mine.key
        BY <3>3, <3>6
      <4>2. i \notin S
        BY <2>3, <2>7, <4>1 DEF EmptyView
      <4>3. CASE j = i
        BY <1>1, <2>3, <2>5, <3>1, <3>2, <3>3, <4>2, <4>3, MapFields
      <4>4. CASE j # i
        <5>1. r.this.vinfo[j] = s.this.vinfo[j] /\ r.other.vinfo[j] = s.other.vinfo[j]
          BY <1>1, <2>5, <3>2, <3>3, <4>4, MapFields
        <5> QED BY <1>3, <4>4, <5>1 DEF Visiting
      <4> QED BY <4>3, <4>4
    <3>7. GoodMap(r.this)
      BY <3>2, <3>3
    <3> QED BY <3>4, <3>5, <3>6, <3>7 DEF Visiting, r
  <2>8. CASE ~(s.other.overflow /\ others.key = None) /\ mine.key = None
    <3> DEFINE w == [s.this EXCEPT !.vinfo[i] = others]
               m == LogId(w, i)
               b == IF Full(s.this) THEN "spa_resize" ELSE "none"
    <3>1. r = [this |-> m, other |-> cleared, kind |-> kind, bug |-> b]
      <4>1. s.kind = kind
        BY DEF Visiting
      <4> QED BY <1>3, <2>8, <4>1 DEF MergeSlot, cleared
    <3>2. m \in Map
      <4>1. CASE Full(s.this)
        <5>1. others \in View
          BY <2>4 DEF Slot
        <5>2. /\ w \in Map
              /\ w = [log |-> s.this.log, overflow |-> s.this.overflow,
                      num_of_vinfo |-> s.this.num_of_vinfo, merging |-> s.this.merging,
                      vinfo |-> [s.this.vinfo EXCEPT ![i] = others]]
          BY <1>1, <5>1, WithSlot, Zenon
        <5> HIDE DEF w
        <5>3. m = w
          BY <4>1, <5>2 DEF LogId, Full
        <5> QED BY <5>2, <5>3
      <4>2. CASE ~Full(s.this)
        BY <2>1, <2>4, <2>8, <4>2, LogGood DEF GoodMap
      <4> QED BY <4>1, <4>2
    <3>3. ASSUME ~Full(s.this)
          PROVE  GoodMap(m) /\ m.vinfo = [s.this.vinfo EXCEPT ![i] = others]
      BY <2>1, <2>4, <2>8, <3>3, LogGood
    <3> HIDE DEF r, m
    <3>4. r \in LoopState
      BY <2>5, <3>1, <3>2 DEF LoopState, Kinds
    <3>5. r.kind = kind /\ r.other.overflow = other.overflow
      BY <2>5, <3>1 DEF Visiting
    <3>6. ASSUME r.bug = "none" PROVE ~Full(s.this)
      BY <3>1, <3>6
    <3>7. ASSUME r.bug = "none", NEW j \in Ids
          PROVE  IF j \in S \cup {i}
                 THEN /\ r.this.vinfo[j] = Joined(this.vinfo[j], other.vinfo[j], kind)
                      /\ r.other.vinfo[j] = EmptyView
                 ELSE /\ r.this.vinfo[j] = this.vinfo[j]
                      /\ r.other.vinfo[j] = other.vinfo[j]
      <4>1. m.vinfo = [s.this.vinfo EXCEPT ![i] = others]
        BY <3>3, <3>6, <3>7
      <4>2. others = Joined(this.vinfo[i], other.vinfo[i], kind)
        <5>1. mine = EmptyView
          BY <2>1, <2>8 DEF Slot
        <5> QED BY <2>3, <2>8, <5>1 DEF Joined
      <4>3. CASE j = i
        BY <1>1, <2>5, <3>1, <4>1, <4>2, <4>3, MapFields
      <4>4. CASE j # i
        <5>1. r.this.vinfo[j] = s.this.vinfo[j] /\ r.other.vinfo[j] = s.other.vinfo[j]
          BY <1>1, <2>5, <3>1, <4>1, <4>4, MapFields
        <5> QED BY <1>3, <4>4, <5>1 DEF Visiting
      <4> QED BY <4>3, <4>4
    <3>8. r.bug = "none" => GoodMap(r.this)
      BY <3>1, <3>3, <3>6
    <3> QED BY <3>4, <3>5, <3>7, <3>8 DEF Visiting, r
  <2> QED BY <2>6, <2>7, <2>8
<1> QED BY <1>1, <1>2, <1>3

\* cilkred_map_merge: if it does not abort, every slot of the result is the
\* merge of the two slots, whether the loop walks over the log, which may name
\* slots twice and slots without a view, or over the array, or is left out
\* because no view is counted.
LEMMA MapsMerged ==
  ASSUME bounds \in Bounds, NEW this, GoodMap(this), NEW other, GoodMap(other),
         NEW kind \in Kinds
  PROVE  LET r == MergeMaps(this, other, kind) IN
         /\ r.bug \in {"none", "merge_key", "spa_resize"}
         /\ r.bug = "none" =>
              /\ GoodMap(r.this)
              /\ \A i \in Ids : r.this.vinfo[i] = Joined(this.vinfo[i], other.vinfo[i], kind)
<1> DEFINE r == MergeMaps(this, other, kind)
<1>1. this \in Map /\ other \in Map
      /\ \A i \in Ids : this.vinfo[i] \in Slot /\ other.vinfo[i] \in Slot
  BY GoodSlots
<1>2. CASE other.num_of_vinfo = 0
  <2> DEFINE m == [this EXCEPT !.merging = TRUE]
  <2>1. r = [this |-> m, bug |-> "none"]
    BY <1>2 DEF MergeMaps
  <2>2. GoodMap(m) /\ m.vinfo = this.vinfo
    BY MergingGood, Zenon
  <2>3. Views(other) = {}
    <3>1. Cardinality(Views(other)) = 0
      BY <1>2, ViewsFinite DEF GoodMap
    <3> QED BY <3>1, ViewsFinite, FS_EmptySet
  <2>4. ASSUME NEW i \in Ids PROVE this.vinfo[i] = Joined(this.vinfo[i], other.vinfo[i], kind)
    <3>1. other.vinfo[i] = EmptyView
      BY <1>1, <2>3, <2>4 DEF Views, Slot
    <3> QED BY <1>1, <3>1, JoinedSlot
  <2> HIDE DEF r, m
  <2> QED BY <2>1, <2>2, <2>4 DEF r
<1>3. CASE other.num_of_vinfo # 0
  <2> DEFINE base == [this |-> this, other |-> other, kind |-> kind, bug |-> "none"]
             seq == Visited(other)
             n == Len(seq)
             S(k) == {seq[j] : j \in 1 .. k}
             I == [k \in 0 .. n |-> {s \in LoopState : Visiting(s, this, other, kind, S(k))}]
             t == FoldLeft(MergeSlot, base, seq)
  <2>1. /\ n \in Nat /\ DOMAIN seq = 1 .. n
        /\ \A k \in 1 .. n : seq[k] \in Ids
        /\ Views(other) \subseteq S(n)
    <3>1. CASE ~other.overflow
      <4>1. seq = other.log
        BY <3>1 DEF Visited
      <4>2. other.log \in Seq(Ids)
        BY <1>1, MapFields
      <4>3. n \in Nat /\ DOMAIN seq = 1 .. n /\ \A k \in 1 .. n : seq[k] \in Ids
        BY <4>1, <4>2, LenProperties, ElementOfSeq
      <4>4. S(n) = ToSet(other.log)
        BY <4>1, <4>3 DEF ToSet
      <4> QED BY <3>1, <4>3, <4>4 DEF GoodMap
    <3>2. CASE other.overflow
      <4>1. seq = [i \in 1 .. spa_cap |-> i - 1]
        BY <3>2 DEF Visited
      <4>2. spa_cap \in Nat /\ Ids = 0 .. spa_cap - 1
        BY Sizes
      <4>3. n = spa_cap
        BY <4>1, <4>2
      <4>4. \A k \in 1 .. spa_cap : seq[k] = k - 1 /\ k - 1 \in Ids
        BY <4>1, <4>2
      <4>5. \A i \in Ids : i + 1 \in 1 .. spa_cap /\ seq[i + 1] = i
        BY <4>1, <4>2
      <4> HIDE DEF seq
      <4>6. Ids \subseteq S(n)
        BY <4>3, <4>5
      <4> QED BY <4>1, <4>2, <4>3, <4>4, <4>6 DEF Views
    <3>3. other.overflow \in BOOLEAN
      BY <1>1, MapFields
    <3> QED BY <3>1, <3>2, <3>3
  <2>2. base \in I[0]
    <3>1. base \in LoopState
      BY <1>1 DEF LoopState
    <3>2. S(0) = {}
      OBVIOUS
    <3>3. Visiting(base, this, other, kind, {})
      BY <3>1 DEF Visiting
    <3> HIDE DEF base, seq, n, S
    <3>4. 0 \in 0 .. n
      BY <2>1
    <3> QED BY <3>1, <3>2, <3>3, <3>4
  <2>3. ASSUME NEW k \in 1 .. n, NEW s \in I[k - 1] PROVE MergeSlot(s, seq[k]) \in I[k]
    <3> HIDE DEF seq, n
    <3>1. k - 1 \in 0 .. n /\ k \in 0 .. n /\ seq[k] \in Ids
      BY <2>1
    <3>2. Visiting(s, this, other, kind, S(k - 1))
      BY <3>1
    <3>3. S(k) = S(k - 1) \cup {seq[k]}
      <4>1. \A j : j \in 1 .. k <=> j \in 1 .. (k - 1) \/ j = k
        BY <2>1
      <4> QED BY <4>1
    <3>4. Visiting(MergeSlot(s, seq[k]), this, other, kind, S(k))
      <4> HIDE DEF S
      <4>1. Visiting(MergeSlot(s, seq[k]), this, other, kind, S(k - 1) \cup {seq[k]})
        BY <3>1, <3>2, SlotVisited
      <4> QED BY <3>3, <4>1
    <3> QED BY <3>1, <3>4 DEF Visiting
  <2>4. t \in I[n]
    <3> HIDE DEF base, seq, I, n
    <3>1. Loop!FoldLeft(MergeSlot, base, seq) \in I[n]
      BY <2>1, <2>2, <2>3, Loop!FoldInvariant
    <3>2. Loop!FoldLeft(MergeSlot, base, seq) = t
      BY DEF FoldLeft, Loop!FoldLeft, MapThenFoldSet, Loop!MapThenFoldSet, Max, Loop!Max
    <3> QED BY <3>1, <3>2
  <2>5. Visiting(t, this, other, kind, S(n))
    <3> HIDE DEF t, S, n
    <3> QED BY <2>1, <2>4
  <2> DEFINE m == [t.this EXCEPT !.merging = FALSE]
  <2>6. r = [this |-> m, bug |-> t.bug]
    BY <1>3 DEF MergeMaps
  <2> HIDE DEF r, t, S, n
  <2>7. t.bug \in {"none", "merge_key", "spa_resize"}
    BY <2>5 DEF Visiting, LoopState
  <2>8. ASSUME t.bug = "none"
        PROVE  /\ GoodMap(m)
               /\ \A i \in Ids : m.vinfo[i] = Joined(this.vinfo[i], other.vinfo[i], kind)
    <3>1. GoodMap(t.this)
      BY <2>5, <2>8 DEF Visiting
    <3>2. GoodMap(m) /\ m.vinfo = t.this.vinfo
      BY <3>1, MergingGood, Zenon
    <3>3. ASSUME NEW i \in Ids
          PROVE  t.this.vinfo[i] = Joined(this.vinfo[i], other.vinfo[i], kind)
      <4>1. CASE i \in S(n)
        BY <2>5, <2>8, <4>1 DEF Visiting
      <4>2. CASE i \notin S(n)
        <5>1. other.vinfo[i] = EmptyView
          BY <1>1, <2>1, <4>2 DEF Views, Slot
        <5>2. t.this.vinfo[i] = this.vinfo[i]
          BY <2>5, <2>8, <4>2 DEF Visiting
        <5> QED BY <1>1, <5>1, <5>2, JoinedSlot
      <4> QED BY <4>1, <4>2
    <3> HIDE DEF m
    <3> QED BY <3>2, <3>3
  <2> HIDE DEF m
  <2> QED BY <2>6, <2>7, <2>8 DEF r
<1> QED BY <1>2, <1>3

\* The view in a slot of the map of a strand, which may have none.
ViewOf(m, i) == IF m = None THEN EmptyView ELSE m.vinfo[i]

GoodOrNone(m) == m = None \/ GoodMap(m)

\* The slots of the map of a strand.
LEMMA ViewOfSlot ==
  ASSUME bounds \in Bounds, NEW m, GoodOrNone(m), NEW i \in Ids
  PROVE  /\ ViewOf(m, i) \in Slot
         /\ ViewOf(m, i).key \in Hyperobjects \cup {None}
         /\ ViewOf(m, i).val \in Seq(Nat)
         /\ ViewOf(m, i).key = None => ViewOf(m, i) = EmptyView
         /\ m \in Map \cup {None}
<1>1. ViewOf(m, i) \in Slot /\ m \in Map \cup {None}
  BY GoodSlots, Sizes DEF ViewOf, GoodOrNone, GoodMap
<1> QED BY <1>1 DEF Slot, View

\* The view that a slot should have when the maps l and r have become one.
BothViews(l, r, i) ==
    [key |-> IF ViewOf(l, i).key # None THEN ViewOf(l, i).key ELSE ViewOf(r, i).key,
     val |-> ViewOf(l, i).val \o ViewOf(r, i).val]

\* The merge of l and r has aborted, or left the map m.this.
MergeOf(m, l, r) ==
    /\ m.bug \in {"none", "merge_key", "spa_resize"}
    /\ m.bug = "none" => /\ GoodOrNone(m.this)
                         /\ \A i \in Ids : ViewOf(m.this, i) = BothViews(l, r, i)

\* merge_two_rmaps: whichever of the maps is the smaller one, the result has
\* the views of both, and the values of the left one come first.
LEMMA RmapsMerged ==
  ASSUME bounds \in Bounds, NEW l, GoodOrNone(l), NEW r, GoodOrNone(r),
         \A i \in Ids : ViewOf(l, i).key # None /\ ViewOf(r, i).key # None
                        => ViewOf(l, i).key = ViewOf(r, i).key
  PROVE  MergeOf(MergeTwoRmaps(l, r), l, r)
<1> DEFINE m == MergeTwoRmaps(l, r)
           Both(i) == BothViews(l, r, i)
<1>1. ASSUME NEW i \in Ids
      PROVE  /\ ViewOf(l, i) \in Slot /\ ViewOf(r, i) \in Slot
             /\ ViewOf(l, i).key = None => Both(i) = ViewOf(r, i)
             /\ ViewOf(r, i).key = None => Both(i) = ViewOf(l, i)
  <2>1. ViewOf(l, i) \in Slot /\ ViewOf(r, i) \in Slot
    BY ViewOfSlot
  <2> DEFINE a == ViewOf(l, i)
             b == ViewOf(r, i)
  <2>2. /\ a = [key |-> a.key, val |-> a.val] /\ a.val \in Seq(Nat)
        /\ b = [key |-> b.key, val |-> b.val] /\ b.val \in Seq(Nat)
        /\ a.key = None => a.val = <<>>
        /\ b.key = None => b.val = <<>>
    BY <2>1 DEF Slot, View, EmptyView
  <2>3. a.val \o <<>> = a.val /\ <<>> \o b.val = b.val
    BY <2>2, ConcatEmptySeq
  <2> QED BY <2>1, <2>2, <2>3 DEF BothViews
<1>2. CASE l = None
  <2>1. m = [this |-> r, bug |-> "none"]
    BY <1>2 DEF MergeTwoRmaps
  <2>2. \A i \in Ids : ViewOf(r, i) = Both(i)
    BY <1>1, <1>2 DEF ViewOf, EmptyView
  <2> QED BY <2>1, <2>2 DEF MergeOf
<1>3. CASE l # None /\ r = None
  <2>1. m = [this |-> l, bug |-> "none"]
    BY <1>3 DEF MergeTwoRmaps
  <2>2. \A i \in Ids : ViewOf(l, i) = Both(i)
    BY <1>1, <1>3 DEF ViewOf, EmptyView
  <2> QED BY <2>1, <2>2 DEF MergeOf
<1>4. CASE l # None /\ r # None
  <2>1. GoodMap(l) /\ GoodMap(r)
    BY <1>4 DEF GoodOrNone
  <2>2. \A i \in Ids : ViewOf(l, i) = l.vinfo[i] /\ ViewOf(r, i) = r.vinfo[i]
    BY <1>4 DEF ViewOf
  <2>3. ASSUME NEW i \in Ids
        PROVE  /\ Joined(l.vinfo[i], r.vinfo[i], "MERGE_INTO_LEFT") = Both(i)
               /\ Joined(r.vinfo[i], l.vinfo[i], "MERGE_INTO_RIGHT") = Both(i)
    <3>1. ViewOf(l, i) = l.vinfo[i] /\ ViewOf(r, i) = r.vinfo[i]
      BY <2>2
    <3>2. ViewOf(l, i).key # None /\ ViewOf(r, i).key # None
          => ViewOf(l, i).key = ViewOf(r, i).key
      OBVIOUS
    <3>3. \A a, b : Reduced(a, b, "MERGE_INTO_LEFT") = a \o b
                    /\ Reduced(b, a, "MERGE_INTO_RIGHT") = a \o b
      BY DEF Reduced
    <3> QED BY <1>1, <3>1, <3>2, <3>3 DEF Joined, BothViews
  <2>4. ASSUME NEW t, t.bug \in {"none", "merge_key", "spa_resize"},
               t.bug = "none" => GoodMap(t.this) /\ \A i \in Ids : t.this.vinfo[i] = Both(i)
        PROVE  MergeOf(t, l, r)
    <3>1. ASSUME t.bug = "none" PROVE t.this # None
      BY <2>4, <3>1, Sizes DEF GoodMap
    <3> QED BY <2>4, <3>1 DEF GoodOrNone, ViewOf, MergeOf
  <2>5. CASE l.num_of_vinfo > r.num_of_vinfo
    <3> DEFINE t == MergeMaps(l, r, "MERGE_INTO_LEFT")
    <3>1. m = t
      BY <1>4, <2>5 DEF MergeTwoRmaps
    <3>2. /\ t.bug \in {"none", "merge_key", "spa_resize"}
          /\ t.bug = "none" =>
               /\ GoodMap(t.this)
               /\ \A i \in Ids : t.this.vinfo[i] = Joined(l.vinfo[i], r.vinfo[i], "MERGE_INTO_LEFT")
      BY <2>1, MapsMerged DEF Kinds
    <3> HIDE DEF t
    <3>3. MergeOf(t, l, r)
      <4> HIDE DEF m, Both
      <4> QED BY <2>3, <2>4, <3>2
    <3> QED BY <3>1, <3>3
  <2>6. CASE ~(l.num_of_vinfo > r.num_of_vinfo)
    <3> DEFINE t == MergeMaps(r, l, "MERGE_INTO_RIGHT")
    <3>1. m = t
      BY <1>4, <2>6 DEF MergeTwoRmaps
    <3>2. /\ t.bug \in {"none", "merge_key", "spa_resize"}
          /\ t.bug = "none" =>
               /\ GoodMap(t.this)
               /\ \A i \in Ids : t.this.vinfo[i] = Joined(r.vinfo[i], l.vinfo[i], "MERGE_INTO_RIGHT")
      BY <2>1, MapsMerged DEF Kinds
    <3> HIDE DEF t
    <3>3. MergeOf(t, l, r)
      <4> HIDE DEF m, Both
      <4> QED BY <2>3, <2>4, <3>2
    <3> QED BY <3>1, <3>3
  <2> QED BY <2>5, <2>6
<1> QED BY <1>2, <1>3, <1>4

-----------------------------------------------------------------------------
(* Strands *)

\* What ReducersInv says of a strand, when the reducers have the IDs ids.
GoodStrand(s, ids) ==
    /\ s \in Strand
    /\ GoodOrNone(s.map)
    /\ \A h \in s.scope : ids[h] # None
    /\ \A i \in Ids : ViewOf(s.map, i).key # None =>
         ViewOf(s.map, i).key \in s.scope /\ ids[ViewOf(s.map, i).key] = i
    /\ \A h \in Hyperobjects :
         s.done[h] = IF ids[h] = None THEN <<>> ELSE ViewOf(s.map, ids[h]).val

IdFunctions == [Hyperobjects -> Ids \cup {None}]

\* No ID is that of two reducers.
Unique(ids) == \A g, h \in Hyperobjects : g # h /\ ids[g] = ids[h] => ids[g] = None

\* The fields of a strand, and of one with a map, a scope and updates given.
LEMMA StrandFields ==
  ASSUME NEW s \in Strand
  PROVE  /\ s = [map |-> s.map, scope |-> s.scope, done |-> s.done]
         /\ s.map \in Map \cup {None} /\ s.scope \in SUBSET Hyperobjects
         /\ s.done \in [Hyperobjects -> Seq(Nat)]
BY DEF Strand

\* A strand that has done nothing yet.
LEMMA NewStrandGood ==
  ASSUME bounds \in Bounds, NEW ids, NEW scope \in SUBSET Hyperobjects,
         \A h \in scope : ids[h] # None
  PROVE  GoodStrand(NewStrand(scope), ids)
<1> DEFINE s == NewStrand(scope)
<1>1. s.map = None /\ s.scope = scope /\ s.done = [h \in Hyperobjects |-> <<>>]
  BY DEF NewStrand
<1>2. s \in Strand
  BY DEF NewStrand, Strand
<1>3. \A i : ViewOf(s.map, i).key = None /\ ViewOf(s.map, i).val = <<>>
  BY <1>1 DEF ViewOf, EmptyView
<1> HIDE DEF s
<1>4. GoodStrand(s, ids)
  BY <1>1, <1>2, <1>3 DEF GoodStrand, GoodOrNone
<1> QED BY <1>4 DEF s

\* __cilkrts_hyper_create: a free ID meets an empty slot in every map.
LEMMA FreeSlot ==
  ASSUME bounds \in Bounds, NEW ids \in IdFunctions, NEW s, GoodStrand(s, ids),
         NEW i \in Ids, \A h \in Hyperobjects : ids[h] # i
  PROVE  ViewOf(s.map, i) = EmptyView
<1>1. ViewOf(s.map, i).key \in Hyperobjects \cup {None}
      /\ (ViewOf(s.map, i).key = None => ViewOf(s.map, i) = EmptyView)
  BY ViewOfSlot DEF GoodStrand
<1> QED BY <1>1 DEF GoodStrand

\* The other strands, when a reducer is created.
LEMMA OthersAfterCreate ==
  ASSUME bounds \in Bounds, NEW ids \in IdFunctions, NEW s, GoodStrand(s, ids),
         NEW h \in Hyperobjects, ids[h] = None,
         NEW i \in Ids, \A g \in Hyperobjects : ids[g] # i
  PROVE  GoodStrand(s, [ids EXCEPT ![h] = i])
<1> DEFINE new == [ids EXCEPT ![h] = i]
<1>1. new[h] = i /\ \A g \in Hyperobjects \ {h} : new[g] = ids[g]
  BY DEF IdFunctions
<1>2. i # None
  BY Sizes
<1>3. ViewOf(s.map, i).val = <<>>
  BY FreeSlot DEF EmptyView
<1>4. h \notin s.scope /\ s.scope \subseteq Hyperobjects
  BY StrandFields DEF GoodStrand
<1> HIDE DEF new
<1>5. \A g \in s.scope : new[g] # None
  BY <1>1, <1>4 DEF GoodStrand
<1>6. \A j \in Ids : ViewOf(s.map, j).key # None =>
         ViewOf(s.map, j).key \in s.scope /\ new[ViewOf(s.map, j).key] = j
  BY <1>1, <1>4 DEF GoodStrand
<1>7. ASSUME NEW g \in Hyperobjects
      PROVE  s.done[g] = IF new[g] = None THEN <<>> ELSE ViewOf(s.map, new[g]).val
  <2>1. CASE g = h
    BY <1>1, <1>2, <1>3, <2>1 DEF GoodStrand
  <2>2. CASE g # h
    BY <1>1, <2>2 DEF GoodStrand
  <2> QED BY <2>1, <2>2
<1>8. GoodStrand(s, new)
  BY <1>5, <1>6, <1>7 DEF GoodStrand
<1> QED BY <1>8 DEF new

\* The other strands, when a reducer is destroyed that they may not use.
LEMMA OthersAfterDestroy ==
  ASSUME bounds \in Bounds, NEW ids \in IdFunctions, Unique(ids), NEW s, GoodStrand(s, ids),
         NEW h \in Hyperobjects, ids[h] # None, h \notin s.scope
  PROVE  GoodStrand(s, [ids EXCEPT ![h] = None])
<1> DEFINE new == [ids EXCEPT ![h] = None]
<1>1. new[h] = None /\ (\A g \in Hyperobjects \ {h} : new[g] = ids[g]) /\ ids[h] \in Ids
  BY DEF IdFunctions
<1>2. s.scope \subseteq Hyperobjects
  BY StrandFields DEF GoodStrand
<1>3. s.done[h] = <<>>
  <2>1. ViewOf(s.map, ids[h]).key = None
    <3>1. ViewOf(s.map, ids[h]).key \in Hyperobjects \cup {None}
      BY <1>1, ViewOfSlot DEF GoodStrand
    <3> QED BY <1>1, <1>2, <3>1 DEF GoodStrand, Unique
  <2>2. ViewOf(s.map, ids[h]).val = <<>>
    BY <1>1, <2>1, ViewOfSlot DEF GoodStrand, EmptyView
  <2> QED BY <2>2 DEF GoodStrand
<1> HIDE DEF new
<1>4. \A g \in s.scope : new[g] # None
  BY <1>1, <1>2 DEF GoodStrand
<1>5. \A j \in Ids : ViewOf(s.map, j).key # None =>
         ViewOf(s.map, j).key \in s.scope /\ new[ViewOf(s.map, j).key] = j
  BY <1>1, <1>2 DEF GoodStrand
<1>6. ASSUME NEW g \in Hyperobjects
      PROVE  s.done[g] = IF new[g] = None THEN <<>> ELSE ViewOf(s.map, new[g]).val
  <2>1. CASE g = h
    BY <1>1, <1>3, <2>1
  <2>2. CASE g # h
    BY <1>1, <2>2 DEF GoodStrand
  <2> QED BY <2>1, <2>2
<1>7. GoodStrand(s, new)
  BY <1>4, <1>5, <1>6 DEF GoodStrand
<1> QED BY <1>7 DEF new

\* A strand that has written one slot of its map is good again, if what it
\* has done to the reducer of that slot is the value of the view.
LEMMA SlotWritten ==
  ASSUME bounds \in Bounds, NEW ids \in IdFunctions, Unique(ids), NEW s, GoodStrand(s, ids),
         NEW h \in s.scope, NEW m, GoodMap(m), NEW v \in Slot, v.key = h,
         \A j \in Ids : m.vinfo[j] = IF j = ids[h] THEN v ELSE ViewOf(s.map, j)
  PROVE  GoodStrand([map |-> m, scope |-> s.scope, done |-> [s.done EXCEPT ![h] = v.val]], ids)
<1> DEFINE t == [map |-> m, scope |-> s.scope, done |-> [s.done EXCEPT ![h] = v.val]]
<1>1. h \in Hyperobjects /\ ids[h] \in Ids /\ ids[h] # None /\ None \notin Hyperobjects
  BY StrandFields, ReducersAssumption DEF GoodStrand, IdFunctions
<1>2. s.scope \in SUBSET Hyperobjects /\ s.done \in [Hyperobjects -> Seq(Nat)]
  BY StrandFields DEF GoodStrand
<1>3. m \in Map /\ m # None /\ v.val \in Seq(Nat)
  BY Sizes DEF GoodMap, Slot, View
<1>4. t.map = m /\ t.scope = s.scope /\ t.done = [s.done EXCEPT ![h] = v.val]
  OBVIOUS
<1>5. t \in Strand
  BY <1>2, <1>3 DEF Strand
<1> HIDE DEF t
<1>6. \A j \in Ids : ViewOf(t.map, j) = IF j = ids[h] THEN v ELSE ViewOf(s.map, j)
  BY <1>3, <1>4 DEF ViewOf
<1>7. \A j \in Ids : ViewOf(t.map, j).key # None =>
         ViewOf(t.map, j).key \in t.scope /\ ids[ViewOf(t.map, j).key] = j
  BY <1>1, <1>4, <1>6 DEF GoodStrand
<1>8. ASSUME NEW g \in Hyperobjects
      PROVE  t.done[g] = IF ids[g] = None THEN <<>> ELSE ViewOf(t.map, ids[g]).val
  <2>1. CASE g = h
    BY <1>1, <1>2, <1>4, <1>6, <2>1
  <2>2. CASE g # h /\ ids[g] # None
    <3>1. ids[g] \in Ids /\ ids[g] # ids[h]
      BY <1>1, <2>2 DEF Unique, IdFunctions
    <3> QED BY <1>2, <1>4, <1>6, <2>2, <3>1 DEF GoodStrand
  <2>3. CASE g # h /\ ids[g] = None
    BY <1>2, <1>4, <2>3 DEF GoodStrand
  <2> QED BY <2>1, <2>2, <2>3
<1>9. GoodStrand(t, ids)
  BY <1>4, <1>5, <1>7, <1>8 DEF GoodStrand, GoodOrNone
<1> QED BY <1>9 DEF t

\* The strand that destroys a reducer it has a view of.
LEMMA DestroyerGood ==
  ASSUME bounds \in Bounds, NEW ids \in IdFunctions, Unique(ids), NEW s, GoodStrand(s, ids),
         NEW h \in s.scope, NEW m, GoodMap(m),
         \A j \in Ids : m.vinfo[j] = IF j = ids[h] THEN EmptyView ELSE ViewOf(s.map, j)
  PROVE  GoodStrand([map |-> m, scope |-> s.scope \ {h}, done |-> [s.done EXCEPT ![h] = <<>>]],
                    [ids EXCEPT ![h] = None])
<1> DEFINE t == [map |-> m, scope |-> s.scope \ {h}, done |-> [s.done EXCEPT ![h] = <<>>]]
           new == [ids EXCEPT ![h] = None]
<1>1. h \in Hyperobjects /\ ids[h] \in Ids /\ ids[h] # None
      /\ new[h] = None /\ (\A g \in Hyperobjects \ {h} : new[g] = ids[g])
  BY StrandFields DEF GoodStrand, IdFunctions
<1>2. s.scope \in SUBSET Hyperobjects /\ s.done \in [Hyperobjects -> Seq(Nat)]
  BY StrandFields DEF GoodStrand
<1>3. m \in Map /\ m # None
  BY Sizes DEF GoodMap
<1>4. t.map = m /\ t.scope = s.scope \ {h} /\ t.done = [s.done EXCEPT ![h] = <<>>]
  OBVIOUS
<1>5. t \in Strand
  BY <1>2, <1>3 DEF Strand
<1> HIDE DEF t, new
<1>6. \A j \in Ids : ViewOf(t.map, j) = IF j = ids[h] THEN EmptyView ELSE ViewOf(s.map, j)
  BY <1>3, <1>4 DEF ViewOf
<1>7. ASSUME NEW j \in Ids, ViewOf(t.map, j).key # None
      PROVE  ViewOf(t.map, j).key \in t.scope /\ new[ViewOf(t.map, j).key] = j
  <2>1. j # ids[h] /\ ViewOf(t.map, j) = ViewOf(s.map, j)
    BY <1>6, <1>7 DEF EmptyView
  <2>2. ViewOf(s.map, j).key \in s.scope /\ ids[ViewOf(s.map, j).key] = j
    BY <1>7, <2>1 DEF GoodStrand
  <2> QED BY <1>1, <1>2, <1>4, <2>1, <2>2
<1>8. ASSUME NEW g \in Hyperobjects
      PROVE  t.done[g] = IF new[g] = None THEN <<>> ELSE ViewOf(t.map, new[g]).val
  <2>1. CASE g = h
    BY <1>1, <1>2, <1>4, <2>1
  <2>2. CASE g # h /\ ids[g] # None
    <3>1. ids[g] \in Ids /\ ids[g] # ids[h] /\ new[g] = ids[g]
      BY <1>1, <2>2 DEF Unique, IdFunctions
    <3> QED BY <1>2, <1>4, <1>6, <2>2, <3>1 DEF GoodStrand
  <2>3. CASE g # h /\ ids[g] = None
    BY <1>1, <1>2, <1>4, <2>3 DEF GoodStrand
  <2> QED BY <2>1, <2>2, <2>3
<1>9. ASSUME NEW g \in t.scope PROVE new[g] # None
  <2>1. g \in s.scope /\ g \in Hyperobjects \ {h}
    BY <1>2, <1>4, <1>9
  <2>2. ids[g] # None
    BY <2>1 DEF GoodStrand
  <2> QED BY <1>1, <2>1, <2>2
<1>10. GoodStrand(t, new)
  BY <1>4, <1>5, <1>7, <1>8, <1>9 DEF GoodStrand, GoodOrNone
<1> QED BY <1>10 DEF t, new

\* Two strands that become one, after a merge that did not abort.
LEMMA MergedGood ==
  ASSUME bounds \in Bounds, NEW ids \in IdFunctions, Unique(ids),
         NEW l, GoodStrand(l, ids), NEW r, GoodStrand(r, ids),
         NEW m, GoodOrNone(m), \A i \in Ids : ViewOf(m, i) = BothViews(l.map, r.map, i)
  PROVE  GoodStrand([map |-> m, scope |-> l.scope \cup r.scope,
                     done |-> [h \in Hyperobjects |-> l.done[h] \o r.done[h]]], ids)
<1> DEFINE t == [map |-> m, scope |-> l.scope \cup r.scope,
                 done |-> [h \in Hyperobjects |-> l.done[h] \o r.done[h]]]
<1>1. /\ l.scope \in SUBSET Hyperobjects /\ l.done \in [Hyperobjects -> Seq(Nat)]
      /\ r.scope \in SUBSET Hyperobjects /\ r.done \in [Hyperobjects -> Seq(Nat)]
  BY StrandFields DEF GoodStrand
<1>2. \A h \in Hyperobjects : l.done[h] \o r.done[h] \in Seq(Nat)
  BY <1>1, ConcatProperties
<1>3. /\ t.map = m /\ t.scope = l.scope \cup r.scope
      /\ \A h \in Hyperobjects : t.done[h] = l.done[h] \o r.done[h]
  OBVIOUS
<1>4. t \in Strand
  <2>1. m \in Map \cup {None}
    BY Sizes DEF GoodOrNone, GoodMap
  <2> QED BY <1>1, <1>2, <2>1 DEF Strand
<1> HIDE DEF t
<1>5. ASSUME NEW i \in Ids, ViewOf(t.map, i).key # None
      PROVE  ViewOf(t.map, i).key \in t.scope /\ ids[ViewOf(t.map, i).key] = i
  <2>1. ViewOf(t.map, i).key = IF ViewOf(l.map, i).key # None THEN ViewOf(l.map, i).key
                               ELSE ViewOf(r.map, i).key
    <3>1. ViewOf(t.map, i) = BothViews(l.map, r.map, i)
      BY <1>3
    <3> QED BY <3>1 DEF BothViews
  <2> QED BY <1>3, <1>5, <2>1 DEF GoodStrand
<1>6. ASSUME NEW h \in Hyperobjects
      PROVE  t.done[h] = IF ids[h] = None THEN <<>> ELSE ViewOf(t.map, ids[h]).val
  <2>1. CASE ids[h] = None
    <3>1. l.done[h] = <<>> /\ r.done[h] = <<>>
      BY <2>1 DEF GoodStrand
    <3>2. <<>> \in Seq(Nat) /\ <<>> \o <<>> = <<>>
      BY ConcatEmptySeq
    <3> QED BY <1>3, <2>1, <3>1, <3>2
  <2>2. CASE ids[h] # None
    <3>1. ids[h] \in Ids
      BY <2>2 DEF IdFunctions
    <3>2. ViewOf(t.map, ids[h]).val = ViewOf(l.map, ids[h]).val \o ViewOf(r.map, ids[h]).val
      <4>1. ViewOf(t.map, ids[h]) = BothViews(l.map, r.map, ids[h])
        BY <1>3, <3>1
      <4>2. BothViews(l.map, r.map, ids[h]).val
            = ViewOf(l.map, ids[h]).val \o ViewOf(r.map, ids[h]).val
        BY ONLY Zenon DEF BothViews
      <4> QED BY <4>1, <4>2
    <3>3. l.done[h] = ViewOf(l.map, ids[h]).val /\ r.done[h] = ViewOf(r.map, ids[h]).val
      BY <2>2 DEF GoodStrand
    <3> QED BY <1>3, <2>2, <3>2, <3>3
  <2> QED BY <2>1, <2>2
<1>7. \A h \in t.scope : ids[h] # None
  BY <1>3 DEF GoodStrand
<1>8. GoodStrand(t, ids)
  BY <1>3, <1>4, <1>5, <1>6, <1>7 DEF GoodStrand
<1> QED BY <1>8 DEF t

\* Two good strands have the same key in a slot, so that the maps can be merged.
LEMMA SameKeys ==
  ASSUME bounds \in Bounds, NEW ids \in IdFunctions, Unique(ids),
         NEW l, GoodStrand(l, ids), NEW r, GoodStrand(r, ids), NEW i \in Ids,
         ViewOf(l.map, i).key # None, ViewOf(r.map, i).key # None
  PROVE  ViewOf(l.map, i).key = ViewOf(r.map, i).key
<1>1. l.scope \in SUBSET Hyperobjects /\ r.scope \in SUBSET Hyperobjects /\ i # None
  BY StrandFields, Sizes DEF GoodStrand
<1> QED BY <1>1 DEF GoodStrand, Unique

-----------------------------------------------------------------------------
(* The invariant, strand by strand *)

\* What ReducersInv says of everything but the strands.
Tables ==
    /\ bounds \in Bounds
    /\ used \subseteq Ids /\ next \in Ids
    /\ id \in IdFunctions /\ Unique(id)
    /\ used = {id[h] : h \in Hyperobjects} \ {None}
    /\ strands \in Seq(Strand) /\ Len(strands) \in 1 .. bounds.strands
    /\ updates \in 0 .. bounds.updates
    /\ bug \in {"none", "merging", "merge_key", "spa_resize", "unsynced"}

\* Some strand has a view of every reducer with an ID.
Reached(strs, ids) ==
    \A h \in Hyperobjects : ids[h] # None =>
        \E n \in DOMAIN strs : ViewOf(strs[n].map, ids[h]).key = h

\* The invariant implies its parts ...
LEMMA InvSplit ==
  ASSUME ReducersInv
  PROVE  /\ Tables
         /\ \A n \in DOMAIN strands : GoodStrand(strands[n], id)
         /\ Reached(strands, id)
<1> USE DEF ReducersInv
<1>1. Tables
  BY DEF Tables, TypeOK, IdsUnique, Unique, IdFunctions
<1>2. \A n \in DOMAIN strands : strands[n] \in Strand
  BY DEF TypeOK
<1>3. \A n \in DOMAIN strands : strands[n].map # None => strands[n].map \in Maps
  BY DEF Maps
<1>4. ASSUME NEW n \in DOMAIN strands PROVE GoodStrand(strands[n], id)
  <2> DEFINE s == strands[n]
  <2>1. s \in Strand /\ s.map \in Map \cup {None}
    BY <1>2, StrandFields
  <2>2. s.map # None => GoodMap(s.map)
    BY <1>3, <2>1 DEF GoodMap, TypeOK, NothingDropped, Forgotten
  <2>3. \A h \in s.scope : id[h] # None
    BY DEF Scopes, Registered
  <2>4. ASSUME NEW i \in Ids, ViewOf(s.map, i).key # None
        PROVE  ViewOf(s.map, i).key \in s.scope /\ id[ViewOf(s.map, i).key] = i
    <3>1. s.map # None /\ ViewOf(s.map, i) = s.map.vinfo[i]
      BY <2>4 DEF ViewOf, EmptyView
    <3>2. i \in Views(s.map)
      BY <2>4, <3>1 DEF Views
    <3> QED BY <1>3, <3>1, <3>2 DEF Scopes, IdsUnique
  <2>5. ASSUME NEW h \in Hyperobjects
        PROVE  s.done[h] = IF id[h] = None THEN <<>> ELSE ViewOf(s.map, id[h]).val
    <3>1. CASE id[h] = None
      BY <3>1 DEF Forgotten, Registered
    <3>2. CASE id[h] # None
      <4>1. id[h] \in Ids
        BY <3>2 DEF TypeOK
      <4>2. s.done[h] = IF s.map = None \/ s.map.vinfo[id[h]].key = None THEN <<>>
                        ELSE s.map.vinfo[id[h]].val
        BY <3>2 DEF ViewsSerial
      <4>3. s.map # None /\ s.map.vinfo[id[h]].key = None => s.map.vinfo[id[h]].val = <<>>
        BY <2>2, <4>1 DEF GoodMap, EmptyView
      <4> QED BY <3>2, <4>2, <4>3 DEF ViewOf, EmptyView
    <3> QED BY <3>1, <3>2
  <2> HIDE DEF s
  <2>6. GoodStrand(s, id)
    BY <2>1, <2>2, <2>3, <2>4, <2>5 DEF GoodStrand, GoodOrNone
  <2> QED BY <2>6 DEF s
<1>5. Reached(strands, id)
  BY DEF Reachable, Reached, Registered, ViewOf
<1> QED BY <1>1, <1>4, <1>5

\* ... and follows from them, after a step that leaves the instance alone.
LEMMA InvJoin ==
  ASSUME bounds' = bounds, Tables',
         \A n \in DOMAIN strands' : GoodStrand(strands'[n], id'),
         Reached(strands', id')
  PROVE  ReducersInv'
<1>1. spa_cap' = spa_cap /\ Ids' = Ids /\ Map' = Map /\ Strand' = Strand
      /\ \A m : Views(m)' = Views(m)
  BY DEF spa_cap, Ids, Map, Strand, Views
<1>2. bounds \in Bounds /\ id' \in IdFunctions
  BY <1>1 DEF Tables, IdFunctions
<1>3. ASSUME NEW m \in Maps'
      PROVE  \E n \in DOMAIN strands' : m = strands'[n].map /\ m # None /\ GoodMap(m)
  BY <1>3 DEF Maps, GoodStrand, GoodOrNone
<1>4. TypeOK'
  BY <1>1, <1>3 DEF Tables, TypeOK, GoodMap, IdFunctions
<1>5. NothingDropped'
  BY <1>1, <1>3 DEF NothingDropped, GoodMap
<1>6. IdsUnique'
  <2>1. ASSUME NEW m \in Maps', NEW i \in Views(m) PROVE id'[m.vinfo[i].key] = i
    <3>1. PICK n \in DOMAIN strands' : m = strands'[n].map /\ m # None
      BY <1>3, <2>1
    <3>2. i \in Ids /\ ViewOf(m, i) = m.vinfo[i] /\ m.vinfo[i].key # None
      BY <2>1, <3>1 DEF Views, ViewOf
    <3> QED BY <3>1, <3>2 DEF GoodStrand
  <2>2. \A m \in Maps' : \A i \in Views(m)' : id'[m.vinfo[i].key] = i
    BY <1>1, <2>1
  <2>3. /\ used' = {id'[h] : h \in Hyperobjects} \ {None}
        /\ \A g, h \in Hyperobjects : g # h /\ id'[g] = id'[h] => id'[g] = None
    BY DEF Tables, Unique
  <2> QED BY <2>2, <2>3 DEF IdsUnique
<1>7. Scopes'
  <2>1. ASSUME NEW n \in DOMAIN strands'
        PROVE  /\ strands'[n].scope \subseteq Registered'
               /\ strands'[n].map # None =>
                    \A i \in Views(strands'[n].map) :
                        strands'[n].map.vinfo[i].key \in strands'[n].scope
    <3>1. GoodStrand(strands'[n], id')
      BY <2>1
    <3>2. strands'[n].scope \in SUBSET Hyperobjects
      BY <3>1, StrandFields DEF GoodStrand
    <3> QED BY <3>1, <3>2 DEF GoodStrand, Registered, Views, ViewOf
  <2> QED BY <1>1, <2>1 DEF Scopes
<1>8. Forgotten'
  <2>1. \A m \in Maps' : \A i \in Ids' : m.vinfo[i].key = None => m.vinfo[i] = EmptyView
    BY <1>1, <1>3 DEF GoodMap
  <2>2. \A n \in DOMAIN strands' : \A h \in Hyperobjects \ Registered' : strands'[n].done[h] = <<>>
    BY DEF GoodStrand, Registered
  <2> QED BY <2>1, <2>2 DEF Forgotten, EmptyView
<1>9. ViewsSerial'
  <2>1. ASSUME NEW n \in DOMAIN strands', NEW h \in Hyperobjects, id'[h] # None
        PROVE  LET m == strands'[n].map IN
               strands'[n].done[h] =
                 IF m = None \/ m.vinfo[id'[h]].key = None THEN <<>> ELSE m.vinfo[id'[h]].val
    <3> DEFINE m == strands'[n].map
               i == id'[h]
    <3>1. i \in Ids
      BY <1>2, <2>1 DEF IdFunctions
    <3>2. GoodStrand(strands'[n], id')
      OBVIOUS
    <3>3. strands'[n].done[h] = ViewOf(m, i).val
      BY <2>1, <3>2 DEF GoodStrand
    <3>4. ViewOf(m, i).key = None => ViewOf(m, i) = EmptyView
      BY <1>2, <3>1, <3>2, ViewOfSlot DEF GoodStrand
    <3> HIDE DEF i
    <3>5. strands'[n].done[h] = IF m = None \/ m.vinfo[i].key = None THEN <<>> ELSE m.vinfo[i].val
      BY <3>3, <3>4 DEF ViewOf, EmptyView
    <3> QED BY <3>5 DEF i
  <2> QED BY <2>1 DEF ViewsSerial
<1>10. Reachable'
  <2>1. ASSUME NEW h \in Registered'
        PROVE  \E n \in DOMAIN strands' :
                   strands'[n].map # None /\ strands'[n].map.vinfo[id'[h]].key = h
    <3>1. h \in Hyperobjects /\ id'[h] # None /\ h # None
      BY ReducersAssumption DEF Registered
    <3>2. PICK n \in DOMAIN strands' : ViewOf(strands'[n].map, id'[h]).key = h
      BY <3>1 DEF Reached
    <3>3. strands'[n].map # None
      BY <3>1, <3>2 DEF ViewOf, EmptyView
    <3> QED BY <3>2, <3>3 DEF ViewOf
  <2> QED BY <2>1 DEF Reachable
<1> QED BY <1>4, <1>5, <1>6, <1>7, <1>8, <1>9, <1>10 DEF ReducersInv

-----------------------------------------------------------------------------
(* The steps *)

\* No strand has anything at first.
LEMMA ReducersInit == Init => ReducersInv
<1> SUFFICES ASSUME Init PROVE ReducersInv
  OBVIOUS
<1>1. bounds \in Bounds /\ bounds.strands \in Nat \ {0} /\ bounds.updates \in Nat
  BY ReducersAssumption DEF Init
<1>2. strands = <<NewStrand({})>> /\ DOMAIN strands = {1} /\ strands[1] = NewStrand({})
      /\ Len(strands) = 1
  BY DEF Init
<1>3. NewStrand({}) \in Strand /\ NewStrand({}).map = None /\ NewStrand({}).scope = {}
      /\ NewStrand({}).done = [h \in Hyperobjects |-> <<>>]
  BY DEF NewStrand, Strand
<1>4. Maps = {}
  BY <1>2, <1>3 DEF Maps
<1>5. Registered = {} /\ \A h \in Hyperobjects : id[h] = None
  BY DEF Init, Registered
<1>6. TypeOK
  <2>1. strands \in Seq(Strand)
    BY <1>2, <1>3
  <2>2. 0 \in Ids
    BY <1>1, Sizes
  <2> QED BY <1>1, <1>2, <1>4, <2>1, <2>2 DEF TypeOK, Init
<1>7. IdsUnique /\ NothingDropped
  BY <1>4, <1>5 DEF IdsUnique, NothingDropped, Init
<1>8. ViewsSerial /\ Scopes /\ Forgotten /\ Reachable
  BY <1>2, <1>3, <1>4, <1>5 DEF ViewsSerial, Scopes, Forgotten, Reachable
<1> QED BY <1>6, <1>7, <1>8 DEF ReducersInv

\* A step that aborts, or changes nothing.
LEMMA AbortKeeps ==
  ASSUME ReducersInv, UNCHANGED <<bounds, used, next, id, strands, updates>>,
         bug' \in {"none", "merging", "merge_key", "spa_resize", "unsynced"}
  PROVE  ReducersInv'
<1>1. Tables /\ (\A n \in DOMAIN strands : GoodStrand(strands[n], id)) /\ Reached(strands, id)
  BY InvSplit
<1>2. Tables'
  BY <1>1 DEF Tables, IdFunctions, Unique, Ids, spa_cap, Strand, Map
<1> QED BY <1>1, <1>2, InvJoin

\* Strands of which one has changed.
LEMMA OneStrand ==
  ASSUME Tables, NEW n \in DOMAIN strands, NEW s \in Strand
  PROVE  LET new == [strands EXCEPT ![n] = s] IN
         /\ new \in Seq(Strand) /\ Len(new) = Len(strands) /\ DOMAIN new = DOMAIN strands
         /\ new[n] = s /\ \A k \in DOMAIN strands \ {n} : new[k] = strands[k]
BY ExceptSeq DEF Tables

\* The map a strand works with, a new one if it has none.
LEMMA MapOfGood ==
  ASSUME Tables, NEW n \in DOMAIN strands, GoodStrand(strands[n], id)
  PROVE  GoodMap(MapOf(n)) /\ \A i \in Ids : MapOf(n).vinfo[i] = ViewOf(strands[n].map, i)
<1>1. bounds \in Bounds
  BY DEF Tables
<1>2. CASE strands[n].map = None
  <2>1. MapOf(n) = NewMap
    BY <1>2 DEF MapOf
  <2>2. \A i \in Ids : NewMap.vinfo[i] = EmptyView
    BY DEF NewMap
  <2>3. NewMap \in Map
    <3>1. EmptyView \in View
      BY <1>1, Sizes DEF Slot
    <3> DEFINE f == [i \in Ids |-> EmptyView]
    <3>2. f \in [Ids -> View]
      BY <3>1
    <3>3. <<>> \in Seq(Ids) /\ 0 \in 0 .. spa_cap /\ Ids = 0 .. spa_cap - 1
      BY <1>1, Sizes
    <3>4. NewMap = [log |-> <<>>, overflow |-> FALSE, num_of_vinfo |-> 0, merging |-> FALSE,
                    vinfo |-> f]
      BY DEF NewMap
    <3> HIDE DEF f
    <3> QED BY <1>1, <3>2, <3>3, <3>4, Sizes DEF MapOfSize
  <2>4. Views(NewMap) = {}
    BY <2>2 DEF Views, EmptyView
  <2>5. Cardinality(Views(NewMap)) = 0
    BY <2>4, FS_EmptySet
  <2>6. Len(NewMap.log) <= spa_cap \div 2 /\ NewMap.num_of_vinfo = 0
    BY <1>1, Sizes DEF NewMap
  <2>7. GoodMap(NewMap)
    BY <2>2, <2>3, <2>4, <2>5, <2>6 DEF GoodMap
  <2> QED BY <1>2, <2>1, <2>2, <2>7 DEF ViewOf
<1>3. CASE strands[n].map # None
  BY <1>3 DEF MapOf, ViewOf, GoodStrand, GoodOrNone
<1> QED BY <1>2, <1>3

\* reducer_id_get finds an ID that is not in use.
LEMMA IdGetFree ==
  ASSUME Tables, used # Ids
  PROVE  IdGet \in Ids \ used /\ (IdGet + 1) % spa_cap \in Ids
<1>1. bounds \in Bounds /\ used \subseteq Ids /\ next \in Ids
  BY DEF Tables
<1>2. spa_cap \in Nat \ {0} /\ Ids = 0 .. spa_cap - 1
  BY <1>1, Sizes
<1>3. IdGet \in Ids \ used
  <2>1. CASE next \notin used
    BY <1>1, <2>1 DEF IdGet
  <2>2. CASE next \in used
    <3> DEFINE F == Ids \ used
               P(i) == \A j \in F : i <= j
    <3>1. F # {} /\ F \subseteq Nat
      <4>1. \E i \in Ids : i \notin used
        BY <1>1
      <4> QED BY <1>2, <4>1
    <3>2. \E i \in F : P(i)
      <4> HIDE DEF F
      <4>1. IsWellFoundedOn({ss \in Nat \X Nat : ss[1] < ss[2]}, Nat)
        BY NatLessThanWellFounded DEF OpToRel
      <4>2. PICK i \in F : \A j \in F : ~(<<j, i>> \in {ss \in Nat \X Nat : ss[1] < ss[2]})
        BY <3>1, <4>1, WFMin
      <4>3. ASSUME NEW j \in F PROVE i <= j
        <5>1. i \in Nat /\ j \in Nat /\ <<j, i>> \in Nat \X Nat
          BY <3>1
        <5> QED BY <4>2, <5>1
      <4> QED BY <4>3
    <3>3. IdGet = CHOOSE i \in F : P(i)
      BY <2>2 DEF IdGet
    <3> HIDE DEF F, P
    <3>4. IdGet \in F
      BY <3>2, <3>3
    <3> QED BY <3>4 DEF F
  <2> QED BY <2>1, <2>2
<1>4. \A i \in Nat : (i + 1) % spa_cap \in 0 .. spa_cap - 1
  BY <1>2
<1> QED BY <1>2, <1>3, <1>4

\* __cilkrts_hyper_create.
LEMMA CreateKeeps ==
  ASSUME ReducersInv, NEW n \in DOMAIN strands, NEW h \in Hyperobjects, HyperCreate(n, h),
         bug = "none"
  PROVE  ReducersInv'
<1> DEFINE i == IdGet
           m == MapOf(n)
           s == strands[n]
           v == [key |-> h, val |-> <<>>]
           logged == LogId([m EXCEPT !.vinfo[i] = v], i)
           t == [map |-> logged, scope |-> s.scope \cup {h}, done |-> s.done]
<1>1. Tables /\ (\A k \in DOMAIN strands : GoodStrand(strands[k], id)) /\ Reached(strands, id)
  BY InvSplit
<1>2. CASE \E check \in {"spa_resize", "merging"} : Abort(check)
  BY <1>2, AbortKeeps DEF Abort
<1>3. CASE /\ used # Ids /\ ~m.merging /\ ~Full(m)
           /\ used' = used \cup {i}
           /\ next' = (i + 1) % spa_cap
           /\ id' = [id EXCEPT ![h] = i]
           /\ strands' = [strands EXCEPT ![n] = t]
           /\ UNCHANGED <<bounds, updates, bug>>
  <2>1. /\ bounds \in Bounds /\ id \in IdFunctions /\ Unique(id) /\ used \subseteq Ids
        /\ used = {id[g] : g \in Hyperobjects} \ {None}
    BY <1>1 DEF Tables
  <2>2. i \in Ids \ used /\ (i + 1) % spa_cap \in Ids
    BY <1>1, <1>3, IdGetFree
  <2>3. i # None /\ h # None /\ id[h] = None
    BY <2>1, <2>2, Sizes, ReducersAssumption DEF HyperCreate
  <2>4. \A g \in Hyperobjects : id[g] # i
    BY <2>1, <2>2, <2>3
  <2> HIDE DEF i
  <2>5. GoodStrand(s, id) /\ s \in Strand
    BY <1>1 DEF GoodStrand
  <2>6. GoodMap(m) /\ \A j \in Ids : m.vinfo[j] = ViewOf(s.map, j)
    BY <1>1, <2>5, MapOfGood
  <2>7. m.vinfo[i] = EmptyView /\ m.vinfo[i].key = None
    BY <2>1, <2>2, <2>4, <2>5, <2>6, FreeSlot DEF EmptyView
  <2>8. v \in Slot /\ v.key = h /\ v.val = <<>>
    BY <2>3 DEF Slot, View
  <2> HIDE DEF m, v
  <2>9. GoodMap(logged) /\ logged.vinfo = [m.vinfo EXCEPT ![i] = v]
    <3>1. i \in Ids /\ ~Full(m)
      BY <1>3, <2>2
    <3> QED BY <2>1, <2>6, <2>7, <2>8, <3>1, LogGood
  <2> HIDE DEF logged
  <2>10. \A j \in Ids : logged.vinfo[j] = IF j = i THEN v ELSE ViewOf(s.map, j)
    <3>1. m.vinfo \in [Ids -> View]
      BY <2>1, <2>6, MapFields DEF GoodMap
    <3> QED BY <2>2, <2>6, <2>9, <3>1
  <2>11. id' \in IdFunctions /\ id'[h] = i /\ (\A g \in Hyperobjects \ {h} : id'[g] = id[g])
         /\ Unique(id') /\ used' = {id'[g] : g \in Hyperobjects} \ {None}
    <3>1. id' \in IdFunctions /\ id'[h] = i /\ (\A g \in Hyperobjects \ {h} : id'[g] = id[g])
      BY <1>3, <2>1, <2>2 DEF IdFunctions
    <3>2. Unique(id')
      BY <2>1, <2>4, <3>1 DEF Unique
    <3>3. \A x : x \in used' <=> x \in {id'[g] : g \in Hyperobjects} \ {None}
      BY <1>3, <2>1, <2>3, <3>1
    <3> QED BY <3>1, <3>2, <3>3
  <2>12. GoodStrand(t, id')
    <3>1. GoodStrand(s, id')
      BY <1>3, <2>1, <2>2, <2>3, <2>4, <2>5, OthersAfterCreate
    <3> DEFINE u == [map |-> s.map, scope |-> s.scope \cup {h}, done |-> s.done]
    <3>2. s.scope \in SUBSET Hyperobjects /\ s.done \in [Hyperobjects -> Seq(Nat)]
          /\ s.map \in Map \cup {None}
      BY <2>5, StrandFields
    <3>3. u \in Strand /\ u.map = s.map /\ u.scope = s.scope \cup {h} /\ u.done = s.done
      BY <3>2 DEF Strand
    <3> HIDE DEF u
    <3>4. GoodStrand(u, id')
      BY <2>3, <2>11, <3>1, <3>3 DEF GoodStrand
    <3>5. s.done[h] = <<>>
      BY <2>3, <2>5 DEF GoodStrand
    <3>6. [u.done EXCEPT ![h] = v.val] = s.done
      BY <2>8, <3>2, <3>3, <3>5
    <3>7. h \in u.scope
      BY <3>3
    <3>8. GoodStrand([map |-> logged, scope |-> u.scope, done |-> [u.done EXCEPT ![h] = v.val]], id')
      <4>1. \A j \in Ids : logged.vinfo[j] = IF j = id'[h] THEN v ELSE ViewOf(u.map, j)
        BY <2>10, <2>11, <3>3
      <4> QED BY <2>1, <2>8, <2>9, <2>11, <3>4, <3>7, <4>1, SlotWritten, Zenon
    <3> QED BY <3>3, <3>6, <3>8
  <2>13. t \in Strand
    BY <2>12 DEF GoodStrand
  <2>14. strands' = [strands EXCEPT ![n] = t]
    BY <1>3
  <2> HIDE DEF t
  <2>15. /\ strands' \in Seq(Strand) /\ Len(strands') = Len(strands)
         /\ DOMAIN strands' = DOMAIN strands
         /\ strands'[n] = t /\ \A k \in DOMAIN strands \ {n} : strands'[k] = strands[k]
    BY <1>1, <2>13, <2>14, OneStrand
  <2>16. \A k \in DOMAIN strands' : GoodStrand(strands'[k], id')
    <3>1. ASSUME NEW k \in DOMAIN strands \ {n} PROVE GoodStrand(strands[k], id')
      BY <1>1, <1>3, <2>1, <2>2, <2>3, <2>4, OthersAfterCreate
    <3> QED BY <2>12, <2>15, <3>1
  <2>17. Reached(strands', id')
    <3>1. logged # None
      BY <2>1, <2>9, Sizes DEF GoodMap
    <3>2. \A j \in Ids : ViewOf(t.map, j) = IF j = i THEN v ELSE ViewOf(s.map, j)
      BY <2>10, <3>1 DEF ViewOf, t
    <3>3. ASSUME NEW g \in Hyperobjects, id'[g] # None
          PROVE  \E k \in DOMAIN strands' : ViewOf(strands'[k].map, id'[g]).key = g
      <4>1. CASE g = h
        BY <2>2, <2>8, <2>11, <2>15, <3>2, <4>1
      <4>2. CASE g # h
        <5>1. id'[g] = id[g] /\ id[g] \in Ids /\ id[g] # i
          BY <2>1, <2>4, <2>11, <3>3, <4>2 DEF IdFunctions
        <5>2. PICK k \in DOMAIN strands : ViewOf(strands[k].map, id[g]).key = g
          BY <1>1, <3>3, <5>1 DEF Reached
        <5> QED BY <2>15, <3>2, <5>1, <5>2
      <4> QED BY <4>1, <4>2
    <3> QED BY <3>3 DEF Reached
  <2>18. Tables'
    <3>1. spa_cap' = spa_cap /\ Ids' = Ids /\ Strand' = Strand /\ IdFunctions' = IdFunctions
      BY <1>3 DEF spa_cap, Ids, Strand, Map, IdFunctions
    <3>2. used' \subseteq Ids /\ next' \in Ids
      BY <1>3, <2>1, <2>2 DEF i
    <3>3. Unique(id)'
      BY <2>11 DEF Unique
    <3>4. Len(strands') \in 1 .. bounds'.strands /\ updates' \in 0 .. bounds'.updates
          /\ bug' \in {"none", "merging", "merge_key", "spa_resize", "unsynced"}
      BY <1>1, <1>3, <2>15 DEF Tables
    <3> QED BY <1>3, <2>1, <2>11, <2>15, <3>1, <3>2, <3>3, <3>4 DEF Tables
  <2> QED BY <1>3, <2>16, <2>17, <2>18, InvJoin
<1> QED BY <1>2, <1>3 DEF HyperCreate

\* When the IDs stay as they are, the strands decide.
LEMMA SameIds ==
  ASSUME Tables, UNCHANGED <<bounds, used, next, id, bug>>,
         strands' \in Seq(Strand), Len(strands') \in 1 .. bounds.strands,
         updates' \in 0 .. bounds.updates
  PROVE  Tables'
BY DEF Tables, IdFunctions, Unique, Ids, spa_cap, Strand, Map

\* __cilkrts_hyper_lookup.
LEMMA LookupKeeps ==
  ASSUME ReducersInv, NEW n \in DOMAIN strands, NEW h \in Hyperobjects, HyperLookup(n, h),
         bug = "none"
  PROVE  ReducersInv'
<1> DEFINE i == id[h]
           m == MapOf(n)
           s == strands[n]
           new == m.vinfo[i].key = None
           view == IF new THEN [key |-> h, val |-> <<>>] ELSE m.vinfo[i]
           v == [key |-> view.key, val |-> Append(view.val, updates + 1)]
           there == [m EXCEPT !.vinfo[i] = v]
           w == IF new THEN LogId(there, i) ELSE there
           t == [map |-> w, scope |-> s.scope,
                 done |-> [s.done EXCEPT ![h] = Append(s.done[h], updates + 1)]]
<1>1. Tables /\ (\A k \in DOMAIN strands : GoodStrand(strands[k], id)) /\ Reached(strands, id)
  BY InvSplit
<1>2. CASE \E check \in {"spa_resize", "merging"} : Abort(check)
  BY <1>2, AbortKeeps DEF Abort
<1>3. CASE /\ h \in s.scope /\ updates < bounds.updates
           /\ ~m.merging /\ ~(new /\ Full(m))
           /\ strands' = [strands EXCEPT ![n] = t]
           /\ updates' = updates + 1
           /\ UNCHANGED <<bounds, used, next, id, bug>>
  <2>1. bounds \in Bounds /\ id \in IdFunctions /\ Unique(id) /\ updates \in Nat
        /\ bounds.updates \in Nat /\ updates' \in 0 .. bounds.updates
    BY <1>1, <1>3, ReducersAssumption DEF Tables
  <2>2. GoodStrand(s, id) /\ s \in Strand
    BY <1>1 DEF GoodStrand
  <2>3. i \in Ids /\ h # None
    BY <1>3, <2>1, <2>2, ReducersAssumption DEF GoodStrand, IdFunctions
  <2>4. GoodMap(m) /\ \A j \in Ids : m.vinfo[j] = ViewOf(s.map, j)
    BY <1>1, <2>2, MapOfGood
  <2>5. m.vinfo \in [Ids -> View] /\ m.vinfo[i] \in Slot
    BY <2>1, <2>3, <2>4, GoodSlots, MapFields DEF GoodMap
  <2>6. ~new => m.vinfo[i].key = h
    <3>1. SUFFICES ASSUME ~new PROVE m.vinfo[i].key = h
      OBVIOUS
    <3> DEFINE g == m.vinfo[i].key
    <3>2. g \in Hyperobjects
      BY <2>5, <3>1 DEF Slot, View
    <3>3. id[g] = i
      BY <2>2, <2>3, <2>4, <3>1 DEF GoodStrand
    <3>4. id[g] = id[h] /\ id[g] # None
      BY <2>1, <2>3, <3>3, Sizes
    <3> HIDE DEF g
    <3>5. g = h
      BY <2>1, <3>2, <3>4 DEF Unique
    <3> QED BY <3>5 DEF g
  <2>7. view = [key |-> h, val |-> s.done[h]] /\ s.done[h] \in Seq(Nat)
    <3>1. s.done[h] = m.vinfo[i].val /\ s.done[h] \in Seq(Nat)
      BY <1>3, <2>2, <2>3, <2>4, StrandFields DEF GoodStrand
    <3>2. m.vinfo[i] = [key |-> m.vinfo[i].key, val |-> m.vinfo[i].val]
          /\ (new => m.vinfo[i].val = <<>>)
      BY <2>5 DEF Slot, View, EmptyView
    <3> QED BY <2>6, <3>1, <3>2
  <2>8. v = [key |-> h, val |-> Append(s.done[h], updates + 1)] /\ v \in Slot
        /\ v.key = h /\ v.val = Append(s.done[h], updates + 1)
    <3>1. Append(s.done[h], updates + 1) \in Seq(Nat)
      BY <2>1, <2>7
    <3>2. v = [key |-> h, val |-> Append(s.done[h], updates + 1)]
      <4> HIDE DEF view
      <4> QED BY <2>7
    <3> HIDE DEF v
    <3> QED BY <2>3, <3>1, <3>2 DEF Slot, View
  <2> HIDE DEF v, view, i, m
  <2>9. GoodMap(w) /\ w.vinfo = [m.vinfo EXCEPT ![i] = v]
    <3>1. CASE new
      <4>1. ~Full(m)
        BY <1>3, <3>1
      <4>2. w = LogId([m EXCEPT !.vinfo[i] = v], i) /\ m.vinfo[i].key = None
        BY <3>1
      <4>3. LET r == LogId([m EXCEPT !.vinfo[i] = v], i) IN
            GoodMap(r) /\ r.vinfo = [m.vinfo EXCEPT ![i] = v]
        <5>1. /\ bounds \in Bounds /\ GoodMap(m) /\ i \in Ids /\ m.vinfo[i].key = None
              /\ v \in Slot /\ ~Full(m)
          BY <2>1, <2>3, <2>4, <2>8, <4>1, <4>2
        <5> QED BY ONLY <5>1, LogGood
      <4> QED BY <4>2, <4>3
    <3>2. CASE ~new
      <4>1. v \in View /\ v.key = m.vinfo[i].key
        BY <2>6, <2>8, <3>2 DEF Slot
      <4> QED BY <2>1, <2>3, <2>4, <3>2, <4>1, SetGood
    <3> QED BY <3>1, <3>2
  <2> HIDE DEF w
  <2>10. \A j \in Ids : w.vinfo[j] = IF j = id[h] THEN v ELSE ViewOf(s.map, j)
    BY <2>3, <2>4, <2>5, <2>9 DEF i
  <2>11. GoodStrand(t, id)
    <3>1. t = [map |-> w, scope |-> s.scope, done |-> [s.done EXCEPT ![h] = v.val]]
      BY <2>8
    <3>2. h \in s.scope
      BY <1>3
    <3> HIDE DEF t
    <3>3. GoodStrand([map |-> w, scope |-> s.scope, done |-> [s.done EXCEPT ![h] = v.val]], id)
      <4> HIDE DEF s
      <4> QED BY <2>1, <2>2, <2>8, <2>9, <2>10, <3>2, SlotWritten, Zenon
    <3> QED BY <3>1, <3>3
  <2>12. t \in Strand /\ w # None /\ t.map = w
    BY <2>1, <2>9, <2>11, Sizes DEF GoodStrand, GoodMap
  <2> HIDE DEF t
  <2>13. /\ strands' \in Seq(Strand) /\ Len(strands') = Len(strands)
         /\ DOMAIN strands' = DOMAIN strands
         /\ strands'[n] = t /\ \A k \in DOMAIN strands \ {n} : strands'[k] = strands[k]
    BY <1>1, <1>3, <2>12, OneStrand
  <2>14. \A k \in DOMAIN strands' : GoodStrand(strands'[k], id')
    BY <1>1, <1>3, <2>11, <2>13
  <2>15. Reached(strands', id')
    <3>1. \A j \in Ids : ViewOf(t.map, j) = IF j = id[h] THEN v ELSE ViewOf(s.map, j)
      BY <2>10, <2>12 DEF ViewOf
    <3>2. ASSUME NEW g \in Hyperobjects, id[g] # None
          PROVE  \E k \in DOMAIN strands' : ViewOf(strands'[k].map, id[g]).key = g
      <4>1. id[g] \in Ids
        BY <2>1, <3>2 DEF IdFunctions
      <4>2. PICK k \in DOMAIN strands : ViewOf(strands[k].map, id[g]).key = g
        BY <1>1, <3>2 DEF Reached
      <4>3. CASE g = h
        BY <2>8, <2>13, <3>1, <4>1, <4>3
      <4>4. CASE g # h
        <5>1. id[g] # id[h]
          BY <2>1, <3>2, <4>4 DEF Unique
        <5> QED BY <2>13, <3>1, <4>1, <4>2, <5>1
      <4> QED BY <4>3, <4>4
    <3> QED BY <1>3, <3>2 DEF Reached
  <2>16. Tables'
    <3>1. Len(strands') \in 1 .. bounds.strands
      BY <1>1, <2>13 DEF Tables
    <3> QED BY <1>1, <1>3, <2>1, <2>13, <3>1, SameIds
  <2> QED BY <1>3, <2>14, <2>15, <2>16, InvJoin
<1> QED BY <1>2, <1>3 DEF HyperLookup

\* __cilkrts_hyper_destroy: the only strand that may use the reducer has a
\* view of it.
LEMMA DestroyKeeps ==
  ASSUME ReducersInv, NEW n \in DOMAIN strands, NEW h \in Hyperobjects, HyperDestroy(n, h),
         bug = "none"
  PROVE  ReducersInv'
<1> DEFINE i == id[h]
           s == strands[n]
           m == s.map
           w == UnlogId(m, i)
           t == [map |-> w, scope |-> s.scope \ {h}, done |-> [s.done EXCEPT ![h] = <<>>]]
<1>1. Tables /\ (\A k \in DOMAIN strands : GoodStrand(strands[k], id)) /\ Reached(strands, id)
  BY InvSplit
<1>2. CASE \E check \in {"unsynced", "merging"} : Abort(check)
  BY <1>2, AbortKeeps DEF Abort
<1>3. CASE /\ {k \in DOMAIN strands : h \in strands[k].scope} = {n}
           /\ m # None
           /\ strands' = [strands EXCEPT ![n] = t]
           /\ used' = used \ {i}
           /\ next' = i
           /\ id' = [id EXCEPT ![h] = None]
           /\ UNCHANGED <<bounds, updates, bug>>
  <2>1. /\ bounds \in Bounds /\ id \in IdFunctions /\ Unique(id) /\ used \subseteq Ids
        /\ used = {id[g] : g \in Hyperobjects} \ {None}
    BY <1>1 DEF Tables
  <2>2. GoodStrand(s, id) /\ s \in Strand /\ h \in s.scope
    BY <1>1, <1>3 DEF GoodStrand
  <2>3. \A k \in DOMAIN strands \ {n} : h \notin strands[k].scope
    BY <1>3
  <2>4. i \in Ids /\ i # None /\ h # None
    BY <2>1, <2>2, ReducersAssumption DEF GoodStrand, IdFunctions
  <2>5. ViewOf(s.map, i).key = h
    <3>1. PICK k \in DOMAIN strands : ViewOf(strands[k].map, id[h]).key = h
      BY <1>1, <2>4 DEF Reached
    <3>2. h \in strands[k].scope
      BY <1>1, <2>4, <3>1 DEF GoodStrand
    <3> QED BY <2>3, <3>1, <3>2
  <2>6. GoodMap(m) /\ \A j \in Ids : m.vinfo[j] = ViewOf(s.map, j)
    BY <1>3, <2>2 DEF GoodStrand, GoodOrNone, ViewOf
  <2>7. i \in Views(m)
    BY <2>4, <2>5, <2>6 DEF Views
  <2>8. m.vinfo \in [Ids -> View]
    BY <2>1, <2>6, MapFields DEF GoodMap
  <2> HIDE DEF i, m
  <2>9. GoodMap(w) /\ w.vinfo = [m.vinfo EXCEPT ![i] = EmptyView]
    BY <2>1, <2>6, <2>7, UnlogGood
  <2> HIDE DEF w
  <2>10. \A j \in Ids : w.vinfo[j] = IF j = id[h] THEN EmptyView ELSE ViewOf(s.map, j)
    BY <2>4, <2>6, <2>8, <2>9 DEF i
  <2>11. id' \in IdFunctions /\ id'[h] = None /\ (\A g \in Hyperobjects \ {h} : id'[g] = id[g])
         /\ Unique(id') /\ used' = {id'[g] : g \in Hyperobjects} \ {None}
    <3>1. id' \in IdFunctions /\ id'[h] = None /\ (\A g \in Hyperobjects \ {h} : id'[g] = id[g])
      BY <1>3, <2>1 DEF IdFunctions
    <3>2. Unique(id')
      BY <2>1, <3>1 DEF Unique
    <3>3. \A g \in Hyperobjects \ {h} : id[g] # None => id[g] # i
      BY <2>1 DEF Unique, i
    <3>4. \A x : x \in used' <=> x \in {id'[g] : g \in Hyperobjects} \ {None}
      BY <1>3, <2>1, <3>1, <3>3 DEF i
    <3> QED BY <3>1, <3>2, <3>4
  <2>12. GoodStrand(t, id')
    <3> HIDE DEF s
    <3>1. GoodStrand([map |-> w, scope |-> s.scope \ {h}, done |-> [s.done EXCEPT ![h] = <<>>]],
                     [id EXCEPT ![h] = None])
      BY <2>1, <2>2, <2>9, <2>10, DestroyerGood, Zenon
    <3> QED BY <1>3, <3>1
  <2>13. t \in Strand /\ w # None /\ t.map = w
    BY <2>1, <2>9, <2>12, Sizes DEF GoodStrand, GoodMap
  <2> HIDE DEF t
  <2>14. /\ strands' \in Seq(Strand) /\ Len(strands') = Len(strands)
         /\ DOMAIN strands' = DOMAIN strands
         /\ strands'[n] = t /\ \A k \in DOMAIN strands \ {n} : strands'[k] = strands[k]
    BY <1>1, <1>3, <2>13, OneStrand
  <2>15. \A k \in DOMAIN strands' : GoodStrand(strands'[k], id')
    <3>1. ASSUME NEW k \in DOMAIN strands \ {n} PROVE GoodStrand(strands[k], id')
      <4>1. id[h] # None /\ h \notin strands[k].scope /\ GoodStrand(strands[k], id)
        BY <1>1, <2>3, <2>4, <3>1 DEF i
      <4> QED BY <1>3, <2>1, <4>1, OthersAfterDestroy
    <3> QED BY <2>12, <2>14, <3>1
  <2>16. Reached(strands', id')
    <3>1. \A j \in Ids : ViewOf(t.map, j) = IF j = id[h] THEN EmptyView ELSE ViewOf(s.map, j)
      BY <2>10, <2>13 DEF ViewOf
    <3>2. ASSUME NEW g \in Hyperobjects, id'[g] # None
          PROVE  \E k \in DOMAIN strands' : ViewOf(strands'[k].map, id'[g]).key = g
      <4>1. g # h /\ id'[g] = id[g] /\ id[g] # None /\ id[g] \in Ids /\ id[g] # id[h]
        BY <2>1, <2>11, <3>2 DEF IdFunctions, Unique
      <4>2. PICK k \in DOMAIN strands : ViewOf(strands[k].map, id[g]).key = g
        BY <1>1, <4>1 DEF Reached
      <4> QED BY <2>14, <3>1, <4>1, <4>2
    <3> QED BY <3>2 DEF Reached
  <2>17. Tables'
    <3>1. spa_cap' = spa_cap /\ Ids' = Ids /\ Strand' = Strand /\ IdFunctions' = IdFunctions
      BY <1>3 DEF spa_cap, Ids, Strand, Map, IdFunctions
    <3>2. used' \subseteq Ids /\ next' \in Ids
      BY <1>3, <2>1, <2>4
    <3>3. Unique(id)'
      BY <2>11 DEF Unique
    <3>4. Len(strands') \in 1 .. bounds'.strands /\ updates' \in 0 .. bounds'.updates
          /\ bug' \in {"none", "merging", "merge_key", "spa_resize", "unsynced"}
      BY <1>1, <1>3, <2>14 DEF Tables
    <3> QED BY <1>3, <2>1, <2>11, <2>14, <3>1, <3>2, <3>3, <3>4 DEF Tables
  <2> QED BY <1>3, <2>15, <2>16, <2>17, InvJoin
<1> QED BY <1>2, <1>3 DEF HyperDestroy

\* A steal.
LEMMA ForkKeeps ==
  ASSUME ReducersInv, NEW n \in DOMAIN strands, Fork(n), bug = "none"
  PROVE  ReducersInv'
<1> DEFINE e == NewStrand(strands[n].scope)
<1>1. Tables /\ (\A k \in DOMAIN strands : GoodStrand(strands[k], id)) /\ Reached(strands, id)
  BY InvSplit
<1>2. /\ bounds \in Bounds /\ bounds.strands \in Nat /\ updates \in 0 .. bounds.updates
      /\ strands \in Seq(Strand) /\ Len(strands) \in Nat /\ DOMAIN strands = 1 .. Len(strands)
      /\ Len(strands) + 1 \in 1 .. bounds.strands
  BY <1>1, ReducersAssumption DEF Tables, Fork
<1>3. GoodStrand(e, id) /\ e \in Strand
  <2>1. strands[n].scope \in SUBSET Hyperobjects /\ \A h \in strands[n].scope : id[h] # None
    BY <1>1, StrandFields DEF GoodStrand
  <2>2. GoodStrand(e, id)
    BY <1>2, <2>1, NewStrandGood
  <2> QED BY <2>2 DEF GoodStrand
<1> HIDE DEF e
<1>4. /\ strands' \in Seq(Strand) /\ Len(strands') = Len(strands) + 1
      /\ \A k \in 1 .. Len(strands) + 1 :
           strands'[k] = IF k <= n THEN strands[k] ELSE IF k = n + 1 THEN e ELSE strands[k - 1]
  <2>1. strands' = InsertAt(strands, n + 1, e)
    BY DEF Fork, e
  <2>2. n \in 1 .. Len(strands)
    BY <1>2
  <2>3. Loop!InsertOf(InsertAt(strands, n + 1, e), strands, n, e, Strand)
    BY ONLY <1>2, <1>3, <2>2, Loop!Inserted DEF InsertAt, Loop!InsertAt
  <2> QED BY <2>1, <2>3 DEF Loop!InsertOf
<1>5. DOMAIN strands' = 1 .. Len(strands) + 1
  BY <1>4
<1>6. ASSUME NEW k \in DOMAIN strands' PROVE GoodStrand(strands'[k], id)
  <2>1. CASE k <= n
    BY <1>1, <1>2, <1>4, <1>5, <2>1
  <2>2. CASE k = n + 1
    BY <1>2, <1>3, <1>4, <1>5, <2>2
  <2>3. CASE k > n + 1
    <3>1. strands'[k] = strands[k - 1] /\ k - 1 \in DOMAIN strands
      BY <1>2, <1>4, <1>5, <2>3
    <3> QED BY <1>1, <3>1
  <2> QED BY <1>2, <1>5, <2>1, <2>2, <2>3
<1>7. ASSUME NEW g \in Hyperobjects, id[g] # None
      PROVE  \E k \in DOMAIN strands' : ViewOf(strands'[k].map, id[g]).key = g
  <2>1. PICK k \in DOMAIN strands : ViewOf(strands[k].map, id[g]).key = g
    BY <1>1, <1>7 DEF Reached
  <2>2. CASE k <= n
    BY <1>2, <1>4, <1>5, <2>1, <2>2
  <2>3. CASE k > n
    <3>1. strands'[k + 1] = strands[k] /\ k + 1 \in DOMAIN strands'
      BY <1>2, <1>4, <1>5, <2>3
    <3> QED BY <2>1, <3>1
  <2> QED BY <1>2, <2>2, <2>3
<1>8. UNCHANGED <<bounds, used, next, id, updates, bug>>
  BY DEF Fork
<1>9. Tables'
  BY <1>1, <1>2, <1>4, <1>8, SameIds
<1>10. Reached(strands', id')
  BY <1>7, <1>8 DEF Reached
<1> QED BY <1>6, <1>8, <1>9, <1>10, InvJoin

\* Two strands become one.
LEMMA MergeKeeps ==
  ASSUME ReducersInv, NEW n \in 1 .. Len(strands) - 1, MergeStrands(n), bug = "none"
  PROVE  ReducersInv'
<1> DEFINE l == strands[n]
           r == strands[n + 1]
           m == MergeTwoRmaps(l.map, r.map)
           t == [map |-> m.this, scope |-> l.scope \cup r.scope,
                 done |-> [h \in Hyperobjects |-> l.done[h] \o r.done[h]]]
           rest == RemoveAt(strands, n + 1)
<1>1. Tables /\ (\A k \in DOMAIN strands : GoodStrand(strands[k], id)) /\ Reached(strands, id)
  BY InvSplit
<1>2. /\ bounds \in Bounds /\ bounds.strands \in Nat /\ updates \in 0 .. bounds.updates
      /\ strands \in Seq(Strand) /\ Len(strands) \in Nat /\ DOMAIN strands = 1 .. Len(strands)
      /\ Len(strands) <= bounds.strands /\ id \in IdFunctions /\ Unique(id)
  BY <1>1, ReducersAssumption DEF Tables
<1>3. n \in DOMAIN strands /\ n + 1 \in DOMAIN strands
  BY <1>2
<1>4. GoodStrand(l, id) /\ GoodStrand(r, id)
  BY <1>1, <1>3
<1> HIDE DEF l, r
<1>5. MergeOf(m, l.map, r.map)
  <2>1. GoodOrNone(l.map) /\ GoodOrNone(r.map)
    BY <1>4 DEF GoodStrand
  <2>2. \A i \in Ids : ViewOf(l.map, i).key # None /\ ViewOf(r.map, i).key # None
                       => ViewOf(l.map, i).key = ViewOf(r.map, i).key
    BY <1>2, <1>4, SameKeys
  <2> QED BY <1>2, <2>1, <2>2, RmapsMerged
<1> HIDE DEF m
<1>6. CASE m.bug # "none" /\ Abort(m.bug)
  BY <1>5, <1>6, AbortKeeps DEF Abort, MergeOf
<1>7. CASE /\ m.bug = "none"
           /\ strands' = [rest EXCEPT ![n] = t]
           /\ UNCHANGED <<bounds, used, next, id, updates, bug>>
  <2>1. GoodOrNone(m.this) /\ \A i \in Ids : ViewOf(m.this, i) = BothViews(l.map, r.map, i)
    BY <1>5, <1>7 DEF MergeOf
  <2>2. GoodStrand(t, id)
    BY <1>2, <1>4, <2>1, MergedGood
  <2>3. t \in Strand /\ t.map = m.this
    BY <2>2 DEF GoodStrand
  <2> HIDE DEF t
  <2>4. /\ rest \in Seq(Strand) /\ Len(rest) = Len(strands) - 1
        /\ \A k \in 1 .. Len(strands) - 1 : rest[k] = IF k <= n THEN strands[k] ELSE strands[k + 1]
    BY <1>2, Loop!Removed DEF RemoveAt, Loop!RemoveAt
  <2> HIDE DEF rest
  <2>5. /\ strands' \in Seq(Strand) /\ Len(strands') = Len(strands) - 1
        /\ strands'[n] = t /\ \A k \in (1 .. Len(strands) - 1) \ {n} : strands'[k] = rest[k]
    <3> DEFINE q == [rest EXCEPT ![n] = t]
    <3>1. n \in 1 .. Len(rest)
      BY <1>2, <2>4
    <3>2. /\ q \in Seq(Strand) /\ Len(q) = Len(rest)
          /\ \A k \in 1 .. Len(rest) : q[k] = IF k = n THEN t ELSE rest[k]
      BY ONLY <2>3, <2>4, <3>1, ExceptSeq
    <3>3. strands' = q
      BY <1>7
    <3> HIDE DEF q
    <3>4. \A k \in 1 .. Len(rest) : strands'[k] = IF k = n THEN t ELSE rest[k]
      BY ONLY <3>2, <3>3
    <3>5. strands' \in Seq(Strand) /\ Len(strands') = Len(strands) - 1
      BY ONLY <2>4, <3>2, <3>3
    <3>6. 1 .. Len(rest) = 1 .. Len(strands) - 1
      BY ONLY <2>4
    <3> QED BY ONLY <3>1, <3>4, <3>5, <3>6
  <2>6. DOMAIN strands' = 1 .. Len(strands) - 1
    BY <2>5
  <2>7. ASSUME NEW k \in DOMAIN strands' PROVE GoodStrand(strands'[k], id)
    <3>1. CASE k = n
      BY <2>2, <2>5, <3>1
    <3>2. CASE k < n
      <4>1. strands'[k] = strands[k] /\ k \in DOMAIN strands
        BY <1>2, <2>4, <2>5, <2>6, <3>2
      <4> QED BY <1>1, <4>1
    <3>3. CASE k > n
      <4>1. strands'[k] = strands[k + 1] /\ k + 1 \in DOMAIN strands
        BY <1>2, <2>4, <2>5, <2>6, <3>3
      <4> QED BY <1>1, <4>1
    <3> QED BY <1>2, <2>6, <3>1, <3>2, <3>3
  <2>8. ASSUME NEW g \in Hyperobjects, id[g] # None
        PROVE  \E k \in DOMAIN strands' : ViewOf(strands'[k].map, id[g]).key = g
    <3>1. PICK k \in DOMAIN strands : ViewOf(strands[k].map, id[g]).key = g
      BY <1>1, <2>8 DEF Reached
    <3>2. id[g] \in Ids /\ g # None
      BY <1>2, <2>8, ReducersAssumption DEF IdFunctions
    <3>3. CASE k < n
      <4>1. k \in 1 .. Len(strands) - 1 /\ k # n /\ k <= n
        BY <1>2, <3>3
      <4>2. strands'[k] = strands[k] /\ k \in DOMAIN strands'
        BY ONLY <2>4, <2>5, <2>6, <4>1
      <4> QED BY ONLY <3>1, <4>2
    <3>4. CASE k > n + 1
      <4> DEFINE j == k - 1
      <4>1. j \in 1 .. Len(strands) - 1 /\ j # n /\ ~(j <= n) /\ j + 1 = k
        BY <1>2, <3>4
      <4> HIDE DEF j
      <4>2. strands'[j] = strands[k] /\ j \in DOMAIN strands'
        BY ONLY <2>4, <2>5, <2>6, <4>1
      <4> QED BY <3>1, <4>2
    <3>5. CASE k \in {n, n + 1}
      <4>1. ViewOf(l.map, id[g]).key = g \/ ViewOf(r.map, id[g]).key = g
        BY <3>1, <3>5 DEF l, r
      <4>2. ViewOf(l.map, id[g]).key # None /\ ViewOf(r.map, id[g]).key # None
            => ViewOf(l.map, id[g]).key = ViewOf(r.map, id[g]).key
        BY <1>2, <1>4, <3>2, SameKeys
      <4>3. ViewOf(m.this, id[g]) = BothViews(l.map, r.map, id[g])
        BY <2>1, <3>2
      <4>4. ViewOf(m.this, id[g]).key = g
        BY <3>2, <4>1, <4>2, <4>3 DEF BothViews
      <4> QED BY <2>3, <2>5, <2>6, <4>4
    <3> QED BY <1>2, <3>3, <3>4, <3>5
  <2>9. Tables'
    <3>1. Len(strands') \in 1 .. bounds.strands
      BY <1>2, <2>5
    <3> QED BY <1>1, <1>2, <1>7, <2>5, <3>1, SameIds
  <2>10. Reached(strands', id')
    BY <1>7, <2>8 DEF Reached
  <2> QED BY <1>7, <2>7, <2>9, <2>10, InvJoin
<1> QED BY <1>6, <1>7 DEF MergeStrands, l, r, m

\* The reducer maps keep their invariant, whatever the number of slots, of
\* reducers and of strands: the accounts of every map are right, and every
\* view holds what its strand did to the reducer, in serial order.
THEOREM ReducersInvariant == Spec => []ReducersInv
<1>1. ReducersInv /\ [Next]_vars => ReducersInv'
  <2> SUFFICES ASSUME ReducersInv, [Next]_vars PROVE ReducersInv'
    OBVIOUS
  <2>1. bug \in {"none", "merging", "merge_key", "spa_resize", "unsynced"}
    BY DEF ReducersInv, TypeOK
  <2>2. CASE UNCHANGED vars
    BY <2>1, <2>2, AbortKeeps DEF vars
  <2>3. CASE Aborted
    BY <2>1, <2>3, AbortKeeps DEF Aborted, vars
  <2>4. ASSUME bug = "none", NEW n \in DOMAIN strands, NEW h \in Hyperobjects,
               HyperCreate(n, h) \/ HyperLookup(n, h) \/ HyperDestroy(n, h)
        PROVE  ReducersInv'
    BY <2>4, CreateKeeps, LookupKeeps, DestroyKeeps
  <2>5. ASSUME bug = "none", NEW n \in DOMAIN strands, Fork(n) PROVE ReducersInv'
    BY <2>5, ForkKeeps
  <2>6. ASSUME bug = "none", NEW n \in 1 .. Len(strands) - 1, MergeStrands(n) PROVE ReducersInv'
    BY <2>6, MergeKeeps
  <2> QED BY <2>2, <2>3, <2>4, <2>5, <2>6 DEF Next
<1> QED BY <1>1, ReducersInit, PTL DEF Spec

\* Counters and logs stay within the arrays calloc'ed for them.
THEOREM WithinArrays == Spec => []TypeOK
<1>1. ReducersInv => TypeOK
  BY DEF ReducersInv
<1> QED BY <1>1, ReducersInvariant, PTL

\* Two reducers never share a slot (reducer_id_get and reducer_id_free).
THEOREM IdsUniqueAlways == Spec => []IdsUnique
<1>1. ReducersInv => IdsUnique
  BY DEF ReducersInv
<1> QED BY <1>1, ReducersInvariant, PTL

\* No view is skipped by cilkred_map_merge.
THEOREM NothingDroppedAlways == Spec => []NothingDropped
<1>1. ReducersInv => NothingDropped
  BY DEF ReducersInv
<1> QED BY <1>1, ReducersInvariant, PTL

\* Every view holds the updates of its strand in serial order, whichever way
\* merge_two_rmaps merged the maps.
THEOREM ViewsSerialAlways == Spec => []ViewsSerial
<1>1. ReducersInv => ViewsSerial
  BY DEF ReducersInv
<1> QED BY <1>1, ReducersInvariant, PTL
=============================================================================
