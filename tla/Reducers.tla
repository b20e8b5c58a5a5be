------------------------------ MODULE Reducers ------------------------------
(***************************************************************************)
(* Reducer maps and reducer IDs (src/runtime/cilkred_map.c and             *)
(* reducer_impl.c).  A map is a sparse accumulator: an array of views      *)
(* indexed by reducer ID, the number of views, and a log of the slots in   *)
(* use, which is given up when it is longer than half the array.           *)
(*                                                                         *)
(* The strands of the computation are kept in serial order.  A steal       *)
(* (Fork) leaves the victim its map and starts the continuation without    *)
(* one; two strands that become one merge their maps (MergeStrands), in    *)
(* whatever order the scheduler's protocol chooses.  A strand may be the   *)
(* exiting worker between two regions.  The value of a view is the         *)
(* sequence of the updates it has absorbed; reduce_fn concatenates.        *)
(* CILK_ASSERT and cilkrts_bug end the program: bug names the check.       *)
(***************************************************************************)
EXTENDS Integers, Sequences, FiniteSets, SequencesExt

CONSTANTS Hyperobjects,  \* the reducers of the program
          Bounds,        \* instances to look at: spa_cap, the REDUCER_LIMIT,
                         \* and bounds on the reducers at the same time,
                         \* the strands at the same time, the updates in all
          None           \* the null pointer

\* A view and a map with cap slots.  num_of_vinfo counts the views; the log
\* names their slots, unless it has overflowed.
View == [key : Hyperobjects \cup {None}, val : Seq(Nat)]
MapOfSize(cap) ==
    [log : Seq(0 .. cap - 1), overflow : BOOLEAN, num_of_vinfo : 0 .. cap,
     merging : BOOLEAN, vinfo : [0 .. cap - 1 -> View]]

ASSUME ReducersAssumption ==
    /\ Bounds \subseteq [spa_cap : Nat \ {0}, reducers : Nat, strands : Nat \ {0}, updates : Nat]
    /\ \A b \in Bounds : b.spa_cap % 2 = 0 /\ None \notin MapOfSize(b.spa_cap)
    /\ None \notin Hyperobjects /\ None \notin Nat

VARIABLES
    bounds,   \* the instance
    used,     \* the IDs in use
    next,     \* the hint for the next ID
    id,       \* __id_num of each reducer, None if it is not registered
    strands,  \* in serial order: map, and the reducers the strand may use
    updates,  \* number of updates so far
    bug       \* the check that failed, or "none"

vars == <<bounds, used, next, id, strands, updates, bug>>

\* The number of reducer IDs and of slots of a map.
spa_cap == bounds.spa_cap

Ids == 0 .. spa_cap - 1
Registered == {h \in Hyperobjects : id[h] # None}

EmptyView == [key |-> None, val |-> <<>>]

\* cilkred_map_make_map.  overflow: num_of_logs is past the end of the log.
NewMap == [log |-> <<>>, overflow |-> FALSE, num_of_vinfo |-> 0,
           merging |-> FALSE, vinfo |-> [i \in Ids |-> EmptyView]]

\* A strand that has no map.  done: what it has done to each reducer.
NewStrand(scope) == [map |-> None, scope |-> scope,
                     done |-> [h \in Hyperobjects |-> <<>>]]

Init ==
    /\ bounds \in Bounds
    /\ used = {} /\ next = 0
    /\ id = [h \in Hyperobjects |-> None]
    /\ strands = <<NewStrand({})>>
    /\ updates = 0 /\ bug = "none"

-----------------------------------------------------------------------------
(* Maps.  A function that can fail returns the map and the failed check.   *)

\* The test for a full map in cilkred_map_log_id.
Full(m) == m.num_of_vinfo = spa_cap

\* Variant: one entry past the end of the log.
LogIdLong(m, i) ==
    IF Full(m) THEN m
    ELSE [m EXCEPT !.log = IF Len(@) <= spa_cap \div 2 /\ ~m.overflow
                           THEN Append(@, i) ELSE @,
                   !.overflow = m.overflow \/ Len(m.log) > spa_cap \div 2,
                   !.num_of_vinfo = @ + 1]

\* cilkred_map_log_id; a full map is a bug.
LogId(m, i) ==
    IF Full(m) THEN m
    ELSE [m EXCEPT !.log = IF Len(@) < spa_cap \div 2 /\ ~m.overflow
                           THEN Append(@, i) ELSE @,
                   !.overflow = m.overflow \/ Len(m.log) = spa_cap \div 2,
                   !.num_of_vinfo = @ + 1]

\* Variant: the log is reset although views are left.
UnlogIdResets(m, i) ==
    [m EXCEPT !.vinfo[i] = EmptyView, !.num_of_vinfo = @ - 1,
              !.log = <<>>, !.overflow = FALSE]

\* cilkred_map_unlog_id: the log is reset only with the last view.
UnlogId(m, i) ==
    LET last == m.num_of_vinfo = 1 IN
    [m EXCEPT !.vinfo[i] = EmptyView, !.num_of_vinfo = @ - 1,
              !.log = IF last THEN <<>> ELSE @,
              !.overflow = ~last /\ m.overflow]

\* The slots cilkred_map_merge visits: the log, or the whole array.
Visited(m) == IF ~m.overflow THEN m.log ELSE [i \in 1 .. spa_cap |-> i - 1]

\* Variant: the kind of the merge is ignored.
ReducedUnordered(mine, others, kind) == mine \o others

\* reduce_fn, after swap_vals for MERGE_INTO_RIGHT.
Reduced(mine, others, kind) ==
    IF kind = "MERGE_INTO_RIGHT" THEN others \o mine ELSE mine \o others

\* One slot of cilkred_map_merge.  s.this and s.other are the maps.  Only the
\* walk over the whole array looks whether the slot has a view.
MergeSlot(s, i) ==
    LET mine == s.this.vinfo[i]
        others == s.other.vinfo[i]
        cleared == [s.other EXCEPT !.vinfo[i] = EmptyView] IN
    IF s.bug # "none" \/ (s.other.overflow /\ others.key = None) THEN s
    ELSE IF mine.key # None
    THEN [this |-> [s.this EXCEPT !.vinfo[i] =
                        [key |-> mine.key, val |-> Reduced(mine.val, others.val, s.kind)]],
          other |-> cleared, kind |-> s.kind,
          bug |-> IF others.key = mine.key THEN "none" ELSE "merge_key"]
    ELSE [this |-> LogId([s.this EXCEPT !.vinfo[i] = others], i),
          other |-> cleared, kind |-> s.kind,
          bug |-> IF Full(s.this) THEN "spa_resize" ELSE "none"]

\* cilkred_map_merge.  The early return for an empty map leaves merging set.
MergeMaps(this, other, kind) ==
    IF other.num_of_vinfo = 0
    THEN [this |-> [this EXCEPT !.merging = TRUE], bug |-> "none"]
    ELSE LET r == FoldLeft(MergeSlot,
                           [this |-> this, other |-> other, kind |-> kind, bug |-> "none"],
                           Visited(other))
         IN [this |-> [r.this EXCEPT !.merging = FALSE], bug |-> r.bug]

\* merge_two_rmaps: the smaller map is merged into the larger one.
MergeTwoRmaps(left, right) ==
    IF left = None THEN [this |-> right, bug |-> "none"]
    ELSE IF right = None THEN [this |-> left, bug |-> "none"]
    ELSE IF left.num_of_vinfo > right.num_of_vinfo
    THEN MergeMaps(left, right, "MERGE_INTO_LEFT")
    ELSE MergeMaps(right, left, "MERGE_INTO_RIGHT")

-----------------------------------------------------------------------------
(* Reducers *)

\* Variant: the hint is taken without a look at the IDs in use.
IdGetHint == next

\* reducer_id_get: the hint if it is free, else the smallest free ID.
IdGet == IF next \notin used THEN next
         ELSE CHOOSE i \in Ids \ used : \A j \in Ids \ used : i <= j

\* The strand's map; install_new_reducer_map if it has none.
MapOf(n) == IF strands[n].map = None THEN NewMap ELSE strands[n].map

Abort(check) == bug' = check /\ UNCHANGED <<bounds, used, next, id, strands, updates>>

\* __cilkrts_hyper_create: the initial value is the leftmost view.
HyperCreate(n, h) ==
    LET i == IdGet
        s == strands[n]
        m == MapOf(n) IN
    /\ id[h] = None /\ Cardinality(Registered) < bounds.reducers
    /\ \/ (used = Ids \/ (~m.merging /\ Full(m))) /\ Abort("spa_resize")
       \/ used # Ids /\ m.merging /\ Abort("merging")
       \/ /\ used # Ids /\ ~m.merging /\ ~Full(m)
          /\ used' = used \cup {i}
          /\ next' = (i + 1) % spa_cap
          /\ id' = [id EXCEPT ![h] = i]
          /\ strands' = [strands EXCEPT ![n] =
                [map |-> LogId([m EXCEPT !.vinfo[i] = [key |-> h, val |-> <<>>]], i),
                 scope |-> s.scope \cup {h}, done |-> s.done]]
          /\ UNCHANGED <<bounds, updates, bug>>

\* __cilkrts_hyper_lookup, a new view if the strand has none, and the update.
HyperLookup(n, h) ==
    LET i == id[h]
        s == strands[n]
        m == MapOf(n)
        new == m.vinfo[i].key = None
        view == IF new THEN [key |-> h, val |-> <<>>] ELSE m.vinfo[i]
        there == [m EXCEPT !.vinfo[i] =
                    [key |-> view.key, val |-> Append(view.val, updates + 1)]] IN
    /\ h \in s.scope /\ updates < bounds.updates
    /\ \/ /\ m.merging \/ (new /\ Full(m))
          /\ Abort(IF m.merging THEN "merging" ELSE "spa_resize")
       \/ /\ ~m.merging /\ ~(new /\ Full(m))
          /\ strands' = [strands EXCEPT ![n] =
                [map |-> IF new THEN LogId(there, i) ELSE there,
                 scope |-> s.scope, done |-> [s.done EXCEPT ![h] = Append(@, updates + 1)]]]
          /\ updates' = updates + 1
          /\ UNCHANGED <<bounds, used, next, id, bug>>

\* __cilkrts_hyper_destroy.  A program may destroy a reducer only when no
\* other strand can use it.
HyperDestroy(n, h) ==
    LET s == strands[n]
        m == s.map IN
    /\ {k \in DOMAIN strands : h \in strands[k].scope} = {n}
    /\ \/ /\ m = None \/ m.merging
          /\ Abort(IF m = None THEN "unsynced" ELSE "merging")
       \/ /\ m # None /\ ~m.merging
          /\ strands' = [strands EXCEPT ![n] =
                [map |-> UnlogId(m, id[h]), scope |-> s.scope \ {h},
                 done |-> [s.done EXCEPT ![h] = <<>>]]]
          /\ used' = used \ {id[h]}
          /\ next' = id[h]
          /\ id' = [id EXCEPT ![h] = None]
          /\ UNCHANGED <<bounds, updates, bug>>

\* A steal: the continuation of strand n gets a strand of its own.
Fork(n) ==
    /\ Len(strands) < bounds.strands
    /\ strands' = InsertAt(strands, n + 1, NewStrand(strands[n].scope))
    /\ UNCHANGED <<bounds, used, next, id, updates, bug>>

\* Strand n + 1 is reduced into strand n, at a return or at a sync.
MergeStrands(n) ==
    LET l == strands[n]
        r == strands[n + 1]
        m == MergeTwoRmaps(l.map, r.map) IN
    /\ \/ m.bug # "none" /\ Abort(m.bug)
       \/ /\ m.bug = "none"
          /\ strands' = [RemoveAt(strands, n + 1) EXCEPT ![n] =
                [map |-> m.this, scope |-> l.scope \cup r.scope,
                 done |-> [h \in Hyperobjects |-> l.done[h] \o r.done[h]]]]
          /\ UNCHANGED <<bounds, used, next, id, updates, bug>>

Aborted == bug # "none" /\ UNCHANGED vars

Next ==
    \/ Aborted
    \/ /\ bug = "none"
       /\ \/ \E n \in DOMAIN strands, h \in Hyperobjects :
                HyperCreate(n, h) \/ HyperLookup(n, h) \/ HyperDestroy(n, h)
          \/ \E n \in DOMAIN strands : Fork(n)
          \/ \E n \in 1 .. Len(strands) - 1 : MergeStrands(n)

Spec == Init /\ [][Next]_vars

-----------------------------------------------------------------------------
(* Properties *)

Map == MapOfSize(spa_cap)
Strand == [map : Map \cup {None}, scope : SUBSET Hyperobjects,
           done : [Hyperobjects -> Seq(Nat)]]

Maps == {strands[n].map : n \in DOMAIN strands} \ {None}
Views(m) == {i \in Ids : m.vinfo[i].key # None}

\* Counters and logs stay within the arrays calloc'ed for them.
TypeOK ==
    /\ bounds \in Bounds
    /\ used \subseteq Ids /\ next \in Ids
    /\ id \in [Hyperobjects -> Ids \cup {None}]
    /\ strands \in Seq(Strand) /\ Len(strands) \in 1 .. bounds.strands
    /\ updates \in 0 .. bounds.updates
    /\ bug \in {"none", "merging", "merge_key", "spa_resize", "unsynced"}
    /\ \A m \in Maps : Len(m.log) <= spa_cap \div 2

\* Two reducers never share a slot: IDs in use are those of the registered
\* reducers, one each, and a view sits in the slot of its reducer.
IdsUnique ==
    /\ used = {id[h] : h \in Hyperobjects} \ {None}
    /\ \A g, h \in Hyperobjects : g # h /\ id[g] = id[h] => id[g] = None
    /\ \A m \in Maps : \A i \in Views(m) : id[m.vinfo[i].key] = i

\* What lets cilkred_map_merge skip slots loses no view: a valid log names
\* every view, and a map with num_of_vinfo = 0 has none.
NothingDropped ==
    \A m \in Maps : /\ ~m.overflow => Views(m) \subseteq ToSet(m.log)
                    /\ Cardinality(Views(m)) <= m.num_of_vinfo

\* A strand's view holds exactly what the strand did to the reducer, in
\* serial order, however the maps were merged.
ViewsSerial ==
    \A n \in DOMAIN strands : \A h \in Hyperobjects : id[h] # None =>
        LET m == strands[n].map IN
        strands[n].done[h] =
            IF m = None \/ m.vinfo[id[h]].key = None THEN <<>> ELSE m.vinfo[id[h]].val

\* A strand has views only of reducers it may use, which are registered.
Scopes ==
    \A n \in DOMAIN strands :
        /\ strands[n].scope \subseteq Registered
        /\ strands[n].map # None =>
             \A i \in Views(strands[n].map) : strands[n].map.vinfo[i].key \in strands[n].scope

\* Nothing is left of a reducer that was destroyed: a slot without a key has
\* no value, and no strand remembers an update.
Forgotten ==
    /\ \A m \in Maps : \A i \in Ids : m.vinfo[i].key = None => m.vinfo[i] = EmptyView
    /\ \A n \in DOMAIN strands : \A h \in Hyperobjects \ Registered : strands[n].done[h] = <<>>

\* Some strand has a view of every registered reducer, so that the last one
\* that may use the reducer has it and can destroy it.
Reachable ==
    \A h \in Registered : \E n \in DOMAIN strands :
        strands[n].map # None /\ strands[n].map.vinfo[id[h]].key = h

\* What every step of the maps preserves, and needs: __cilkrts_hyper_destroy
\* counts a view off only when there is one (Reachable), a new ID meets empty
\* slots in all maps (Scopes), and a merge that moves a view into an empty
\* slot overwrites no value (Forgotten).
ReducersInv ==
    TypeOK /\ IdsUnique /\ NothingDropped /\ ViewsSerial /\ Scopes /\ Forgotten /\ Reachable

\* The assertion of cilkred_map_merge: the two views of a slot have one key.
SameKey == bug # "merge_key"
=============================================================================
