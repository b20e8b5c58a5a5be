--------------------------- MODULE ReducerLibrary ---------------------------
(***************************************************************************)
(* One reducer of the library in src/include/cilk, from its constructor to *)
(* its destructor, in a computation whose strands the scheduler splits and *)
(* joins.  The reducer is a C++ object: it registers itself, its monoid    *)
(* and its leftmost view are constructed inside it, and every other view   *)
(* is allocated, initialized to the identity, reduced into the view on its *)
(* left, destroyed and freed by the runtime through the wrappers of        *)
(* reducer_base.  Which classes there are is in ReducerClasses, what their *)
(* views do in ScalarViews, MinMaxViews and ContainerViews.                *)
(*                                                                         *)
(* Strands are kept in serial order.  A steal (Fork) gives the             *)
(* continuation a strand without a view; Merge joins two neighbours, in    *)
(* either direction of cilkred_map_merge, which depends on what else is in *)
(* the two maps.  done is what a strand has asked of the reducer.          *)
(***************************************************************************)
EXTENDS ScalarViews, MinMaxViews, ContainerViews, ReducerClasses

CONSTANTS Classes,     \* the classes to look at
          Numbers,     \* operands of the arithmetic reducers
          Patterns,    \* operands of the bitwise reducers
          Elements,    \* elements of containers, values of holders
          OtherAllocator, \* the classes whose reducer may have another
                          \* allocator than the user's container
          MaxStrands,  \* bound: strands at the same time
          MaxUpdates   \* bound: updates and new values in all

ASSUME LibraryAssumption == MaxStrands \in Nat \ {0}

VARIABLES
    class,           \* the class of the reducer
    same_allocator,  \* the user's container has the reducer's allocator
    phase,           \* "new", "registered", "alive", "moved", "dead", "failed"
    built,           \* the parts of the object that are constructed
    strands,         \* in serial order: view and done
    heap,            \* the views that are allocated
    obj,             \* the user's variable for move_in, move_out and splice
    base,            \* the value the updates started from, if one was given
    updates          \* number of updates and new values so far

vars == <<class, same_allocator, phase, built, strands, heap, obj, base, updates>>

\* Addresses of views.  The leftmost view is part of the reducer.
Leftmost == 0
NoView == [at |-> -1, c |-> "none"]
IsView(v) == v.at # NoView.at
NewStrand == [view |-> NoView, done |-> <<>>]

-----------------------------------------------------------------------------
(* The monoid and view of a class *)

\* reducer_base::identity_wrapper.
Identity(k) ==
    CASE k.family = "scalar" -> ScalarIdentity(k.op)
      [] k.family = "minmax" -> IF k.api = "c" THEN CIdentity(k) ELSE IdentityContent(k)
      [] k.family = "list" -> <<>>
      [] k.family = "segments" -> NoSegments(<<>>)
      [] k.family = "ostream" -> [written |-> <<>>]
      [] k.family = "holder" -> HolderIdentity(k, "default")

\* reducer_base::reduce_wrapper.
Reduce(k, left, right) ==
    CASE k.family = "scalar" -> ScalarReduce(k.op, left, right)
      [] k.family = "minmax" -> IF k.api = "c" THEN CReduce(k, left, right)
                                               ELSE BestOf(k, left, right)
      [] k.family = "list" -> ListReduce(k, left, right)
      [] k.family = "segments" -> SegmentsReduce(left, right)
      [] k.family = "ostream" -> OstreamReduce(left, right)
      [] k.family = "holder" -> HolderReduce(k.policy, left, right)

\* An update of the view; "look" only asks for it.
Updated(k, c, u) ==
    CASE u.form = "look" -> c
      [] u.form # "look" /\ k.family = "scalar" -> ScalarUpdate(k.op, c, u)
      [] u.form # "look" /\ k.family = "minmax" ->
            IF k.api = "c" THEN CCalc(k, c, u.x) ELSE MinMaxUpdate(k, c, u)
      [] u.form # "look" /\ k.family = "list" -> ListUpdate(k, c, u)
      [] u.form # "look" /\ k.family = "segments" -> SegmentsUpdate(c, u)
      [] u.form # "look" /\ k.family = "ostream" -> OstreamUpdate(c, u)
      [] u.form # "look" /\ k.family = "holder" -> u.x

\* A view constructed from a value, or view_set_value.
ViewOf(k, v) ==
    CASE k.family = "minmax" -> ValueContent(v)
      [] k.family = "segments" -> NoSegments(v)
      [] k.family = "ostream" -> [written |-> v]
      [] OTHER -> v

\* view_get_value.
ValueOf(k, c) ==
    CASE k.family = "minmax" -> [index |-> c.index, value |-> c.value]
      [] k.family = "segments" -> Flatten(c).last
      [] k.family = "ostream" -> c.written
      [] OTHER -> c

\* reducer_set_get::move_in: containers are swapped or copied and the
\* user's object cleared, scalars are copied.
MovedIn(k, c, v) ==
    CASE k.family = "list" -> ListMoveIn(c, v)
      [] k.family = "segments" -> SegmentsMoveIn(c, v)
      [] OTHER -> [view |-> ViewOf(k, v), obj |-> v]

\* reducer_set_get::move_out.
MovedOut(k, c, v) ==
    CASE k.family = "list" -> ListMoveOut(c, v)
      [] k.op = "string" -> StringMoveOut(c, v)
      [] k.op = "vector" -> VectorMoveOut(c, v, same_allocator)
      [] OTHER -> [view |-> c, obj |-> ValueOf(k, c)]

-----------------------------------------------------------------------------
(* Inputs *)

Pairs(k, index) == [index : {IF k.index THEN index ELSE DefaultIndex}, value : Lo .. Hi]

Operands(k, index) ==
    CASE k.op \in {"add", "mul"} -> Numbers
      [] k.op \in {"and", "or", "xor"} -> Patterns
      [] k.family = "minmax" -> Pairs(k, index)
      [] k.family = "holder" -> Elements
      [] OTHER -> {<<e>> : e \in Elements}

UpdatesOf(k, n) ==
    [form : {"look"} \cup (k.forms \cap {"++", "--"})]
      \cup [form : k.forms \ ({"proxy", "++", "--"} \cup Splices), x : Operands(k, 2 * n + 1)]
      \cup {u \in [form : k.forms \cap {"proxy"}, x : Operands(k, 2 * n + 1),
                                                y : Operands(k, 2 * n + 2)] : u.x # u.y}

\* Values for constructors and set_value; index 0 is what a C reducer has.
Initial(k) == Operands(k, 0)

\* The user's variable; a list of several elements to splice from.
UserObject(k) == IF k.family = "list" THEN SetToSeq(Elements)
                                      ELSE CHOOSE v \in Initial(k) : TRUE

-----------------------------------------------------------------------------
Init ==
    /\ class \in Classes
    /\ same_allocator \in (IF class \in OtherAllocator THEN BOOLEAN ELSE {TRUE})
    /\ phase = "new" /\ built = {} /\ heap = {} /\ updates = 0
    /\ strands = <<NewStrand>>
    /\ obj = UserObject(class)
    /\ base = [given |-> FALSE, val |-> obj]

Parts(k) == IF k.viewFirst THEN <<"view", "monoid">> ELSE <<"monoid", "view">>

\* reducer_base(): the object registers itself before it has a view.
Register ==
    /\ phase = "new"
    /\ phase' = "registered" /\ built' = {"registered"}
    /\ UNCHANGED <<class, same_allocator, strands, heap, obj, base, updates>>

\* monoid::construct, first object.
ConstructFirst ==
    /\ phase = "registered" /\ Cardinality(built) = 1
    /\ built' = built \cup {Parts(class)[1]}
    /\ UNCHANGED <<class, same_allocator, phase, strands, heap, obj, base, updates>>

\* monoid::construct, second object, with the leftmost view made from from.
ConstructSecond(view, given, from, left) ==
    /\ phase = "registered" /\ Cardinality(built) = 2
    /\ phase' = "alive"
    /\ built' = built \cup {Parts(class)[2]}
    /\ strands' = <<[view |-> [at |-> Leftmost, c |-> view], done |-> <<>>]>>
    /\ base' = [given |-> given, val |-> from] /\ obj' = left
    /\ UNCHANGED <<class, same_allocator, heap, updates>>

\* reducer(): the identity, but Type() for reducer_opand.
DefaultValueOf(k) == IF k.initial = "Type()" THEN {} ELSE ValueOf(k, Identity(k))

Construct ==
    \/ /\ class.initial # "none"
       /\ LET v == DefaultValueOf(class)
              c == IF class.initial = "Type()" THEN ViewOf(class, v) ELSE Identity(class) IN
          ConstructSecond(c, class.family # "minmax", v, obj)
    \/ /\ class.family # "holder"
       /\ \E v \in Initial(class) : ConstructSecond(ViewOf(class, v), TRUE, v, obj)
    \/ /\ class.family \notin {"holder", "ostream"} /\ class.api = "reducer"
       /\ LET m == MovedIn(class, Identity(class), obj) IN
          ConstructSecond(m.view, TRUE, obj, m.obj)

\* Variant: the guard is confirmed before the second object exists.
ConstructThrowsConfirmed ==
    /\ phase = "registered"
    /\ phase' = "failed"
    /\ built' = built \ {"registered"}
    /\ UNCHANGED <<class, same_allocator, strands, heap, obj, base, updates>>

\* One of the two constructors throws: provisional_guard destroys the first
\* object, ~reducer_base unregisters.
ConstructThrows ==
    /\ phase = "registered"
    /\ phase' = "failed"
    /\ built' = (built \ {"registered"}) \ {Parts(class)[1]}
    /\ UNCHANGED <<class, same_allocator, strands, heap, obj, base, updates>>

-----------------------------------------------------------------------------
\* __cilkrts_hyper_lookup: the strand's view; a new one is the identity.
Fresh == Min((1 .. MaxStrands) \ heap)
View(n) == IF IsView(strands[n].view) THEN strands[n].view
           ELSE [at |-> Fresh, c |-> Identity(class)]

\* The strand's view has contents c afterwards, and the strand has done u.
Store(n, c, u) ==
    /\ strands' = [strands EXCEPT ![n] = [view |-> [View(n) EXCEPT !.c = c],
                                          done |-> Append(@.done, u)]]
    /\ heap' = heap \cup ({View(n).at} \ {Leftmost})
    /\ updates' = updates + 1

Update(n) ==
    /\ phase = "alive" /\ updates < MaxUpdates
    /\ \E u \in UpdatesOf(class, updates) : Store(n, Updated(class, View(n).c, u), u)
    /\ UNCHANGED <<class, same_allocator, phase, built, obj, base>>

\* splice_back and splice_front from the user's list.
Splice(n) ==
    /\ phase = "alive" /\ updates < MaxUpdates
    /\ class.forms \cap Splices # {} /\ obj # <<>>
    /\ \E form \in class.forms \cap Splices :
         LET s == ListSplice(class, View(n).c, obj, form, same_allocator) IN
         /\ Store(n, s.view, [form |-> form, x |-> SubSeq(obj, 1, Len(obj) - Len(s.obj))])
         /\ obj' = s.obj
    /\ UNCHANGED <<class, same_allocator, phase, built, base>>

Fork(n) ==
    /\ phase = "alive" /\ Len(strands) < MaxStrands
    /\ strands' = InsertAt(strands, n + 1, NewStrand)
    /\ UNCHANGED <<class, same_allocator, phase, built, heap, obj, base, updates>>

\* Variant: no swap_vals when the left map is merged into the right one.
JoinedUnswapped(l, r, kind) ==
    LET v == IF kind = "MERGE_INTO_RIGHT" THEN [this |-> r, other |-> l]
                                          ELSE [this |-> l, other |-> r] IN
    [at |-> v.this.at, c |-> Reduce(class, v.this.c, v.other.c), freed |-> v.other.at]

\* cilkred_map_merge, one slot: the vals of this map and the other one.  For
\* MERGE_INTO_RIGHT this map is the right one, and swap_vals exchanges them.
Joined(l, r, kind) ==
    LET maps == IF kind = "MERGE_INTO_RIGHT" THEN [this |-> r, other |-> l]
                                             ELSE [this |-> l, other |-> r]
        v == IF kind = "MERGE_INTO_RIGHT" THEN [this |-> maps.other, other |-> maps.this]
                                          ELSE maps IN
    [at |-> v.this.at, c |-> Reduce(class, v.this.c, v.other.c), freed |-> v.other.at]

\* clear_view destroys and frees the other view.
Merge(n, kind) ==
    LET l == strands[n].view
        r == strands[n + 1].view
        j == Joined(l, r, kind)
        both == IsView(l) /\ IsView(r) IN
    /\ phase = "alive"
    /\ strands' = [RemoveAt(strands, n + 1) EXCEPT ![n] =
            [view |-> IF both THEN [at |-> j.at, c |-> j.c] ELSE IF IsView(l) THEN l ELSE r,
             done |-> @.done \o strands[n + 1].done]]
    /\ heap' = IF both THEN heap \ {j.freed} ELSE heap
    /\ built' = IF both /\ j.freed = Leftmost THEN built \ {"view"} ELSE built
    /\ UNCHANGED <<class, same_allocator, phase, obj, base, updates>>

-----------------------------------------------------------------------------
(* Set and get, before and after the parallel part *)

Serial == Len(strands) = 1 /\ phase \in {"alive", "moved"}

\* set_value, move_in: the view's contents, and what is left of obj.
Restart(c, v, left) ==
    /\ updates < MaxUpdates /\ updates' = updates + 1
    /\ phase' = "alive"
    /\ strands' = <<[view |-> [View(1) EXCEPT !.c = c], done |-> <<>>]>>
    /\ heap' = heap \cup ({View(1).at} \ {Leftmost})
    /\ base' = [given |-> TRUE, val |-> v] /\ obj' = left
    /\ UNCHANGED <<class, same_allocator, built>>

set_value ==
    /\ Serial /\ class.family # "ostream"
    /\ \E v \in Initial(class) : Restart(ViewOf(class, v), v, obj)

move_in ==
    /\ Serial /\ class.family # "ostream" /\ class.api # "c"
    /\ LET m == MovedIn(class, View(1).c, obj) IN Restart(m.view, obj, m.obj)

move_out ==
    /\ Serial /\ phase = "alive" /\ class.family # "ostream" /\ class.api # "c"
    /\ LET m == MovedOut(class, View(1).c, obj) IN
       /\ strands' = [strands EXCEPT ![1].view = [View(1) EXCEPT !.c = m.view]]
       /\ obj' = m.obj
    /\ phase' = "moved"
    /\ UNCHANGED <<class, same_allocator, built, heap, base, updates>>

\* get_value: flatten changes the representation.
get_value ==
    /\ Serial /\ phase = "alive" /\ class.family = "segments"
    /\ strands' = [strands EXCEPT ![1].view.c = Flatten(@)]
    /\ UNCHANGED <<class, same_allocator, phase, built, heap, obj, base, updates>>

\* ~reducer(): the leftmost view and the monoid, then hyper_destroy.
Destroy ==
    /\ Serial
    /\ phase' = "dead"
    /\ built' = built \ {"view", "monoid", "registered"}
    /\ strands' = <<NewStrand>>
    /\ UNCHANGED <<class, same_allocator, heap, obj, base, updates>>

Next ==
    \/ Register \/ ConstructFirst \/ Construct \/ ConstructThrows
    \/ \E n \in DOMAIN strands : Update(n) \/ Splice(n) \/ Fork(n)
    \/ \E n \in 1 .. Len(strands) - 1, kind \in {"MERGE_INTO_LEFT", "MERGE_INTO_RIGHT"} :
          Merge(n, kind)
    \/ set_value \/ move_in \/ move_out \/ get_value \/ Destroy

Spec == Init /\ [][Next]_vars

-----------------------------------------------------------------------------
(* What a reducer promises *)

\* The operands of a sequence of updates.
OperandsOf(ops) ==
    FlattenSeq([i \in DOMAIN ops |->
        CASE ops[i].form = "look" -> <<>>
          [] ops[i].form = "proxy" -> <<ops[i].x, ops[i].y>>
          [] OTHER -> <<ops[i].x>>])

\* v is the first of the best of the arguments.  With the is_set
\* optimization a view does not take an argument equal to the number it
\* starts from, so the index of such an argument is not recorded.
FirstBest(k, v, args) ==
    \E i \in DOMAIN args :
        /\ \A j \in DOMAIN args : ~Compare(k, args[i].value, args[j].value)
        /\ \A j \in 1 .. i - 1 : Compare(k, args[j].value, args[i].value)
        /\ v.value = args[i].value
        /\ v.index = args[i].index \/ (k.opt /\ k.api # "c" /\ v.value = IdentityValue(k))

\* The elements an update of a container adds, in its order: splice_front(x)
\* "is equivalent to list.splice(list.begin(), x)" or, with another
\* allocator, "to an insert".
Added(u) == IF u.form = "look" THEN <<>> ELSE u.x

\* v is what the serial program computes from b and the updates ops.
Wanted(k, v, b, ops) ==
    LET xs == OperandsOf(ops)
        chunks == [i \in DOMAIN ops |-> Added(ops[i])] IN
    CASE k.op = "add" ->
            v = FoldLeft(LAMBDA s, u : s + (IF u.form = "look" THEN 0 ELSE AddDelta(u)),
                         b.val, ops) % Modulus
      [] k.op = "mul" -> v = FoldLeft(LAMBDA s, x : s * x, b.val, xs) % Modulus
      [] k.op = "and" -> v = {e \in b.val : \A i \in DOMAIN xs : e \in xs[i]}
      [] k.op = "or" -> v = b.val \cup UNION ToSet(xs)
      [] k.op = "xor" ->
            v = {e \in Bits : Cardinality({i \in DOMAIN xs : e \in xs[i]}) % 2
                                # (IF e \in b.val THEN 1 ELSE 0)}
      [] k.family = "minmax" ->
            LET args == (IF b.given THEN <<b.val>> ELSE <<>>) \o xs IN
            args # <<>> => FirstBest(k, v, args)
      [] k.op = "list_prepend" -> v = FlattenSeq(Reverse(chunks)) \o b.val
      [] k.op \in {"list_append", "string", "vector", "ostream"} ->
            v = b.val \o FlattenSeq(chunks)
      [] k.family = "holder" ->
            k.policy # "holder_keep_indeterminate" =>
                IF ops = <<>> THEN v = b.val
                ELSE Last(ops).form = "store" => v = Last(ops).x

\* The views of all strands reduced from left to right.
Total == FoldLeft(LAMBDA c, s : IF IsView(s.view) THEN Reduce(class, c, s.view.c) ELSE c,
                  strands[1].view.c, Tail(strands))
AllDone == FlattenSeq([n \in DOMAIN strands |-> strands[n].done])

\* However the strands were split and joined, the reducer is worth what the
\* serial program would have computed, and a min/max view that says is_set
\* has seen a value.
SerialValue ==
    phase = "alive" =>
        /\ Wanted(class, ValueOf(class, Total), base, AllDone)
        /\ class.family = "minmax" =>
              (Total.is_set <=> base.given \/ OperandsOf(AllDone) # <<>>)

\* move_out: "obj contains the value that was initially in the reducer".
MoveOutValue ==
    phase = "moved" /\ (class.family # "minmax" \/ strands[1].view.c.is_set)
        => Wanted(class, obj, base, AllDone)

\* The leftmost view belongs to the object: no merge moves it, destroys it
\* or frees it, and the first strand always works on it, which is what a
\* lookup outside of a worker relies on.  Every other view belongs to one
\* strand.
LeftmostKept ==
    phase \in {"alive", "moved"} =>
        LET others == {n \in 2 .. Len(strands) : IsView(strands[n].view)} IN
        /\ strands[1].view.at = Leftmost /\ "view" \in built
        /\ heap = {strands[n].view.at : n \in others}
        /\ Cardinality(heap) = Cardinality(others)

\* A destroyed reducer, or one whose construction failed, leaves no part, no
\* registration and no view behind.
NothingBehind == phase \in {"dead", "failed"} => built = {} /\ heap = {}

-----------------------------------------------------------------------------
(* Why the last two hold: an inductive invariant *)

IsStrand(s) == s = [view |-> [at |-> s.view.at, c |-> s.view.c], done |-> s.done]

\* The views of the strands ss, when h are the addresses of the heap: the
\* first strand has the view in the object, the views of the others are on
\* the heap, one for each of them, and nothing else is.
Addressed(ss, h) ==
    /\ ss[1].view.at = Leftmost
    /\ \A n \in 2 .. Len(ss) : ss[n].view.at \in {NoView.at} \cup (1 .. MaxStrands)
    /\ \A m, n \in 2 .. Len(ss) :
          ss[m].view.at = ss[n].view.at /\ IsView(ss[m].view) => m = n
    /\ h = {ss[n].view.at : n \in {m \in 2 .. Len(ss) : IsView(ss[m].view)}}

Strands(ss) ==
    /\ ss \in Seq(ToSet(ss)) /\ Len(ss) \in 1 .. MaxStrands
    /\ \A n \in 1 .. Len(ss) : IsStrand(ss[n])

Tidy(ss, h) == Strands(ss) /\ Addressed(ss, h)

\* There are strands only while the reducer can be used.
ViewsInv ==
    IF phase \in {"alive", "moved"} THEN Tidy(strands, heap)
    ELSE strands = <<NewStrand>> /\ heap = {}

\* The parts that exist in each phase: the object is registered first and
\* is whole as long as it can be used.
BuiltInv ==
    built \in CASE phase = "registered" -> {{"registered"}, {"registered", Parts(class)[1]}}
                [] phase \in {"alive", "moved"} -> {{"registered", "view", "monoid"}}
                [] OTHER -> {{}}

PhaseInv == phase \in {"new", "registered", "alive", "moved", "dead", "failed"}

\* The inductive invariant behind LeftmostKept and NothingBehind: while the
\* reducer can be used its parts exist, the first strand works on the view
\* in the object, and the heap holds one view for each other strand that
\* has one; before and after, nothing does.
LibraryInv == PhaseInv /\ BuiltInv /\ ViewsInv
=============================================================================
