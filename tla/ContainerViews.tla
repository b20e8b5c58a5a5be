--------------------------- MODULE ContainerViews ---------------------------
(***************************************************************************)
(* Reducers whose value is a container or an object (src/include/cilk):    *)
(*   list       reducer_list.h: a std::list, appended to or prepended to;  *)
(*   segments   reducer_string.h, reducer_vector.h: a string (vector) and  *)
(*              a list of segments in front of it, joined only when the    *)
(*              value is asked for;                                        *)
(*   ostream    reducer_ostream.h: the leftmost view writes to the user's  *)
(*              stream, the others to a buffer;                            *)
(*   holder     holder.h: a view per strand, with a policy that chooses    *)
(*              the view that survives a sync.                             *)
(* Containers are sequences.  The move functions take and return the       *)
(* user's object v together with the view.                                 *)
(***************************************************************************)
EXTENDS Naturals, Sequences, SequencesExt

(* list_view_base, op_list_append_view, op_list_prepend_view *)

\* reduce: the right list is spliced at end() or at begin().
AppendReduce(left, right) == left \o right
PrependReduce(left, right) == right \o left
ListReduce(k, left, right) ==
    IF k.append THEN AppendReduce(left, right) ELSE PrependReduce(left, right)

\* push, insert.  x is the sequence of the inserted elements.
AppendUpdate(c, x) == c \o x
PrependUpdate(c, x) == x \o c
ListUpdate(k, c, u) == IF k.append THEN AppendUpdate(c, u.x) ELSE PrependUpdate(c, u.x)

\* splice_back, splice_front: the elements x of a list are moved.  From a
\* list with another allocator they are copied and erased, but splice_front
\* of the whole list inserts the range x.begin(), x.begin().
SpliceBack(c, x, form, same_allocator) == AppendUpdate(c, x)
SpliceFront(c, x, form, same_allocator) ==
    IF form = "splice" /\ ~same_allocator THEN c ELSE PrependUpdate(c, x)

\* Splices from the user's list v: all of it, one element, or a range.
ListSplice(k, c, v, form, same_allocator) ==
    LET x == IF form = "splice_one" THEN <<Head(v)>> ELSE v IN
    [view |-> IF k.append THEN SpliceBack(c, x, form, same_allocator)
                          ELSE SpliceFront(c, x, form, same_allocator),
     obj  |-> SubSeq(v, Len(x) + 1, Len(v))]

\* view_move_in: swapped or copied, and v is cleared.
ListMoveIn(c, v) == [view |-> v, obj |-> <<>>]

\* view_move_out: swapped or copied, and the view is cleared.
ListMoveOut(c, v) == [view |-> <<>>, obj |-> c]

-----------------------------------------------------------------------------
(* op_basic_string_view, op_vector_view *)

NoSegments(s) == [last |-> s, list |-> <<>>]

\* flatten.
Flatten(c) == IF c.list = <<>> THEN c ELSE NoSegments(FlattenSeq(c.list) \o c.last)

\* reduce: nothing is copied; the left string becomes a segment.
SegmentsReduce(left, right) ==
    IF right.last = <<>> /\ right.list = <<>> THEN left
    ELSE [last |-> right.last,
          list |-> left.list \o (IF left.last = <<>> THEN <<>> ELSE <<left.last>>)
                             \o right.list]

\* append, push_back, insert_back, +=.
SegmentsUpdate(c, u) == [c EXCEPT !.last = @ \o u.x]

\* Variant: the segments of the old value are kept.
SegmentsMoveInKeeps(c, v) == [view |-> [c EXCEPT !.last = v], obj |-> <<>>]

\* view_move_in.
SegmentsMoveIn(c, v) == [view |-> NoSegments(v), obj |-> <<>>]

\* op_basic_string_view::view_move_out.
StringMoveOut(c, v) == [view |-> NoSegments(<<>>), obj |-> Flatten(c).last]

\* op_vector_view::view_move_out clears the vector only after a copy: after
\* a swap the view has the old contents of v.
VectorMoveOut(c, v, same_allocator) ==
    [view |-> NoSegments(IF same_allocator THEN v ELSE <<>>), obj |-> Flatten(c).last]

-----------------------------------------------------------------------------
(* op_basic_ostream_view.  written: what is in the user's stream or buffer *)

OstreamReduce(left, right) ==
    IF right.written = <<>> THEN left
    ELSE [left EXCEPT !.written = @ \o right.written]

OstreamUpdate(c, u) == [c EXCEPT !.written = @ \o u.x]

-----------------------------------------------------------------------------
(* holder_reduce_functor and the initializers of holder_monoid *)

\* holder_keep_last is member swap, move or copy: all leave *left = *right.
HolderReduce(policy, left, right) ==
    IF policy = "holder_keep_indeterminate" THEN left ELSE right

\* What construct_view makes: Type(), a copy of the exemplar, or what the
\* functor returns.
default_init(default) == default
exemplar_init(k) == k.exemplar
functor_init(k) == k.exemplar

HolderIdentity(k, default) == CASE k.init = "default" -> default_init(default)
                                [] k.init = "exemplar" -> exemplar_init(k)
                                [] k.init = "functor" -> functor_init(k)
=============================================================================
