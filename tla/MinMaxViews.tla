---------------------------- MODULE MinMaxViews ----------------------------
(***************************************************************************)
(* The minimum and maximum reducers of src/include/cilk/reducer_min_max.h. *)
(* A view holds the best value so far, the index that came with it, and    *)
(* is_set, which tells a view that has seen no value.  One set of          *)
(* templates serves all classes; the template parameters are the fields of *)
(* a class k:                                                              *)
(*    k.max    ForMax and the direction of the comparison,                 *)
(*    k.index  index_view_content instead of view_content,                 *)
(*    k.opt    do_is_set_optimization: a numeric type compared by          *)
(*             std::less starts from the least (greatest) number and does  *)
(*             not ask is_set before it compares.                          *)
(* A value is a pair [index, value]; without index the index is Index().   *)
(* The C macros have views without is_set.                                 *)
(***************************************************************************)
EXTENDS Integers

CONSTANTS Lo, Hi,        \* numeric_limits<Type>::min() and max()
          DefaultValue,  \* Type()
          DefaultIndex   \* Index()

ASSUME MinMaxAssumption == Lo \in Int /\ Hi \in Int /\ DefaultValue \in Lo .. Hi

-----------------------------------------------------------------------------
(* min_max_internal *)

\* comparator_base::compare; the min views pass a reverse_predicate.
Compare(k, a, b) == IF k.max THEN a < b ELSE b < a

\* identity_value::set_identity.
IdentityValue(k) == IF k.max THEN Lo ELSE Hi

\* view_content() and index_view_content(), with and without optimization.
IdentityContent(k) ==
    [index |-> DefaultIndex, is_set |-> FALSE,
     value |-> IF k.opt THEN IdentityValue(k) ELSE DefaultValue]

\* view_content(value), index_view_content(index, value).
ValueContent(v) == [index |-> v.index, value |-> v.value, is_set |-> TRUE]

HasValue(k, c) == k.opt \/ c.is_set

\* view_base::calc.
Calc(k, c, x) == IF ~HasValue(k, c) \/ Compare(k, c.value, x.value)
                 THEN ValueContent(x) ELSE [c EXCEPT !.is_set = TRUE]

\* Variant: reduce does not ask whether the right view has seen a value.
BestOfUnset(k, left, right) ==
    IF ~left.is_set \/ Compare(k, left.value, right.value)
    THEN ValueContent(right) ELSE left

\* view_base::reduce.
BestOf(k, left, right) ==
    IF right.is_set /\ (~left.is_set \/ Compare(k, left.value, right.value))
    THEN ValueContent(right) ELSE left

\* rhs_proxy::calc: max_of(max_of(*r, x), y) holds the better of x and y.
ProxyCalc(k, x, y) == IF Compare(k, x.value, y.value) THEN y ELSE x

\* calc_max, calc_min, or the assignment of a proxy.
MinMaxUpdate(k, c, u) ==
    Calc(k, c, IF u.form = "proxy" THEN ProxyCalc(k, u.x, u.y) ELSE u.x)

-----------------------------------------------------------------------------
(* The C reducers: CILK_C_REDUCER_MAX and its three relatives. *)

\* ..._identity_: the extreme number, index 0.
CIdentity(k) == [index |-> 0, value |-> IdentityValue(k), is_set |-> TRUE]

\* ..._CALC.
CCalc(k, c, x) == IF Compare(k, c.value, x.value) THEN ValueContent(x) ELSE c

\* ..._reduce_.
CReduce(k, left, right) == IF Compare(k, left.value, right.value) THEN right ELSE left
=============================================================================
