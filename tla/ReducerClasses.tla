--------------------------- MODULE ReducerClasses ---------------------------
(***************************************************************************)
(* The reducer classes a program can instantiate (src/include/cilk).  A    *)
(* class is a record:                                                      *)
(*   family, op, max, index, opt, append, policy, init                     *)
(*              which view class it uses, and its template parameters;     *)
(*   api        "reducer" is cilk::reducer<Monoid>, "legacy" a deprecated  *)
(*              wrapper, "c" a reducer declared by the CILK_C macros;      *)
(*   initial    what the default constructor makes, "none" if there is no  *)
(*              default constructor;                                       *)
(*   forms      the updates it offers;                                     *)
(*   viewFirst  construct() makes the view before the monoid;              *)
(*   exemplar   the value a holder's views start from.                     *)
(***************************************************************************)
CONSTANT Exemplar

Class == [family |-> "scalar", op |-> "none", max |-> FALSE, index |-> FALSE,
          opt |-> FALSE, append |-> FALSE, policy |-> "none", init |-> "default",
          api |-> "reducer", initial |-> "identity", forms |-> {"op="},
          viewFirst |-> FALSE, exemplar |-> Exemplar]

-----------------------------------------------------------------------------
(* Arithmetic and bitwise reducers *)

op_add == [Class EXCEPT !.op = "add", !.forms = {"+=", "-=", "++", "--", "proxy"}]
op_mul == [Class EXCEPT !.op = "mul", !.forms = {"op=", "proxy"}]
op_and == [Class EXCEPT !.op = "and", !.forms = {"op=", "proxy"}]
op_or  == [Class EXCEPT !.op = "or", !.forms = {"op=", "proxy"}]
op_xor == [Class EXCEPT !.op = "xor", !.forms = {"op=", "proxy"}]

\* The deprecated wrappers forward to the view.  reducer_opand starts from
\* Type(), not from the identity.
reducer_opadd == [op_add EXCEPT !.api = "legacy"]
reducer_opand == [op_and EXCEPT !.api = "legacy", !.initial = "Type()"]
reducer_opor  == [op_or EXCEPT !.api = "legacy"]
reducer_opxor == [op_xor EXCEPT !.api = "legacy"]

\* REDUCER_VIEW(r) op= x on a variable that always has an initial value.
InC(class, forms) == [class EXCEPT !.api = "c", !.initial = "none", !.forms = forms]

CILK_C_REDUCER_OPADD == InC(op_add, {"+=", "-="})
CILK_C_REDUCER_OPMUL == InC(op_mul, {"op="})
CILK_C_REDUCER_OPAND == InC(op_and, {"op="})
CILK_C_REDUCER_OPOR  == InC(op_or, {"op="})
CILK_C_REDUCER_OPXOR == InC(op_xor, {"op="})

-----------------------------------------------------------------------------
(* Minimum and maximum reducers; opt: the is_set optimization applies *)

MinMax == [Class EXCEPT !.family = "minmax", !.forms = {"calc", "proxy"}]

op_max(opt) == [MinMax EXCEPT !.op = "max", !.max = TRUE, !.opt = opt]
op_min(opt) == [MinMax EXCEPT !.op = "min", !.opt = opt]
op_max_index(opt) == [op_max(opt) EXCEPT !.op = "max_index", !.index = TRUE]
op_min_index(opt) == [op_min(opt) EXCEPT !.op = "min_index", !.index = TRUE]

reducer_max(opt) == [op_max(opt) EXCEPT !.api = "legacy"]
reducer_min(opt) == [op_min(opt) EXCEPT !.api = "legacy"]
reducer_max_index(opt) == [op_max_index(opt) EXCEPT !.api = "legacy"]
reducer_min_index(opt) == [op_min_index(opt) EXCEPT !.api = "legacy"]

CILK_C_REDUCER_MAX == InC(op_max(TRUE), {"calc"})
CILK_C_REDUCER_MIN == InC(op_min(TRUE), {"calc"})
CILK_C_REDUCER_MAX_INDEX == InC(op_max_index(TRUE), {"calc"})
CILK_C_REDUCER_MIN_INDEX == InC(op_min_index(TRUE), {"calc"})

-----------------------------------------------------------------------------
(* Containers, streams and holders *)

Splices == {"splice", "splice_one", "splice_range"}

op_list_append == [Class EXCEPT !.family = "list", !.op = "list_append",
                     !.append = TRUE, !.viewFirst = TRUE, !.forms = {"push"} \cup Splices]
op_list_prepend == [op_list_append EXCEPT !.op = "list_prepend", !.append = FALSE]

reducer_list_append  == [op_list_append EXCEPT !.api = "legacy", !.forms = {"push"}]
reducer_list_prepend == [op_list_prepend EXCEPT !.api = "legacy", !.forms = {"push"}]

op_basic_string == [Class EXCEPT !.family = "segments", !.op = "string",
                      !.viewFirst = TRUE, !.forms = {"push"}]
op_vector == [op_basic_string EXCEPT !.op = "vector"]

reducer_basic_string == [op_basic_string EXCEPT !.api = "legacy"]

\* Only construct(monoid, view, os): the reducer needs the user's stream.
op_basic_ostream == [Class EXCEPT !.family = "ostream", !.op = "ostream",
                       !.initial = "none", !.viewFirst = TRUE, !.forms = {"push"}]
reducer_ostream == [op_basic_ostream EXCEPT !.api = "legacy"]

holder(policy, init) == [Class EXCEPT !.family = "holder", !.op = "holder",
                           !.policy = policy, !.init = init, !.forms = {"store"}]
=============================================================================
