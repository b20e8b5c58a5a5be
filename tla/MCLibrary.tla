----------------------------- MODULE MCLibrary -----------------------------
(* Small instances of every reducer class for TLC. *)
EXTENDS ReducerLibrary

\* A splice_front of a whole list with another allocator loses its elements:
\* see MCSpliceFront.cfg.  With this class the program splices elements and
\* ranges only.
SplicesElements == [op_list_prepend EXCEPT !.forms = @ \ {"splice"}]

MCOtherAllocator ==
    {op_list_append, reducer_list_append, reducer_list_prepend, SplicesElements,
     op_basic_string, reducer_basic_string, op_vector}

SpliceFrontOnly == {op_list_prepend}

MCClasses ==
    {op_add, op_mul, op_and, op_or, op_xor,
     reducer_opadd, reducer_opand, reducer_opor, reducer_opxor,
     CILK_C_REDUCER_OPADD, CILK_C_REDUCER_OPMUL, CILK_C_REDUCER_OPAND,
     CILK_C_REDUCER_OPOR, CILK_C_REDUCER_OPXOR,
     op_max(TRUE), op_min(TRUE), op_max_index(TRUE), op_min_index(TRUE),
     reducer_max(FALSE), reducer_min(FALSE), reducer_max_index(FALSE), reducer_min_index(FALSE),
     CILK_C_REDUCER_MAX, CILK_C_REDUCER_MIN,
     CILK_C_REDUCER_MAX_INDEX, CILK_C_REDUCER_MIN_INDEX,
     op_list_prepend, op_basic_ostream, reducer_ostream}
    \cup MCOtherAllocator
    \cup {holder(p, i) : p \in {"holder_keep_indeterminate", "holder_keep_last"},
                         i \in {"default", "exemplar", "functor"}}

MCPatterns == {{"b0"}, {"b0", "b1"}}
=============================================================================
