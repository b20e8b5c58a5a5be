---------------------------- MODULE MCReducers ----------------------------
(* Small instances of Reducers for TLC: a log of two slots, which can name  *)
(* a slot twice; IDs in use next to free ones, so that the hint is wrong;   *)
(* a table with fewer IDs than the program has reducers.                    *)
EXTENDS Reducers

B(cap, reducers, n, u) == [spa_cap |-> cap, reducers |-> reducers, strands |-> n, updates |-> u]

MCBounds == {B(4, 2, 2, 3), B(4, 3, 2, 1), B(2, 3, 2, 3)}

Symmetry == Permutations(Hyperobjects)
=============================================================================
