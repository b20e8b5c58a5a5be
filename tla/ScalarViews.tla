---------------------------- MODULE ScalarViews ----------------------------
(***************************************************************************)
(* The arithmetic and bitwise reducers of src/include/cilk: op_add, op_mul *)
(* (reducer_opadd.h, reducer_opmul.h) and op_and, op_or, op_xor            *)
(* (reducer_opand.h, reducer_opor.h, reducer_opxor.h).  Their views are    *)
(* scalar_views: one value of an unsigned type.  For addition and          *)
(* multiplication it is a number modulo 2^w, for the bitwise reducers the  *)
(* set of its 1-bits.                                                      *)
(*                                                                         *)
(* An update u is a call on the view: u.form names the operator, u.x and   *)
(* u.y are its operands.  "proxy" is the assignment of an rhs_proxy,       *)
(* v = v op x op y, whose operands are combined before the view is read.   *)
(***************************************************************************)
EXTENDS Integers, Sequences, FiniteSetsExt

CONSTANTS Modulus,  \* 2^w, the number of values of the type
          Bits      \* the bits of the type

ASSUME ScalarAssumption == Modulus \in Nat \ {0}

-----------------------------------------------------------------------------
(* op_add_view *)

\* Type().
AddIdentity == 0

AddReduce(left, right) == (left + right) % Modulus

\* rhs_proxy: v + x - y is held as (v, x - y).
AddProxy(u) == (u.x - u.y) % Modulus

\* What an update adds.
AddDelta(u) == CASE u.form = "+=" -> u.x
                 [] u.form = "-=" -> -u.x
                 [] u.form = "++" -> 1
                 [] u.form = "--" -> -1
                 [] u.form = "proxy" -> AddProxy(u)

AddUpdate(v, u) == (v + AddDelta(u)) % Modulus

(* op_mul_view *)

\* Type(1).
MulIdentity == 1 % Modulus

MulReduce(left, right) == (left * right) % Modulus

MulProxy(u) == (u.x * u.y) % Modulus

MulUpdate(v, u) == (v * (IF u.form = "proxy" THEN MulProxy(u) ELSE u.x)) % Modulus

-----------------------------------------------------------------------------
(* op_and_view, op_or_view, op_xor_view *)

\* ~Type().
AndIdentity == Bits

AndReduce(left, right) == left \cap right

AndProxy(u) == u.x \cap u.y

AndUpdate(v, u) == v \cap (IF u.form = "proxy" THEN AndProxy(u) ELSE u.x)

OrIdentity == {}

OrReduce(left, right) == left \cup right

OrProxy(u) == u.x \cup u.y

OrUpdate(v, u) == v \cup (IF u.form = "proxy" THEN OrProxy(u) ELSE u.x)

XorIdentity == {}

XorReduce(left, right) == SymDiff(left, right)

XorProxy(u) == SymDiff(u.x, u.y)

XorUpdate(v, u) == SymDiff(v, IF u.form = "proxy" THEN XorProxy(u) ELSE u.x)

-----------------------------------------------------------------------------
(* Dispatch on the operation of the monoid. *)

ScalarIdentity(op) == CASE op = "add" -> AddIdentity
                        [] op = "mul" -> MulIdentity
                        [] op = "and" -> AndIdentity
                        [] op = "or"  -> OrIdentity
                        [] op = "xor" -> XorIdentity

ScalarReduce(op, l, r) == CASE op = "add" -> AddReduce(l, r)
                            [] op = "mul" -> MulReduce(l, r)
                            [] op = "and" -> AndReduce(l, r)
                            [] op = "or"  -> OrReduce(l, r)
                            [] op = "xor" -> XorReduce(l, r)

ScalarUpdate(op, v, u) == CASE op = "add" -> AddUpdate(v, u)
                            [] op = "mul" -> MulUpdate(v, u)
                            [] op = "and" -> AndUpdate(v, u)
                            [] op = "or"  -> OrUpdate(v, u)
                            [] op = "xor" -> XorUpdate(v, u)
=============================================================================
