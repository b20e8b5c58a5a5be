--------------------------- MODULE Library_proofs ---------------------------
(***************************************************************************)
(* Proofs about the views of a reducer of the library.                     *)
(*                                                                         *)
(* For every type and every value, what a reducer's reduce function owes   *)
(* the runtime.  The scheduler may give the continuation of any update a   *)
(* view of its own and reduce it later: an update of the right view        *)
(* followed by the reduction must be the reduction followed by the update. *)
(* Together with associativity and the identity this makes every way to    *)
(* split the updates over strands equal to the serial one.                 *)
(*                                                                         *)
(* For every class of reducers, any operands and any number of strands:    *)
(* the leftmost view stays in the object, every other view belongs to one  *)
(* strand, and nothing is left behind.                                     *)
(***************************************************************************)
EXTENDS ReducerLibrary, FiniteSetTheorems, SequenceTheorems, TLAPS

\* The lemmas of FoldInduction on sequences and smallest numbers.
Facts == INSTANCE FoldInduction WITH Op <- AddReduce

-----------------------------------------------------------------------------
(* Minimum and maximum *)

\* The classes of reducer_min_max.h, as far as the views depend on them.
IsMinMax(k) == k.max \in BOOLEAN /\ k.opt \in BOOLEAN

\* What a view can hold: a value it has seen, or the identity.
Contents(k, Indices) ==
    {c \in [index : Indices \cup {DefaultIndex}, value : Lo .. Hi, is_set : BOOLEAN] :
        c.is_set \/ c = IdentityContent(k)}

Arguments(Indices) == [index : Indices, value : Lo .. Hi]

\* set_value of the value of a view that is set (view_base::reduce) copies it.
LEMMA ContentForm ==
    ASSUME NEW k, NEW Indices, NEW c \in Contents(k, Indices), c.is_set
    PROVE  ValueContent(c) = c
BY DEF Contents, ValueContent

\* The comparison that the templates use is a strict order whose negation
\* is transitive, in both directions.
LEMMA CompareOrder ==
    ASSUME NEW k, IsMinMax(k), NEW x \in Int, NEW y \in Int, NEW z \in Int
    PROVE  /\ Compare(k, x, y) /\ Compare(k, y, z) => Compare(k, x, z)
           /\ ~Compare(k, x, y) /\ ~Compare(k, y, z) => ~Compare(k, x, z)
<1>1. CASE k.max
  BY <1>1 DEF Compare
<1>2. CASE ~k.max
  BY <1>2 DEF Compare
<1> QED BY <1>1, <1>2

\* view_base::reduce is associative: three neighbouring strands may be
\* reduced in either order, and ties keep the leftmost index.
THEOREM MinMaxAssociative ==
    ASSUME NEW k, IsMinMax(k), NEW Indices,
           NEW a \in Contents(k, Indices), NEW b \in Contents(k, Indices),
           NEW c \in Contents(k, Indices)
    PROVE  BestOf(k, BestOf(k, a, b), c) = BestOf(k, a, BestOf(k, b, c))
<1>1. /\ a.value \in Int /\ b.value \in Int /\ c.value \in Int
      /\ a.is_set \in BOOLEAN /\ b.is_set \in BOOLEAN /\ c.is_set \in BOOLEAN
  BY MinMaxAssumption DEF Contents
<1>2. /\ a.is_set => ValueContent(a) = a
      /\ b.is_set => ValueContent(b) = b
      /\ c.is_set => ValueContent(c) = c
  BY ContentForm
<1>3. /\ Compare(k, a.value, b.value) /\ Compare(k, b.value, c.value)
           => Compare(k, a.value, c.value)
      /\ ~Compare(k, a.value, b.value) /\ ~Compare(k, b.value, c.value)
           => ~Compare(k, a.value, c.value)
  BY <1>1, CompareOrder
<1> QED BY <1>1, <1>2, <1>3 DEF BestOf

\* A new view is the identity of reduce: on the right of any view, and on
\* the left of a view that has seen a value.
THEOREM MinMaxIdentity ==
    ASSUME NEW k, IsMinMax(k), NEW Indices, NEW c \in Contents(k, Indices)
    PROVE  /\ BestOf(k, c, IdentityContent(k)) = c
           /\ c.is_set => BestOf(k, IdentityContent(k), c) = c
BY ContentForm DEF BestOf, IdentityContent

\* calc keeps a view among the possible contents, whatever is_set says and
\* with or without the is_set optimization.
LEMMA CalcContents ==
    ASSUME NEW k, IsMinMax(k), NEW Indices, NEW c \in Contents(k, Indices),
           NEW x \in Arguments(Indices)
    PROVE  Calc(k, c, x) \in Contents(k, Indices) /\ Calc(k, c, x).is_set
BY DEF Contents, Arguments, Calc, ValueContent

\* view_base::calc and view_base::reduce commute as the runtime needs: a
\* stolen continuation may compute its maximum (minimum) in a view of its own.
\* This includes the is_set optimization, in which a view that starts from
\* the least number does not ask whether it has seen a value.
THEOREM MinMaxSplit ==
    ASSUME NEW k, IsMinMax(k), NEW Indices,
           NEW a \in Contents(k, Indices), NEW b \in Contents(k, Indices),
           NEW x \in Arguments(Indices)
    PROVE  BestOf(k, a, Calc(k, b, x)) = Calc(k, BestOf(k, a, b), x)
<1>1. /\ a.value \in Int /\ b.value \in Int /\ x.value \in Int
      /\ a.is_set \in BOOLEAN /\ b.is_set \in BOOLEAN /\ k.opt \in BOOLEAN
  BY MinMaxAssumption DEF Contents, Arguments, IsMinMax
<1>2. \A v \in Lo .. Hi : ~Compare(k, v, IdentityValue(k))
  BY MinMaxAssumption DEF Compare, IdentityValue, IsMinMax
<1>3. PICK y : y = Calc(k, b, x) /\ y.is_set /\ ValueContent(y) = y
  BY CalcContents, ContentForm
<1>4. CASE b.is_set
  <2>1. /\ Compare(k, a.value, b.value) /\ Compare(k, b.value, x.value)
             => Compare(k, a.value, x.value)
        /\ ~Compare(k, a.value, b.value) /\ ~Compare(k, b.value, x.value)
             => ~Compare(k, a.value, x.value)
    BY <1>1, CompareOrder
  <2>2. ValueContent(b) = b /\ [b EXCEPT !.is_set = TRUE] = b
    BY <1>4, ContentForm DEF Contents
  <2>3. a.is_set => [a EXCEPT !.is_set = TRUE] = a
    BY DEF Contents
  <2> QED BY <1>1, <1>4, <2>1, <2>2, <2>3 DEF BestOf, Calc, HasValue, ValueContent
<1>5. CASE ~b.is_set
  <2>1. b = IdentityContent(k) /\ BestOf(k, a, b) = a
    BY <1>5, MinMaxIdentity DEF Contents
  <2>2. CASE a.is_set
    <3>1. [a EXCEPT !.is_set = TRUE] = a
      BY <2>2 DEF Contents
    <3>2. ~Compare(k, a.value, IdentityValue(k))
      BY <1>2 DEF Contents
    <3>3. CASE ~k.opt \/ Compare(k, b.value, x.value)
      <4>1. Calc(k, b, x) = ValueContent(x)
        BY <1>1, <1>5, <3>3 DEF Calc, HasValue
      <4> QED BY <2>1, <2>2, <3>1, <4>1 DEF BestOf, Calc, HasValue, ValueContent
    <3>4. CASE k.opt /\ ~Compare(k, b.value, x.value)
      <4>1. b.value = IdentityValue(k)
        BY <2>1, <3>4 DEF IdentityContent
      <4>2. ~Compare(k, a.value, x.value)
        BY <1>1, <3>2, <3>4, <4>1, CompareOrder
      <4>3. Calc(k, b, x) = [b EXCEPT !.is_set = TRUE]
        BY <3>4 DEF Calc, HasValue
      <4>4. [b EXCEPT !.is_set = TRUE].value = IdentityValue(k)
        BY <4>1 DEF Contents
      <4> QED BY <2>1, <2>2, <3>1, <3>2, <4>2, <4>3, <4>4 DEF BestOf, Calc, HasValue
    <3> QED BY <1>1, <3>3, <3>4
  <2>3. CASE ~a.is_set
    <3>1. a = b
      BY <2>1, <2>3 DEF Contents
    <3> QED BY <1>3, <2>1, <2>3, <3>1 DEF BestOf
  <2> QED BY <2>2, <2>3, <1>1
<1> QED BY <1>4, <1>5, <1>1

-----------------------------------------------------------------------------
(* Addition modulo 2^w *)

\* A positive multiple of the modulus is at least the modulus.
LEMMA Multiple ==
    ASSUME NEW d \in Int, d >= 1
    PROVE  Modulus * d >= Modulus
BY ScalarAssumption

\* Division with remainder, as unsigned arithmetic of the type computes it.
LEMMA DivMod ==
    ASSUME NEW a \in Int
    PROVE  /\ a \div Modulus \in Int /\ a % Modulus \in 0 .. Modulus - 1
           /\ a = Modulus * (a \div Modulus) + (a % Modulus)
BY ScalarAssumption

\* The same, without a name for the quotient.
LEMMA Quotient ==
    ASSUME NEW a \in Int
    PROVE  a % Modulus \in Int /\ \E q \in Int : a = Modulus * q + (a % Modulus)
<1>1. a % Modulus \in Int
  BY DivMod, ScalarAssumption
<1>2. a \div Modulus \in Int /\ a = Modulus * (a \div Modulus) + (a % Modulus)
  BY DivMod
<1> QED BY <1>1, <1>2

\* Two numbers that differ by a multiple of the modulus have one remainder.
LEMMA SameRemainder ==
    ASSUME NEW a \in Int, NEW b \in Int, NEW q \in Int, a = Modulus * q + b
    PROVE  a % Modulus = b % Modulus
<1> DEFINE p == a \div Modulus
           r == b \div Modulus
           m == a % Modulus
           n == b % Modulus
<1>1. /\ p \in Int /\ m \in 0 .. Modulus - 1 /\ a = Modulus * p + m
      /\ r \in Int /\ n \in 0 .. Modulus - 1 /\ b = Modulus * r + n
  BY DivMod
<1> HIDE DEF p, r, m, n
<1>2. PICK d \in Int : d = p - q - r
  BY <1>1
<1>3. n - m = Modulus * d
  BY <1>1, <1>2, ScalarAssumption
<1>4. ~(d >= 1)
  BY <1>1, <1>3, Multiple, ScalarAssumption
<1>5. ~(-d >= 1)
  <2>1. m - n = Modulus * (-d)
    BY <1>1, <1>2, <1>3, ScalarAssumption
  <2> QED BY <1>1, <1>2, <2>1, Multiple, ScalarAssumption
<1>6. d = 0
  BY <1>2, <1>4, <1>5
<1>7. n - m = 0
  BY <1>3, <1>6, ScalarAssumption
<1>8. m = n
  BY <1>1, <1>7, ScalarAssumption
<1> QED BY <1>8 DEF m, n

\* The operators of op_add_view, for every width of the type: an unsigned
\* sum may wrap around in each strand's view and again when views are added.
THEOREM AddSplit ==
    ASSUME NEW a \in 0 .. Modulus - 1, NEW b \in 0 .. Modulus - 1,
           NEW u, AddDelta(u) \in Int
    PROVE  AddReduce(a, AddUpdate(b, u)) = AddUpdate(AddReduce(a, b), u)
<1> DEFINE d == AddDelta(u)
           v == (b + d) % Modulus
           w == (a + b) % Modulus
<1>1. a \in Int /\ b \in Int /\ d \in Int /\ b + d \in Int /\ a + b \in Int
  BY ScalarAssumption
<1> HIDE DEF d
<1>2. PICK q \in Int : v \in Int /\ b + d = Modulus * q + v
  BY <1>1, Quotient, Zenon
<1>3. PICK r \in Int : w \in Int /\ a + b = Modulus * r + w
  BY <1>1, Quotient, Zenon
<1> HIDE DEF v, w
<1>4. (a + v) % Modulus = (a + b + d) % Modulus
  <2>1. a + b + d = Modulus * q + (a + v)
    BY <1>1, <1>2, ScalarAssumption
  <2> QED BY <1>1, <1>2, <2>1, SameRemainder
<1>5. (w + d) % Modulus = (a + b + d) % Modulus
  <2>1. a + b + d = Modulus * r + (w + d)
    BY <1>1, <1>3, ScalarAssumption
  <2> QED BY <1>1, <1>3, <2>1, SameRemainder
<1> QED BY <1>4, <1>5 DEF AddReduce, AddUpdate, d, v, w

\* The factor of an update of op_mul_view.
Factor(u) == IF u.form = "proxy" THEN MulProxy(u) ELSE u.x

\* The operators of op_mul_view: a product may wrap around in each strand's
\* view and again when views are multiplied.
THEOREM MulSplit ==
    ASSUME NEW a \in 0 .. Modulus - 1, NEW b \in 0 .. Modulus - 1,
           NEW u, Factor(u) \in Int
    PROVE  MulReduce(a, MulUpdate(b, u)) = MulUpdate(MulReduce(a, b), u)
<1> DEFINE d == Factor(u)
           v == (b * d) % Modulus
           w == (a * b) % Modulus
<1>1. a \in Int /\ b \in Int /\ d \in Int /\ b * d \in Int /\ a * b \in Int
  BY ScalarAssumption
<1> HIDE DEF d
<1>2. PICK q \in Int : v \in Int /\ b * d = Modulus * q + v
  BY <1>1, Quotient, Zenon
<1>3. PICK r \in Int : w \in Int /\ a * b = Modulus * r + w
  BY <1>1, Quotient, Zenon
<1> HIDE DEF v, w
<1>4. (a * v) % Modulus = (a * b * d) % Modulus
  <2>1. a * b * d = a * (b * d) /\ a * (Modulus * q + v) = Modulus * (a * q) + a * v
    BY <1>1, <1>2, ScalarAssumption
  <2>2. a * b * d = Modulus * (a * q) + a * v
    BY <1>2, <2>1
  <2>3. a * b * d \in Int /\ a * v \in Int /\ a * q \in Int
    BY <1>1, <1>2
  <2> QED BY <2>2, <2>3, SameRemainder
<1>5. (w * d) % Modulus = (a * b * d) % Modulus
  <2>1. (Modulus * r + w) * d = Modulus * (r * d) + w * d
    BY <1>1, <1>3, ScalarAssumption
  <2>2. a * b * d = Modulus * (r * d) + w * d
    BY <1>3, <2>1
  <2>3. a * b * d \in Int /\ w * d \in Int /\ r * d \in Int
    BY <1>1, <1>3
  <2> QED BY <2>2, <2>3, SameRemainder
<1> QED BY <1>4, <1>5 DEF MulReduce, MulUpdate, Factor, d, v, w

-----------------------------------------------------------------------------
(* Bitwise reducers *)

\* The operators of op_and_view, op_or_view and op_xor_view, for the
\* assignment of an operand and of an rhs_proxy.
THEOREM BitwiseSplit ==
    ASSUME NEW op \in {"and", "or", "xor"}, NEW a \in SUBSET Bits, NEW b \in SUBSET Bits,
           NEW u, u.x \in SUBSET Bits, u.form = "proxy" => u.y \in SUBSET Bits
    PROVE  /\ ScalarReduce(op, a, ScalarUpdate(op, b, u))
                = ScalarUpdate(op, ScalarReduce(op, a, b), u)
           /\ ScalarReduce(op, a, ScalarIdentity(op)) = a
           /\ ScalarReduce(op, ScalarIdentity(op), a) = a
<1>1. CASE op = "and"
  BY <1>1 DEF ScalarReduce, ScalarUpdate, ScalarIdentity, AndReduce, AndUpdate, AndIdentity
<1>2. CASE op = "or"
  BY <1>2 DEF ScalarReduce, ScalarUpdate, ScalarIdentity, OrReduce, OrUpdate, OrIdentity
<1>3. CASE op = "xor"
  BY <1>3 DEF ScalarReduce, ScalarUpdate, ScalarIdentity, XorReduce, XorUpdate, XorIdentity,
              SymDiff
<1> QED BY <1>1, <1>2, <1>3

-----------------------------------------------------------------------------
(* The store of a reducer's views *)

USE LibraryAssumption DEF NoView, IsView, Leftmost

-----------------------------------------------------------------------------
(* A free address *)

\* An allocation for a strand without a view finds memory: there are fewer
\* views than strands, so the address it is given is one nobody has.
LEMMA FreshIsFree ==
  ASSUME Tidy(strands, heap), NEW n \in 1 .. Len(strands), ~IsView(strands[n].view)
  PROVE  Fresh \in (1 .. MaxStrands) \ heap
<1> DEFINE N == Len(strands)
           T == (2 .. N) \ {n}
<1>1. N \in 1 .. MaxStrands /\ n \in 2 .. N
  <2>1. N \in 1 .. MaxStrands /\ n # 1
    BY DEF Tidy, Strands, Addressed
  <2> QED BY <2>1
<1>2. IsFiniteSet(T) /\ Cardinality(T) = N - 2
  <2>1. N \in Int /\ 2 \in Int /\ ~(2 > N)
    BY <1>1
  <2> HIDE DEF N
  <2>2. IsFiniteSet(2 .. N) /\ Cardinality(2 .. N) = N - 2 + 1
    BY <2>1, FS_Interval
  <2>3. IsFiniteSet((2 .. N) \ {n}) /\ Cardinality((2 .. N) \ {n}) = Cardinality(2 .. N) - 1
    BY <1>1, <2>2, FS_RemoveElement
  <2> QED BY <2>1, <2>2, <2>3
<1>3. IsFiniteSet(1 .. MaxStrands) /\ Cardinality(1 .. MaxStrands) = MaxStrands
  <2>1. MaxStrands \in Int /\ 1 \in Int /\ ~(1 > MaxStrands)
    OBVIOUS
  <2>2. IsFiniteSet(1 .. MaxStrands) /\ Cardinality(1 .. MaxStrands) = MaxStrands - 1 + 1
    BY <2>1, FS_Interval
  <2> QED BY <2>1, <2>2
<1>4. \E a \in 1 .. MaxStrands : a \notin heap
  <2> SUFFICES ASSUME \A a \in 1 .. MaxStrands : a \in heap PROVE FALSE
    OBVIOUS
  <2> DEFINE f == [a \in 1 .. MaxStrands |-> CHOOSE m \in T : strands[m].view.at = a]
  <2>1. ASSUME NEW a \in 1 .. MaxStrands PROVE f[a] \in T /\ strands[f[a]].view.at = a
    <3>1. \E m \in T : strands[m].view.at = a
      BY <1>1 DEF Tidy, Addressed
    <3> QED BY <3>1
  <2> HIDE DEF f, T
  <2>2. f \in [1 .. MaxStrands -> T]
    BY <2>1 DEF f
  <2>3. PICK x, y \in 1 .. MaxStrands : x # y /\ f[x] = f[y]
    <3>1. Cardinality(T) < Cardinality(1 .. MaxStrands)
      BY <1>1, <1>2, <1>3
    <3> QED BY <1>2, <1>3, <2>2, <3>1, FS_PigeonHole
  <2> QED BY <2>1, <2>3
<1>5. ((1 .. MaxStrands) \ heap) # {} /\ ((1 .. MaxStrands) \ heap) \in SUBSET Nat
  BY <1>4
<1> QED BY <1>5, Facts!MinOf DEF Fresh, Min, Facts!Min

-----------------------------------------------------------------------------
(* Steps of the strands *)

\* A strand stores into its view, or into one it has just been given: only
\* that view may be new.
LEMMA StoreTidy ==
  ASSUME Tidy(strands, heap), NEW n \in 1 .. Len(strands), NEW t, IsStrand(t),
         t.view.at = View(n).at
  PROVE  Tidy([strands EXCEPT ![n] = t], heap \cup ({View(n).at} \ {Leftmost}))
<1> DEFINE a == View(n).at
           ss == [strands EXCEPT ![n] = t]
           h == heap \cup ({a} \ {Leftmost})
           N == Len(strands)
<1>1. N \in 1 .. MaxStrands /\ strands \in Seq(ToSet(strands)) /\ Len(strands) = N
  BY DEF Tidy, Strands
<1>2. DOMAIN strands = 1 .. N /\ \A i \in 1 .. N : IsStrand(strands[i])
  BY <1>1 DEF Tidy, Strands
<1>3. \/ IsView(strands[n].view) /\ a = strands[n].view.at
      \/ ~IsView(strands[n].view) /\ n # 1 /\ a \in (1 .. MaxStrands) \ heap
  <2>1. CASE IsView(strands[n].view)
    BY <2>1 DEF View
  <2>2. CASE ~IsView(strands[n].view)
    <3>1. a = Fresh
      BY <2>2 DEF View
    <3>2. n # 1
      BY <2>2 DEF Tidy, Addressed
    <3> QED BY <2>2, <3>1, <3>2, FreshIsFree
  <2> QED BY <2>1, <2>2
<1>4. ss \in Seq(ToSet(ss)) /\ Len(ss) = N /\ \A i \in 1 .. N : ss[i] = IF i = n THEN t ELSE strands[i]
  <2>1. DOMAIN ss = 1 .. N /\ \A i \in 1 .. N : ss[i] = IF i = n THEN t ELSE strands[i]
    BY <1>2
  <2>2. ss \in [1 .. N -> ToSet(ss)]
    <3>1. ss = [i \in 1 .. N |-> ss[i]]
      BY <1>2
    <3> HIDE DEF ss
    <3> QED BY <2>1, <3>1 DEF ToSet
  <2> HIDE DEF ss
  <2> QED BY <1>1, <2>1, <2>2, SeqDef, LenProperties
<1> HIDE DEF ss, a
<1>5. Strands(ss)
  BY <1>1, <1>2, <1>4 DEF Strands
<1>6. t.view.at = a
  BY DEF a
<1>7. Addressed(strands, heap)
  BY DEF Tidy
<1>8. Addressed(ss, h)
  <2>1. ss[1].view.at = Leftmost
    BY <1>1, <1>3, <1>4, <1>6, <1>7 DEF Addressed
  <2>2. a \in {Leftmost} \cup (1 .. MaxStrands) /\ (a = Leftmost <=> n = 1)
    BY <1>1, <1>3, <1>7 DEF Addressed
  <2>3. \A i \in 2 .. Len(ss) : ss[i].view.at \in {NoView.at} \cup (1 .. MaxStrands)
    BY <1>1, <1>4, <1>6, <1>7, <2>2 DEF Addressed
  <2>4. ASSUME NEW i \in 2 .. N, NEW j \in 2 .. N, ss[i].view.at = ss[j].view.at,
               IsView(ss[i].view)
        PROVE  i = j
    <3>1. \A m \in 2 .. N : IsView(strands[m].view) => strands[m].view.at \in heap
      BY <1>7 DEF Addressed
    <3>2. \A m \in 2 .. N : m \in 1 .. N
      BY <1>1
    <3>3. ASSUME NEW m \in 2 .. N, m # n, strands[m].view.at = a PROVE ~IsView(strands[m].view)
      <4>1. CASE IsView(strands[n].view) /\ a = strands[n].view.at
        <5>1. CASE n = 1
          BY <1>1, <2>2, <3>1, <3>3, <4>1, <5>1, <1>7 DEF Addressed
        <5>2. CASE n # 1
          <6>1. n \in 2 .. N
            BY <1>1, <5>2
          <6> QED BY <1>7, <3>3, <4>1, <6>1 DEF Addressed
        <5> QED BY <5>1, <5>2
      <4>2. CASE a \notin heap
        BY <3>1, <3>3, <4>2
      <4> QED BY <1>3, <4>1, <4>2
    <3>4. \A m \in 2 .. N : ss[m] = IF m = n THEN t ELSE strands[m]
      BY <1>4, <3>2
    <3>5. CASE i # n /\ j # n
      <4>1. ss[i] = strands[i] /\ ss[j] = strands[j]
        BY ONLY <3>4, <3>5, i \in 2 .. N, j \in 2 .. N
      <4> QED BY <1>7, <2>4, <4>1 DEF Addressed
    <3>6. CASE i = n /\ j # n
      <4>1. ss[j] = strands[j] /\ strands[j].view.at = a
        BY <1>6, <2>4, <3>4, <3>6
      <4>2. IsView(strands[j].view)
        BY <2>4, <4>1 DEF IsView
      <4> QED BY <3>3, <3>6, <4>1, <4>2
    <3>7. CASE i # n /\ j = n
      <4>1. ss[i] = strands[i] /\ strands[i].view.at = a
        BY <1>6, <2>4, <3>4, <3>7
      <4> QED BY <2>4, <3>3, <3>7, <4>1
    <3> QED BY <3>5, <3>6, <3>7
  <2>5. h = {ss[i].view.at : i \in {m \in 2 .. Len(ss) : IsView(ss[m].view)}}
    <3>1. ASSUME NEW x \in h
          PROVE  \E i \in 2 .. N : IsView(ss[i].view) /\ x = ss[i].view.at
      <4>1. CASE x = a /\ x # Leftmost
        BY <1>1, <1>4, <1>6, <2>2, <4>1
      <4>2. CASE x \in heap /\ x # a
        <5>1. PICK i \in 2 .. N : IsView(strands[i].view) /\ x = strands[i].view.at
          BY <1>7, <4>2 DEF Addressed
        <5>2. i # n
          BY <1>3, <4>2, <5>1
        <5> QED BY <1>1, <1>4, <5>1, <5>2
      <4>3. x # Leftmost
        BY <1>7 DEF Addressed
      <4> QED BY <4>1, <4>2, <4>3
    <3>2. ASSUME NEW i \in 2 .. N, IsView(ss[i].view) PROVE ss[i].view.at \in h
      <4>1. CASE i = n
        BY <1>1, <1>4, <1>6, <2>2, <4>1
      <4>2. CASE i # n
        BY <1>1, <1>4, <1>7, <3>2, <4>2 DEF Addressed
      <4> QED BY <4>1, <4>2
    <3> HIDE DEF h
    <3> QED BY <1>4, <3>1, <3>2
  <2> HIDE DEF h
  <2> QED BY <1>4, <2>1, <2>3, <2>4, <2>5 DEF Addressed
<1> QED BY <1>5, <1>8 DEF Tidy, ss, a

\* A steal puts in a strand without a view.
LEMMA ForkTidy ==
  ASSUME Tidy(strands, heap), NEW n \in 1 .. Len(strands), Len(strands) < MaxStrands
  PROVE  Tidy(InsertAt(strands, n + 1, NewStrand), heap)
<1> DEFINE ss == InsertAt(strands, n + 1, NewStrand)
           N == Len(strands)
           T == ToSet(strands) \cup {NewStrand}
<1>1. N \in 1 .. MaxStrands - 1 /\ strands \in Seq(T) /\ \A i \in 1 .. N : IsStrand(strands[i])
  BY DEF Tidy, Strands
<1>2. Facts!InsertOf(ss, strands, n, NewStrand, T)
  <2>1. NewStrand \in T
    OBVIOUS
  <2> HIDE DEF T
  <2> QED BY <1>1, <2>1, Facts!Inserted DEF InsertAt, Facts!InsertAt
<1> HIDE DEF ss
<1>3. /\ ss \in Seq(T) /\ Len(ss) = N + 1
      /\ \A k \in 1 .. N + 1 :
           ss[k] = IF k <= n THEN strands[k] ELSE IF k = n + 1 THEN NewStrand ELSE strands[k - 1]
  BY <1>2 DEF Facts!InsertOf
<1>4. IsStrand(NewStrand) /\ ~IsView(NewStrand.view)
  BY DEF IsStrand, NewStrand
<1>5. Strands(ss)
  <2>1. ss \in [1 .. N + 1 -> ToSet(ss)]
    BY <1>1, <1>3, LenProperties DEF ToSet
  <2>2. ss \in Seq(ToSet(ss))
    BY <1>1, <2>1, SeqDef
  <2>3. ASSUME NEW k \in 1 .. N + 1 PROVE IsStrand(ss[k])
    <3>1. CASE k <= n
      <4>1. ss[k] = strands[k] /\ k \in 1 .. N
        BY <1>1, <1>3, <3>1
      <4> QED BY <1>1, <4>1
    <3>2. CASE k = n + 1
      <4>1. ss[k] = NewStrand
        BY <1>1, <1>3, <3>2
      <4> QED BY <1>4, <4>1
    <3>3. CASE k > n + 1
      <4>1. ss[k] = strands[k - 1] /\ k - 1 \in 1 .. N
        BY <1>1, <1>3, <3>3
      <4> QED BY <1>1, <4>1
    <3> QED BY <1>1, <3>1, <3>2, <3>3
  <2> QED BY <1>1, <1>3, <2>2, <2>3 DEF Strands
<1> DEFINE Old(k) == IF k <= n THEN k ELSE k - 1
<1>6. \A k \in 2 .. N + 1 : IsView(ss[k].view) =>
         Old(k) \in 2 .. N /\ ss[k] = strands[Old(k)] /\ k # n + 1
  BY <1>1, <1>3, <1>4
<1>7. \A m \in 2 .. N : LET k == IF m <= n THEN m ELSE m + 1 IN
         k \in 2 .. N + 1 /\ ss[k] = strands[m]
  BY <1>1, <1>3
<1>8. Addressed(strands, heap)
  BY DEF Tidy
<1>9. Addressed(ss, heap)
  <2>1. ss[1].view.at = Leftmost
    BY <1>1, <1>3, <1>8 DEF Addressed
  <2>2. \A k \in 2 .. N + 1 : ss[k].view.at \in {NoView.at} \cup (1 .. MaxStrands)
    BY <1>6, <1>8 DEF Addressed
  <2>3. ASSUME NEW i \in 2 .. N + 1, NEW j \in 2 .. N + 1, ss[i].view.at = ss[j].view.at,
               IsView(ss[i].view)
        PROVE  i = j
    <3>1. Old(i) = Old(j) /\ i # n + 1 /\ j # n + 1
      <4>1. IsView(ss[j].view)
        BY <2>3
      <4> HIDE DEF Old
      <4>2. /\ Old(i) \in 2 .. N /\ ss[i] = strands[Old(i)] /\ i # n + 1
            /\ Old(j) \in 2 .. N /\ ss[j] = strands[Old(j)] /\ j # n + 1
        BY <1>6, <2>3, <4>1
      <4> QED BY <1>8, <2>3, <4>2 DEF Addressed
    <3> QED BY <3>1
  <2>4. heap = {ss[i].view.at : i \in {m \in 2 .. N + 1 : IsView(ss[m].view)}}
    <3>1. ASSUME NEW x \in heap PROVE \E i \in 2 .. N + 1 : IsView(ss[i].view) /\ x = ss[i].view.at
      <4>1. PICK m \in 2 .. N : IsView(strands[m].view) /\ x = strands[m].view.at
        BY <1>8 DEF Addressed
      <4> QED BY <1>7, <4>1
    <3>2. ASSUME NEW i \in 2 .. N + 1, IsView(ss[i].view) PROVE ss[i].view.at \in heap
      BY <1>6, <1>8, <3>2 DEF Addressed
    <3> QED BY <3>1, <3>2
  <2> QED BY <1>3, <2>1, <2>2, <2>3, <2>4 DEF Addressed
<1> QED BY <1>5, <1>9 DEF Tidy, ss

\* The strands after a merge of n and n + 1: the surviving view is that of
\* the left one, when it has one, and the other one's is freed.
Merged(n, t) == [RemoveAt(strands, n + 1) EXCEPT ![n] = t]

\* Two neighbours are joined: of two views the right one is freed, a single
\* one goes to the joined strand.  It is never the one in the object that
\* is freed or passed on to another strand.
LEMMA MergeTidy ==
  ASSUME Tidy(strands, heap), NEW n \in 1 .. Len(strands) - 1, NEW t, IsStrand(t),
         LET l == strands[n].view.at
             r == strands[n + 1].view.at IN
         t.view.at = IF l # NoView.at THEN l ELSE r
  PROVE  LET both == IsView(strands[n].view) /\ IsView(strands[n + 1].view) IN
         /\ Tidy(Merged(n, t), IF both THEN heap \ {strands[n + 1].view.at} ELSE heap)
         /\ strands[n + 1].view.at # Leftmost
<1> DEFINE N == Len(strands)
           l == strands[n].view.at
           r == strands[n + 1].view.at
           both == IsView(strands[n].view) /\ IsView(strands[n + 1].view)
           h == IF both THEN heap \ {r} ELSE heap
           q == RemoveAt(strands, n + 1)
           ss == Merged(n, t)
<1>1. N \in 1 .. MaxStrands /\ n \in 1 .. N - 1 /\ strands \in Seq(ToSet(strands))
      /\ \A i \in 1 .. N : IsStrand(strands[i])
  BY DEF Tidy, Strands
<1>2. /\ q \in Seq(ToSet(strands)) /\ Len(q) = N - 1
      /\ \A k \in 1 .. N - 1 : q[k] = IF k <= n THEN strands[k] ELSE strands[k + 1]
  <2> DEFINE T == ToSet(strands)
  <2>1. strands \in Seq(T)
    BY <1>1
  <2> HIDE DEF T
  <2>2. /\ q \in Seq(T) /\ Len(q) = N - 1
        /\ \A k \in 1 .. N - 1 : q[k] = IF k <= n THEN strands[k] ELSE strands[k + 1]
    BY <2>1, Facts!Removed DEF RemoveAt, Facts!RemoveAt
  <2> QED BY <2>2 DEF T
<1> HIDE DEF q
<1>3. /\ DOMAIN ss = 1 .. N - 1
      /\ \A k \in 1 .. N - 1 :
           ss[k] = IF k = n THEN t ELSE IF k < n THEN strands[k] ELSE strands[k + 1]
      /\ ss = [k \in 1 .. N - 1 |-> ss[k]]
  <2>1. ss = [q EXCEPT ![n] = t] /\ DOMAIN q = 1 .. N - 1
    BY <1>1, <1>2, LenProperties DEF Merged, q
  <2> HIDE DEF ss
  <2>2. DOMAIN ss = 1 .. N - 1 /\ ss = [k \in 1 .. N - 1 |-> ss[k]]
    BY <2>1
  <2>3. \A k \in 1 .. N - 1 : ss[k] = IF k = n THEN t ELSE q[k]
    BY <2>1
  <2>4. ASSUME NEW k \in 1 .. N - 1
        PROVE  ss[k] = IF k = n THEN t ELSE IF k < n THEN strands[k] ELSE strands[k + 1]
    <3>1. CASE k = n
      BY <2>3, <3>1
    <3>2. CASE k < n
      BY <1>1, <1>2, <2>3, <3>2
    <3>3. CASE k > n
      BY <1>1, <1>2, <2>3, <3>3
    <3> QED BY <1>1, <3>1, <3>2, <3>3
  <2> QED BY <2>2, <2>4
<1> HIDE DEF ss
<1>4. ss \in Seq(ToSet(ss)) /\ Len(ss) = N - 1
  <2>1. ss \in [1 .. N - 1 -> ToSet(ss)]
    BY <1>3 DEF ToSet
  <2>2. N - 1 \in Nat
    BY <1>1
  <2> QED BY <1>3, <2>1, <2>2, SeqDef, LenProperties
<1>5. Strands(ss)
  BY <1>1, <1>3, <1>4 DEF Strands
<1>6. Addressed(strands, heap) /\ t.view.at = IF l # NoView.at THEN l ELSE r
  BY DEF Tidy
<1>7. /\ l \in {NoView.at, Leftmost} \cup (1 .. MaxStrands) /\ (l = Leftmost <=> n = 1)
      /\ r \in {NoView.at} \cup (1 .. MaxStrands)
  BY <1>1, <1>6 DEF Addressed
\* Strand k of the joined ones has the view that strand Old(k) had.
<1> DEFINE Old(k) == IF k < n \/ (k = n /\ l # NoView.at) THEN k ELSE k + 1
<1>8. \A k \in 2 .. N - 1 : Old(k) \in 2 .. N /\ ss[k].view.at = strands[Old(k)].view.at
  BY <1>1, <1>3, <1>6
<1>9. \A m \in 2 .. N : IsView(strands[m].view) /\ ~(both /\ m = n + 1) =>
         LET k == IF m <= n THEN m ELSE m - 1 IN
         k \in 2 .. N - 1 /\ Old(k) = m
  <2> SUFFICES ASSUME NEW m \in 2 .. N, IsView(strands[m].view), ~(both /\ m = n + 1)
               PROVE  LET k == IF m <= n THEN m ELSE m - 1 IN k \in 2 .. N - 1 /\ Old(k) = m
    OBVIOUS
  <2>1. CASE m <= n
    BY <1>1, <2>1
  <2>2. CASE m = n + 1
    <3>1. ~IsView(strands[n].view) /\ l = NoView.at
      BY <2>2
    <3>2. n # 1
      BY <1>7, <3>1
    <3> QED BY <1>1, <2>2, <3>1, <3>2
  <2>3. CASE m > n + 1
    BY <1>1, <2>3
  <2> QED BY <1>1, <2>1, <2>2, <2>3
<1>10. Addressed(ss, h)
  <2>1. ss[1].view.at = Leftmost
    <3>1. CASE n = 1
      BY <1>1, <1>3, <1>6, <1>7, <3>1
    <3>2. CASE n # 1
      <4>1. ss[1] = strands[1]
        BY <1>1, <1>3, <3>2
      <4> QED BY <1>6, <4>1 DEF Addressed
    <3> QED BY <3>1, <3>2
  <2>2. \A k \in 2 .. N - 1 : ss[k].view.at \in {NoView.at} \cup (1 .. MaxStrands)
    BY <1>6, <1>8 DEF Addressed
  <2>3. ASSUME NEW i \in 2 .. N - 1, NEW j \in 2 .. N - 1, ss[i].view.at = ss[j].view.at,
               IsView(ss[i].view)
        PROVE  i = j
    <3>1. Old(i) = Old(j)
      <4> HIDE DEF Old
      <4>1. /\ Old(i) \in 2 .. N /\ ss[i].view.at = strands[Old(i)].view.at
            /\ Old(j) \in 2 .. N /\ ss[j].view.at = strands[Old(j)].view.at
        BY <1>8
      <4> QED BY <1>6, <2>3, <4>1 DEF Addressed
    <3> QED BY <1>1, <3>1
  <2>4. h = {ss[i].view.at : i \in {m \in 2 .. N - 1 : IsView(ss[m].view)}}
    <3>1. ASSUME NEW x \in h PROVE \E i \in 2 .. N - 1 : IsView(ss[i].view) /\ x = ss[i].view.at
      <4>1. PICK m \in 2 .. N : IsView(strands[m].view) /\ x = strands[m].view.at
        BY <1>6 DEF Addressed
      <4>2. ~(both /\ m = n + 1)
        BY <3>1, <4>1
      <4> HIDE DEF both
      <4> QED BY <1>8, <1>9, <4>1, <4>2
    <3>2. ASSUME NEW i \in 2 .. N - 1, IsView(ss[i].view) PROVE ss[i].view.at \in h
      <4>1. ss[i].view.at \in heap
        BY <1>6, <1>8, <3>2 DEF Addressed
      <4>2. ASSUME both PROVE ss[i].view.at # r
        <5>1. Old(i) # n + 1
          BY <1>1, <4>2
        <5> QED BY <1>1, <1>6, <1>8, <4>2, <5>1 DEF Addressed
      <4> QED BY <4>1, <4>2
    <3> HIDE DEF h
    <3> QED BY <3>1, <3>2
  <2> HIDE DEF h
  <2> QED BY <1>4, <2>1, <2>2, <2>3, <2>4 DEF Addressed
<1> QED BY <1>5, <1>7, <1>10 DEF Tidy, ss

\* A single strand on the view in the object needs nothing on the heap.
LEMMA SingleTidy ==
  ASSUME NEW t, IsStrand(t), t.view.at = Leftmost
  PROVE  Tidy(<<t>>, {})
<1> DEFINE ss == <<t>>
<1>1. ss \in Seq(ToSet(ss)) /\ Len(ss) = 1 /\ ss[1] = t
  BY DEF ToSet
<1> HIDE DEF ss
<1>2. 2 .. 1 = {}
  OBVIOUS
<1> QED BY <1>1, <1>2 DEF Tidy, Strands, Addressed, ss

\* A single strand is the first one.
LEMMA SingleHeap ==
  ASSUME Tidy(strands, heap), Len(strands) = 1
  PROVE  heap = {} /\ View(1) = strands[1].view /\ View(1).at = Leftmost
<1>1. 2 .. 1 = {}
  OBVIOUS
<1> QED BY <1>1 DEF Tidy, Addressed, View

\* The view of a strand is a record.
LEMMA StrandView ==
  ASSUME NEW s, IsStrand(s)
  PROVE  s.view = [at |-> s.view.at, c |-> s.view.c]
<1> DEFINE v == [at |-> s.view.at, c |-> s.view.c]
           d == s.done
<1>1. s = [view |-> v, done |-> d]
  BY DEF IsStrand
<1>2. [view |-> v, done |-> d].view = v
  <2> HIDE DEF v, d
  <2> QED OBVIOUS
<1> HIDE DEF v, d
<1>3. s.view = v
  BY <1>1, <1>2
<1> QED BY <1>3 DEF v

\* A view is a record, a new one too, and storing contents keeps it in its
\* place.
LEMMA StoredStrand ==
  ASSUME Tidy(strands, heap), NEW n \in 1 .. Len(strands), NEW c, NEW d
  PROVE  LET t == [view |-> [View(n) EXCEPT !.c = c], done |-> d] IN
         IsStrand(t) /\ t.view.at = View(n).at
<1>1. PICK a, b : View(n) = [at |-> a, c |-> b]
  <2>1. strands[n].view = [at |-> strands[n].view.at, c |-> strands[n].view.c]
    BY StrandView DEF Tidy, Strands
  <2>2. CASE IsView(strands[n].view)
    <3>1. View(n) = strands[n].view
      BY <2>2 DEF View
    <3> QED BY <2>1, <3>1
  <2>3. CASE ~IsView(strands[n].view)
    <3>1. View(n) = [at |-> Fresh, c |-> Identity(class)]
      BY <2>3 DEF View
    <3> QED BY <3>1
  <2> QED BY <2>2, <2>3
<1>2. [View(n) EXCEPT !.c = c] = [at |-> a, c |-> c] /\ View(n).at = a
  BY <1>1
<1> QED BY <1>2 DEF IsStrand

\* In both directions of the merge the left view takes the right one in.
LEMMA JoinedLeft ==
  ASSUME NEW l, NEW r, NEW kind \in {"MERGE_INTO_LEFT", "MERGE_INTO_RIGHT"}
  PROVE  Joined(l, r, kind).at = l.at /\ Joined(l, r, kind).freed = r.at
  BY DEF Joined

-----------------------------------------------------------------------------
(* The invariant is inductive *)

\* The two constructed parts are the view and the monoid, in either order.
LEMMA PartsAre ==
  /\ {Parts(class)[1], Parts(class)[2]} = {"view", "monoid"}
  /\ Parts(class)[1] # Parts(class)[2]
  BY DEF Parts

\* While the reducer can be used.
LEMMA Usable ==
  ASSUME LibraryInv, phase \in {"alive", "moved"}
  PROVE  Tidy(strands, heap) /\ built = {"registered", "view", "monoid"}
  BY DEF LibraryInv, ViewsInv, BuiltInv

\* What a step that leaves the reducer usable has to show.
LEMMA StaysUsable ==
  ASSUME phase' \in {"alive", "moved"}, Tidy(strands', heap'),
         built' = {"registered", "view", "monoid"}
  PROVE  LibraryInv'
  BY DEF LibraryInv, PhaseInv, ViewsInv, BuiltInv

\* reducer_base() and the first object of monoid::construct.
LEMMA RegisterStep ==
  ASSUME LibraryInv, Register \/ ConstructFirst
  PROVE  LibraryInv'
<1>1. CASE Register
  BY <1>1 DEF Register, LibraryInv, PhaseInv, ViewsInv, BuiltInv
<1>2. CASE ConstructFirst
  <2>1. phase' = "registered" /\ phase = "registered" /\ class' = class /\ strands' = strands
        /\ heap' = heap /\ Cardinality(built) = 1 /\ built' = built \cup {Parts(class)[1]}
    BY <1>2 DEF ConstructFirst
  <2>2. built \in {{"registered"}, {"registered", Parts(class)[1]}}
    BY <2>1 DEF LibraryInv, BuiltInv
  <2>3. built' = {"registered", Parts(class)[1]}
    BY <2>1, <2>2
  <2>4. Parts(class)' = Parts(class)
    BY <2>1 DEF Parts
  <2> QED BY <2>1, <2>3, <2>4 DEF LibraryInv, PhaseInv, ViewsInv, BuiltInv
<1> QED BY <1>1, <1>2

\* The second object makes the reducer whole, with its leftmost view inside.
LEMMA ConstructStep ==
  ASSUME LibraryInv, NEW view, NEW given, NEW from, NEW left,
         ConstructSecond(view, given, from, left)
  PROVE  LibraryInv'
<1>1. /\ phase = "registered" /\ Cardinality(built) = 2 /\ phase' = "alive"
      /\ built' = built \cup {Parts(class)[2]} /\ heap' = heap
      /\ strands' = <<[view |-> [at |-> Leftmost, c |-> view], done |-> <<>>]>>
  BY DEF ConstructSecond
<1>2. built \in {{"registered"}, {"registered", Parts(class)[1]}} /\ heap = {}
  BY <1>1 DEF LibraryInv, BuiltInv, ViewsInv
<1>3. built # {"registered"}
  <2>1. Cardinality({"registered"}) = 1
    BY FS_Singleton
  <2>2. Cardinality(built) = 2
    BY <1>1
  <2> QED BY ONLY <2>1, <2>2
<1>4. built' = {"registered", "view", "monoid"}
  BY <1>1, <1>2, <1>3, PartsAre
<1>5. Tidy(strands', {})
  <2> DEFINE t == [view |-> [at |-> Leftmost, c |-> view], done |-> <<>>]
  <2>1. IsStrand(t) /\ t.view.at = Leftmost
    BY DEF IsStrand
  <2> HIDE DEF t
  <2>2. Tidy(<<t>>, {})
    BY <2>1, SingleTidy
  <2> QED BY <1>1, <2>2 DEF t
<1> QED BY <1>1, <1>2, <1>4, <1>5, StaysUsable

\* A constructor that throws takes back what there was.
LEMMA ThrowsStep ==
  ASSUME LibraryInv, ConstructThrows
  PROVE  LibraryInv'
<1>1. /\ phase = "registered" /\ phase' = "failed" /\ strands' = strands /\ heap' = heap
      /\ built' = (built \ {"registered"}) \ {Parts(class)[1]}
  BY DEF ConstructThrows
<1>2. built \in {{"registered"}, {"registered", Parts(class)[1]}}
  BY <1>1 DEF LibraryInv, BuiltInv
<1>3. built' = {}
  BY <1>1, <1>2
<1> QED BY <1>1, <1>3 DEF LibraryInv, PhaseInv, ViewsInv, BuiltInv

\* An update and a splice store into the view of their strand.
LEMMA StoreStep ==
  ASSUME LibraryInv, NEW n \in DOMAIN strands, NEW c, NEW u, Store(n, c, u),
         phase = "alive", phase' = phase, built' = built
  PROVE  LibraryInv'
<1> DEFINE d == Append(strands[n].done, u)
           t == [view |-> [View(n) EXCEPT !.c = c], done |-> d]
<1>1. Tidy(strands, heap) /\ built = {"registered", "view", "monoid"}
  BY Usable
<1>2. n \in 1 .. Len(strands)
  BY <1>1 DEF Tidy, Strands
<1>3. strands' = [strands EXCEPT ![n] = t] /\ heap' = heap \cup ({View(n).at} \ {Leftmost})
  BY DEF Store
<1>4. IsStrand(t) /\ t.view.at = View(n).at
  <2> HIDE DEF d
  <2> QED BY ONLY <1>1, <1>2, StoredStrand
<1> HIDE DEF t
<1>5. Tidy([strands EXCEPT ![n] = t], heap \cup ({View(n).at} \ {Leftmost}))
  BY <1>1, <1>2, <1>4, StoreTidy
<1>6. Tidy(strands', heap')
  BY <1>3, <1>5
<1> QED BY <1>1, <1>6, StaysUsable

\* A steal.
LEMMA ForkStep ==
  ASSUME LibraryInv, NEW n \in DOMAIN strands, Fork(n)
  PROVE  LibraryInv'
<1>1. /\ phase = "alive" /\ phase' = phase /\ built' = built /\ heap' = heap
      /\ Len(strands) < MaxStrands /\ strands' = InsertAt(strands, n + 1, NewStrand)
  BY DEF Fork
<1>2. Tidy(strands, heap) /\ built = {"registered", "view", "monoid"}
  BY <1>1, Usable
<1>3. n \in 1 .. Len(strands)
  BY <1>2 DEF Tidy, Strands
<1>4. Tidy(strands', heap')
  BY <1>1, <1>2, <1>3, ForkTidy
<1> QED BY <1>1, <1>2, <1>4, StaysUsable

\* A join of two strands.
LEMMA MergeStep ==
  ASSUME LibraryInv, NEW n \in 1 .. Len(strands) - 1,
         NEW kind \in {"MERGE_INTO_LEFT", "MERGE_INTO_RIGHT"}, Merge(n, kind)
  PROVE  LibraryInv'
<1> DEFINE l == strands[n].view
           r == strands[n + 1].view
           j == Joined(l, r, kind)
           both == IsView(l) /\ IsView(r)
           d == strands[n].done \o strands[n + 1].done
           v == IF both THEN [at |-> j.at, c |-> j.c] ELSE IF IsView(l) THEN l ELSE r
           t == [view |-> v, done |-> d]
<1>1. phase = "alive" /\ phase' = phase
  BY DEF Merge
<1>2. Tidy(strands, heap) /\ built = {"registered", "view", "monoid"}
  BY <1>1, Usable
<1>3. Strands(strands) /\ n \in 1 .. Len(strands) /\ n + 1 \in 1 .. Len(strands)
  BY <1>2 DEF Tidy, Strands
<1>4. j.at = l.at /\ j.freed = r.at
  <2> HIDE DEF l, r
  <2> QED BY JoinedLeft
<1>5. /\ strands' = Merged(n, t)
      /\ heap' = IF both THEN heap \ {r.at} ELSE heap
      /\ built' = IF both /\ r.at = Leftmost THEN built \ {"view"} ELSE built
  <2> DEFINE q == RemoveAt(strands, n + 1)
  <2>1. q[n] = strands[n] /\ n \in DOMAIN q
    <3> DEFINE T == ToSet(strands)
    <3>1. strands \in Seq(T)
      BY <1>3 DEF Strands
    <3> HIDE DEF T
    <3>2. q \in Seq(T) /\ Len(q) = Len(strands) - 1 /\ q[n] = strands[n]
      BY <1>3, <3>1, Facts!Removed DEF RemoveAt, Facts!RemoveAt
    <3> QED BY <3>2
  <2>2. /\ strands' = [q EXCEPT ![n] = [view |-> v, done |-> q[n].done \o strands[n + 1].done]]
        /\ heap' = IF both THEN heap \ {j.freed} ELSE heap
        /\ built' = IF both /\ j.freed = Leftmost THEN built \ {"view"} ELSE built
    BY DEF Merge
  <2> HIDE DEF q, j, both, v
  <2> QED BY <1>4, <2>1, <2>2 DEF Merged, q
<1>6. IsStrand(t) /\ t.view.at = IF l.at # NoView.at THEN l.at ELSE r.at
  <2>1. IsStrand(strands[n]) /\ IsStrand(strands[n + 1])
    BY <1>3 DEF Strands
  <2>2. \E a, c : l = [at |-> a, c |-> c]
    <3>1. l = [at |-> l.at, c |-> l.c]
      BY <2>1, StrandView
    <3> HIDE DEF l
    <3> QED BY <3>1
  <2>3. \E a, c : r = [at |-> a, c |-> c]
    <3>1. r = [at |-> r.at, c |-> r.c]
      BY <2>1, StrandView
    <3> HIDE DEF r
    <3> QED BY <3>1
  <2>4. /\ \E a, c : v = [at |-> a, c |-> c]
        /\ v.at = IF l.at # NoView.at THEN l.at ELSE r.at
    <3> HIDE DEF l, r, j
    <3> QED BY <1>4, <2>2, <2>3
  <2> HIDE DEF v, d, l, r
  <2> QED BY <2>4 DEF IsStrand
<1> HIDE DEF t
<1>7. /\ Tidy(Merged(n, t), IF both THEN heap \ {r.at} ELSE heap)
      /\ r.at # Leftmost
  BY <1>2, <1>6, MergeTidy
<1> HIDE DEF l, r, both
<1>8. Tidy(strands', heap') /\ built' = built
  BY <1>5, <1>7
<1> QED BY <1>1, <1>2, <1>8, StaysUsable

\* set_value and move_in give the leftmost view new contents.
LEMMA RestartStep ==
  ASSUME LibraryInv, Serial, NEW c, NEW v, NEW left, Restart(c, v, left)
  PROVE  LibraryInv'
<1> DEFINE t == [view |-> [View(1) EXCEPT !.c = c], done |-> <<>>]
<1>1. phase' = "alive" /\ strands' = <<t>> /\ heap' = heap \cup ({View(1).at} \ {Leftmost})
      /\ built' = built
  BY DEF Restart
<1>2. Tidy(strands, heap) /\ built = {"registered", "view", "monoid"} /\ Len(strands) = 1
  BY Usable DEF Serial
<1>3. heap = {} /\ View(1).at = Leftmost
  BY <1>2, SingleHeap
<1>4. IsStrand(t) /\ t.view.at = Leftmost
  <2>1. 1 \in 1 .. Len(strands)
    BY <1>2
  <2>2. IsStrand(t) /\ t.view.at = View(1).at
    BY ONLY <1>2, <2>1, StoredStrand
  <2> QED BY <1>3, <2>2
<1> HIDE DEF t
<1>5. Tidy(strands', heap')
  <2>1. heap' = {}
    BY <1>1, <1>3
  <2> QED BY <1>1, <1>4, <2>1, SingleTidy
<1> QED BY <1>1, <1>2, <1>5, StaysUsable

\* move_out and get_value change what is in the leftmost view.
LEMMA LookStep ==
  ASSUME LibraryInv, move_out \/ get_value
  PROVE  LibraryInv'
<1>1. Tidy(strands, heap) /\ built = {"registered", "view", "monoid"} /\ Len(strands) = 1
  BY Usable DEF Serial, move_out, get_value
<1>2. heap = {} /\ View(1) = strands[1].view /\ View(1).at = Leftmost /\ 1 \in 1 .. Len(strands)
  BY <1>1, SingleHeap
<1>3. /\ phase' \in {"alive", "moved"} /\ built' = built /\ heap' = heap
      /\ \E c : strands' = [strands EXCEPT ![1].view = [View(1) EXCEPT !.c = c]]
  <2>1. CASE move_out
    BY <2>1 DEF move_out
  <2>2. CASE get_value
    <3>1. strands' = [strands EXCEPT ![1].view.c = Flatten(strands[1].view.c)]
      BY <2>2 DEF get_value
    <3>2. strands' = [strands EXCEPT ![1].view = [View(1) EXCEPT !.c = Flatten(strands[1].view.c)]]
      BY <1>2, <3>1
    <3> QED BY <2>2, <3>2 DEF get_value
  <2> QED BY <2>1, <2>2
<1>4. PICK c : strands' = [strands EXCEPT ![1].view = [View(1) EXCEPT !.c = c]]
  BY <1>3
<1> DEFINE t == [view |-> [View(1) EXCEPT !.c = c], done |-> strands[1].done]
<1>5. strands' = [strands EXCEPT ![1] = t]
  <2>1. IsStrand(strands[1]) /\ 1 \in DOMAIN strands
    BY <1>1, <1>2 DEF Tidy, Strands
  <2> DEFINE w == [View(1) EXCEPT !.c = c]
  <2>2. strands' = [strands EXCEPT ![1].view = w]
    BY <1>4
  <2> HIDE DEF w
  <2>3. [strands[1] EXCEPT !.view = w] = [view |-> w, done |-> strands[1].done]
    BY <2>1 DEF IsStrand
  <2> QED BY <2>2, <2>3 DEF w
<1>6. IsStrand(t) /\ t.view.at = View(1).at
  BY ONLY <1>1, <1>2, StoredStrand
<1> HIDE DEF t
<1>7. Tidy(strands', heap')
  <2>1. Tidy([strands EXCEPT ![1] = t], heap \cup ({View(1).at} \ {Leftmost}))
    BY <1>1, <1>2, <1>6, StoreTidy
  <2>2. heap \cup ({View(1).at} \ {Leftmost}) = heap'
    BY <1>2, <1>3
  <2> QED BY <1>5, <2>1, <2>2
<1> QED BY <1>1, <1>3, <1>7, StaysUsable

\* ~reducer() comes when there is one strand left.
LEMMA DestroyStep ==
  ASSUME LibraryInv, Destroy
  PROVE  LibraryInv'
<1>1. Tidy(strands, heap) /\ built = {"registered", "view", "monoid"} /\ Len(strands) = 1
  BY Usable DEF Serial, Destroy
<1>2. heap = {}
  BY <1>1, SingleHeap
<1>3. phase' = "dead" /\ built' = {} /\ strands' = <<NewStrand>> /\ heap' = {}
  BY <1>1, <1>2 DEF Destroy
<1>4. NewStrand' = NewStrand
  BY DEF NewStrand
<1> QED BY <1>3, <1>4 DEF LibraryInv, PhaseInv, ViewsInv, BuiltInv

\* In every state of every computation the parts of a reducer that exist are
\* the ones its phase asks for, the first strand works on the view inside the
\* object, and the heap holds exactly one view for each other strand that has
\* one: lookups, map merges in both directions, set, move and the failing
\* constructor included.
THEOREM LibraryInvariant == Spec => []LibraryInv
<1>1. Init => LibraryInv
  BY DEF Init, LibraryInv, PhaseInv, ViewsInv, BuiltInv
<1>2. LibraryInv /\ [Next]_vars => LibraryInv'
  <2> SUFFICES ASSUME LibraryInv, [Next]_vars PROVE LibraryInv'
    OBVIOUS
  <2>1. CASE Register \/ ConstructFirst
    BY <2>1, RegisterStep
  <2>2. CASE Construct
    <3>1. \E view, given, from, left : ConstructSecond(view, given, from, left)
      <4> USE DEF Construct
      <4> QED BY ONLY <2>2 DEF Construct
    <3> QED BY <3>1, ConstructStep
  <2>3. CASE ConstructThrows
    BY <2>3, ThrowsStep
  <2>4. ASSUME NEW n \in DOMAIN strands, Update(n) PROVE LibraryInv'
    <3>1. PICK u : Store(n, Updated(class, View(n).c, u), u)
      BY <2>4 DEF Update
    <3>2. phase = "alive" /\ phase' = phase /\ built' = built
      BY <2>4 DEF Update
    <3> QED BY <3>1, <3>2, StoreStep
  <2>5. ASSUME NEW n \in DOMAIN strands, Splice(n) PROVE LibraryInv'
    <3>1. PICK c, u : Store(n, c, u)
      BY <2>5 DEF Splice
    <3>2. phase = "alive" /\ phase' = phase /\ built' = built
      BY <2>5 DEF Splice
    <3> QED BY <3>1, <3>2, StoreStep
  <2>6. ASSUME NEW n \in DOMAIN strands, Fork(n) PROVE LibraryInv'
    BY <2>6, ForkStep
  <2>7. ASSUME NEW n \in 1 .. Len(strands) - 1,
               NEW kind \in {"MERGE_INTO_LEFT", "MERGE_INTO_RIGHT"}, Merge(n, kind)
        PROVE  LibraryInv'
    BY <2>7, MergeStep
  <2>8. CASE set_value
    <3>1. Serial /\ \E c, v, left : Restart(c, v, left)
      BY <2>8 DEF set_value
    <3> QED BY <3>1, RestartStep
  <2>9. CASE move_in
    <3>1. Serial /\ \E c, v, left : Restart(c, v, left)
      BY <2>9 DEF move_in
    <3> QED BY <3>1, RestartStep
  <2>10. CASE move_out \/ get_value
    BY <2>10, LookStep
  <2>11. CASE Destroy
    BY <2>11, DestroyStep
  <2>12. CASE UNCHANGED vars
    BY <2>12 DEF vars, LibraryInv, PhaseInv, ViewsInv, BuiltInv, Tidy, Strands, Addressed, Parts
  <2> QED BY <2>1, <2>2, <2>3, <2>4, <2>5, <2>6, <2>7, <2>8, <2>9, <2>10, <2>11, <2>12 DEF Next
<1> QED BY <1>1, <1>2, PTL DEF Spec

\* No merge moves, destroys or frees the leftmost view, the first strand
\* always works on it, and every other view belongs to one strand.
THEOREM LeftmostKeptAlways == Spec => []LeftmostKept
<1>1. LibraryInv => LeftmostKept
  <2> SUFFICES ASSUME LibraryInv, phase \in {"alive", "moved"} PROVE LeftmostKept
    BY DEF LeftmostKept
  <2> DEFINE others == {n \in 2 .. Len(strands) : IsView(strands[n].view)}
             f == [n \in others |-> strands[n].view.at]
  <2>1. Tidy(strands, heap) /\ built = {"registered", "view", "monoid"}
    BY Usable
  <2>2. heap = {strands[n].view.at : n \in others} /\ strands[1].view.at = Leftmost
    BY <2>1 DEF Tidy, Addressed
  <2>3. IsFiniteSet(others)
    <3>1. Len(strands) \in Int
      BY <2>1 DEF Tidy, Strands
    <3>2. IsFiniteSet(2 .. Len(strands)) /\ others \in SUBSET (2 .. Len(strands))
      BY <3>1, FS_Interval
    <3> HIDE DEF others
    <3> QED BY <3>2, FS_Subset
  <2>4. f \in Bijection(others, heap)
    <3>1. \A m, n \in others : strands[m].view.at = strands[n].view.at => m = n
      BY <2>1 DEF Tidy, Addressed
    <3> HIDE DEF others
    <3>2. f \in [others -> heap] /\ \A n \in others : f[n] = strands[n].view.at
      BY <2>2
    <3> HIDE DEF f
    <3>3. f \in Injection(others, heap)
      BY <3>1, <3>2 DEF Injection, IsInjective
    <3>4. f \in Surjection(others, heap)
      BY <2>2, <3>2 DEF Surjection
    <3> QED BY <3>3, <3>4 DEF Bijection
  <2>5. Cardinality(heap) = Cardinality(others)
    <3> HIDE DEF others, f
    <3>1. ExistsBijection(others, heap)
      BY <2>4 DEF ExistsBijection
    <3> QED BY <2>3, <3>1, FS_Bijection
  <2> QED BY <2>1, <2>2, <2>5 DEF LeftmostKept
<1> QED BY <1>1, LibraryInvariant, PTL

\* A destroyed reducer, or one whose construction failed, leaves no part, no
\* registration and no view behind.
THEOREM NothingBehindAlways == Spec => []NothingBehind
<1>1. LibraryInv => NothingBehind
  BY DEF LibraryInv, BuiltInv, ViewsInv, NothingBehind
<1> QED BY <1>1, LibraryInvariant, PTL
=============================================================================
