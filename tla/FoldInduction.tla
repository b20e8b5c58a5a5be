--------------------------- MODULE FoldInduction ---------------------------
(***************************************************************************)
(* Induction for the loops of the runtime, which the models write with     *)
(* FoldLeft: what holds before a loop and is kept by every turn of it      *)
(* holds after it.  Op is the body of the loop; a module that reasons      *)
(* about a loop instantiates this one with its body.  The induction        *)
(* principles of the library have a predicate as a parameter; here it is a *)
(* set, so that the minimum of a well-founded relation can be used.  The   *)
(* last part does not speak of Op: facts about operators of the community  *)
(* modules that the proofs share.                                          *)
(***************************************************************************)
EXTENDS Integers, Sequences, SequencesExt, FiniteSetsExt,
        SequenceTheorems, WellFoundedInduction, TLAPS

CONSTANT Op(_, _)

\* Induction over the numbers: a set that has 0 and every successor of its
\* numbers has them all.
LEMMA SetInduction ==
  ASSUME NEW S, 0 \in S, \A n \in Nat : n \in S => n + 1 \in S
  PROVE  Nat \subseteq S
<1> DEFINE R == {ss \in Nat \X Nat : ss[1] < ss[2]}
           T == Nat \ S
<1>1. IsWellFoundedOn(R, Nat)
  BY NatLessThanWellFounded DEF OpToRel
<1>2. SUFFICES ASSUME T # {} PROVE FALSE
  OBVIOUS
<1>3. PICK x \in T : \A y \in T : ~ (<<y, x>> \in R)
  <2> T \subseteq Nat OBVIOUS
  <2> HIDE DEF R, T
  <2> QED BY <1>1, <1>2, WFMin
<1>4. x \in Nat /\ x # 0 
  OBVIOUS
<1>5. x - 1 \in Nat /\ <<x - 1, x>> \in R BY <1>4
<1>6. x - 1 \in S BY <1>3, <1>5
<1>7. (x - 1) + 1 \in S BY <1>6, <1>5
<1> QED BY <1>7, <1>4

\* Max, with which FoldLeft finds the last position of a sequence, is the
\* largest element of a set of positions.
LEMMA MaxOf ==
  ASSUME NEW n \in Nat, NEW S \in SUBSET (1 .. n), S # {}
  PROVE  Max(S) \in S /\ \A y \in S : Max(S) >= y
<1> DEFINE G == {k \in Nat : \A T \in SUBSET (1 .. k) : T # {} => \E x \in T : \A y \in T : x >= y}
<1>1. 0 \in G
  <2>1. 1 .. 0 = {} OBVIOUS
  <2> QED BY <2>1
<1>2. ASSUME NEW k \in Nat, k \in G PROVE k + 1 \in G
  <2> SUFFICES ASSUME NEW T \in SUBSET (1 .. k + 1), T # {} PROVE \E x \in T : \A y \in T : x >= y
    OBVIOUS
  <2>1. CASE k + 1 \in T
    <3>1. \A y \in T : k + 1 >= y OBVIOUS
    <3> QED BY <2>1, <3>1
  <2>2. CASE k + 1 \notin T
    <3>1. T \in SUBSET (1 .. k) BY <2>2
    <3> QED BY <3>1, <1>2
  <2> QED BY <2>1, <2>2
<1>3. Nat \subseteq G 
  <2> HIDE DEF G
  <2> QED BY <1>1, <1>2, SetInduction
<1>4. \E x \in S : \A y \in S : x >= y BY <1>3
<1> QED BY <1>4 DEF Max

\* g has the value of the loop for every set of positions of seq.
IsFold(g, base, seq, D) ==
  g = [s \in SUBSET D |-> IF s = {} THEN base ELSE Op(g[s \ {Max(s)}], seq[Max(s)])]

\* There is such a function, so that the CHOOSE of FoldLeft finds one.
LEMMA FoldExists ==
  ASSUME NEW base, NEW seq, NEW n \in Nat
  PROVE  \E g : IsFold(g, base, seq, 1 .. n)
<1> DEFINE G == {k \in Nat : \E g : IsFold(g, base, seq, 1 .. k)}
<1>1. 0 \in G
  <2> DEFINE g == [s \in SUBSET (1 .. 0) |-> base]
  <2>1. SUBSET (1 .. 0) = {{}} OBVIOUS
  <2>2. IsFold(g, base, seq, 1 .. 0) BY <2>1 DEF IsFold
  <2> QED BY <2>2
<1>2. ASSUME NEW k \in Nat, k \in G PROVE k + 1 \in G
  <2>1. PICK g : IsFold(g, base, seq, 1 .. k) BY <1>2
  <2> DEFINE h == [s \in SUBSET (1 .. k + 1) |->
                     IF k + 1 \in s THEN Op(g[s \ {k + 1}], seq[k + 1]) ELSE g[s]]
  <2>2. ASSUME NEW s \in SUBSET (1 .. k + 1)
        PROVE  h[s] = IF s = {} THEN base ELSE Op(h[s \ {Max(s)}], seq[Max(s)])
    <3>1. CASE s = {}
      <4>1. h[s] = g[{}] BY <3>1
      <4>2. g[{}] = base BY <2>1 DEF IsFold
      <4> QED BY <3>1, <4>1, <4>2
    <3>2. CASE k + 1 \in s
      <4>1. Max(s) = k + 1 
        <5>1. s # {} /\ k + 1 \in Nat BY <3>2
        <5>2. Max(s) \in s /\ \A y \in s : Max(s) >= y BY ONLY <5>1, s \in SUBSET (1 .. k + 1), MaxOf
        <5>3. Max(s) \in 1 .. k + 1 /\ Max(s) >= k + 1 BY <3>2, <5>2
        <5> QED BY <5>3
      <4>2. s \ {k + 1} \in SUBSET (1 .. k + 1) /\ k + 1 \notin s \ {k + 1} OBVIOUS
      <4>3. h[s \ {k + 1}] = g[s \ {k + 1}] BY <4>2
      <4>4. h[s] = Op(g[s \ {k + 1}], seq[k + 1]) BY <3>2
      <4> QED BY <3>2, <4>1, <4>3, <4>4
    <3>3. CASE s # {} /\ k + 1 \notin s
      <4>1. s \in SUBSET (1 .. k) BY <3>3
      <4>2. Max(s) \in s BY <4>1, <3>3, MaxOf
      <4>3. g[s] = Op(g[s \ {Max(s)}], seq[Max(s)]) BY <2>1, <3>3, <4>1 DEF IsFold
      <4>4. h[s] = g[s] BY <3>3
      <4>5. h[s \ {Max(s)}] = g[s \ {Max(s)}] BY <3>3
      <4> QED BY <3>3, <4>3, <4>4, <4>5
    <3> QED BY <3>1, <3>2, <3>3
  <2>3. IsFold(h, base, seq, 1 .. k + 1) 
    <3>1. h = [s \in SUBSET (1 .. k + 1) |-> h[s]] OBVIOUS
    <3> HIDE DEF h
    <3> QED BY <2>2, <3>1 DEF IsFold
  <2> HIDE DEF h
  <2> QED BY <2>3
<1>3. Nat \subseteq G 
  <2> HIDE DEF G
  <2> QED BY <1>1, <1>2, SetInduction
<1> QED BY <1>3

\* FoldLeft takes its value for all the positions.
LEMMA FoldLeftIs ==
  ASSUME NEW base, NEW seq, NEW n \in Nat, DOMAIN seq = 1 .. n
  PROVE  \E g : IsFold(g, base, seq, 1 .. n) /\ FoldLeft(Op, base, seq) = g[1 .. n]
<1> DEFINE gg == CHOOSE g : IsFold(g, base, seq, 1 .. n)
<1>1. IsFold(gg, base, seq, 1 .. n) BY FoldExists
<1>2. FoldLeft(Op, base, seq) = gg[1 .. n]
  BY DEF FoldLeft, MapThenFoldSet, IsFold
<1> QED BY <1>1, <1>2

\* h[k] is the value of the loop after k turns.
IsLoop(h, base, seq, n) ==
  /\ h[0] = base /\ h[n] = FoldLeft(Op, base, seq)
  /\ \A k \in 1 .. n : h[k] = Op(h[k - 1], seq[k])

\* The values of the loop after each turn.
LEMMA FoldSteps ==
  ASSUME NEW base, NEW seq, NEW n \in Nat, DOMAIN seq = 1 .. n
  PROVE  \E h : IsLoop(h, base, seq, n)
<1>1. PICK g : IsFold(g, base, seq, 1 .. n) /\ FoldLeft(Op, base, seq) = g[1 .. n]
  BY FoldLeftIs
<1> DEFINE h == [k \in 0 .. n |-> g[1 .. k]]
<1>2. h[0] = base
  <2>1. 1 .. 0 = {} /\ {} \in SUBSET (1 .. n) OBVIOUS
  <2>2. g[{}] = base BY <1>1, <2>1 DEF IsFold
  <2> QED BY <2>1, <2>2
<1>3. h[n] = FoldLeft(Op, base, seq)
  BY <1>1
<1>4. ASSUME NEW k \in 1 .. n PROVE h[k] = Op(h[k - 1], seq[k])
  <2>1. Max(1 .. k) = k
    <3>1. k \in Nat /\ k \in 1 .. k OBVIOUS
    <3>2. Max(1 .. k) \in 1 .. k /\ \A y \in 1 .. k : Max(1 .. k) >= y
      BY ONLY <3>1, MaxOf
    <3> QED BY <3>1, <3>2
  <2>2. (1 .. k) \ {k} = 1 .. k - 1 /\ 1 .. k # {} /\ 1 .. k \in SUBSET (1 .. n)
    <3>1. \A x : x \in (1 .. k) \ {k} <=> x \in 1 .. k - 1 OBVIOUS
    <3>2. k \in 1 .. k OBVIOUS
    <3>3. \A x \in 1 .. k : x \in 1 .. n OBVIOUS
    <3> QED BY <3>1, <3>2, <3>3
  <2>3. g[1 .. k] = Op(g[1 .. k - 1], seq[k]) BY <1>1, <2>1, <2>2 DEF IsFold
  <2>4. k \in 0 .. n /\ k - 1 \in 0 .. n OBVIOUS
  <2> QED BY <2>3, <2>4
<1> HIDE DEF h
<1> QED BY <1>2, <1>3, <1>4 DEF IsLoop

\* A loop invariant: I[k] are the states the loop may be in after k turns.
LEMMA FoldInvariant ==
  ASSUME NEW base, NEW seq, NEW n \in Nat, DOMAIN seq = 1 .. n,
         NEW I, base \in I[0],
         \A k \in 1 .. n : \A s \in I[k - 1] : Op(s, seq[k]) \in I[k]
  PROVE  FoldLeft(Op, base, seq) \in I[n]
<1>1. PICK h : IsLoop(h, base, seq, n)
  BY FoldSteps
<1> DEFINE G == {k \in Nat : k <= n => h[k] \in I[k]}
<1>2. 0 \in G
  BY <1>1 DEF IsLoop
<1>3. ASSUME NEW k \in Nat, k \in G PROVE k + 1 \in G
  <2> SUFFICES ASSUME k + 1 <= n PROVE h[k + 1] \in I[k + 1] OBVIOUS
  <2>1. k + 1 \in 1 .. n /\ (k + 1) - 1 = k /\ h[k] \in I[k] BY <1>3
  <2> QED BY <1>1, <2>1 DEF IsLoop
<1>4. Nat \subseteq G 
  <2> HIDE DEF G
  <2> QED BY <1>2, <1>3, SetInduction
<1> QED BY <1>1, <1>4 DEF IsLoop

-----------------------------------------------------------------------------
(* Smallest numbers, and sequences with an element put in or taken out *)

\* A set of numbers has a smallest one, which Min finds.
LEMMA MinOf ==
  ASSUME NEW S \in SUBSET Nat, S # {}
  PROVE  Min(S) \in S /\ \A y \in S : Min(S) <= y
<1> DEFINE R == {ss \in Nat \X Nat : ss[1] < ss[2]}
<1>1. IsWellFoundedOn(R, Nat)
  BY NatLessThanWellFounded DEF OpToRel
<1>2. PICK x \in S : \A y \in S : ~ (<<y, x>> \in R)
  <2> HIDE DEF R
  <2> QED BY <1>1, WFMin
<1>3. ASSUME NEW y \in S PROVE x <= y
  <2>1. x \in Nat /\ y \in Nat /\ ~ (<<y, x>> \in R)
    BY <1>2
  <2>2. ~ (y < x)
    BY <2>1
  <2> QED BY <2>1, <2>2
<1> QED BY <1>3 DEF Min

\* q is s with e after position n.
InsertOf(q, s, n, e, T) ==
    /\ q \in Seq(T) /\ Len(q) = Len(s) + 1
    /\ \A k \in 1 .. Len(s) + 1 :
         q[k] = IF k <= n THEN s[k] ELSE IF k = n + 1 THEN e ELSE s[k - 1]

\* InsertAt puts an element in after position n.
LEMMA Inserted ==
  ASSUME NEW T, NEW s \in Seq(T), NEW n \in 1 .. Len(s), NEW e \in T
  PROVE  InsertOf(InsertAt(s, n + 1, e), s, n, e, T)
<1> DEFINE a == SubSeq(s, 1, (n + 1) - 1)
           b == SubSeq(s, n + 1, Len(s))
           ae == a \o <<e>>
<1>1. Len(s) \in Nat /\ \A i \in 1 .. Len(s) : s[i] \in T
  BY LenProperties, ElementOfSeq
<1>2. a \in Seq(T) /\ Len(a) = n /\ \A i \in 1 .. n : a[i] = s[i]
  BY <1>1, SubSeqProperties
<1>3. b \in Seq(T) /\ Len(b) = Len(s) - n /\ \A i \in 1 .. Len(s) - n : b[i] = s[n + i]
  <2>1. \A i \in n + 1 .. Len(s) : s[i] \in T
    BY <1>1
  <2>2. /\ b \in Seq(T)
        /\ Len(b) = IF n + 1 <= Len(s) THEN Len(s) - (n + 1) + 1 ELSE 0
        /\ \A i \in 1 .. Len(s) - (n + 1) + 1 : b[i] = s[(n + 1) + i - 1]
    <3> HIDE DEF b
    <3> QED BY <1>1, <2>1, SubSeqProperties DEF b
  <2> HIDE DEF b
  <2> QED BY <1>1, <2>2
<1>4. ae \in Seq(T) /\ Len(ae) = n + 1 /\ \A i \in 1 .. n + 1 : ae[i] = IF i <= n THEN s[i] ELSE e
  <2>1. <<e>> \in Seq(T) /\ Len(<<e>>) = 1 /\ <<e>>[1] = e
    OBVIOUS
  <2> HIDE DEF a
  <2> QED BY <1>1, <1>2, <2>1, ConcatProperties
<1>5. InsertAt(s, n + 1, e) = ae \o b
  BY DEF InsertAt
<1> HIDE DEF ae, b
<1> DEFINE r == ae \o b
<1>6. /\ r \in Seq(T) /\ Len(r) = Len(s) + 1
      /\ \A i \in 1 .. Len(s) + 1 : r[i] = IF i <= n + 1 THEN ae[i] ELSE b[i - (n + 1)]
  <2>1. /\ r \in Seq(T) /\ Len(r) = Len(ae) + Len(b)
        /\ \A i \in 1 .. Len(ae) + Len(b) : r[i] = IF i <= Len(ae) THEN ae[i] ELSE b[i - Len(ae)]
    BY <1>3, <1>4, ConcatProperties
  <2>2. Len(ae) + Len(b) = Len(s) + 1
    BY <1>1, <1>3, <1>4
  <2> HIDE DEF r
  <2> QED BY <1>4, <2>1, <2>2
<1> HIDE DEF r
<1>7. ASSUME NEW k \in 1 .. Len(s) + 1
      PROVE  r[k] = IF k <= n THEN s[k] ELSE IF k = n + 1 THEN e ELSE s[k - 1]
  <2>1. CASE k <= n + 1
    BY <1>1, <1>4, <1>6, <2>1
  <2>2. CASE k > n + 1
    <3>1. r[k] = b[k - (n + 1)] /\ k - (n + 1) \in 1 .. Len(s) - n
      BY <1>1, <1>6, <2>2
    <3>2. n + (k - (n + 1)) = k - 1
      BY <1>1
    <3> QED BY <1>1, <1>3, <2>2, <3>1, <3>2
  <2> QED BY <1>1, <2>1, <2>2
<1>8. InsertOf(r, s, n, e, T)
  BY <1>6, <1>7 DEF InsertOf
<1> QED BY <1>5, <1>8 DEF r

\* RemoveAt takes out the element after position n.
LEMMA Removed ==
  ASSUME NEW T, NEW s \in Seq(T), NEW n \in 1 .. Len(s) - 1
  PROVE  LET r == RemoveAt(s, n + 1) IN
         /\ r \in Seq(T) /\ Len(r) = Len(s) - 1
         /\ \A k \in 1 .. Len(s) - 1 : r[k] = IF k <= n THEN s[k] ELSE s[k + 1]
<1> DEFINE a == SubSeq(s, 1, (n + 1) - 1)
           b == SubSeq(s, (n + 1) + 1, Len(s))
<1>1. Len(s) \in Nat /\ \A i \in 1 .. Len(s) : s[i] \in T
  BY LenProperties, ElementOfSeq
<1>2. a \in Seq(T) /\ Len(a) = n /\ \A i \in 1 .. n : a[i] = s[i]
  BY <1>1, SubSeqProperties
<1>3. b \in Seq(T) /\ Len(b) = Len(s) - n - 1 /\ \A i \in 1 .. Len(s) - n - 1 : b[i] = s[n + 1 + i]
  <2>1. \A i \in (n + 1) + 1 .. Len(s) : s[i] \in T
    BY <1>1
  <2>2. /\ b \in Seq(T)
        /\ Len(b) = IF (n + 1) + 1 <= Len(s) THEN Len(s) - ((n + 1) + 1) + 1 ELSE 0
        /\ \A i \in 1 .. Len(s) - ((n + 1) + 1) + 1 : b[i] = s[((n + 1) + 1) + i - 1]
    <3> HIDE DEF b
    <3> QED BY <1>1, <2>1, SubSeqProperties DEF b
  <2> HIDE DEF b
  <2> QED BY <1>1, <2>2
<1>4. RemoveAt(s, n + 1) = a \o b
  BY DEF RemoveAt
<1> HIDE DEF a, b
<1> DEFINE r == a \o b
<1>5. /\ r \in Seq(T) /\ Len(r) = Len(s) - 1
      /\ \A i \in 1 .. Len(s) - 1 : r[i] = IF i <= n THEN a[i] ELSE b[i - n]
  <2>1. /\ r \in Seq(T) /\ Len(r) = Len(a) + Len(b)
        /\ \A i \in 1 .. Len(a) + Len(b) : r[i] = IF i <= Len(a) THEN a[i] ELSE b[i - Len(a)]
    BY <1>2, <1>3, ConcatProperties
  <2>2. Len(a) + Len(b) = Len(s) - 1
    BY <1>1, <1>2, <1>3
  <2> HIDE DEF r
  <2> QED BY <1>2, <2>1, <2>2
<1> HIDE DEF r
<1>6. ASSUME NEW k \in 1 .. Len(s) - 1
      PROVE  r[k] = IF k <= n THEN s[k] ELSE s[k + 1]
  <2>1. CASE k <= n
    BY <1>1, <1>2, <1>5, <2>1
  <2>2. CASE k > n
    <3>1. r[k] = b[k - n] /\ k - n \in 1 .. Len(s) - n - 1
      BY <1>1, <1>5, <2>2
    <3>2. n + 1 + (k - n) = k + 1
      BY <1>1
    <3>3. b[k - n] = s[n + 1 + (k - n)]
      BY <1>3, <3>1
    <3>4. r[k] = s[k + 1]
      BY <3>1, <3>2, <3>3
    <3> QED BY <1>1, <2>2, <3>4
  <2> QED BY <1>1, <2>1, <2>2
<1>7. RemoveAt(s, n + 1) = r
  BY <1>4 DEF r
<1> QED BY <1>5, <1>6, <1>7
=============================================================================
