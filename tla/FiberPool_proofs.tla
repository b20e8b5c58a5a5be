-------------------------- MODULE FiberPool_proofs --------------------------
(***************************************************************************)
(* Proofs about the runtime's memory, for any number of workers, any size  *)
(* classes, capacities and object sizes: no block is in two places, the    *)
(* lists and pools keep their limits, the counters of the fiber pools and  *)
(* of the tags agree with what is in use.                                  *)
(***************************************************************************)
EXTENDS FiberPool, FiniteSetTheorems, SequenceTheorems, TLAPS

-----------------------------------------------------------------------------
(* Lists of addresses *)

NoRepeat(q) == \A k, l \in 1 .. Len(q) : q[k] = q[l] => k = l
Elems(q) == {q[k] : k \in 1 .. Len(q)}

\* q is a list of the addresses of S, each once.
ListOf(q, S) == q \in Seq(Nat) /\ NoRepeat(q) /\ Elems(q) = S

\* The empty list.
LEMMA EmptyList == ListOf(<<>>, {}) /\ Len(<<>>) = 0
  BY DEF ListOf, NoRepeat, Elems

\* remove_from_free_list takes the first block.
LEMMA TailList ==
  ASSUME NEW q, NEW S, ListOf(q, S), q # <<>>
  PROVE  /\ Head(q) \in S /\ Head(q) \in Nat
         /\ ListOf(Tail(q), S \ {Head(q)}) /\ Len(Tail(q)) = Len(q) - 1
<1>1. q \in Seq(Nat) /\ Len(q) \in Nat /\ Len(q) > 0 /\ Head(q) = q[1]
  BY DEF ListOf
<1>2. /\ Tail(q) \in Seq(Nat) /\ Len(Tail(q)) = Len(q) - 1
      /\ \A i \in 1 .. Len(q) - 1 : Tail(q)[i] = q[i + 1]
  BY <1>1, HeadTailProperties
<1>3. Head(q) \in S /\ Head(q) \in Nat
  BY <1>1 DEF ListOf, Elems
<1>4. NoRepeat(Tail(q))
  <2> SUFFICES ASSUME NEW k \in 1 .. Len(q) - 1, NEW l \in 1 .. Len(q) - 1, Tail(q)[k] = Tail(q)[l] PROVE k = l
    BY <1>2 DEF NoRepeat
  <2>1. k + 1 \in 1 .. Len(q) /\ l + 1 \in 1 .. Len(q) /\ q[k + 1] = q[l + 1]
    BY <1>1, <1>2
  <2> QED BY <2>1 DEF ListOf, NoRepeat
<1>5. Elems(Tail(q)) = S \ {Head(q)}
  <2>1. ASSUME NEW k \in 1 .. Len(q) - 1 PROVE Tail(q)[k] \in S \ {Head(q)}
    <3>1. k + 1 \in 1 .. Len(q) /\ 1 \in 1 .. Len(q) /\ k + 1 # 1 /\ Tail(q)[k] = q[k + 1]
      BY <1>1, <1>2
    <3> QED BY <1>1, <3>1 DEF ListOf, NoRepeat, Elems
  <2>2. ASSUME NEW x \in S \ {Head(q)} PROVE \E k \in 1 .. Len(q) - 1 : x = Tail(q)[k]
    <3>1. PICK j \in 1 .. Len(q) : x = q[j]
      BY DEF ListOf, Elems
    <3>2. j # 1
      BY <1>1, <3>1
    <3>3. j - 1 \in 1 .. Len(q) - 1 /\ (j - 1) + 1 = j
      BY <1>1, <3>2
    <3>4. Tail(q)[j - 1] = x
      BY <1>2, <3>1, <3>3
    <3> QED BY <3>3, <3>4
  <2> QED BY <1>2, <2>1, <2>2 DEF Elems
<1> QED BY <1>2, <1>3, <1>4, <1>5 DEF ListOf

\* add_to_free_list puts a block first.
LEMMA ConsList ==
  ASSUME NEW q, NEW S, ListOf(q, S), NEW p \in Nat, p \notin S
  PROVE  ListOf(<<p>> \o q, S \cup {p}) /\ Len(<<p>> \o q) = Len(q) + 1 /\ <<p>> \o q # <<>>
<1> DEFINE r == <<p>> \o q
<1>1. q \in Seq(Nat) /\ Len(q) \in Nat /\ <<p>> \in Seq(Nat) /\ Len(<<p>>) = 1
  BY DEF ListOf
<1>2. /\ r \in Seq(Nat) /\ Len(r) = 1 + Len(q)
      /\ \A i \in 1 .. 1 + Len(q) : r[i] = IF i <= 1 THEN <<p>>[i] ELSE q[i - 1]
  BY <1>1, ConcatProperties
<1>3. r[1] = p /\ \A i \in 1 .. Len(q) : r[i + 1] = q[i]
  <2>1. \A i \in 1 .. Len(q) : i + 1 \in 1 .. 1 + Len(q) /\ ~(i + 1 <= 1) /\ (i + 1) - 1 = i
    BY <1>1
  <2>2. 1 \in 1 .. 1 + Len(q) /\ <<p>>[1] = p
    BY <1>1
  <2> HIDE DEF r
  <2> QED BY <1>2, <2>1, <2>2
<1>4. r # <<>> /\ Len(r) = Len(q) + 1
  BY <1>1, <1>2
<1> HIDE DEF r
<1>5. \A i \in 1 .. Len(q) : q[i] # p
  BY DEF ListOf, Elems
<1>6. \A i \in 1 .. Len(r) : i = 1 \/ (i - 1 \in 1 .. Len(q) /\ r[i] = q[i - 1])
  <2> TAKE i \in 1 .. Len(r)
  <2>1. CASE i # 1
    <3>1. i - 1 \in 1 .. Len(q) /\ (i - 1) + 1 = i
      BY <1>1, <1>2, <2>1
    <3> QED BY <1>3, <3>1
  <2> QED BY <2>1
<1>7. NoRepeat(r)
  <2> SUFFICES ASSUME NEW k \in 1 .. Len(r), NEW l \in 1 .. Len(r), r[k] = r[l] PROVE k = l
    BY DEF NoRepeat
  <2>1. CASE k = 1 \/ l = 1
    BY <1>3, <1>5, <1>6, <2>1
  <2>2. CASE k # 1 /\ l # 1
    <3>1. k - 1 \in 1 .. Len(q) /\ l - 1 \in 1 .. Len(q) /\ q[k - 1] = q[l - 1]
      BY <1>6, <2>2
    <3>2. k - 1 = l - 1
      BY <3>1 DEF ListOf, NoRepeat
    <3> QED BY <1>1, <1>2, <3>2
  <2> QED BY <2>1, <2>2
<1>8. Elems(r) = S \cup {p}
  <2>1. ASSUME NEW k \in 1 .. Len(r) PROVE r[k] \in S \cup {p}
    BY <1>3, <1>6 DEF ListOf, Elems
  <2>2. ASSUME NEW x \in S PROVE \E k \in 1 .. Len(r) : x = r[k]
    <3>1. PICK j \in 1 .. Len(q) : x = q[j]
      BY DEF ListOf, Elems
    <3>2. j + 1 \in 1 .. Len(r)
      BY <1>1, <1>2
    <3> QED BY <1>3, <3>1, <3>2
  <2>3. 1 \in 1 .. Len(r)
    BY <1>1, <1>2
  <2> QED BY <1>3, <2>1, <2>2, <2>3 DEF Elems
<1> QED BY <1>2, <1>4, <1>7, <1>8 DEF ListOf, r

\* A pool gives its last fiber.
LEMMA FrontList ==
  ASSUME NEW q, NEW S, ListOf(q, S), q # <<>>
  PROVE  /\ Last(q) \in S /\ Last(q) \in Nat
         /\ ListOf(Front(q), S \ {Last(q)}) /\ Len(Front(q)) = Len(q) - 1
<1>1. q \in Seq(Nat) /\ Len(q) \in Nat /\ Len(q) > 0 /\ Last(q) = q[Len(q)] /\ Front(q) = SubSeq(q, 1, Len(q) - 1)
  BY DEF ListOf, Last, Front
<1>2. \A i \in 1 .. Len(q) - 1 : q[i] \in Nat
  BY <1>1
<1>3. /\ Front(q) \in Seq(Nat) /\ Len(Front(q)) = Len(q) - 1
      /\ \A i \in 1 .. Len(q) - 1 : Front(q)[i] = q[i]
  <2>1. /\ SubSeq(q, 1, Len(q) - 1) \in Seq(Nat)
        /\ Len(SubSeq(q, 1, Len(q) - 1)) = IF 1 <= Len(q) - 1 THEN (Len(q) - 1) - 1 + 1 ELSE 0
        /\ \A i \in 1 .. (Len(q) - 1) - 1 + 1 : SubSeq(q, 1, Len(q) - 1)[i] = q[1 + i - 1]
    BY <1>1, <1>2, SubSeqProperties
  <2>2. Front(q) \in Seq(Nat) /\ Len(Front(q)) = Len(q) - 1
    <3> DEFINE n == Len(q)
               f == Front(q)
    <3>1. f \in Seq(Nat)
      BY <1>1, <2>1, Zenon
    <3>2. Len(f) = IF 1 <= n - 1 THEN (n - 1) - 1 + 1 ELSE 0
      BY <1>1, <2>1, Zenon
    <3>3. n \in Nat /\ n > 0
      BY <1>1
    <3> HIDE DEF n, f
    <3>4. Len(f) = n - 1
      BY <3>2, <3>3
    <3> QED BY <3>1, <3>4 DEF f, n
  <2>3. ASSUME NEW i \in 1 .. Len(q) - 1 PROVE Front(q)[i] = q[i]
    <3>1. i \in 1 .. (Len(q) - 1) - 1 + 1 /\ 1 + i - 1 = i
      BY <1>1
    <3>2. SubSeq(q, 1, Len(q) - 1)[i] = q[1 + i - 1]
      BY <2>1, <3>1
    <3> QED BY <1>1, <3>1, <3>2
  <2> QED BY <2>2, <2>3
<1>4. Last(q) \in S /\ Last(q) \in Nat
  BY <1>1 DEF ListOf, Elems
<1>5. NoRepeat(Front(q))
  <2> SUFFICES ASSUME NEW k \in 1 .. Len(q) - 1, NEW l \in 1 .. Len(q) - 1, Front(q)[k] = Front(q)[l] PROVE k = l
    BY <1>3 DEF NoRepeat
  <2>1. k \in 1 .. Len(q) /\ l \in 1 .. Len(q) /\ q[k] = q[l]
    BY <1>1, <1>3
  <2> QED BY <2>1 DEF ListOf, NoRepeat
<1>6. Elems(Front(q)) = S \ {Last(q)}
  <2>1. ASSUME NEW k \in 1 .. Len(q) - 1 PROVE Front(q)[k] \in S \ {Last(q)}
    <3>1. k \in 1 .. Len(q) /\ Len(q) \in 1 .. Len(q) /\ k # Len(q) /\ Front(q)[k] = q[k]
      BY <1>1, <1>3
    <3> QED BY <1>1, <3>1 DEF ListOf, NoRepeat, Elems
  <2>2. ASSUME NEW x \in S \ {Last(q)} PROVE \E k \in 1 .. Len(q) - 1 : x = Front(q)[k]
    <3>1. PICK j \in 1 .. Len(q) : x = q[j]
      BY DEF ListOf, Elems
    <3>2. j # Len(q)
      BY <1>1, <3>1
    <3>3. j \in 1 .. Len(q) - 1
      BY <1>1, <3>2
    <3> QED BY <1>3, <3>1, <3>3
  <2> QED BY <1>3, <2>1, <2>2 DEF Elems
<1> QED BY <1>3, <1>4, <1>5, <1>6 DEF ListOf

\* A pool takes a fiber at its end.
LEMMA AppendList ==
  ASSUME NEW q, NEW S, ListOf(q, S), NEW p \in Nat, p \notin S
  PROVE  /\ ListOf(Append(q, p), S \cup {p}) /\ Len(Append(q, p)) = Len(q) + 1
         /\ Append(q, p) # <<>> /\ Last(Append(q, p)) = p /\ Front(Append(q, p)) = q
<1> DEFINE r == Append(q, p)
<1>1. q \in Seq(Nat) /\ Len(q) \in Nat
  BY DEF ListOf
<1>2. /\ r \in Seq(Nat) /\ Len(r) = Len(q) + 1 /\ r[Len(q) + 1] = p
      /\ \A i \in 1 .. Len(q) : r[i] = q[i]
  BY <1>1
<1>3. r # <<>> /\ Last(r) = p
  BY <1>1, <1>2 DEF Last
<1>4. Front(r) = q
  <2>1. Front(r) = SubSeq(r, 1, Len(q))
    BY <1>1, <1>2 DEF Front
  <2> QED BY <1>1, <1>2, <2>1
<1> HIDE DEF r
<1>5. \A i \in 1 .. Len(q) : q[i] # p
  BY DEF ListOf, Elems
<1>6. \A i \in 1 .. Len(r) : i = Len(q) + 1 \/ (i \in 1 .. Len(q) /\ r[i] = q[i])
  BY <1>1, <1>2
<1>7. NoRepeat(r)
  BY <1>2, <1>5, <1>6 DEF ListOf, NoRepeat
<1>8. Elems(r) = S \cup {p}
  <2>1. ASSUME NEW k \in 1 .. Len(r) PROVE r[k] \in S \cup {p}
    BY <1>2, <1>6 DEF ListOf, Elems
  <2>2. ASSUME NEW x \in S PROVE \E k \in 1 .. Len(r) : x = r[k]
    <3>1. PICK j \in 1 .. Len(q) : x = q[j]
      BY DEF ListOf, Elems
    <3>2. j \in 1 .. Len(r)
      BY <1>1, <1>2
    <3> QED BY <1>2, <3>1, <3>2
  <2>3. Len(q) + 1 \in 1 .. Len(r)
    BY <1>1, <1>2
  <2> QED BY <1>2, <2>1, <2>2, <2>3 DEF Elems
<1> QED BY <1>2, <1>3, <1>4, <1>7, <1>8 DEF ListOf, r

-----------------------------------------------------------------------------
(* Blocks: a block is an address and its bucket *)

\* The free lists of an allocator: list 0 is the global one.
Shelves == 0 .. NWorkers
Lists(m) == [i \in Shelves |-> IF i = 0 THEN m.g.free ELSE m.l[i].free]
Stock == [Shelves -> [Buckets -> Seq(Nat)]]

Blocks(F) == {x \in Nat \X Buckets : \E i \in Shelves : x[1] \in Elems(F[i][x[2]])}
End(x) == x[1] + BucketSizes[x[2]]

\* The blocks of X lie below address mb and do not overlap.
Separate(X, mb) ==
  \A x \in X : End(x) <= mb /\ \A y \in X : x = y \/ End(x) <= y[1] \/ End(y) <= x[1]

\* No address is twice in the lists F.
Once(F) ==
  /\ \A i \in Shelves, b \in Buckets : NoRepeat(F[i][b])
  /\ \A i, j \in Shelves, b, c \in Buckets : i # j \/ b # c => Elems(F[i][b]) \cap Elems(F[j][c]) = {}

\* The blocks of T are in none of the lists F.
Out(T, F) == \A x \in T, i \in Shelves, b \in Buckets : x[1] \notin Elems(F[i][b])

\* Lists F, the blocks T that are in use, and what is cut from chunks so far.
InOrder(F, T, mb) ==
  /\ F \in Stock /\ T \subseteq Nat \X Buckets /\ mb \in Nat
  /\ Once(F) /\ Out(T, F) /\ Separate(T \cup Blocks(F), mb)

\* G is F with another list of bucket b on shelf i.
Changed(G, F, i, b, q) ==
  /\ G \in Stock /\ G[i][b] = q
  /\ \A j \in Shelves, c \in Buckets : j # i \/ c # b => G[j][c] = F[j][c]

\* The size classes are positive numbers.
LEMMA BucketFacts ==
  ASSUME NEW b \in Buckets
  PROVE  /\ BucketSizes[b] \in Nat \ {0} /\ BucketCapacity[b] \in Nat /\ BucketCapacity[b] > 1
         /\ BatchSize(b) \in Nat /\ BatchSize(b) > 0 /\ BatchSize(b) <= BucketCapacity[b]
<1>1. BucketSizes[b] \in 1 .. ChunkSize /\ BucketCapacity[b] > 1 /\ ChunkSize \in Nat
  BY MallocAssumption
<1>2. BucketCapacity[b] \in Nat
  BY MallocAssumption DEF Buckets
<1>3. BucketSizes[b] \in Nat \ {0}
  BY <1>1
<1>4. BatchSize(b) = BucketCapacity[b] \div 2
  BY DEF BatchSize
<1>5. BatchSize(b) \in Nat /\ BatchSize(b) > 0 /\ BatchSize(b) <= BucketCapacity[b]
  BY <1>1, <1>2, <1>4
<1> QED BY <1>1, <1>2, <1>3, <1>5

\* Two different blocks have different addresses.
LEMMA Addresses ==
  ASSUME NEW X, X \subseteq Nat \X Buckets, NEW mb, Separate(X, mb), NEW x \in X, NEW y \in X, x[1] = y[1]
  PROVE  x = y
<1>1. BucketSizes[x[2]] \in Nat \ {0} /\ BucketSizes[y[2]] \in Nat \ {0}
  BY BucketFacts
<1>2. x[1] \in Nat /\ y[1] \in Nat
  OBVIOUS
<1>3. x = y \/ End(x) <= y[1] \/ End(y) <= x[1]
  BY DEF Separate
<1> QED BY <1>1, <1>2, <1>3 DEF End

\* A block is taken from the list it is first in.
LEMMA TakeBlock ==
  ASSUME NEW F, NEW T, NEW mb, InOrder(F, T, mb), NEW i \in Shelves, NEW b \in Buckets, F[i][b] # <<>>,
         NEW p, p = Head(F[i][b]), NEW G, Changed(G, F, i, b, Tail(F[i][b]))
  PROVE  InOrder(G, T \cup {<<p, b>>}, mb) /\ p \in Nat /\ \A y \in T : y[1] # p
<1> DEFINE q == F[i][b]
           S == Elems(q)
           x == <<p, b>>
<1>1. ListOf(q, S)
  BY DEF InOrder, Stock, Once, ListOf
<1> HIDE DEF S
<1>2. /\ Head(q) \in S /\ Head(q) \in Nat
      /\ ListOf(Tail(q), S \ {Head(q)})
  BY <1>1, TailList
<1>3. x \in Nat \X Buckets /\ x[1] = Head(q) /\ x[2] = b /\ x[1] = p
  BY <1>2
<1>4. \A y \in T : y[1] # x[1]
  BY <1>2, <1>3 DEF InOrder, Out, S
<1>5. Elems(G[i][b]) = S \ {x[1]} /\ NoRepeat(G[i][b])
  BY <1>2 DEF Changed, ListOf
<1>6. \A j \in Shelves, c \in Buckets : Elems(G[j][c]) = IF j = i /\ c = b THEN S \ {x[1]} ELSE Elems(F[j][c])
  BY <1>5 DEF Changed
<1>7. Once(G)
  <2>1. \A j \in Shelves, c \in Buckets : NoRepeat(G[j][c])
    BY <1>5 DEF Changed, InOrder, Once
  <2>2. \A j \in Shelves, c \in Buckets : Elems(G[j][c]) \subseteq Elems(F[j][c])
    BY <1>6 DEF S
  <2>3. ASSUME NEW j \in Shelves, NEW k \in Shelves, NEW c \in Buckets, NEW d \in Buckets, j # k \/ c # d
        PROVE  Elems(G[j][c]) \cap Elems(G[k][d]) = {}
    <3>1. Elems(F[j][c]) \cap Elems(F[k][d]) = {}
      BY <2>3 DEF InOrder, Once
    <3>2. Elems(G[j][c]) \subseteq Elems(F[j][c]) /\ Elems(G[k][d]) \subseteq Elems(F[k][d])
      BY <2>2
    <3> QED BY <3>1, <3>2
  <2> QED BY <2>1, <2>3 DEF Once
<1>8. Out(T \cup {x}, G)
  <2>1. \A j \in Shelves, c \in Buckets : j # i \/ c # b => x[1] \notin Elems(F[j][c])
    BY <1>2, <1>3 DEF InOrder, Once, S
  <2>2. \A y \in T, j \in Shelves, c \in Buckets : y[1] \notin Elems(G[j][c])
    BY <1>6 DEF InOrder, Out, S
  <2>3. \A j \in Shelves, c \in Buckets : x[1] \notin Elems(G[j][c])
    BY <1>6, <2>1
  <2> QED BY <2>2, <2>3 DEF Out
<1>9. (T \cup {x}) \cup Blocks(G) \subseteq T \cup Blocks(F)
  <2>1. x \in Blocks(F)
    BY <1>2, <1>3 DEF Blocks, S
  <2>2. Blocks(G) \subseteq Blocks(F)
    BY <1>6 DEF Blocks, S
  <2> QED BY <2>1, <2>2
<1>10. Separate((T \cup {x}) \cup Blocks(G), mb)
  BY <1>9 DEF InOrder, Separate
<1> HIDE DEF x, q
<1>11. InOrder(G, T \cup {x}, mb)
  BY <1>3, <1>7, <1>8, <1>10 DEF InOrder, Changed
<1> QED BY <1>3, <1>4, <1>11 DEF x

\* A block that was in use goes to the front of a list of its bucket.
LEMMA PutBlock ==
  ASSUME NEW F, NEW T, NEW mb, InOrder(F, T, mb), NEW i \in Shelves, NEW b \in Buckets,
         NEW p, <<p, b>> \in T, NEW G, Changed(G, F, i, b, <<p>> \o F[i][b])
  PROVE  InOrder(G, T \ {<<p, b>>}, mb)
<1> DEFINE q == F[i][b]
           S == Elems(q)
           x == <<p, b>>
<1>1. ListOf(q, S)
  BY DEF InOrder, Stock, Once, ListOf
<1>2. p \in Nat /\ x[1] = p /\ x[2] = b /\ x \in Nat \X Buckets
  BY DEF InOrder
<1>3. p \notin S
  BY <1>2 DEF InOrder, Out
<1> HIDE DEF S
<1>4. ListOf(<<p>> \o q, S \cup {p})
  BY <1>1, <1>2, <1>3, ConsList
<1>5. Elems(G[i][b]) = S \cup {p} /\ NoRepeat(G[i][b])
  BY <1>4 DEF Changed, ListOf
<1>6. \A j \in Shelves, c \in Buckets : Elems(G[j][c]) = IF j = i /\ c = b THEN S \cup {p} ELSE Elems(F[j][c])
  BY <1>5 DEF Changed
<1>7. Once(G)
  <2>1. \A j \in Shelves, c \in Buckets : NoRepeat(G[j][c])
    BY <1>5 DEF Changed, InOrder, Once
  <2>2. \A j \in Shelves, c \in Buckets : p \notin Elems(F[j][c])
    BY <1>2 DEF InOrder, Out
  <2>3. ASSUME NEW j \in Shelves, NEW k \in Shelves, NEW c \in Buckets, NEW d \in Buckets, j # k \/ c # d
        PROVE  Elems(G[j][c]) \cap Elems(G[k][d]) = {}
    <3>1. Elems(F[j][c]) \cap Elems(F[k][d]) = {} /\ p \notin Elems(F[j][c]) /\ p \notin Elems(F[k][d])
      BY <2>2, <2>3 DEF InOrder, Once
    <3>2. /\ Elems(G[j][c]) = IF j = i /\ c = b THEN S \cup {p} ELSE Elems(F[j][c])
          /\ Elems(G[k][d]) = IF k = i /\ d = b THEN S \cup {p} ELSE Elems(F[k][d])
      BY <1>6
    <3> QED BY <2>3, <3>1, <3>2 DEF S
  <2> QED BY <2>1, <2>3 DEF Once
<1>8. Out(T \ {x}, G)
  <2>1. ASSUME NEW y \in T \ {x} PROVE y[1] # p
    <3>1. x \in T \cup Blocks(F) /\ y \in T \cup Blocks(F) /\ T \cup Blocks(F) \subseteq Nat \X Buckets
      BY DEF InOrder, Blocks
    <3> QED BY <1>2, <3>1, Addresses DEF InOrder
  <2>2. \A y \in T, j \in Shelves, c \in Buckets : y[1] \notin Elems(F[j][c])
    BY DEF InOrder, Out
  <2> HIDE DEF x
  <2> QED BY <1>6, <2>1, <2>2 DEF Out, S
<1>9. (T \ {x}) \cup Blocks(G) \subseteq T \cup Blocks(F)
  <2>1. ASSUME NEW y \in Blocks(G) PROVE y \in T \cup Blocks(F)
    <3>1. PICK j \in Shelves : y \in Nat \X Buckets /\ y[1] \in Elems(G[j][y[2]])
      BY DEF Blocks
    <3>2. CASE j = i /\ y[2] = b /\ y[1] = p
      BY <3>1, <3>2
    <3>3. CASE ~(j = i /\ y[2] = b /\ y[1] = p)
      <4>1. y[1] \in Elems(F[j][y[2]])
        BY <1>6, <3>1, <3>3 DEF S
      <4> QED BY <3>1, <4>1 DEF Blocks
    <3> QED BY <3>2, <3>3
  <2> QED BY <2>1
<1>10. Separate((T \ {x}) \cup Blocks(G), mb)
  BY <1>9 DEF InOrder, Separate
<1> HIDE DEF x
<1>11. InOrder(G, T \ {x}, mb)
  BY <1>7, <1>8, <1>10 DEF InOrder, Changed
<1> QED BY <1>11 DEF x

\* A new block is cut beyond all the others.
LEMMA CutBlock ==
  ASSUME NEW F, NEW T, NEW mb, InOrder(F, T, mb), NEW p \in Nat, mb <= p, NEW b \in Buckets
  PROVE  InOrder(F, T \cup {<<p, b>>}, p + BucketSizes[b]) /\ \A y \in T : y[1] # p
<1> DEFINE x == <<p, b>>
           X == T \cup Blocks(F)
<1>1. x \in Nat \X Buckets /\ x[1] = p /\ x[2] = b /\ End(x) = p + BucketSizes[b]
  BY DEF End
<1>2. BucketSizes[b] \in Nat \ {0} /\ mb \in Nat
  BY BucketFacts DEF InOrder
<1>3. ASSUME NEW y \in X PROVE /\ y \in Nat \X Buckets /\ y[1] \in Nat /\ BucketSizes[y[2]] \in Nat \ {0}
                               /\ End(y) \in Nat /\ End(y) <= mb
  <2>1. y \in Nat \X Buckets
    BY DEF InOrder, Blocks
  <2>2. BucketSizes[y[2]] \in Nat \ {0}
    BY <2>1, BucketFacts
  <2>3. End(y) <= mb
    BY DEF InOrder, Separate
  <2> QED BY <2>1, <2>2, <2>3 DEF End
<1>4. \A y \in X : End(y) <= p /\ y[1] < p
  BY <1>2, <1>3 DEF End
<1>5. Separate(X \cup {x}, p + BucketSizes[b])
  <2> HIDE DEF x, X
  <2>1. \A y \in X : \A z \in X : y = z \/ End(y) <= z[1] \/ End(z) <= y[1]
    BY DEF InOrder, Separate, X
  <2>2. \A y \in X : End(y) <= p + BucketSizes[b]
    BY <1>2, <1>3, <1>4
  <2> QED BY <1>1, <1>2, <1>4, <2>1, <2>2 DEF Separate
<1>6. Out(T \cup {x}, F)
  <2>1. ASSUME NEW i \in Shelves, NEW c \in Buckets PROVE p \notin Elems(F[i][c])
    <3> SUFFICES ASSUME p \in Elems(F[i][c]) PROVE FALSE
      OBVIOUS
    <3>1. <<p, c>> \in X /\ <<p, c>>[1] = p
      BY DEF Blocks
    <3> QED BY <1>4, <3>1
  <2> QED BY <2>1 DEF InOrder, Out
<1>7. (T \cup {x}) \cup Blocks(F) = X \cup {x}
  OBVIOUS
<1>8. \A y \in T : y[1] # p
  BY <1>4
<1> QED BY <1>1, <1>2, <1>5, <1>6, <1>7, <1>8 DEF InOrder

-----------------------------------------------------------------------------
(* One block moves *)

Descriptor == [free : [Buckets -> Seq(Nat)], allocated : [Buckets -> Int], wasted : [Buckets -> Int],
               used : Int, num_malloc : [Tags -> Int]]
Chunk == [mem_begin : Nat, mem_end : Nat, allocated : Nat, wasted : Int]
Mem == [l : [Workers -> Descriptor], g : Descriptor, pool : Chunk]

\* The blocks T are in use, the others of allocator m in its lists.
Holding(m, T) ==
  /\ m \in Mem /\ InOrder(Lists(m), T, m.pool.mem_begin)
  /\ m.pool.mem_begin <= m.pool.mem_end /\ m.pool.mem_end <= m.pool.allocated

\* A batch for bucket b of worker w leaves the other workers, the worker's
\* other lists and the counters of the tags alone.
Batched(m, n, w, b) ==
  /\ \A v \in Workers : v # w => n.l[v] = m.l[v]
  /\ \A c \in Buckets : c # b => n.l[w].free[c] = m.l[w].free[c]
  /\ n.l[w].num_malloc = m.l[w].num_malloc /\ n.g.num_malloc = m.g.num_malloc

\* Another list on one shelf.
LEMMA ChangedTo ==
  ASSUME NEW F \in Stock, NEW i \in Shelves, NEW b \in Buckets, NEW q \in Seq(Nat)
  PROVE  Changed([F EXCEPT ![i][b] = q], F, i, b, q)
<1> DEFINE G == [F EXCEPT ![i][b] = q]
<1>1. F[i] \in [Buckets -> Seq(Nat)]
  BY DEF Stock
<1>2. [F[i] EXCEPT ![b] = q] \in [Buckets -> Seq(Nat)]
  BY <1>1
<1>3. G = [F EXCEPT ![i] = [F[i] EXCEPT ![b] = q]]
  OBVIOUS
<1>4. G \in Stock
  BY <1>2, <1>3 DEF Stock
<1>5. G[i] = [F[i] EXCEPT ![b] = q] /\ \A j \in Shelves : j # i => G[j] = F[j]
  BY <1>3 DEF Stock
<1> HIDE DEF G
<1>6. G[i][b] = q /\ \A c \in Buckets : c # b => G[i][c] = F[i][c]
  BY <1>1, <1>5
<1>7. Changed(G, F, i, b, q)
  BY <1>4, <1>5, <1>6 DEF Changed
<1> QED BY <1>7 DEF G

\* The workers are the shelves above 0.
LEMMA ShelfFacts ==
  /\ 0 \in Shelves /\ \A w \in Workers : w \in Shelves /\ w # 0
  /\ \A i \in Shelves : i # 0 => i \in Workers
BY MallocAssumption DEF Shelves, Workers

\* The lists of an allocator.
LEMMA ListsAre ==
  ASSUME NEW m \in Mem
  PROVE  /\ Lists(m) \in Stock /\ Lists(m)[0] = m.g.free
         /\ \A w \in Workers : Lists(m)[w] = m.l[w].free
<1>1. \A w \in Workers : m.l[w].free \in [Buckets -> Seq(Nat)]
  BY DEF Mem, Descriptor
<1>2. m.g.free \in [Buckets -> Seq(Nat)]
  BY DEF Mem, Descriptor
<1>3. \A i \in Shelves : Lists(m)[i] = IF i = 0 THEN m.g.free ELSE m.l[i].free
  BY DEF Lists
<1>4. DOMAIN Lists(m) = Shelves /\ Lists(m) = [i \in Shelves |-> Lists(m)[i]]
  BY DEF Lists
<1>5. \A i \in Shelves : Lists(m)[i] \in [Buckets -> Seq(Nat)]
  BY <1>1, <1>2, <1>3, ShelfFacts
<1>6. Lists(m) \in Stock
  BY <1>4, <1>5 DEF Stock
<1> QED BY <1>3, <1>6, ShelfFacts

\* Two allocators differ in the list of bucket b of shelf i.
LEMMA ListsChanged ==
  ASSUME NEW m \in Mem, NEW F \in Stock, NEW i \in Shelves, NEW b \in Buckets, NEW q,
         i = 0 => /\ m.g.free[b] = q /\ (\A c \in Buckets : c # b => m.g.free[c] = F[0][c])
                  /\ \A v \in Workers : m.l[v].free = F[v],
         i # 0 => /\ m.l[i].free[b] = q /\ (\A c \in Buckets : c # b => m.l[i].free[c] = F[i][c])
                  /\ (\A v \in Workers : v # i => m.l[v].free = F[v]) /\ m.g.free = F[0]
  PROVE  Changed(Lists(m), F, i, b, q)
<1>1. /\ Lists(m) \in Stock /\ Lists(m)[0] = m.g.free
      /\ \A w \in Workers : Lists(m)[w] = m.l[w].free
  BY ListsAre
<1>2. Lists(m)[i][b] = q
  BY <1>1, ShelfFacts
<1>3. ASSUME NEW j \in Shelves, NEW c \in Buckets, j # i \/ c # b PROVE Lists(m)[j][c] = F[j][c]
  <2>1. CASE j = 0
    BY <1>1, <1>3, <2>1
  <2>2. CASE j # 0
    <3>1. j \in Workers /\ Lists(m)[j] = m.l[j].free
      BY <1>1, <2>2, ShelfFacts
    <3> QED BY <1>3, <2>2, <3>1
  <2> QED BY <2>1, <2>2
<1> QED BY <1>1, <1>2, <1>3 DEF Changed

\* The descriptor of a list with another list for bucket b.
LEMMA DescriptorFree ==
  ASSUME NEW d \in Descriptor, NEW b \in Buckets, NEW q \in Seq(Nat)
  PROVE  LET e == [d EXCEPT !.free[b] = q] IN
         /\ e \in Descriptor /\ e.free[b] = q /\ \A c \in Buckets : c # b => e.free[c] = d.free[c]
         /\ e.used = d.used /\ e.num_malloc = d.num_malloc /\ e.allocated = d.allocated
         /\ e.wasted = d.wasted
<1> DEFINE f == [d.free EXCEPT ![b] = q]
           e == [d EXCEPT !.free[b] = q]
<1>1. d.free \in [Buckets -> Seq(Nat)]
  BY DEF Descriptor
<1>2. f \in [Buckets -> Seq(Nat)] /\ f[b] = q /\ \A c \in Buckets : c # b => f[c] = d.free[c]
  BY <1>1
<1>3. e = [d EXCEPT !.free = f]
  OBVIOUS
<1> HIDE DEF f
<1>4. /\ e.free = f /\ e.used = d.used /\ e.num_malloc = d.num_malloc /\ e.allocated = d.allocated
      /\ e.wasted = d.wasted
  BY <1>3 DEF Descriptor
<1>5. e \in Descriptor
  BY <1>2, <1>3 DEF Descriptor
<1> HIDE DEF e
<1>6. e.free[b] = q /\ \A c \in Buckets : c # b => e.free[c] = d.free[c]
  BY <1>2, <1>4
<1> QED BY <1>4, <1>5, <1>6 DEF e

\* What add_to_free_list does to a descriptor.
LEMMA AddIs ==
  ASSUME NEW d \in Descriptor, NEW b \in Buckets, NEW p \in Nat
  PROVE  LET e == AddToFreeList(d, b, p) IN
         /\ e \in Descriptor /\ e.free[b] = <<p>> \o d.free[b] /\ \A c \in Buckets : c # b => e.free[c] = d.free[c]
         /\ Len(e.free[b]) = Len(d.free[b]) + 1 /\ e.free[b] # <<>>
         /\ e.used = d.used /\ e.num_malloc = d.num_malloc /\ e.allocated = d.allocated /\ e.wasted = d.wasted
<1> DEFINE q == <<p>> \o d.free[b]
           e == AddToFreeList(d, b, p)
<1>1. d.free[b] \in Seq(Nat)
  BY DEF Descriptor
<1>2. q \in Seq(Nat) /\ Len(q) = Len(d.free[b]) + 1 /\ q # <<>>
  BY <1>1
<1>3. e = [d EXCEPT !.free[b] = q]
  BY DEF AddToFreeList
<1> HIDE DEF q, e
<1>4. /\ e \in Descriptor /\ e.free[b] = q /\ \A c \in Buckets : c # b => e.free[c] = d.free[c]
      /\ e.used = d.used /\ e.num_malloc = d.num_malloc /\ e.allocated = d.allocated
      /\ e.wasted = d.wasted
  BY <1>2, <1>3, DescriptorFree
<1> QED BY <1>2, <1>4 DEF q, e

\* What remove_from_free_list does to a descriptor.
LEMMA RemoveIs ==
  ASSUME NEW d \in Descriptor, NEW b \in Buckets, d.free[b] # <<>>
  PROVE  LET e == RemoveFromFreeList(d, b) IN
         /\ e \in Descriptor /\ e.free[b] = Tail(d.free[b]) /\ \A c \in Buckets : c # b => e.free[c] = d.free[c]
         /\ Len(e.free[b]) = Len(d.free[b]) - 1
         /\ e.used = d.used /\ e.num_malloc = d.num_malloc /\ e.allocated = d.allocated /\ e.wasted = d.wasted
         /\ Head(d.free[b]) \in Nat
<1> DEFINE q == Tail(d.free[b])
           e == RemoveFromFreeList(d, b)
<1>1. d.free[b] \in Seq(Nat)
  BY DEF Descriptor
<1>2. q \in Seq(Nat) /\ Len(q) = Len(d.free[b]) - 1 /\ Head(d.free[b]) \in Nat
  BY <1>1
<1>3. e = [d EXCEPT !.free[b] = q]
  BY DEF RemoveFromFreeList
<1> HIDE DEF q, e
<1>4. /\ e \in Descriptor /\ e.free[b] = q /\ \A c \in Buckets : c # b => e.free[c] = d.free[c]
      /\ e.used = d.used /\ e.num_malloc = d.num_malloc /\ e.allocated = d.allocated
      /\ e.wasted = d.wasted
  BY <1>2, <1>3, DescriptorFree
<1> QED BY <1>2, <1>4 DEF q, e

\* A descriptor with another counter of the bytes in use.
LEMMA UsedIs ==
  ASSUME NEW d \in Descriptor, NEW k \in Int
  PROVE  LET e == [d EXCEPT !.used = k] IN
         /\ e \in Descriptor /\ e.free = d.free /\ e.num_malloc = d.num_malloc
         /\ e.allocated = d.allocated /\ e.wasted = d.wasted /\ e.used = k
  BY DEF Descriptor

\* A turn of im_allocate_batch gives the worker one block.
LEMMA GlobalImAllocStep ==
  ASSUME NEW m, NEW T, Holding(m, T), NEW w \in Workers, NEW b \in Buckets
  PROVE  LET n == GlobalImAlloc(m, <<w, b>>) IN
         Holding(n, T) /\ Batched(m, n, w, b) /\ Len(n.l[w].free[b]) = Len(m.l[w].free[b]) + 1
<1> DEFINE n == GlobalImAlloc(m, <<w, b>>)
           size == BucketSizes[b]
           t == [m EXCEPT !.g.used = @ + size]
           u == IF t.pool.mem_begin + size > t.pool.mem_end THEN ExtendGlobalPool(t) ELSE t
           F == Lists(m)
           mb == m.pool.mem_begin
<1>1. m \in Mem /\ InOrder(F, T, mb) /\ F \in Stock /\ m.g \in Descriptor /\ m.l[w] \in Descriptor /\ m.pool \in Chunk
  BY DEF Holding, InOrder, Mem
<1>2. size \in Nat \ {0} /\ size <= ChunkSize /\ ChunkSize \in Nat
  BY BucketFacts, MallocAssumption
<1>3. w \in Shelves /\ w # 0 /\ 0 \in Shelves
  BY ShelfFacts
<1>4. F[0] = m.g.free /\ \A v \in Workers : F[v] = m.l[v].free
  BY <1>1, ListsAre
<1>5. CASE m.g.free[b] # <<>>
  <2> DEFINE p == Head(m.g.free[b])
             h == [m.g EXCEPT !.used = @ + size]
             g == RemoveFromFreeList(h, b)
             d == AddToFreeList(m.l[w], b, p)
             G == [F EXCEPT ![0][b] = Tail(F[0][b])]
  <2>1. h \in Descriptor /\ h.free = m.g.free /\ h.num_malloc = m.g.num_malloc
    <3>1. m.g.used + size \in Int
      BY <1>1, <1>2 DEF Descriptor
    <3> QED BY <1>1, <3>1, UsedIs
  <2>2. t = [m EXCEPT !.g = h] /\ t.g = h /\ t.l = m.l /\ t.pool = m.pool
    BY <1>1 DEF Mem
  <2>3. n = [t EXCEPT !.g = RemoveFromFreeList(@, b), !.l[w] = AddToFreeList(@, b, Head(t.g.free[b]))]
    <3> HIDE DEF h
    <3>1. t.g.free[b] # <<>>
      BY <1>5, <2>1, <2>2
    <3> QED BY <3>1 DEF GlobalImAlloc
  <2>3a. n = [m EXCEPT !.g = g, !.l = [m.l EXCEPT ![w] = d]]
    <3> HIDE DEF h, n, t
    <3>1. /\ t = [l |-> m.l, g |-> h, pool |-> m.pool]
      BY <1>1, <2>2 DEF Mem
    <3> QED BY <1>1, <2>1, <2>2, <2>3, <3>1 DEF Mem
  <2> HIDE DEF h, n
  <2>4. /\ g \in Descriptor /\ g.free[b] = Tail(m.g.free[b]) /\ \A c \in Buckets : c # b => g.free[c] = m.g.free[c]
        /\ g.num_malloc = m.g.num_malloc /\ p \in Nat
    BY <1>5, <2>1, RemoveIs
  <2>5. /\ d \in Descriptor /\ d.free[b] = <<p>> \o m.l[w].free[b] /\ \A c \in Buckets : c # b => d.free[c] = m.l[w].free[c]
        /\ Len(d.free[b]) = Len(m.l[w].free[b]) + 1 /\ d.num_malloc = m.l[w].num_malloc
    BY <1>1, <2>4, AddIs
  <2> HIDE DEF g, d, t
  <2>6. n \in Mem /\ n.g = g /\ n.l = [m.l EXCEPT ![w] = d] /\ n.pool = m.pool
    <3>1. m.l \in [Workers -> Descriptor] /\ [m.l EXCEPT ![w] = d] \in [Workers -> Descriptor]
      BY <1>1, <2>5 DEF Mem
    <3> QED BY <1>1, <2>3a, <2>4, <3>1 DEF Mem
  <2>7. n.l[w] = d /\ \A v \in Workers : v # w => n.l[v] = m.l[v]
    BY <1>1, <2>6 DEF Mem
  <2>8. Changed(G, F, 0, b, Tail(F[0][b]))
    <3>1. Tail(F[0][b]) \in Seq(Nat)
      BY <1>1, <1>4, <1>5 DEF Descriptor
    <3> QED BY <1>1, <1>3, <3>1, ChangedTo
  <2> HIDE DEF n, F, G
  <2>9. G \in Stock /\ G[0][b] = g.free[b] /\ (\A c \in Buckets : c # b => G[0][c] = g.free[c])
        /\ \A v \in Workers : G[v] = m.l[v].free
    <3>1. \A v \in Workers : v # 0 /\ F[v] \in [Buckets -> Seq(Nat)] /\ G[v] \in [Buckets -> Seq(Nat)]
      BY <1>1, <2>8, ShelfFacts DEF Stock, Changed
    <3>2. \A v \in Workers, c \in Buckets : G[v][c] = F[v][c]
      BY <1>3, <2>8, <3>1, ShelfFacts DEF Changed
    <3>3. \A v \in Workers : G[v] = F[v]
      BY <3>1, <3>2
    <3> QED BY <1>3, <1>4, <2>4, <2>8, <3>3 DEF Changed
  <2>10. Changed(Lists(n), G, w, b, <<p>> \o G[w][b])
    <3>1. G[0] = g.free
      <4>1. G[0] \in [Buckets -> Seq(Nat)] /\ g.free \in [Buckets -> Seq(Nat)]
        BY <1>3, <2>4, <2>9 DEF Stock, Descriptor
      <4>2. \A c \in Buckets : G[0][c] = g.free[c]
        BY <2>9
      <4> QED BY <4>1, <4>2
    <3>2. G[w] = m.l[w].free
      BY <2>9
    <3>3. n.g.free = G[0] /\ (\A v \in Workers : v # w => n.l[v].free = G[v])
      BY <2>6, <2>7, <2>9, <3>1
    <3>4. n.l[w].free[b] = <<p>> \o G[w][b] /\ (\A c \in Buckets : c # b => n.l[w].free[c] = G[w][c])
      BY <2>5, <2>7, <3>2
    <3> HIDE DEF p
    <3> QED BY <1>3, <2>6, <2>9, <3>3, <3>4, ListsChanged
  <2>11. InOrder(G, T \cup {<<p, b>>}, mb) /\ <<p, b>> \notin T
    <3>1. F[0][b] = m.g.free[b]
      BY <1>4
    <3>2. F[0][b] # <<>> /\ p = Head(F[0][b])
      BY <1>5, <3>1
    <3>3. InOrder(F, T, mb)
      BY <1>1
    <3> HIDE DEF mb, p
    <3>4. InOrder(G, T \cup {<<p, b>>}, mb) /\ p \in Nat /\ \A y \in T : y[1] # p
      BY <1>3, <2>8, <3>2, <3>3, TakeBlock
    <3> QED BY <3>4
  <2>12. InOrder(Lists(n), T, mb)
    <3>1. InOrder(Lists(n), (T \cup {<<p, b>>}) \ {<<p, b>>}, mb)
      BY <1>3, <2>10, <2>11, PutBlock
    <3>2. (T \cup {<<p, b>>}) \ {<<p, b>>} = T
      BY <2>11
    <3> QED BY <3>1, <3>2
  <2>13. Holding(n, T)
    BY <2>6, <2>12 DEF Holding
  <2>14. Batched(m, n, w, b)
    BY <2>4, <2>5, <2>6, <2>7 DEF Batched
  <2> QED BY <2>5, <2>7, <2>13, <2>14 DEF n
<1>6. CASE m.g.free[b] = <<>>
  <2> DEFINE p == u.pool.mem_begin
             d == AddToFreeList(m.l[w], b, p)
             k == [u.pool EXCEPT !.mem_begin = @ + size]
  <2> DEFINE h == [m.g EXCEPT !.used = m.g.used + size]
  <2>0. h \in Descriptor /\ h.free = m.g.free /\ h.num_malloc = m.g.num_malloc
    <3>1. m.g.used + size \in Int
      BY <1>1, <1>2 DEF Descriptor
    <3> QED BY <1>1, <3>1, UsedIs
  <2>1. t = [m EXCEPT !.g = h] /\ t.g = h /\ t.l = m.l /\ t.pool = m.pool /\ t \in Mem
    <3>1. t = [m EXCEPT !.g = h]
      OBVIOUS
    <3> HIDE DEF t, h
    <3> QED BY <1>1, <2>0, <3>1 DEF Mem
  <2>2. t.g \in Descriptor /\ t.g.free = m.g.free /\ t.g.num_malloc = m.g.num_malloc
    BY <2>0, <2>1
  <2>3. n = [u EXCEPT !.pool.mem_begin = @ + size, !.l[w] = AddToFreeList(@, b, u.pool.mem_begin)]
    BY <1>6, <2>2 DEF GlobalImAlloc
  <2> HIDE DEF t
  <2>4. /\ u.g = t.g /\ u.l = m.l /\ u.pool \in Chunk /\ u \in Mem
        /\ mb <= p /\ p + size <= u.pool.mem_end /\ u.pool.mem_end <= u.pool.allocated
    <3>1. CASE ~(t.pool.mem_begin + size > t.pool.mem_end)
      <4>1. u = t
        BY <3>1
      <4> QED BY <1>1, <1>2, <2>1, <3>1, <4>1 DEF Chunk, Holding
    <3>2. CASE t.pool.mem_begin + size > t.pool.mem_end
      <4>1. u = ExtendGlobalPool(t)
        BY <3>2
      <4>2. /\ u.g = t.g /\ u.l = t.l /\ u \in [l : {t.l}, g : {t.g}, pool : {u.pool}]
            /\ u.pool = [mem_begin |-> t.pool.allocated, mem_end |-> t.pool.allocated + ChunkSize,
                         allocated |-> t.pool.allocated + ChunkSize,
                         wasted |-> t.pool.wasted + (t.pool.mem_end - t.pool.mem_begin)]
        BY <2>1, <4>1 DEF ExtendGlobalPool, Mem
      <4> HIDE DEF u
      <4>3. /\ u.pool \in Chunk /\ u.pool.mem_begin = t.pool.allocated
            /\ u.pool.mem_end = t.pool.allocated + ChunkSize /\ u.pool.allocated = t.pool.allocated + ChunkSize
        <5>1. /\ t.pool.mem_begin \in Nat /\ t.pool.mem_end \in Nat /\ t.pool.allocated \in Nat /\ t.pool.wasted \in Int
          BY <1>1, <2>1 DEF Chunk
        <5>2. t.pool.allocated + ChunkSize \in Nat /\ t.pool.wasted + (t.pool.mem_end - t.pool.mem_begin) \in Int
          BY <1>2, <5>1
        <5> QED BY <4>2, <5>1, <5>2 DEF Chunk
      <4>4. u \in Mem
        BY <2>1, <4>2, <4>3 DEF Mem
      <4>5. t.pool.allocated \in Nat /\ mb \in Nat /\ m.pool.mem_end \in Nat /\ mb <= m.pool.mem_end /\ m.pool.mem_end <= t.pool.allocated
        BY <1>1, <2>1 DEF Chunk, Holding
      <4> QED BY <1>2, <2>1, <4>2, <4>3, <4>4, <4>5
    <3> QED BY <3>1, <3>2
  <2> HIDE DEF u
  <2>5. p \in Nat /\ k \in Chunk /\ k.mem_begin = p + size /\ k.mem_end = u.pool.mem_end /\ k.allocated = u.pool.allocated
    BY <1>2, <2>4 DEF Chunk
  <2>6. /\ d \in Descriptor /\ d.free[b] = <<p>> \o m.l[w].free[b] /\ \A c \in Buckets : c # b => d.free[c] = m.l[w].free[c]
        /\ Len(d.free[b]) = Len(m.l[w].free[b]) + 1 /\ d.num_malloc = m.l[w].num_malloc
    BY <1>1, <2>5, AddIs
  <2>7. n = [u EXCEPT !.pool = k, !.l[w] = d]
    BY <2>3, <2>4 DEF Mem
  <2> HIDE DEF k, d, n
  <2>8. n \in Mem /\ n.g = t.g /\ n.l = [m.l EXCEPT ![w] = d] /\ n.pool = k
    BY <1>1, <2>1, <2>4, <2>5, <2>6, <2>7 DEF Mem
  <2>9. n.l[w] = d /\ \A v \in Workers : v # w => n.l[v] = m.l[v]
    BY <1>1, <2>8 DEF Mem
  <2>10. Changed(Lists(n), F, w, b, <<p>> \o F[w][b])
    <3>1. n.g.free = F[0] /\ \A v \in Workers : v # w => n.l[v].free = F[v]
      BY <1>4, <2>2, <2>8, <2>9
    <3>2. n.l[w].free[b] = <<p>> \o F[w][b] /\ \A c \in Buckets : c # b => n.l[w].free[c] = F[w][c]
      BY <1>4, <2>6, <2>9
    <3> HIDE DEF F
    <3> QED BY <1>1, <1>3, <2>8, <3>1, <3>2, ListsChanged
  <2> HIDE DEF F
  <2>11. InOrder(F, T \cup {<<p, b>>}, p + size) /\ <<p, b>> \notin T
    <3>1. InOrder(F, T \cup {<<p, b>>}, p + size) /\ \A y \in T : y[1] # p
      BY <1>1, <2>4, <2>5, CutBlock
    <3> QED BY <3>1
  <2>12. InOrder(Lists(n), T, p + size)
    <3>1. InOrder(Lists(n), (T \cup {<<p, b>>}) \ {<<p, b>>}, p + size)
      BY <1>3, <2>10, <2>11, PutBlock
    <3>2. (T \cup {<<p, b>>}) \ {<<p, b>>} = T
      BY <2>11
    <3> QED BY <3>1, <3>2
  <2>13. Holding(n, T)
    BY <2>4, <2>5, <2>8, <2>12 DEF Holding
  <2>14. Batched(m, n, w, b)
    BY <2>2, <2>6, <2>8, <2>9 DEF Batched
  <2> QED BY <2>6, <2>9, <2>13, <2>14 DEF n
<1> QED BY <1>5, <1>6

\* A block goes from one shelf to another.
LEMMA MoveBlock ==
  ASSUME NEW F, NEW T, NEW mb, InOrder(F, T, mb), NEW i \in Shelves, NEW j \in Shelves, i # j,
         NEW b \in Buckets, F[i][b] # <<>>, NEW p, p = Head(F[i][b]), NEW H \in Stock,
         H[i][b] = Tail(F[i][b]), H[j][b] = <<p>> \o F[j][b],
         \A k \in Shelves, c \in Buckets : c # b \/ (k # i /\ k # j) => H[k][c] = F[k][c]
  PROVE  InOrder(H, T, mb)
<1> DEFINE q == Tail(F[i][b])
           G == [F EXCEPT ![i][b] = q]
<1>1. F \in Stock /\ F[i][b] \in Seq(Nat)
  BY DEF InOrder, Stock
<1>2. Changed(G, F, i, b, q)
  <2>1. q \in Seq(Nat)
    BY <1>1
  <2> HIDE DEF q
  <2> QED BY <1>1, <2>1, ChangedTo
<1> HIDE DEF G
<1>3. InOrder(G, T \cup {<<p, b>>}, mb) /\ p \in Nat /\ \A y \in T : y[1] # p
  BY ONLY <1>2, InOrder(F, T, mb), i \in Shelves, b \in Buckets, F[i][b] # <<>>, p = Head(F[i][b]), TakeBlock
<1>4. Changed(H, G, j, b, <<p>> \o G[j][b])
  <2>1. G[j][b] = F[j][b]
    BY <1>2 DEF Changed
  <2>2. \A k \in Shelves, c \in Buckets : k # j \/ c # b => H[k][c] = G[k][c]
    BY <1>2 DEF Changed
  <2> QED BY <2>1, <2>2 DEF Changed
<1>5. InOrder(H, (T \cup {<<p, b>>}) \ {<<p, b>>}, mb)
  BY <1>3, <1>4, PutBlock
<1>6. (T \cup {<<p, b>>}) \ {<<p, b>>} = T
  BY <1>3
<1> QED BY <1>5, <1>6

\* The descriptor of a list with another count of its blocks.
LEMMA AllocatedIs ==
  ASSUME NEW d \in Descriptor, NEW b \in Buckets, NEW k \in Int
  PROVE  LET e == [d EXCEPT !.allocated[b] = k] IN
         /\ e \in Descriptor /\ e.free = d.free /\ e.num_malloc = d.num_malloc
         /\ e.used = d.used /\ e.wasted = d.wasted
<1> DEFINE f == [d.allocated EXCEPT ![b] = k]
           e == [d EXCEPT !.allocated[b] = k]
<1>1. d.allocated \in [Buckets -> Int]
  BY DEF Descriptor
<1>2. f \in [Buckets -> Int]
  BY <1>1
<1>3. e = [d EXCEPT !.allocated = f]
  OBVIOUS
<1> HIDE DEF f
<1> QED BY <1>2, <1>3 DEF Descriptor

\* A turn of im_free_batch takes one block of the worker.
LEMMA ImFreeBlockStep ==
  ASSUME NEW m, NEW T, Holding(m, T), NEW w \in Workers, NEW b \in Buckets, m.l[w].free[b] # <<>>
  PROVE  LET n == ImFreeBlock(m, <<w, b>>) IN
         Holding(n, T) /\ Batched(m, n, w, b) /\ Len(n.l[w].free[b]) = Len(m.l[w].free[b]) - 1
<1> DEFINE n == ImFreeBlock(m, <<w, b>>)
           F == Lists(m)
           mb == m.pool.mem_begin
           p == Head(m.l[w].free[b])
           r == RemoveFromFreeList(m.l[w], b)
           d == [r EXCEPT !.allocated[b] = r.allocated[b] - 1]
           a == AddToFreeList(m.g, b, p)
           g == [a EXCEPT !.used = a.used - BucketSizes[b]]
<1>1. m \in Mem /\ InOrder(F, T, mb) /\ F \in Stock /\ m.g \in Descriptor /\ m.l[w] \in Descriptor /\ m.pool \in Chunk
  BY DEF Holding, InOrder, Mem
<1>2. w \in Shelves /\ w # 0 /\ 0 \in Shelves
  BY ShelfFacts
<1>3. F[0] = m.g.free /\ \A v \in Workers : F[v] = m.l[v].free
  BY <1>1, ListsAre
<1>4. n = [m EXCEPT !.l = [m.l EXCEPT ![w] = d], !.g = g]
  BY <1>1 DEF ImFreeBlock, Mem
<1> HIDE DEF n
<1>5. /\ r \in Descriptor /\ r.free[b] = Tail(m.l[w].free[b]) /\ \A c \in Buckets : c # b => r.free[c] = m.l[w].free[c]
      /\ Len(r.free[b]) = Len(m.l[w].free[b]) - 1 /\ r.num_malloc = m.l[w].num_malloc /\ p \in Nat
  BY <1>1, RemoveIs
<1> HIDE DEF r
<1>6. d \in Descriptor /\ d.free = r.free /\ d.num_malloc = r.num_malloc
  <2>1. r.allocated[b] - 1 \in Int
    BY <1>5 DEF Descriptor
  <2> QED BY <1>5, <2>1, AllocatedIs
<1> HIDE DEF d
<1>7. /\ a \in Descriptor /\ a.free[b] = <<p>> \o m.g.free[b] /\ \A c \in Buckets : c # b => a.free[c] = m.g.free[c]
      /\ a.num_malloc = m.g.num_malloc
  BY <1>1, <1>5, AddIs
<1> HIDE DEF a
<1>8. g \in Descriptor /\ g.free = a.free /\ g.num_malloc = a.num_malloc
  <2>1. a.used - BucketSizes[b] \in Int
    BY <1>7, BucketFacts DEF Descriptor
  <2> QED BY <1>7, <2>1, UsedIs
<1> HIDE DEF g, p
<1>9. n \in Mem /\ n.g = g /\ n.l = [m.l EXCEPT ![w] = d] /\ n.pool = m.pool
  <2>1. m.l \in [Workers -> Descriptor] /\ [m.l EXCEPT ![w] = d] \in [Workers -> Descriptor]
    BY <1>1, <1>6 DEF Mem
  <2> QED BY <1>1, <1>4, <1>8, <2>1 DEF Mem
<1>10. n.l[w] = d /\ \A v \in Workers : v # w => n.l[v] = m.l[v]
  BY <1>1, <1>9 DEF Mem
<1>11. InOrder(Lists(n), T, mb)
  <2> DEFINE H == Lists(n)
  <2>0. H \in Stock /\ H[0] = g.free /\ \A v \in Workers : H[v] = n.l[v].free
    BY <1>9, ListsAre
  <2>1. H \in Stock /\ H[0] = g.free /\ H[w] = d.free /\ \A v \in Workers : v # w => H[v] = F[v]
    <3> HIDE DEF H, F
    <3> QED BY <1>3, <1>10, <2>0
  <2> HIDE DEF H, F
  <2>2. H[w][b] = Tail(F[w][b]) /\ H[0][b] = <<p>> \o F[0][b]
    BY <1>3, <1>5, <1>6, <1>7, <1>8, <2>1
  <2>3. ASSUME NEW k \in Shelves, NEW c \in Buckets, c # b \/ (k # w /\ k # 0) PROVE H[k][c] = F[k][c]
    <3>1. CASE k = 0
      BY <1>3, <1>7, <1>8, <2>1, <2>3, <3>1
    <3>2. CASE k = w
      BY <1>2, <1>3, <1>5, <1>6, <2>1, <2>3, <3>2
    <3>3. CASE k # 0 /\ k # w
      BY <2>1, <3>3, ShelfFacts
    <3> QED BY <3>1, <3>2, <3>3
  <2>4. F[w][b] # <<>> /\ p = Head(F[w][b])
    BY <1>3 DEF p
  <2> HIDE DEF mb
  <2>5. InOrder(H, T, mb)
    BY <1>1, <1>2, <2>1, <2>2, <2>3, <2>4, MoveBlock
  <2> QED BY <2>5 DEF H
<1>12. Holding(n, T)
  BY <1>9, <1>11 DEF Holding
<1>13. Batched(m, n, w, b)
  BY <1>5, <1>6, <1>7, <1>8, <1>9, <1>10 DEF Batched
<1>14. Len(n.l[w].free[b]) = Len(m.l[w].free[b]) - 1
  BY <1>5, <1>6, <1>10
<1> QED BY <1>12, <1>13, <1>14 DEF n

-----------------------------------------------------------------------------
(* Sums over the workers *)

Sums == INSTANCE FoldInduction WITH Op <- Plus

\* What SumOf adds up.
LEMMA SumSteps ==
  ASSUME NEW f \in [Workers -> Int]
  PROVE  \E h : /\ h[0] = 0 /\ h[NWorkers] = SumOf(f) 
                /\ \A k \in 1 .. NWorkers : h[k] = h[k - 1] + f[k]
<1>1. NWorkers \in Nat /\ DOMAIN f = 1 .. NWorkers
  BY MallocAssumption DEF Workers
<1>2. PICK h : Sums!IsLoop(h, 0, f, NWorkers)
  BY <1>1, Sums!FoldSteps
<1>3. FoldLeft(Plus, 0, f) = Sums!FoldLeft(Plus, 0, f)
  BY DEF FoldLeft, Sums!FoldLeft, MapThenFoldSet, Sums!MapThenFoldSet, Max, Sums!Max
<1>4. h[0] = 0 /\ h[NWorkers] = SumOf(f) /\ \A k \in 1 .. NWorkers : h[k] = Plus(h[k - 1], f[k])
  BY <1>2, <1>3 DEF Sums!IsLoop, SumOf
<1>5. \A k \in 1 .. NWorkers : h[k] = h[k - 1] + f[k]
  BY <1>4 DEF Plus
<1> QED BY <1>4, <1>5

\* A sum with one term changed.
LEMMA SumChanged ==
  ASSUME NEW f \in [Workers -> Int], NEW e \in [Workers -> Int], NEW i \in Workers,
         \A w \in Workers : w # i => e[w] = f[w]
  PROVE  SumOf(f) \in Int /\ SumOf(e) = SumOf(f) + (e[i] - f[i])
<1>1. NWorkers \in Nat /\ Workers = 1 .. NWorkers
  BY MallocAssumption DEF Workers
<1>2. PICK h : /\ h[0] = 0 /\ h[NWorkers] = SumOf(f)
               /\ \A k \in 1 .. NWorkers : h[k] = h[k - 1] + f[k]
  BY SumSteps
<1>3. PICK g : /\ g[0] = 0 /\ g[NWorkers] = SumOf(e)
               /\ \A k \in 1 .. NWorkers : g[k] = g[k - 1] + e[k]
  BY SumSteps
<1> DEFINE d == e[i] - f[i]
           G == {k \in Nat : k <= NWorkers => h[k] \in Int /\ g[k] = h[k] + (IF i <= k THEN d ELSE 0)}
<1>4. d \in Int /\ e[i] = f[i] + d /\ i \in Int /\ i > 0
  BY <1>1
<1> HIDE DEF d
<1>5. 0 \in G
  BY <1>2, <1>3, <1>4
<1>6. ASSUME NEW k \in Nat, k \in G PROVE k + 1 \in G
  <2> SUFFICES ASSUME k + 1 <= NWorkers PROVE h[k + 1] \in Int /\ g[k + 1] = h[k + 1] + (IF i <= k + 1 THEN d ELSE 0)
    OBVIOUS
  <2>1. k + 1 \in Workers /\ (k + 1) - 1 = k /\ h[k] \in Int /\ g[k] = h[k] + (IF i <= k THEN d ELSE 0)
    BY <1>1, <1>6
  <2>2. h[k + 1] = h[k] + f[k + 1] /\ g[k + 1] = g[k] + e[k + 1]
    BY <1>1, <1>2, <1>3, <2>1
  <2>3. f[k + 1] \in Int /\ e[k + 1] \in Int
    BY <2>1
  <2>4. CASE k + 1 = i
    <3>1. ~(i <= k) /\ i <= k + 1 /\ e[k + 1] = f[k + 1] + d
      BY <1>4, <2>4
    <3> QED BY <1>4, <2>1, <2>2, <2>3, <3>1
  <2>5. CASE k + 1 # i
    <3>1. e[k + 1] = f[k + 1]
      BY <2>1, <2>5
    <3>2. (i <= k) <=> (i <= k + 1)
      BY <1>4, <2>5
    <3> QED BY <1>4, <2>1, <2>2, <2>3, <3>1, <3>2
  <2> QED BY <2>4, <2>5
<1>7. Nat \subseteq G
  <2> HIDE DEF G
  <2> QED BY <1>5, <1>6, Sums!SetInduction
<1>8. i <= NWorkers
  BY <1>1
<1> QED BY <1>1, <1>2, <1>3, <1>4, <1>7, <1>8 DEF d

\* A sum of zeros.
LEMMA SumZero ==
  ASSUME NEW f \in [Workers -> Int], \A w \in Workers : f[w] = 0
  PROVE  SumOf(f) = 0
<1>1. NWorkers \in Nat /\ Workers = 1 .. NWorkers
  BY MallocAssumption DEF Workers
<1>2. PICK h : /\ h[0] = 0 /\ h[NWorkers] = SumOf(f)
               /\ \A k \in 1 .. NWorkers : h[k] = h[k - 1] + f[k]
  BY SumSteps
<1> DEFINE G == {k \in Nat : k <= NWorkers => h[k] = 0}
<1>3. 0 \in G
  BY <1>2
<1>4. ASSUME NEW k \in Nat, k \in G PROVE k + 1 \in G
  <2> SUFFICES ASSUME k + 1 <= NWorkers PROVE h[k + 1] = 0
    OBVIOUS
  <2>1. k + 1 \in Workers /\ (k + 1) - 1 = k /\ h[k] = 0
    BY <1>1, <1>4
  <2> QED BY <1>1, <1>2, <2>1
<1>5. Nat \subseteq G
  <2> HIDE DEF G
  <2> QED BY <1>3, <1>4, Sums!SetInduction
<1> QED BY <1>1, <1>2, <1>5

-----------------------------------------------------------------------------
(* Batches *)

Allocating == INSTANCE FoldInduction WITH Op <- GlobalImAlloc
Freeing == INSTANCE FoldInduction WITH Op <- ImFreeBlock
Flushing == INSTANCE FoldInduction WITH Op <- Flush

\* The loops of im_allocate_batch, im_free_batch and
\* cilk_internal_malloc_per_worker_terminate.
AllocateTurns(m, w, b, n) == FoldLeft(GlobalImAlloc, m, Repeat(n, <<w, b>>))
FreeTurns(m, w, b, n) == FoldLeft(ImFreeBlock, m, Repeat(n, <<w, b>>))
FlushAll(m, w) == FoldLeft(Flush, m, [b \in Buckets |-> <<w, b>>])

\* Batches after one another.
LEMMA BatchedTwice ==
  ASSUME NEW m, NEW n, NEW o, NEW w \in Workers, NEW b \in Buckets, Batched(m, n, w, b), Batched(n, o, w, b)
  PROVE  Batched(m, o, w, b)
  BY DEF Batched

\* n turns of im_allocate_batch.
LEMMA AllocateLoop ==
  ASSUME NEW m, NEW T, Holding(m, T), NEW w \in Workers, NEW b \in Buckets, NEW n \in Nat
  PROVE  LET r == AllocateTurns(m, w, b, n) IN
         Holding(r, T) /\ Batched(m, r, w, b) /\ Len(r.l[w].free[b]) = Len(m.l[w].free[b]) + n
<1> DEFINE seq == Repeat(n, <<w, b>>)
           P(k, s) == Holding(s, T) /\ Batched(m, s, w, b) /\ Len(s.l[w].free[b]) = Len(m.l[w].free[b]) + k
           I == [k \in 0 .. n |-> {s \in Mem : P(k, s)}]
<1>1. Len(m.l[w].free[b]) \in Nat
  BY DEF Holding, Mem, Descriptor
<1>2. DOMAIN seq = 1 .. n /\ \A k \in 1 .. n : seq[k] = <<w, b>>
  BY DEF Repeat
<1>2a. \A k \in 0 .. n : \A s : s \in I[k] <=> s \in Mem /\ P(k, s)
  OBVIOUS
<1>2b. 0 \in 0 .. n /\ n \in 0 .. n /\ \A k \in 1 .. n : k \in 0 .. n /\ k - 1 \in 0 .. n
  OBVIOUS
<1> HIDE DEF I
<1>3. m \in I[0]
  BY <1>1, <1>2a, <1>2b DEF Batched, Holding
<1>4. ASSUME NEW k \in 1 .. n, NEW s \in I[k - 1] PROVE GlobalImAlloc(s, seq[k]) \in I[k]
  <2> DEFINE t == GlobalImAlloc(s, <<w, b>>)
  <2>1. Holding(s, T) /\ Batched(m, s, w, b) /\ Len(s.l[w].free[b]) = Len(m.l[w].free[b]) + (k - 1)
    BY <1>2a, <1>2b
  <2>2. Holding(t, T) /\ Batched(s, t, w, b) /\ Len(t.l[w].free[b]) = Len(s.l[w].free[b]) + 1
    BY <2>1, GlobalImAllocStep
  <2> HIDE DEF t
  <2>3. Len(t.l[w].free[b]) = Len(m.l[w].free[b]) + k
    BY <1>1, <2>1, <2>2
  <2>4. P(k, t) /\ t \in Mem
    BY <2>1, <2>2, <2>3, BatchedTwice DEF Holding
  <2> QED BY <1>2, <1>2a, <1>2b, <2>4 DEF t
<1> HIDE DEF seq
<1>5. Allocating!FoldLeft(GlobalImAlloc, m, seq) \in I[n]
  BY <1>2, <1>3, <1>4, Allocating!FoldInvariant
<1>6. AllocateTurns(m, w, b, n) = Allocating!FoldLeft(GlobalImAlloc, m, seq)
  BY DEF AllocateTurns, seq, FoldLeft, Allocating!FoldLeft, MapThenFoldSet, Allocating!MapThenFoldSet, Max, Allocating!Max
<1> QED BY <1>2a, <1>2b, <1>5, <1>6

\* n turns of im_free_batch.
LEMMA FreeLoop ==
  ASSUME NEW m, NEW T, Holding(m, T), NEW w \in Workers, NEW b \in Buckets, NEW n \in Nat,
         n <= Len(m.l[w].free[b])
  PROVE  LET r == FreeTurns(m, w, b, n) IN
         Holding(r, T) /\ Batched(m, r, w, b) /\ Len(r.l[w].free[b]) = Len(m.l[w].free[b]) - n
<1> DEFINE seq == Repeat(n, <<w, b>>)
           P(k, s) == Holding(s, T) /\ Batched(m, s, w, b) /\ Len(s.l[w].free[b]) = Len(m.l[w].free[b]) - k
           I == [k \in 0 .. n |-> {s \in Mem : P(k, s)}]
<1>1. Len(m.l[w].free[b]) \in Nat
  BY DEF Holding, Mem, Descriptor
<1>2. DOMAIN seq = 1 .. n /\ \A k \in 1 .. n : seq[k] = <<w, b>>
  BY DEF Repeat
<1>2a. \A k \in 0 .. n : \A s : s \in I[k] <=> s \in Mem /\ P(k, s)
  OBVIOUS
<1>2b. 0 \in 0 .. n /\ n \in 0 .. n /\ \A k \in 1 .. n : k \in 0 .. n /\ k - 1 \in 0 .. n
  OBVIOUS
<1> HIDE DEF I
<1>3. m \in I[0]
  BY <1>1, <1>2a, <1>2b DEF Batched, Holding
<1>4. ASSUME NEW k \in 1 .. n, NEW s \in I[k - 1] PROVE ImFreeBlock(s, seq[k]) \in I[k]
  <2> DEFINE t == ImFreeBlock(s, <<w, b>>)
  <2>1. Holding(s, T) /\ Batched(m, s, w, b) /\ Len(s.l[w].free[b]) = Len(m.l[w].free[b]) - (k - 1)
    BY <1>2a, <1>2b
  <2>2. s.l[w].free[b] # <<>>
    <3> DEFINE p == Len(s.l[w].free[b])
               q == Len(m.l[w].free[b])
    <3>1. p = q - (k - 1) /\ q \in Nat /\ n <= q
      BY <1>1, <2>1
    <3> HIDE DEF p, q
    <3>2. p > 0
      BY <3>1
    <3> QED BY <3>2 DEF p
  <2>3. Holding(t, T) /\ Batched(s, t, w, b) /\ Len(t.l[w].free[b]) = Len(s.l[w].free[b]) - 1
    BY <2>1, <2>2, ImFreeBlockStep
  <2> HIDE DEF t
  <2>4. Len(t.l[w].free[b]) = Len(m.l[w].free[b]) - k
    BY <1>1, <2>1, <2>3
  <2>5. P(k, t) /\ t \in Mem
    BY <2>1, <2>3, <2>4, BatchedTwice DEF Holding
  <2> QED BY <1>2, <1>2a, <1>2b, <2>5 DEF t
<1> HIDE DEF seq
<1>5. Freeing!FoldLeft(ImFreeBlock, m, seq) \in I[n]
  BY <1>2, <1>3, <1>4, Freeing!FoldInvariant
<1>6. FreeTurns(m, w, b, n) = Freeing!FoldLeft(ImFreeBlock, m, seq)
  BY DEF FreeTurns, seq, FoldLeft, Freeing!FoldLeft, MapThenFoldSet, Freeing!MapThenFoldSet, Max, Freeing!Max
<1> QED BY <1>2a, <1>2b, <1>5, <1>6

\* The lists of worker w are emptied, bucket after bucket.
LEMMA FlushLoop ==
  ASSUME NEW m, NEW T, Holding(m, T), NEW w \in Workers
  PROVE  LET r == FlushAll(m, w) IN
         /\ Holding(r, T) /\ \A b \in Buckets : r.l[w].free[b] = <<>>
         /\ \A v \in Workers : v # w => r.l[v] = m.l[v]
         /\ r.l[w].num_malloc = m.l[w].num_malloc /\ r.g.num_malloc = m.g.num_malloc
<1> DEFINE seq == [b \in Buckets |-> <<w, b>>]
           Same(s) == /\ \A v \in Workers : v # w => s.l[v] = m.l[v]
                      /\ s.l[w].num_malloc = m.l[w].num_malloc /\ s.g.num_malloc = m.g.num_malloc
           P(k, s) == Holding(s, T) /\ Same(s) /\ \A b \in 1 .. k : s.l[w].free[b] = <<>>
           N == Len(BucketSizes)
           I == [k \in 0 .. N |-> {s \in Mem : P(k, s)}]
<1>1. N \in Nat /\ Buckets = 1 .. N /\ DOMAIN seq = 1 .. N
  BY MallocAssumption DEF Buckets
<1> HIDE DEF N
<1>1a. \A k \in 0 .. N : \A s : s \in I[k] <=> s \in Mem /\ P(k, s)
  OBVIOUS
<1>1b. 0 \in 0 .. N /\ N \in 0 .. N /\ \A k \in 1 .. N : k \in 0 .. N /\ k - 1 \in 0 .. N
  BY <1>1
<1> HIDE DEF I
<1>2. m \in I[0]
  BY <1>1a, <1>1b DEF Holding
<1>3. ASSUME NEW k \in 1 .. N, NEW s \in I[k - 1] PROVE Flush(s, seq[k]) \in I[k]
  <2> DEFINE t == Flush(s, <<w, k>>)
             n == Len(s.l[w].free[k])
  <2>1. Holding(s, T) /\ Same(s) /\ \A b \in 1 .. k - 1 : s.l[w].free[b] = <<>>
    BY <1>1a, <1>1b
  <2>2. k \in Buckets /\ seq[k] = <<w, k>>
    BY <1>1
  <2>3. n \in Nat /\ n <= n /\ n = Len(s.l[w].free[k])
    BY <2>1, <2>2 DEF Holding, Mem, Descriptor
  <2>4. t = FreeTurns(s, w, k, n)
    BY DEF Flush, FreeTurns
  <2> HIDE DEF t, n
  <2>5. Holding(t, T) /\ Batched(s, t, w, k) /\ Len(t.l[w].free[k]) = n - n
    <3>0. k \in Buckets /\ n \in Nat
      BY <2>2, <2>3
    <3>1. Holding(s, T) /\ n <= Len(s.l[w].free[k])
      BY <2>1, <2>3
    <3>2. /\ Holding(t, T) /\ Batched(s, t, w, k) 
          /\ Len(t.l[w].free[k]) = Len(s.l[w].free[k]) - n
      BY ONLY <3>0, <2>4, <3>1, w \in Workers, FreeLoop
    <3> QED BY <2>3, <3>2
  <2>6. t.l[w].free[k] = <<>>
    <3>1. t.l[w].free[k] \in Seq(Nat)
      BY <2>2, <2>5 DEF Holding, Mem, Descriptor
    <3> QED BY <2>3, <2>5, <3>1, EmptySeq
  <2>7. \A b \in 1 .. k : t.l[w].free[b] = <<>>
    <3> SUFFICES ASSUME NEW b \in 1 .. k, b # k PROVE t.l[w].free[b] = <<>>
      BY <2>6
    <3>1. b \in 1 .. k - 1 /\ b \in Buckets
      BY <1>1
    <3> QED BY <2>1, <2>5, <3>1 DEF Batched
  <2>8. Same(t)
    BY <2>1, <2>5 DEF Batched
  <2>9. t \in I[k]
    BY <1>1a, <1>1b, <2>5, <2>7, <2>8 DEF Holding
  <2> QED BY <2>2, <2>9 DEF t
<1> HIDE DEF seq
<1>4. Flushing!FoldLeft(Flush, m, seq) \in I[N]
  BY <1>1, <1>2, <1>3, Flushing!FoldInvariant
<1>5. FlushAll(m, w) = Flushing!FoldLeft(Flush, m, seq)
  BY DEF FlushAll, seq, FoldLeft, Flushing!FoldLeft, MapThenFoldSet, Flushing!MapThenFoldSet, Max, Flushing!Max
<1>6. P(N, FlushAll(m, w))
  BY <1>1a, <1>1b, <1>4, <1>5
<1>7. \A b \in Buckets : FlushAll(m, w).l[w].free[b] = <<>>
  BY <1>1, <1>6
<1> QED BY <1>6, <1>7

-----------------------------------------------------------------------------
(* The allocator and what is in use *)

\* A thing in use has an address and a tag.
Things == Nat \X Tags
Class(t) == SizeToBucket(Size[t])
Uses(U) == {<<u[1], Class(u[2])>> : u \in U}
Unique(U) == \A x, y \in U : x[1] = y[1] => x = y
OfTag(U, t) == {u \in U : u[2] = t}

\* The things of tag t that were allocated and not freed, as the counters say.
Allocated(m, t) == m.g.num_malloc[t] + SumOf([w \in Workers |-> m.l[w].num_malloc[t]])

\* The things U are in use.
MemOK(m, U) ==
  /\ U \subseteq Things /\ IsFiniteSet(U) /\ Unique(U)
  /\ Holding(m, Uses(U))
  /\ \A w \in Workers, b \in Buckets : Len(m.l[w].free[b]) <= BucketCapacity[b]
  /\ \A t \in Tags : Allocated(m, t) = Cardinality(OfTag(U, t))

\* Only worker w had a hand in it.
Kept(m, n, w) == \A v \in Workers : v # w => n.l[v] = m.l[v]

\* Every tag has a size class.
LEMMA ClassFacts ==
  ASSUME NEW t \in Tags
  PROVE  Class(t) \in Buckets /\ Size[t] \in Nat /\ Size[t] <= BucketSizes[Class(t)]
<1> DEFINE N == Len(BucketSizes)
           S == {b \in Buckets : Size[t] <= BucketSizes[b]}
<1>1. N \in Nat /\ N > 0 /\ Buckets = 1 .. N
  BY MallocAssumption DEF Buckets
<1>2. \A b \in Buckets : BucketSizes[b] \in Nat
  BY BucketFacts
<1>3. Size[t] \in Nat /\ Size[t] <= BucketSizes[N]
  <2>1. BucketSizes[N] \in Nat
    BY <1>1, <1>2
  <2> QED BY <2>1, FiberPoolAssumption
<1>4. N \in S
  BY <1>1, <1>3
<1>5. S \in SUBSET Nat /\ S # {}
  BY <1>1, <1>4
<1> DEFINE b == Sums!Min(S)
<1>6. b \in S /\ \A y \in S : b <= y
  <2> HIDE DEF S
  <2> QED BY <1>5, Sums!MinOf
<1> HIDE DEF b, N
<1>7. b \in Buckets /\ Size[t] <= BucketSizes[b] /\ \A c \in Buckets : c < b => BucketSizes[c] < Size[t]
  <2>1. ASSUME NEW c \in Buckets, c < b PROVE BucketSizes[c] < Size[t]
    <3>1. c \notin S
      BY <1>1, <1>6, <2>1
    <3> QED BY <1>2, <1>3, <3>1
  <2> QED BY <1>6, <2>1
<1> QED BY <1>3, <1>7 DEF Class, SizeToBucket

\* The fields of a descriptor.
LEMMA DescriptorFields ==
  ASSUME NEW d \in Descriptor
  PROVE  /\ d.free \in [Buckets -> Seq(Nat)] /\ d.allocated \in [Buckets -> Int]
         /\ d.wasted \in [Buckets -> Int] /\ d.used \in Int /\ d.num_malloc \in [Tags -> Int]
         /\ \A b \in Buckets : d.free[b] \in Seq(Nat) /\ Len(d.free[b]) \in Nat
  BY DEF Descriptor

\* A descriptor with other counters, an allocator with another descriptor.
WithCounters(d, t, b, u, x, y) == [d EXCEPT !.used = u, !.num_malloc[t] = x, !.wasted[b] = y]
WithWorker(m, w, d) == [m EXCEPT !.l[w] = d]

\* Changed counters of a descriptor.
LEMMA CountersIs ==
  ASSUME NEW d \in Descriptor, NEW t \in Tags, NEW b \in Buckets, NEW u \in Int, NEW x \in Int, NEW y \in Int
  PROVE  LET e == WithCounters(d, t, b, u, x, y) IN
         /\ e \in Descriptor /\ e.free = d.free /\ e.num_malloc = [d.num_malloc EXCEPT ![t] = x]
<1> DEFINE n == [d.num_malloc EXCEPT ![t] = x]
           z == [d.wasted EXCEPT ![b] = y]
           d1 == [d EXCEPT !.used = u]
           d2 == [d1 EXCEPT !.num_malloc = n]
           e == [d EXCEPT !.used = u, !.num_malloc[t] = x, !.wasted[b] = y]
<1>1. d.num_malloc \in [Tags -> Int] /\ d.wasted \in [Buckets -> Int]
  BY DEF Descriptor
<1>2. n \in [Tags -> Int] /\ z \in [Buckets -> Int]
  BY <1>1
<1>3. d1 \in Descriptor /\ d1.free = d.free /\ d1.num_malloc = d.num_malloc /\ d1.wasted = d.wasted
  BY UsedIs
<1>4. e = [d2 EXCEPT !.wasted = z]
  BY <1>3 DEF Descriptor
<1> HIDE DEF d1, n, z
<1>5. d2 \in Descriptor /\ d2.free = d1.free /\ d2.num_malloc = n
  BY <1>2, <1>3 DEF Descriptor
<1> HIDE DEF d2
<1>6. e \in Descriptor /\ e.free = d2.free /\ e.num_malloc = d2.num_malloc
  BY <1>2, <1>4, <1>5 DEF Descriptor
<1> QED BY <1>3, <1>5, <1>6 DEF n, WithCounters

\* The counters of tag t, when those of worker w and the global ones change.
LEMMA AllocatedChanged ==
  ASSUME NEW m \in Mem, NEW n \in Mem, NEW w \in Workers, NEW t \in Tags,
         \A v \in Workers : v # w => n.l[v].num_malloc = m.l[v].num_malloc
  PROVE  /\ Allocated(m, t) \in Int
         /\ Allocated(n, t) = Allocated(m, t) + (n.g.num_malloc[t] - m.g.num_malloc[t])
                              + (n.l[w].num_malloc[t] - m.l[w].num_malloc[t])
<1> DEFINE f == [v \in Workers |-> m.l[v].num_malloc[t]]
           e == [v \in Workers |-> n.l[v].num_malloc[t]]
<1>1. /\ m.g.num_malloc[t] \in Int /\ n.g.num_malloc[t] \in Int
      /\ \A v \in Workers : m.l[v].num_malloc[t] \in Int /\ n.l[v].num_malloc[t] \in Int
  BY DEF Mem, Descriptor
<1>2. f \in [Workers -> Int] /\ e \in [Workers -> Int]
  BY <1>1
<1>3. f[w] = m.l[w].num_malloc[t] /\ e[w] = n.l[w].num_malloc[t] /\ \A v \in Workers : v # w => e[v] = f[v]
  OBVIOUS
<1>4. Allocated(m, t) = m.g.num_malloc[t] + SumOf(f) /\ Allocated(n, t) = n.g.num_malloc[t] + SumOf(e)
  BY DEF Allocated
<1> HIDE DEF f, e
<1>5. SumOf(f) \in Int /\ SumOf(e) = SumOf(f) + (e[w] - f[w])
  BY <1>2, <1>3, SumChanged
<1> QED BY <1>1, <1>3, <1>4, <1>5

\* A thing more in use.
LEMMA UseMore ==
  ASSUME NEW U, U \subseteq Things, IsFiniteSet(U), Unique(U), NEW p \in Nat, NEW t \in Tags, \A u \in U : u[1] # p
  PROVE  LET V == U \cup {<<p, t>>} IN
         /\ V \subseteq Things /\ IsFiniteSet(V) /\ Unique(V) /\ Uses(V) = Uses(U) \cup {<<p, Class(t)>>}
         /\ \A s \in Tags : /\ Cardinality(OfTag(U, s)) \in Nat
                            /\ Cardinality(OfTag(V, s)) = Cardinality(OfTag(U, s)) + (IF s = t THEN 1 ELSE 0)
<1> DEFINE x == <<p, t>>
           V == U \cup {x}
<1>1. x \in Things /\ x[1] = p /\ x[2] = t /\ x \notin U
  BY DEF Things
<1>2. V \subseteq Things /\ IsFiniteSet(V)
  BY <1>1, FS_AddElement
<1>3. Unique(V)
  <2> HIDE DEF x
  <2> QED BY <1>1 DEF Unique
<1>4. Uses(V) = Uses(U) \cup {<<p, Class(t)>>}
  BY <1>1 DEF Uses
<1> HIDE DEF x
<1>5. ASSUME NEW s \in Tags
      PROVE  /\ Cardinality(OfTag(U, s)) \in Nat
             /\ Cardinality(OfTag(V, s)) = Cardinality(OfTag(U, s)) + (IF s = t THEN 1 ELSE 0)
  <2>1. OfTag(U, s) \subseteq U
    BY DEF OfTag
  <2>2. IsFiniteSet(OfTag(U, s)) /\ Cardinality(OfTag(U, s)) \in Nat
    BY <2>1, FS_Subset, FS_CardinalityType
  <2>3. CASE s = t
    <3>1. OfTag(V, s) = OfTag(U, s) \cup {x} /\ x \notin OfTag(U, s)
      BY <1>1, <2>3 DEF OfTag
    <3>2. Cardinality(OfTag(V, s)) = Cardinality(OfTag(U, s)) + 1
      BY <2>2, <3>1, FS_AddElement
    <3> QED BY <2>2, <2>3, <3>2
  <2>4. CASE s # t
    <3>1. OfTag(V, s) = OfTag(U, s)
      BY <1>1, <2>4 DEF OfTag
    <3> QED BY <2>2, <2>4, <3>1
  <2> QED BY <2>3, <2>4
<1> QED BY <1>2, <1>3, <1>4, <1>5 DEF x

\* V is U without the thing <<p, t>>.
LessOne(U, V, p, t) ==
  /\ V \subseteq Things /\ IsFiniteSet(V) /\ Unique(V) /\ Uses(V) = Uses(U) \ {<<p, Class(t)>>}
  /\ <<p, Class(t)>> \in Uses(U) /\ \A v \in V : v[1] # p
  /\ \A s \in Tags : /\ Cardinality(OfTag(U, s)) \in Nat
                     /\ Cardinality(OfTag(V, s)) = Cardinality(OfTag(U, s)) - (IF s = t THEN 1 ELSE 0)

\* A thing less in use.
LEMMA UseLess ==
  ASSUME NEW U, U \subseteq Things, IsFiniteSet(U), Unique(U), NEW p, NEW t, <<p, t>> \in U
  PROVE  p \in Nat /\ t \in Tags /\ LessOne(U, U \ {<<p, t>>}, p, t)
<1> DEFINE x == <<p, t>>
           V == U \ {x}
<1>1. p \in Nat /\ t \in Tags /\ x[1] = p /\ x[2] = t
  BY DEF Things
<1>2. V \subseteq Things /\ IsFiniteSet(V)
  BY FS_RemoveElement
<1>3. Unique(V) /\ \A v \in V : v[1] # p
  <2> HIDE DEF x
  <2> QED BY <1>1 DEF Unique, x
<1>4. <<p, Class(t)>> \in Uses(U)
  BY <1>1 DEF Uses
<1>5. Uses(V) = Uses(U) \ {<<p, Class(t)>>}
  <2>1. ASSUME NEW y \in Uses(V) PROVE y \in Uses(U) \ {<<p, Class(t)>>}
    <3>1. PICK v \in V : y = <<v[1], Class(v[2])>>
      BY DEF Uses
    <3>2. y[1] # p /\ y \in Uses(U)
      BY <1>3, <3>1 DEF Uses
    <3> QED BY <3>2
  <2>2. ASSUME NEW y \in Uses(U), y # <<p, Class(t)>> PROVE y \in Uses(V)
    <3>1. PICK u \in U : y = <<u[1], Class(u[2])>>
      BY DEF Uses
    <3>2. u # x
      BY <1>1, <2>2, <3>1
    <3> QED BY <3>1, <3>2 DEF Uses
  <2> QED BY <2>1, <2>2
<1> HIDE DEF x
<1>6. ASSUME NEW s \in Tags
      PROVE  /\ Cardinality(OfTag(U, s)) \in Nat
             /\ Cardinality(OfTag(V, s)) = Cardinality(OfTag(U, s)) - (IF s = t THEN 1 ELSE 0)
  <2>1. OfTag(U, s) \subseteq U
    BY DEF OfTag
  <2>2. IsFiniteSet(OfTag(U, s)) /\ Cardinality(OfTag(U, s)) \in Nat
    BY <2>1, FS_Subset, FS_CardinalityType
  <2>3. CASE s = t
    <3>1. OfTag(V, s) = OfTag(U, s) \ {x} /\ x \in OfTag(U, s)
      BY <1>1, <2>3 DEF OfTag, x
    <3>2. Cardinality(OfTag(V, s)) = Cardinality(OfTag(U, s)) - 1
      BY <2>2, <3>1, FS_RemoveElement
    <3> QED BY <2>2, <2>3, <3>2
  <2>4. CASE s # t
    <3>1. OfTag(V, s) = OfTag(U, s)
      BY <1>1, <2>4 DEF OfTag
    <3> QED BY <2>2, <2>4, <3>1
  <2> QED BY <2>3, <2>4
<1>7. LessOne(U, V, p, t)
  BY <1>2, <1>3, <1>4, <1>5, <1>6 DEF LessOne
<1> QED BY <1>1, <1>7 DEF x

\* Another descriptor of worker w with the same lists.
LEMMA WorkerCounters ==
  ASSUME NEW m, NEW T, Holding(m, T), NEW w \in Workers, NEW d \in Descriptor, d.free = m.l[w].free
  PROVE  LET n == WithWorker(m, w, d) IN
         /\ Holding(n, T) /\ n.l[w] = d /\ Kept(m, n, w) /\ n.g = m.g /\ n.pool = m.pool
<1> DEFINE n == [m EXCEPT !.l[w] = d]
<1>1. m \in Mem
  BY DEF Holding
<1>2. n \in Mem /\ n.l = [m.l EXCEPT ![w] = d] /\ n.g = m.g /\ n.pool = m.pool
  BY <1>1 DEF Mem
<1> HIDE DEF n
<1>3. n.l[w] = d /\ Kept(m, n, w)
  BY <1>1, <1>2 DEF Kept, Mem
<1>4. Lists(n) = Lists(m)
  <2>1. Lists(n) \in Stock /\ Lists(m) \in Stock
    BY <1>1, <1>2, ListsAre
  <2>2. \A i \in Shelves : Lists(n)[i] = Lists(m)[i]
    <3> TAKE i \in Shelves
    <3>1. CASE i = 0
      BY <1>1, <1>2, <3>1, ListsAre
    <3>2. CASE i # 0
      <4>1. i \in Workers /\ Lists(n)[i] = n.l[i].free /\ Lists(m)[i] = m.l[i].free
        BY <1>1, <1>2, <3>2, ListsAre, ShelfFacts
      <4> QED BY <1>3, <4>1 DEF Kept
    <3> QED BY <3>1, <3>2
  <2> QED BY <2>1, <2>2 DEF Stock
<1>5. Holding(n, T)
  BY <1>2, <1>4 DEF Holding
<1> QED BY <1>2, <1>3, <1>5 DEF n, WithWorker

\* Another list of bucket b in the descriptor of worker w.
LEMMA WorkerList ==
  ASSUME NEW m \in Mem, NEW w \in Workers, NEW b \in Buckets, NEW d \in Descriptor,
         \A c \in Buckets : c # b => d.free[c] = m.l[w].free[c]
  PROVE  LET n == WithWorker(m, w, d) IN
         /\ n \in Mem /\ Changed(Lists(n), Lists(m), w, b, d.free[b])
         /\ n.l[w] = d /\ Kept(m, n, w) /\ n.g = m.g /\ n.pool = m.pool
<1> DEFINE n == [m EXCEPT !.l[w] = d]
<1>1. n \in Mem /\ n.l = [m.l EXCEPT ![w] = d] /\ n.g = m.g /\ n.pool = m.pool
  BY DEF Mem
<1> HIDE DEF n
<1>2. n.l[w] = d /\ Kept(m, n, w)
  BY <1>1 DEF Kept, Mem
<1> DEFINE F == Lists(m)
<1>3. F \in Stock /\ F[0] = m.g.free /\ \A v \in Workers : F[v] = m.l[v].free
  BY ListsAre
<1> HIDE DEF F
<1>4. /\ n.l[w].free[b] = d.free[b] /\ (\A c \in Buckets : c # b => n.l[w].free[c] = F[w][c])
      /\ (\A v \in Workers : v # w => n.l[v].free = F[v]) /\ n.g.free = F[0]
  BY <1>1, <1>2, <1>3 DEF Kept
<1>5. w \in Shelves /\ w # 0
  BY ShelfFacts
<1>6. Changed(Lists(n), F, w, b, d.free[b])
  BY <1>1, <1>3, <1>4, <1>5, ListsChanged
<1> QED BY <1>1, <1>2, <1>6 DEF n, F, WithWorker

\* im_allocate_batch fills worker w's list of bucket b.
LEMMA AllocateBatchOK ==
  ASSUME NEW m, NEW T, Holding(m, T), NEW w \in Workers, NEW b \in Buckets
  PROVE  LET n == ImAllocateBatch(m, w, b) IN
         /\ Holding(n, T) /\ Batched(m, n, w, b)
         /\ Len(n.l[w].free[b]) = Len(m.l[w].free[b]) + BatchSize(b)
<1> DEFINE r == AllocateTurns(m, w, b, BatchSize(b))
           d == r.l[w]
           e == [d EXCEPT !.allocated[b] = d.allocated[b] + BatchSize(b)]
           n == ImAllocateBatch(m, w, b)
<1>1. BatchSize(b) \in Nat
  BY BucketFacts
<1>2. Holding(r, T) /\ Batched(m, r, w, b) /\ Len(r.l[w].free[b]) = Len(m.l[w].free[b]) + BatchSize(b)
  BY <1>1, AllocateLoop
<1>3. n = WithWorker(r, w, e)
  BY DEF ImAllocateBatch, AllocateTurns, WithWorker
<1> HIDE DEF r, n
<1>4. d \in Descriptor
  BY <1>2 DEF Holding, Mem
<1>5. e \in Descriptor /\ e.free = d.free /\ e.num_malloc = d.num_malloc
  <2>1. d.allocated[b] + BatchSize(b) \in Int
    BY <1>1, <1>4 DEF Descriptor
  <2> HIDE DEF d
  <2> QED BY <1>4, <2>1, AllocatedIs
<1> HIDE DEF e
<1>6. Holding(n, T) /\ n.l[w] = e /\ Kept(r, n, w) /\ n.g = r.g
  BY <1>2, <1>3, <1>5, WorkerCounters
<1>7. Batched(m, n, w, b)
  BY <1>2, <1>5, <1>6 DEF Batched, Kept
<1>8. Len(n.l[w].free[b]) = Len(m.l[w].free[b]) + BatchSize(b)
  BY <1>2, <1>5, <1>6
<1> QED BY <1>6, <1>7, <1>8 DEF n

\* cilk_internal_malloc hands out a block that nobody has.
LEMMA MallocOK ==
  ASSUME NEW m, NEW U, MemOK(m, U), NEW w \in Workers, NEW tag \in Tags
  PROVE  LET r == Malloc(m, w, Size[tag], tag) IN
         /\ r.p \in Nat /\ \A u \in U : u[1] # r.p
         /\ MemOK(r.mem, U \cup {<<r.p, tag>>}) /\ Kept(m, r.mem, w)
<1> DEFINE b == Class(tag)
           T == Uses(U)
           d0 == m.l[w]
           d == WithCounters(d0, tag, b, d0.used + Size[tag], d0.num_malloc[tag] + 1,
                             d0.wasted[b] + (BucketSizes[b] - Size[tag]))
           t == WithWorker(m, w, d)
           u == IF t.l[w].free[b] = <<>> THEN ImAllocateBatch(t, w, b) ELSE t
           e == RemoveFromFreeList(u.l[w], b)
           n == WithWorker(u, w, e)
           p == Head(u.l[w].free[b])
           r == Malloc(m, w, Size[tag], tag)
           V == U \cup {<<p, tag>>}
<1>1. r.mem = n /\ r.p = p
  BY DEF Malloc, Class, WithWorker, WithCounters
<1>2. b \in Buckets /\ Size[tag] \in Nat /\ BucketSizes[b] \in Nat /\ BucketCapacity[b] \in Nat
      /\ BatchSize(b) \in Nat /\ BatchSize(b) > 0 /\ BatchSize(b) <= BucketCapacity[b]
  BY ClassFacts, BucketFacts
<1>3. Holding(m, T) /\ m \in Mem /\ d0 \in Descriptor
  BY DEF MemOK, Holding, Mem
<1> HIDE DEF b, r
<1>4. d \in Descriptor /\ d.free = d0.free /\ d.num_malloc = [d0.num_malloc EXCEPT ![tag] = d0.num_malloc[tag] + 1]
  <2>1. d0.used + Size[tag] \in Int /\ d0.num_malloc[tag] + 1 \in Int /\ d0.wasted[b] + (BucketSizes[b] - Size[tag]) \in Int
    <3>1. d0.used \in Int /\ d0.num_malloc[tag] \in Int /\ d0.wasted[b] \in Int
      BY <1>2, <1>3, DescriptorFields
    <3> HIDE DEF d0
    <3> QED BY <1>2, <3>1
  <2>2. b \in Buckets /\ d0 \in Descriptor
    BY <1>2, <1>3
  <2> HIDE DEF d0
  <2> QED BY <2>1, <2>2, CountersIs
<1> HIDE DEF d
<1>5. Holding(t, T) /\ t.l[w] = d /\ Kept(m, t, w) /\ t.g = m.g
  BY <1>3, <1>4, WorkerCounters
<1> HIDE DEF t
<1>6. /\ Holding(u, T) /\ Batched(t, u, w, b)
      /\ Len(u.l[w].free[b]) <= BucketCapacity[b] /\ u.l[w].free[b] # <<>>
  <2>1. CASE t.l[w].free[b] = <<>>
    <3>1. u = ImAllocateBatch(t, w, b)
      BY <2>1
    <3> HIDE DEF u
    <3>2. /\ Holding(u, T) /\ Batched(t, u, w, b)
          /\ Len(u.l[w].free[b]) = Len(t.l[w].free[b]) + BatchSize(b)
      BY <1>2, <1>5, <3>1, AllocateBatchOK
    <3>3. Len(t.l[w].free[b]) = 0
      BY <2>1
    <3>4. Len(u.l[w].free[b]) = BatchSize(b)
      BY <1>2, <3>2, <3>3
    <3>5. u.l[w].free[b] # <<>>
      BY <1>2, <3>4
    <3> QED BY <1>2, <3>2, <3>4, <3>5
  <2>2. CASE t.l[w].free[b] # <<>>
    <3>1. u = t
      BY <2>2
    <3>2. t.l[w].free[b] = m.l[w].free[b]
      BY <1>4, <1>5
    <3>3. Len(m.l[w].free[b]) <= BucketCapacity[b]
      BY <1>2 DEF MemOK
    <3> HIDE DEF u
    <3> QED BY <1>5, <2>2, <3>1, <3>2, <3>3 DEF Batched
  <2> QED BY <2>1, <2>2
<1> HIDE DEF u
<1>7. u \in Mem /\ u.l[w] \in Descriptor
  BY <1>6 DEF Holding, Mem
<1>8. /\ e \in Descriptor /\ e.free[b] = Tail(u.l[w].free[b]) /\ \A c \in Buckets : c # b => e.free[c] = u.l[w].free[c]
      /\ Len(e.free[b]) = Len(u.l[w].free[b]) - 1 /\ e.num_malloc = u.l[w].num_malloc
  BY <1>2, <1>6, <1>7, RemoveIs
<1> HIDE DEF e
<1>9. /\ n \in Mem /\ Changed(Lists(n), Lists(u), w, b, e.free[b])
      /\ n.l[w] = e /\ Kept(u, n, w) /\ n.g = u.g /\ n.pool = u.pool
  <2>1. b \in Buckets
    BY <1>2
  <2> QED BY <2>1, <1>7, <1>8, WorkerList
<1> HIDE DEF n
<1>10. Holding(n, T \cup {<<p, b>>}) /\ p \in Nat /\ \A y \in T : y[1] # p
  <2>1. Lists(u)[w][b] = u.l[w].free[b]
    BY <1>7, ListsAre
  <2>2. Changed(Lists(n), Lists(u), w, b, Tail(Lists(u)[w][b])) /\ Lists(u)[w][b] # <<>> /\ p = Head(Lists(u)[w][b])
    BY <1>6, <1>8, <1>9, <2>1
  <2> DEFINE F == Lists(u)
             mb == u.pool.mem_begin
  <2>3. InOrder(F, T, mb) /\ w \in Shelves
    BY <1>6, ShelfFacts DEF Holding
  <2>4. b \in Buckets
    BY <1>2
  <2> HIDE DEF p, F, mb, T
  <2>5. InOrder(Lists(n), T \cup {<<p, b>>}, mb) /\ p \in Nat /\ \A y \in T : y[1] # p
    BY ONLY <2>2, <2>3, <2>4, TakeBlock DEF F
  <2> QED BY <1>6, <1>9, <2>5 DEF Holding, mb
<1>11. \A x \in U : x[1] # p
  <2> TAKE x \in U
  <2>1. <<x[1], Class(x[2])>> \in T
    BY DEF Uses
  <2> QED BY <1>10, <2>1
<1> HIDE DEF p
<1>12. /\ V \subseteq Things /\ IsFiniteSet(V) /\ Unique(V) /\ Uses(V) = T \cup {<<p, b>>}
       /\ \A s \in Tags : /\ Cardinality(OfTag(U, s)) \in Nat
                          /\ Cardinality(OfTag(V, s)) = Cardinality(OfTag(U, s)) + (IF s = tag THEN 1 ELSE 0)
  <2>1. U \subseteq Things /\ IsFiniteSet(U) /\ Unique(U) /\ p \in Nat
    BY <1>10 DEF MemOK
  <2> QED BY <1>11, <2>1, UseMore DEF b
<1>13. Kept(m, n, w)
  BY <1>5, <1>6, <1>9 DEF Kept, Batched
<1>14. n.l[w].num_malloc = [d0.num_malloc EXCEPT ![tag] = d0.num_malloc[tag] + 1] /\ n.g.num_malloc = m.g.num_malloc
  BY <1>4, <1>5, <1>6, <1>8, <1>9 DEF Batched
<1>15. \A v \in Workers, c \in Buckets : Len(n.l[v].free[c]) <= BucketCapacity[c]
  <2> TAKE v \in Workers, c \in Buckets
  <2>1. CASE v = w /\ c = b
    <3>1. Len(n.l[w].free[b]) = Len(u.l[w].free[b]) - 1
      BY <1>8, <1>9
    <3>2. Len(u.l[w].free[b]) \in Nat
      BY <1>2, <1>7, DescriptorFields
    <3> QED BY <1>2, <1>6, <2>1, <3>1, <3>2
  <2>2. CASE v # w \/ c # b
    <3>1. n.l[v].free[c] = m.l[v].free[c]
      BY <1>4, <1>5, <1>6, <1>8, <1>9, <1>13, <2>2 DEF Batched, Kept
    <3> QED BY <3>1 DEF MemOK
  <2> QED BY <2>1, <2>2
<1>16. ASSUME NEW s \in Tags PROVE Allocated(n, s) = Cardinality(OfTag(V, s))
  <2>1. \A v \in Workers : v # w => n.l[v].num_malloc = m.l[v].num_malloc
    BY <1>13 DEF Kept
  <2>2. /\ Allocated(m, s) \in Int
        /\ Allocated(n, s) = Allocated(m, s) + (n.g.num_malloc[s] - m.g.num_malloc[s])
                             + (n.l[w].num_malloc[s] - m.l[w].num_malloc[s])
    BY <1>3, <1>9, <2>1, AllocatedChanged
  <2>3. m.g.num_malloc[s] \in Int /\ m.l[w].num_malloc[s] \in Int
    BY <1>3 DEF Mem, Descriptor
  <2>4. n.g.num_malloc[s] = m.g.num_malloc[s]
    BY <1>14
  <2>5. n.l[w].num_malloc[s] = m.l[w].num_malloc[s] + (IF s = tag THEN 1 ELSE 0)
    <3>1. d0.num_malloc \in [Tags -> Int]
      BY <1>3 DEF Descriptor
    <3> QED BY <1>14, <3>1
  <2>6. Allocated(m, s) = Cardinality(OfTag(U, s))
    BY DEF MemOK
  <2> HIDE DEF V
  <2> QED BY <1>12, <2>2, <2>3, <2>4, <2>5, <2>6
<1>17. MemOK(n, V)
  <2> HIDE DEF V
  <2> QED BY <1>10, <1>12, <1>15, <1>16 DEF MemOK
<1> QED BY <1>1, <1>10, <1>11, <1>13, <1>17 DEF r

\* im_free_batch takes blocks from worker w's list of bucket b, at least one
\* of them when there is one.
LEMMA FreeBatchOK ==
  ASSUME NEW m, NEW T, Holding(m, T), NEW w \in Workers, NEW b \in Buckets, m.l[w].free[b] # <<>>
  PROVE  LET n == ImFreeBatch(m, w, b) IN
         /\ Holding(n, T) /\ Batched(m, n, w, b) /\ Len(n.l[w].free[b]) < Len(m.l[w].free[b])
<1> DEFINE L == Len(m.l[w].free[b])
           k == Min({BatchSize(b), L})
           n == ImFreeBatch(m, w, b)
<1>1. BatchSize(b) \in Nat /\ BatchSize(b) > 0
  BY BucketFacts
<1>2. L \in Nat /\ L > 0
  <2>1. m.l[w].free[b] \in Seq(Nat)
    BY DEF Holding, Mem, Descriptor
  <2> QED BY <2>1
<1>3. k \in Nat /\ k > 0 /\ k <= L
  <2> DEFINE S == {BatchSize(b), L}
  <2>1. S \in SUBSET Nat /\ S # {} /\ L \in S
    BY <1>1, <1>2
  <2>2. \A y \in S : y > 0
    BY <1>1, <1>2
  <2> HIDE DEF S, L
  <2>3. Sums!Min(S) \in S /\ \A y \in S : Sums!Min(S) <= y
    BY <2>1, Sums!MinOf
  <2>4. k = Sums!Min(S)
    BY DEF Min, Sums!Min, S
  <2> HIDE DEF k
  <2> QED BY <2>1, <2>2, <2>3, <2>4
<1>4. n = FreeTurns(m, w, b, k)
  BY DEF ImFreeBatch, FreeTurns
<1> HIDE DEF n, k
<1>5. Holding(n, T) /\ Batched(m, n, w, b) /\ Len(n.l[w].free[b]) = Len(m.l[w].free[b]) - k
  <2>1. k \in Nat /\ k <= Len(m.l[w].free[b])
    BY <1>3
  <2> QED BY ONLY <1>4, <2>1, Holding(m, T), w \in Workers, b \in Buckets, FreeLoop
<1>6. Len(n.l[w].free[b]) < Len(m.l[w].free[b])
  <2> DEFINE K == Len(n.l[w].free[b])
  <2>1. K = L - k
    BY <1>5
  <2> HIDE DEF K, L
  <2>2. K < L
    BY <1>2, <1>3, <2>1
  <2> QED BY <2>2 DEF K, L
<1> QED BY <1>5, <1>6 DEF n

\* cilk_internal_free takes back a thing in use, on any worker.
LEMMA FreeOK ==
  ASSUME NEW m, NEW U, MemOK(m, U), NEW w \in Workers, NEW p, NEW tag, <<p, tag>> \in U
  PROVE  LET n == Free(m, w, p, Size[tag], tag) IN
         MemOK(n, U \ {<<p, tag>>}) /\ Kept(m, n, w)
<1> DEFINE b == Class(tag)
           T == Uses(U)
           V == U \ {<<p, tag>>}
           a == AddToFreeList(m.l[w], b, p)
           d == WithCounters(a, tag, b, a.used - Size[tag], a.num_malloc[tag] - 1,
                             a.wasted[b] - (BucketSizes[b] - Size[tag]))
           t == WithWorker(m, w, d)
           n == IF OverLimit(t.l[w], b) THEN ImFreeBatch(t, w, b) ELSE t
<1>1. n = Free(m, w, p, Size[tag], tag)
  BY DEF Free, Class, WithWorker, WithCounters
<1>2. U \subseteq Things /\ IsFiniteSet(U) /\ Unique(U) /\ Holding(m, T) /\ p \in Nat /\ tag \in Tags
  BY UseLess DEF MemOK
<1>3. /\ b \in Buckets /\ Size[tag] \in Nat /\ BucketSizes[b] \in Nat /\ BucketCapacity[b] \in Nat
      /\ BucketCapacity[b] > 1
  BY <1>2, ClassFacts, BucketFacts
<1>4. b \in Buckets /\ m \in Mem /\ m.l[w] \in Descriptor
  BY <1>2, <1>3 DEF Holding, Mem
<1>5. /\ V \subseteq Things /\ IsFiniteSet(V) /\ Unique(V) /\ Uses(V) = T \ {<<p, b>>} /\ <<p, b>> \in T
      /\ \A s \in Tags : /\ Cardinality(OfTag(U, s)) \in Nat
                         /\ Cardinality(OfTag(V, s)) = Cardinality(OfTag(U, s)) - (IF s = tag THEN 1 ELSE 0)
  <2>1. LessOne(U, V, p, tag)
    BY <1>2, UseLess
  <2> HIDE DEF V
  <2> QED BY <2>1 DEF LessOne
<1> HIDE DEF b, V
<1>6. /\ a \in Descriptor /\ a.free[b] = <<p>> \o m.l[w].free[b] /\ \A c \in Buckets : c # b => a.free[c] = m.l[w].free[c]
      /\ Len(a.free[b]) = Len(m.l[w].free[b]) + 1 /\ a.free[b] # <<>> /\ a.num_malloc = m.l[w].num_malloc
  BY <1>2, <1>4, AddIs
<1> HIDE DEF a
<1>7. d \in Descriptor /\ d.free = a.free /\ d.num_malloc = [a.num_malloc EXCEPT ![tag] = a.num_malloc[tag] - 1]
  <2>1. a.used \in Int /\ a.num_malloc[tag] \in Int /\ a.wasted[b] \in Int
    BY <1>2, <1>4, <1>6, DescriptorFields
  <2>2. /\ a.used - Size[tag] \in Int /\ a.num_malloc[tag] - 1 \in Int
        /\ a.wasted[b] - (BucketSizes[b] - Size[tag]) \in Int
    BY <1>3, <2>1
  <2>3. b \in Buckets /\ a \in Descriptor /\ tag \in Tags
    BY <1>2, <1>4, <1>6
  <2> QED BY <2>2, <2>3, CountersIs
<1> HIDE DEF d
<1>8. /\ t \in Mem /\ Changed(Lists(t), Lists(m), w, b, d.free[b])
      /\ t.l[w] = d /\ Kept(m, t, w) /\ t.g = m.g /\ t.pool = m.pool
  <2>1. \A c \in Buckets : c # b => d.free[c] = m.l[w].free[c]
    BY <1>6, <1>7
  <2>2. m \in Mem /\ b \in Buckets /\ d \in Descriptor
    BY <1>4, <1>7
  <2> QED BY <2>1, <2>2, WorkerList
<1> HIDE DEF t
<1>9. Holding(t, T \ {<<p, b>>})
  <2> DEFINE F == Lists(m)
             mb == m.pool.mem_begin
  <2>1. F[w][b] = m.l[w].free[b] /\ w \in Shelves
    BY <1>4, ListsAre, ShelfFacts
  <2>2. Changed(Lists(t), F, w, b, <<p>> \o F[w][b])
    BY <1>6, <1>7, <1>8, <2>1
  <2>3. InOrder(F, T, mb) /\ <<p, b>> \in T /\ b \in Buckets /\ w \in Shelves
    BY <1>2, <1>4, <1>5, <2>1 DEF Holding
  <2> HIDE DEF F, mb, T
  <2>4. InOrder(Lists(t), T \ {<<p, b>>}, mb)
    BY ONLY <2>2, <2>3, PutBlock
  <2> QED BY <1>2, <1>8, <2>4 DEF Holding, mb
<1>10. /\ Len(t.l[w].free[b]) \in Nat /\ Len(t.l[w].free[b]) <= BucketCapacity[b] + 1 /\ t.l[w].free[b] # <<>>
  <2>1. Len(m.l[w].free[b]) \in Nat
    BY <1>4, DescriptorFields
  <2>2. Len(m.l[w].free[b]) <= BucketCapacity[b]
    BY <1>4 DEF MemOK
  <2>3. t.l[w].free = a.free
    BY <1>7, <1>8
  <2> DEFINE L == Len(m.l[w].free[b])
             K == Len(t.l[w].free[b])
             C == BucketCapacity[b]
  <2>4. L \in Nat /\ L <= C /\ K = L + 1 /\ C \in Nat /\ t.l[w].free[b] # <<>>
    BY <1>3, <1>6, <2>1, <2>2, <2>3
  <2> HIDE DEF K, L, C
  <2>5. K \in Nat /\ K <= C + 1
    BY <2>4
  <2> QED BY <2>4, <2>5 DEF K, C
<1>11. /\ Holding(n, T \ {<<p, b>>}) /\ Batched(t, n, w, b) /\ Len(n.l[w].free[b]) <= BucketCapacity[b]
  <2>1. CASE OverLimit(t.l[w], b)
    <3>1. n = ImFreeBatch(t, w, b)
      BY <2>1
    <3> HIDE DEF n, T
    <3>2. b \in Buckets /\ t.l[w].free[b] # <<>>
      BY <1>4, <1>10
    <3>3. /\ Holding(n, T \ {<<p, b>>}) /\ Batched(t, n, w, b)
          /\ Len(n.l[w].free[b]) < Len(t.l[w].free[b])
      BY <1>9, <3>1, <3>2, FreeBatchOK
    <3>4. Len(n.l[w].free[b]) \in Nat
      <4>1. n.l[w] \in Descriptor
        BY <3>3 DEF Holding, Mem
      <4> QED BY <3>2, <4>1, DescriptorFields
    <3> DEFINE L == Len(t.l[w].free[b])
               K == Len(n.l[w].free[b])
               C == BucketCapacity[b]
    <3>5. L \in Nat /\ L <= C + 1 /\ K < L /\ K \in Nat /\ C \in Nat
      BY <1>3, <1>10, <3>3, <3>4
    <3> HIDE DEF K, L, C
    <3>6. K <= C
      BY <3>5
    <3> QED BY <3>3, <3>6 DEF K, C
  <2>2. CASE ~OverLimit(t.l[w], b)
    <3>1. n = t
      BY <2>2
    <3>2. Len(t.l[w].free[b]) <= BucketCapacity[b]
      BY <1>3, <1>10, <2>2 DEF OverLimit
    <3> HIDE DEF n, T
    <3> QED BY <1>9, <3>1, <3>2 DEF Batched
  <2> QED BY <2>1, <2>2
<1> HIDE DEF n
<1>12. Kept(m, n, w)
  BY <1>8, <1>11 DEF Kept, Batched
<1>13. n.l[w].num_malloc = [m.l[w].num_malloc EXCEPT ![tag] = m.l[w].num_malloc[tag] - 1] /\ n.g.num_malloc = m.g.num_malloc
  BY <1>6, <1>7, <1>8, <1>11 DEF Batched
<1>14. \A v \in Workers, c \in Buckets : Len(n.l[v].free[c]) <= BucketCapacity[c]
  <2> TAKE v \in Workers, c \in Buckets
  <2>1. CASE v = w /\ c = b
    BY <1>11, <2>1
  <2>2. CASE v # w \/ c # b
    <3>1. n.l[v].free[c] = m.l[v].free[c]
      BY <1>6, <1>7, <1>8, <1>11, <1>12, <2>2 DEF Batched, Kept
    <3> QED BY <3>1 DEF MemOK
  <2> QED BY <2>1, <2>2
<1>15. ASSUME NEW s \in Tags PROVE Allocated(n, s) = Cardinality(OfTag(V, s))
  <2>1. \A v \in Workers : v # w => n.l[v].num_malloc = m.l[v].num_malloc
    BY <1>12 DEF Kept
  <2>2. n \in Mem
    BY <1>11 DEF Holding
  <2>3. /\ Allocated(m, s) \in Int
        /\ Allocated(n, s) = Allocated(m, s) + (n.g.num_malloc[s] - m.g.num_malloc[s])
                             + (n.l[w].num_malloc[s] - m.l[w].num_malloc[s])
    BY <1>4, <2>1, <2>2, AllocatedChanged
  <2>4. m.g.num_malloc[s] \in Int /\ m.l[w].num_malloc[s] \in Int
    BY <1>4 DEF Mem, Descriptor
  <2>5. n.g.num_malloc[s] = m.g.num_malloc[s]
    BY <1>13
  <2>6. n.l[w].num_malloc[s] = m.l[w].num_malloc[s] - (IF s = tag THEN 1 ELSE 0)
    <3>1. m.l[w].num_malloc \in [Tags -> Int]
      BY <1>4, DescriptorFields
    <3> QED BY <1>13, <2>4, <3>1
  <2>7. Allocated(m, s) = Cardinality(OfTag(U, s))
    BY DEF MemOK
  <2> QED BY <1>5, <2>3, <2>4, <2>5, <2>6, <2>7
<1>16. MemOK(n, V)
  BY <1>5, <1>11, <1>14, <1>15 DEF MemOK
<1> QED BY <1>1, <1>12, <1>16 DEF V

\* cilk_internal_free_global takes back a thing in use.
LEMMA FreeGlobalOK ==
  ASSUME NEW m, NEW U, MemOK(m, U), NEW p, NEW tag, <<p, tag>> \in U
  PROVE  LET n == FreeGlobal(m, p, Size[tag], tag) IN
         MemOK(n, U \ {<<p, tag>>}) /\ n.l = m.l
<1> DEFINE b == Class(tag)
           T == Uses(U)
           V == U \ {<<p, tag>>}
           a == AddToFreeList(m.g, b, p)
           g == [a EXCEPT !.num_malloc[tag] = a.num_malloc[tag] - 1, !.used = a.used - BucketSizes[b]]
           n == FreeGlobal(m, p, Size[tag], tag)
<1>1. n = [m EXCEPT !.g = g]
  BY DEF FreeGlobal, Class
<1>2. U \subseteq Things /\ IsFiniteSet(U) /\ Unique(U) /\ Holding(m, T) /\ p \in Nat /\ tag \in Tags
  BY UseLess DEF MemOK
<1>3. b \in Buckets /\ BucketSizes[b] \in Nat
  BY <1>2, ClassFacts, BucketFacts
<1>4. b \in Buckets /\ m \in Mem /\ m.g \in Descriptor
  BY <1>2, <1>3 DEF Holding, Mem
<1>5. /\ V \subseteq Things /\ IsFiniteSet(V) /\ Unique(V) /\ Uses(V) = T \ {<<p, b>>} /\ <<p, b>> \in T
      /\ \A s \in Tags : /\ Cardinality(OfTag(U, s)) \in Nat
                         /\ Cardinality(OfTag(V, s)) = Cardinality(OfTag(U, s)) - (IF s = tag THEN 1 ELSE 0)
  <2>1. LessOne(U, V, p, tag)
    BY <1>2, UseLess
  <2> HIDE DEF V
  <2> QED BY <2>1 DEF LessOne
<1> HIDE DEF b, V, n
<1>6. /\ a \in Descriptor /\ a.free[b] = <<p>> \o m.g.free[b] /\ \A c \in Buckets : c # b => a.free[c] = m.g.free[c]
      /\ a.num_malloc = m.g.num_malloc
  BY <1>2, <1>4, AddIs
<1> HIDE DEF a
<1>7. g \in Descriptor /\ g.free = a.free /\ g.num_malloc = [a.num_malloc EXCEPT ![tag] = a.num_malloc[tag] - 1]
  <2> DEFINE f == [a.num_malloc EXCEPT ![tag] = a.num_malloc[tag] - 1]
             h == [a EXCEPT !.num_malloc = f]
  <2>1. a.used - BucketSizes[b] \in Int /\ a.num_malloc[tag] - 1 \in Int /\ a.num_malloc \in [Tags -> Int]
    <3>1. a.used \in Int /\ a.num_malloc[tag] \in Int /\ a.num_malloc \in [Tags -> Int]
      BY <1>2, <1>6, DescriptorFields
    <3> QED BY <1>3, <3>1
  <2>2. f \in [Tags -> Int]
    BY <2>1
  <2>3. g = [h EXCEPT !.used = a.used - BucketSizes[b]]
    OBVIOUS
  <2> HIDE DEF f, g
  <2>4. h \in Descriptor /\ h.free = a.free /\ h.num_malloc = f
    BY <1>6, <2>2 DEF Descriptor
  <2> HIDE DEF h
  <2>5. g \in Descriptor /\ g.free = h.free /\ g.num_malloc = h.num_malloc
    BY <2>1, <2>3, <2>4, UsedIs
  <2> QED BY <2>4, <2>5 DEF f
<1> HIDE DEF g
<1>8. n \in Mem /\ n.g = g /\ n.l = m.l /\ n.pool = m.pool
  BY <1>1, <1>4, <1>7 DEF Mem
<1>9. Holding(n, T \ {<<p, b>>})
  <2> DEFINE F == Lists(m)
             mb == m.pool.mem_begin
  <2>1. F \in Stock /\ F[0] = m.g.free /\ \A v \in Workers : F[v] = m.l[v].free
    BY <1>4, ListsAre
  <2> HIDE DEF F
  <2>2. n.g.free[b] = <<p>> \o F[0][b] /\ \A c \in Buckets : c # b => n.g.free[c] = F[0][c]
    BY <1>6, <1>7, <1>8, <2>1
  <2>3. \A v \in Workers : n.l[v].free = F[v]
    BY <1>8, <2>1
  <2>4. n \in Mem /\ b \in Buckets /\ 0 \in Shelves
    BY <1>4, <1>8, ShelfFacts
  <2>5. Changed(Lists(n), F, 0, b, <<p>> \o F[0][b])
    BY ONLY <2>1, <2>2, <2>3, <2>4, ListsChanged
  <2>6. InOrder(F, T, mb) /\ <<p, b>> \in T
    BY <1>2, <1>5 DEF Holding, F
  <2> HIDE DEF mb, T
  <2>7. InOrder(Lists(n), T \ {<<p, b>>}, mb)
    BY ONLY <2>4, <2>5, <2>6, PutBlock
  <2> QED BY <1>2, <1>8, <2>7 DEF Holding, mb
<1>10. \A v \in Workers, c \in Buckets : Len(n.l[v].free[c]) <= BucketCapacity[c]
  BY <1>8 DEF MemOK
<1>11. ASSUME NEW s \in Tags PROVE Allocated(n, s) = Cardinality(OfTag(V, s))
  <2> DEFINE f == [v \in Workers |-> m.l[v].num_malloc[s]]
  <2>1. Allocated(m, s) = m.g.num_malloc[s] + SumOf(f) /\ Allocated(n, s) = n.g.num_malloc[s] + SumOf(f)
    BY <1>8 DEF Allocated
  <2>2. SumOf(f) \in Int
    <3>1. f \in [Workers -> Int]
      BY <1>4 DEF Mem, Descriptor
    <3>2. 1 \in Workers
      BY MallocAssumption DEF Workers
    <3> HIDE DEF f
    <3> QED BY <3>1, <3>2, SumChanged
  <2> HIDE DEF f
  <2>3. m.g.num_malloc[s] \in Int /\ m.g.num_malloc \in [Tags -> Int]
    BY <1>4, DescriptorFields
  <2>4. n.g.num_malloc[s] = m.g.num_malloc[s] - (IF s = tag THEN 1 ELSE 0)
    BY <1>6, <1>7, <1>8, <2>3
  <2>5. Allocated(m, s) = Cardinality(OfTag(U, s))
    BY DEF MemOK
  <2> QED BY <1>5, <2>1, <2>2, <2>3, <2>4, <2>5
<1>12. MemOK(n, V)
  BY <1>5, <1>9, <1>10, <1>11 DEF MemOK
<1> QED BY <1>8, <1>12 DEF V, n

\* Other counters of the tags.
LEMMA TagsIs ==
  ASSUME NEW d \in Descriptor, NEW f \in [Tags -> Int]
  PROVE  LET e == [d EXCEPT !.num_malloc = f] IN
         e \in Descriptor /\ e.free = d.free /\ e.num_malloc = f
  BY DEF Descriptor

\* Nothing is left of what belongs to worker w.
Emptied(m, w) == (\A b \in Buckets : m.l[w].free[b] = <<>>) /\ m.l[w].num_malloc = [t \in Tags |-> 0]

\* cilk_internal_malloc_per_worker_terminate empties the lists of worker w and
\* adds its counters to the global ones.
LEMMA MallocTerminateOK ==
  ASSUME NEW m, NEW U, MemOK(m, U), NEW w \in Workers
  PROVE  LET n == MallocTerminate(m, w) IN MemOK(n, U) /\ Kept(m, n, w) /\ Emptied(n, w)
<1> DEFINE n == MallocTerminate(m, w)
           t == FlushAll(m, w)
           T == Uses(U)
           gn == [tag \in Tags |-> t.g.num_malloc[tag] + m.l[w].num_malloc[tag]]
           ln == [tag \in Tags |-> 0]
           g == [t.g EXCEPT !.num_malloc = gn]
           tl == t.l[w]
           d == [tl EXCEPT !.num_malloc = ln]
           u == [t EXCEPT !.g = g]
<1>1. n = WithWorker(u, w, d)
  BY DEF MallocTerminate, FlushAll, WithWorker
<1> HIDE DEF n
<1>2. Holding(m, T) /\ m \in Mem /\ m.l[w] \in Descriptor /\ m.g \in Descriptor
  BY DEF MemOK, Holding, Mem
<1>3. /\ Holding(t, T) /\ \A b \in Buckets : t.l[w].free[b] = <<>>
      /\ \A v \in Workers : v # w => t.l[v] = m.l[v]
      /\ t.l[w].num_malloc = m.l[w].num_malloc /\ t.g.num_malloc = m.g.num_malloc
  BY <1>2, FlushLoop
<1> HIDE DEF t, T
<1>4. t \in Mem /\ t.l[w] \in Descriptor /\ t.g \in Descriptor
  BY <1>3 DEF Holding, Mem
<1>5. gn \in [Tags -> Int] /\ ln \in [Tags -> Int]
  <2>1. \A tag \in Tags : t.g.num_malloc[tag] \in Int /\ m.l[w].num_malloc[tag] \in Int
    BY <1>2, <1>4, DescriptorFields
  <2> QED BY <2>1
<1>6. \A tag \in Tags : gn[tag] = m.g.num_malloc[tag] + m.l[w].num_malloc[tag] /\ ln[tag] = 0
  BY <1>3
<1> HIDE DEF gn
<1>7. g \in Descriptor /\ g.free = t.g.free /\ g.num_malloc = gn
  BY <1>4, <1>5, TagsIs
<1>8. d \in Descriptor /\ d.free = tl.free /\ d.num_malloc = ln
  <2> HIDE DEF ln
  <2> QED BY <1>4, <1>5, TagsIs
<1> HIDE DEF g, d
<1>9. u \in Mem /\ u.g = g /\ u.l = t.l /\ u.pool = t.pool
  BY <1>4, <1>7 DEF Mem
<1> HIDE DEF u
<1>10. Lists(u) = Lists(t)
  BY <1>7, <1>9 DEF Lists
<1>11. Holding(u, T)
  BY <1>3, <1>9, <1>10 DEF Holding
<1>12. Holding(n, T) /\ n.l[w] = d /\ Kept(u, n, w) /\ n.g = g
  BY <1>1, <1>8, <1>9, <1>11, WorkerCounters
<1>13. Kept(m, n, w)
  BY <1>3, <1>9, <1>12 DEF Kept
<1>14. Emptied(n, w)
  BY <1>3, <1>8, <1>12 DEF Emptied
<1>15. \A v \in Workers, b \in Buckets : Len(n.l[v].free[b]) <= BucketCapacity[b]
  <2> TAKE v \in Workers, b \in Buckets
  <2>1. CASE v = w
    <3>1. Len(n.l[v].free[b]) = 0
      BY <1>14, <2>1 DEF Emptied
    <3> QED BY <3>1, BucketFacts
  <2>2. CASE v # w
    BY <1>13, <2>2 DEF Kept, MemOK
  <2> QED BY <2>1, <2>2
<1>16. ASSUME NEW s \in Tags PROVE Allocated(n, s) = Cardinality(OfTag(U, s))
  <2>1. \A v \in Workers : v # w => n.l[v].num_malloc = m.l[v].num_malloc
    BY <1>13 DEF Kept
  <2>2. n \in Mem
    BY <1>12 DEF Holding
  <2>3. /\ Allocated(m, s) \in Int
        /\ Allocated(n, s) = Allocated(m, s) + (n.g.num_malloc[s] - m.g.num_malloc[s])
                             + (n.l[w].num_malloc[s] - m.l[w].num_malloc[s])
    BY <1>2, <2>1, <2>2, AllocatedChanged
  <2>4. m.g.num_malloc[s] \in Int /\ m.l[w].num_malloc[s] \in Int
    BY <1>2, DescriptorFields
  <2>5. n.g.num_malloc[s] = m.g.num_malloc[s] + m.l[w].num_malloc[s] /\ n.l[w].num_malloc[s] = 0
    BY <1>6, <1>7, <1>8, <1>12
  <2>6. Allocated(m, s) = Cardinality(OfTag(U, s))
    BY DEF MemOK
  <2> QED BY <2>3, <2>4, <2>5, <2>6
<1>17. MemOK(n, U)
  BY <1>12, <1>15, <1>16 DEF MemOK, T
<1> QED BY <1>13, <1>14, <1>17 DEF n

-----------------------------------------------------------------------------
(* Fiber pools *)

FiberList == [fibers : Seq(Nat), in_use : Int]
PoolState == [mem : Mem, pool : [Workers -> FiberList], gpool : FiberList]

\* The fibers of the shared pool, which is number 0, and of the workers'.
FibersOf(s) == [i \in Shelves |-> IF i = 0 THEN s.gpool.fibers ELSE s.pool[i].fibers]

\* The lists P have the elements of S, each once.
Spread(P, S) ==
  /\ \A i \in Shelves : ListOf(P[i], Elems(P[i])) /\ Elems(P[i]) \subseteq S
  /\ \A i, j \in Shelves : i # j => Elems(P[i]) \cap Elems(P[j]) = {}
  /\ \A f \in S : \E i \in Shelves : f \in Elems(P[i])

\* The fibers S are in the pools, the things X are in use.
PoolOK(s, S, X) ==
  /\ s \in PoolState /\ Spread(FibersOf(s), S)
  /\ \A x \in X : x[1] \notin S
  /\ MemOK(s.mem, X \cup (S \X {"fiber"}))

\* Two pools differ in the list of number i.
Replaced(Q, P, i, q) == Q[i] = q /\ \A j \in Shelves : j # i => Q[j] = P[j]

\* A fiber is put into a pool.
LEMMA SpreadMore ==
  ASSUME NEW P, NEW S, Spread(P, S), NEW i \in Shelves, NEW f \in Nat, f \notin S,
         NEW Q, Replaced(Q, P, i, Append(P[i], f))
  PROVE  Spread(Q, S \cup {f}) /\ Len(Q[i]) = Len(P[i]) + 1
<1>1. ListOf(P[i], Elems(P[i])) /\ f \notin Elems(P[i])
  BY DEF Spread
<1>2. ListOf(Append(P[i], f), Elems(P[i]) \cup {f}) /\ Len(Append(P[i], f)) = Len(P[i]) + 1
  BY <1>1, AppendList
<1>3. Elems(Q[i]) = Elems(P[i]) \cup {f} /\ ListOf(Q[i], Elems(Q[i])) /\ Len(Q[i]) = Len(P[i]) + 1
  BY <1>2 DEF Replaced, ListOf
<1>4. \A j \in Shelves : j # i => Q[j] = P[j]
  BY DEF Replaced
<1>5. \A j \in Shelves : ListOf(Q[j], Elems(Q[j])) /\ Elems(Q[j]) \subseteq S \cup {f}
  BY <1>3, <1>4 DEF Spread
<1>6. \A j, k \in Shelves : j # k => Elems(Q[j]) \cap Elems(Q[k]) = {}
  <2> SUFFICES ASSUME NEW j \in Shelves, NEW k \in Shelves, j # k PROVE Elems(Q[j]) \cap Elems(Q[k]) = {}
    OBVIOUS
  <2>1. Elems(P[j]) \cap Elems(P[k]) = {} /\ f \notin Elems(P[j]) /\ f \notin Elems(P[k])
    BY DEF Spread
  <2> QED BY <1>3, <1>4, <2>1
<1>7. \A g \in S \cup {f} : \E j \in Shelves : g \in Elems(Q[j])
  <2> TAKE g \in S \cup {f}
  <2>1. CASE g = f
    BY <1>3, <2>1
  <2>2. CASE g # f
    <3>1. PICK j \in Shelves : g \in Elems(P[j])
      BY <2>2 DEF Spread
    <3>2. g \in Elems(Q[j])
      BY <1>3, <1>4, <3>1
    <3> QED BY <3>2
  <2> QED BY <2>1, <2>2
<1> QED BY <1>3, <1>5, <1>6, <1>7 DEF Spread

\* The last fiber is taken from a pool.
LEMMA SpreadLess ==
  ASSUME NEW P, NEW S, Spread(P, S), NEW i \in Shelves, P[i] # <<>>,
         NEW f, f = Last(P[i]), NEW Q, Replaced(Q, P, i, Front(P[i]))
  PROVE  f \in S /\ f \in Nat /\ Spread(Q, S \ {f}) /\ Len(Q[i]) = Len(P[i]) - 1
<1>1. ListOf(P[i], Elems(P[i]))
  BY DEF Spread
<1>2. f \in Elems(P[i]) /\ f \in Nat /\ ListOf(Front(P[i]), Elems(P[i]) \ {f}) /\ Len(Front(P[i])) = Len(P[i]) - 1
  BY <1>1, FrontList
<1>3. Elems(Q[i]) = Elems(P[i]) \ {f} /\ ListOf(Q[i], Elems(Q[i])) /\ Len(Q[i]) = Len(P[i]) - 1
  BY <1>2 DEF Replaced, ListOf
<1>4. \A j \in Shelves : j # i => Q[j] = P[j] /\ f \notin Elems(P[j])
  BY <1>2 DEF Replaced, Spread
<1>5. \A j \in Shelves : ListOf(Q[j], Elems(Q[j])) /\ Elems(Q[j]) \subseteq S \ {f}
  BY <1>3, <1>4 DEF Spread
<1>6. \A j, k \in Shelves : j # k => Elems(Q[j]) \cap Elems(Q[k]) = {}
  <2> SUFFICES ASSUME NEW j \in Shelves, NEW k \in Shelves, j # k PROVE Elems(Q[j]) \cap Elems(Q[k]) = {}
    OBVIOUS
  <2>1. Elems(P[j]) \cap Elems(P[k]) = {}
    BY DEF Spread
  <2> QED BY <1>3, <1>4, <2>1
<1>7. \A g \in S \ {f} : \E j \in Shelves : g \in Elems(Q[j])
  <2> TAKE g \in S \ {f}
  <2>1. PICK j \in Shelves : g \in Elems(P[j])
    BY DEF Spread
  <2>2. g \in Elems(Q[j])
    BY <1>3, <1>4, <2>1
  <2> QED BY <2>2
<1>8. f \in S
  BY <1>2 DEF Spread
<1> QED BY <1>2, <1>3, <1>5, <1>6, <1>7, <1>8 DEF Spread

\* A state with other fibers in the pool of worker w, with another allocator,
\* with another shared pool.
WithFibers(s, w, q) == [s EXCEPT !.pool[w].fibers = q]
WithMem(s, m) == [s EXCEPT !.mem = m]
WithShared(s, q, k) == [s EXCEPT !.gpool.fibers = q, !.gpool.in_use = k]

\* The fields of a state.
LEMMA PoolFields ==
  ASSUME NEW s \in PoolState
  PROVE  /\ s.mem \in Mem /\ s.gpool \in FiberList /\ s.gpool.fibers \in Seq(Nat) /\ s.gpool.in_use \in Int
         /\ s.pool \in [Workers -> FiberList]
         /\ \A w \in Workers : s.pool[w] \in FiberList /\ s.pool[w].fibers \in Seq(Nat) /\ s.pool[w].in_use \in Int
<1>1. s.mem \in Mem /\ s.gpool \in FiberList /\ s.pool \in [Workers -> FiberList]
  BY DEF PoolState
<1>2. \A x \in FiberList : x.fibers \in Seq(Nat) /\ x.in_use \in Int
  BY DEF FiberList
<1>3. \A w \in Workers : s.pool[w] \in FiberList
  BY <1>1
<1> QED BY <1>1, <1>2, <1>3

\* The lists of a state.
LEMMA FibersAre ==
  ASSUME NEW s
  PROVE  FibersOf(s)[0] = s.gpool.fibers /\ \A w \in Workers : FibersOf(s)[w] = s.pool[w].fibers
  BY ShelfFacts DEF FibersOf

LEMMA WithFibersIs ==
  ASSUME NEW s \in PoolState, NEW w \in Workers, NEW q \in Seq(Nat)
  PROVE  LET t == WithFibers(s, w, q) IN
         /\ t \in PoolState /\ t.mem = s.mem /\ t.gpool = s.gpool
         /\ t.pool[w].fibers = q /\ t.pool[w].in_use = s.pool[w].in_use
         /\ \A v \in Workers : v # w => t.pool[v] = s.pool[v]
         /\ Replaced(FibersOf(t), FibersOf(s), w, q)
<1> DEFINE o == s.pool[w]
           x == [o EXCEPT !.fibers = q]
           t == WithFibers(s, w, q)
<1>1. o \in FiberList /\ s.pool \in [Workers -> FiberList]
  BY PoolFields
<1>2. x \in FiberList /\ x.fibers = q /\ x.in_use = o.in_use
  <2> HIDE DEF o
  <2> QED BY <1>1 DEF FiberList
<1>3. t = [s EXCEPT !.pool = [s.pool EXCEPT ![w] = x]]
  BY DEF WithFibers
<1> HIDE DEF x, t
<1>4. [s.pool EXCEPT ![w] = x] \in [Workers -> FiberList]
  BY <1>1, <1>2
<1>5. t \in PoolState /\ t.mem = s.mem /\ t.gpool = s.gpool /\ t.pool = [s.pool EXCEPT ![w] = x]
  BY <1>3, <1>4 DEF PoolState
<1>6. t.pool[w] = x /\ \A v \in Workers : v # w => t.pool[v] = s.pool[v]
  BY <1>1, <1>5
<1>7. Replaced(FibersOf(t), FibersOf(s), w, q)
  <2>1. FibersOf(t)[w] = q
    BY <1>2, <1>6, FibersAre
  <2>2. ASSUME NEW j \in Shelves, j # w PROVE FibersOf(t)[j] = FibersOf(s)[j]
    <3>1. CASE j = 0
      BY <1>5, <3>1, FibersAre
    <3>2. CASE j # 0
      <4>1. j \in Workers
        BY <3>2, ShelfFacts
      <4>2. FibersOf(t)[j] = t.pool[j].fibers
        BY <4>1, FibersAre
      <4>3. FibersOf(s)[j] = s.pool[j].fibers
        BY <4>1, FibersAre
      <4> QED BY <1>6, <2>2, <4>1, <4>2, <4>3
    <3> QED BY <3>1, <3>2
  <2> QED BY <2>1, <2>2 DEF Replaced
<1> QED BY <1>2, <1>5, <1>6, <1>7 DEF t

LEMMA WithMemIs ==
  ASSUME NEW s \in PoolState, NEW m \in Mem
  PROVE  LET t == WithMem(s, m) IN
         /\ t \in PoolState /\ t.mem = m /\ t.gpool = s.gpool /\ t.pool = s.pool
         /\ FibersOf(t) = FibersOf(s)
  BY DEF PoolState, WithMem, FibersOf

LEMMA WithSharedIs ==
  ASSUME NEW s \in PoolState, NEW q \in Seq(Nat), NEW k \in Int
  PROVE  LET t == WithShared(s, q, k) IN
         /\ t \in PoolState /\ t.mem = s.mem /\ t.pool = s.pool
         /\ t.gpool.fibers = q /\ t.gpool.in_use = k
         /\ Replaced(FibersOf(t), FibersOf(s), 0, q)
<1> DEFINE o == s.gpool
           x == [o EXCEPT !.fibers = q, !.in_use = k]
           t == WithShared(s, q, k)
<1>1. o \in FiberList
  BY PoolFields
<1>2. x \in FiberList /\ x.fibers = q /\ x.in_use = k
  <2> HIDE DEF o
  <2> QED BY <1>1 DEF FiberList
<1>3. t = [s EXCEPT !.gpool = x]
  BY DEF WithShared, PoolState
<1> HIDE DEF x, t
<1>4. t \in PoolState /\ t.mem = s.mem /\ t.pool = s.pool /\ t.gpool = x
  BY <1>2, <1>3 DEF PoolState
<1>5. Replaced(FibersOf(t), FibersOf(s), 0, q)
  <2>1. FibersOf(t)[0] = q
    BY <1>2, <1>4, FibersAre
  <2>2. ASSUME NEW j \in Shelves, j # 0 PROVE FibersOf(t)[j] = FibersOf(s)[j]
    <3>1. j \in Workers
      BY <2>2, ShelfFacts
    <3>2. FibersOf(t)[j] = t.pool[j].fibers
      BY <3>1, FibersAre
    <3>3. FibersOf(s)[j] = s.pool[j].fibers
      BY <3>1, FibersAre
    <3> QED BY <1>4, <3>2, <3>3
  <2> QED BY <2>1, <2>2 DEF Replaced
<1> QED BY <1>2, <1>4, <1>5 DEF t

\* The shared pool is owed what it holds, or a constant more.
Owed(s) == s.gpool.in_use + Len(s.gpool.fibers)

\* Worker w moved fibers between its pool, the shared one and the allocator.
Moved(s, t, w) ==
  /\ Kept(s.mem, t.mem, w) /\ \A v \in Workers : v # w => t.pool[v] = s.pool[v]
  /\ t.pool[w].in_use = s.pool[w].in_use /\ Owed(t) = Owed(s)

\* Some fibers are in the pools, the things X are in use.
Pools(s, X) == \E S : PoolOK(s, S, X)

\* cilk_fiber_allocate.
LEMMA FiberAllocateStep ==
  ASSUME NEW s, NEW X, Pools(s, X), NEW w \in Workers
  PROVE  LET t == FiberAllocate(s, w) IN
         /\ Pools(t, X) /\ Moved(s, t, w) /\ t.gpool = s.gpool
         /\ Len(t.pool[w].fibers) = Len(s.pool[w].fibers) + 1
<1>1. PICK S : PoolOK(s, S, X)
  BY DEF Pools
<1> DEFINE U == X \cup (S \X {"fiber"})
           r == Malloc(s.mem, w, Size["fiber"], "fiber")
           p == r.p
           m == r.mem
           u == WithMem(s, m)
           q == Append(s.pool[w].fibers, p)
           t == FiberAllocate(s, w)
           R == S \cup {p}
<1>2. t = WithFibers(u, w, q)
  BY <1>1 DEF FiberAllocate, WithFibers, WithMem, PoolOK, PoolState
<1> HIDE DEF t
<1>3. MemOK(s.mem, U) /\ s \in PoolState
  BY <1>1 DEF PoolOK
<1>4. "fiber" \in Tags
  BY DEF Tags
<1> HIDE DEF U
<1>5. /\ p \in Nat /\ \A y \in U : y[1] # p
      /\ MemOK(m, U \cup {<<p, "fiber">>}) /\ Kept(s.mem, m, w)
  BY <1>3, <1>4, MallocOK
<1> HIDE DEF r, p, m
<1>6. /\ u \in PoolState /\ u.mem = m /\ u.gpool = s.gpool /\ u.pool = s.pool
      /\ FibersOf(u) = FibersOf(s)
  <2>1. m \in Mem
    BY <1>5 DEF MemOK, Holding
  <2> QED BY <1>3, <2>1, WithMemIs
<1> HIDE DEF u
<1>7. q \in Seq(Nat) /\ q = Append(FibersOf(s)[w], p)
  BY <1>3, <1>5, PoolFields, FibersAre
<1> HIDE DEF q
<1>8. /\ t \in PoolState /\ t.mem = m /\ t.gpool = s.gpool
      /\ t.pool[w].fibers = q /\ t.pool[w].in_use = s.pool[w].in_use
      /\ \A v \in Workers : v # w => t.pool[v] = s.pool[v]
      /\ Replaced(FibersOf(t), FibersOf(s), w, q)
  <2>1. u \in PoolState /\ q \in Seq(Nat)
    BY <1>6, <1>7
  <2>2. /\ t \in PoolState /\ t.mem = u.mem /\ t.gpool = u.gpool
        /\ t.pool[w].fibers = q /\ t.pool[w].in_use = u.pool[w].in_use
        /\ \A v \in Workers : v # w => t.pool[v] = u.pool[v]
        /\ Replaced(FibersOf(t), FibersOf(u), w, q)
    BY ONLY <1>2, <2>1, w \in Workers, WithFibersIs
  <2> QED BY <1>6, <2>2
<1>9. p \notin S /\ \A x \in X : x[1] # p
  <2>1. \A f \in S : <<f, "fiber">> \in U
    BY DEF U
  <2> QED BY <1>5, <2>1 DEF U
<1>10. Spread(FibersOf(t), R) /\ Len(FibersOf(t)[w]) = Len(FibersOf(s)[w]) + 1
  <2>1. Spread(FibersOf(s), S) /\ w \in Shelves
    BY <1>1, ShelfFacts DEF PoolOK
  <2> QED BY <1>5, <1>7, <1>8, <1>9, <2>1, SpreadMore
<1>11. X \cup (R \X {"fiber"}) = U \cup {<<p, "fiber">>}
  BY DEF U
<1>12. PoolOK(t, R, X)
  <2>1. \A x \in X : x[1] \notin R
    BY <1>1, <1>9 DEF PoolOK
  <2> QED BY <1>5, <1>8, <1>10, <1>11, <2>1 DEF PoolOK
<1>13. Moved(s, t, w)
  BY <1>5, <1>8 DEF Moved, Owed
<1>14. Len(t.pool[w].fibers) = Len(s.pool[w].fibers) + 1
  BY <1>10, FibersAre
<1> QED BY <1>8, <1>12, <1>13, <1>14 DEF t, Pools

\* cilk_fiber_deallocate of the last fiber of a pool.
LEMMA FiberDeallocateStep ==
  ASSUME NEW s, NEW X, Pools(s, X), NEW w \in Workers, s.pool[w].fibers # <<>>
  PROVE  LET t == FiberDeallocate(s, w) IN
         /\ Pools(t, X) /\ Moved(s, t, w) /\ t.gpool = s.gpool
         /\ Len(t.pool[w].fibers) = Len(s.pool[w].fibers) - 1
<1>1. PICK S : PoolOK(s, S, X)
  BY DEF Pools
<1> DEFINE U == X \cup (S \X {"fiber"})
           p == Last(s.pool[w].fibers)
           m == Free(s.mem, w, p, Size["fiber"], "fiber")
           u == WithMem(s, m)
           q == Front(s.pool[w].fibers)
           t == FiberDeallocate(s, w)
           R == S \ {p}
<1>2. t = WithFibers(u, w, q)
  BY <1>1 DEF FiberDeallocate, WithFibers, WithMem, PoolOK, PoolState
<1> HIDE DEF t
<1>3. MemOK(s.mem, U) /\ s \in PoolState /\ Spread(FibersOf(s), S) /\ w \in Shelves
  BY <1>1, ShelfFacts DEF PoolOK
<1>4. q \in Seq(Nat) /\ q = Front(FibersOf(s)[w]) /\ p = Last(FibersOf(s)[w]) /\ FibersOf(s)[w] # <<>>
  <2>1. FibersOf(s)[w] = s.pool[w].fibers
    BY FibersAre
  <2>2. ListOf(s.pool[w].fibers, Elems(s.pool[w].fibers))
    BY <1>3, <2>1 DEF Spread
  <2>3. ListOf(q, Elems(s.pool[w].fibers) \ {p})
    BY <2>2, FrontList
  <2> QED BY <2>1, <2>3 DEF ListOf
<1>5. p \in S /\ p \in Nat
  <2> DEFINE Q == [FibersOf(s) EXCEPT ![w] = q]
  <2>1. Replaced(Q, FibersOf(s), w, q)
    BY <1>3 DEF Replaced, FibersOf
  <2> HIDE DEF Q, p, q
  <2> QED BY <1>3, <1>4, <2>1, SpreadLess
<1>6. MemOK(m, U \ {<<p, "fiber">>}) /\ Kept(s.mem, m, w)
  <2>1. <<p, "fiber">> \in U
    BY <1>5
  <2> HIDE DEF p, U
  <2> QED BY <1>3, <2>1, FreeOK
<1> HIDE DEF p, m, q
<1>7. /\ u \in PoolState /\ u.mem = m /\ u.gpool = s.gpool /\ u.pool = s.pool
      /\ FibersOf(u) = FibersOf(s)
  <2>1. m \in Mem
    BY <1>6 DEF MemOK, Holding
  <2> QED BY <1>3, <2>1, WithMemIs
<1> HIDE DEF u
<1>8. /\ t \in PoolState /\ t.mem = m /\ t.gpool = s.gpool
      /\ t.pool[w].fibers = q /\ t.pool[w].in_use = s.pool[w].in_use
      /\ \A v \in Workers : v # w => t.pool[v] = s.pool[v]
      /\ Replaced(FibersOf(t), FibersOf(s), w, q)
  <2>1. u \in PoolState /\ q \in Seq(Nat)
    BY <1>4, <1>7
  <2>2. /\ t \in PoolState /\ t.mem = u.mem /\ t.gpool = u.gpool
        /\ t.pool[w].fibers = q /\ t.pool[w].in_use = u.pool[w].in_use
        /\ \A v \in Workers : v # w => t.pool[v] = u.pool[v]
        /\ Replaced(FibersOf(t), FibersOf(u), w, q)
    BY ONLY <1>2, <2>1, w \in Workers, WithFibersIs
  <2> QED BY <1>7, <2>2
<1>9. Spread(FibersOf(t), R) /\ Len(FibersOf(t)[w]) = Len(FibersOf(s)[w]) - 1
  <2> DEFINE P == FibersOf(s)
             Q == FibersOf(t)
  <2>1. Spread(P, S) /\ w \in Shelves /\ P[w] # <<>> /\ p = Last(P[w])
    BY <1>3, <1>4
  <2>2. Replaced(Q, P, w, Front(P[w]))
    BY <1>4, <1>8
  <2> HIDE DEF P, Q
  <2>3. Spread(Q, S \ {p}) /\ Len(Q[w]) = Len(P[w]) - 1
    BY ONLY <2>1, <2>2, SpreadLess
  <2> QED BY <2>3 DEF P, Q
<1>10. X \cup (R \X {"fiber"}) = U \ {<<p, "fiber">>}
  <2>1. \A x \in X : x # <<p, "fiber">>
    BY <1>1, <1>5 DEF PoolOK
  <2> QED BY <2>1
<1>11. PoolOK(t, R, X)
  <2>1. \A x \in X : x[1] \notin R
    BY <1>1 DEF PoolOK
  <2> QED BY <1>6, <1>8, <1>9, <1>10, <2>1 DEF PoolOK
<1>12. Moved(s, t, w)
  BY <1>6, <1>8 DEF Moved, Owed
<1>13. Len(t.pool[w].fibers) = Len(s.pool[w].fibers) - 1
  BY <1>9, FibersAre
<1> QED BY <1>8, <1>11, <1>12, <1>13 DEF t, Pools

\* The last fiber of pool i goes to the end of pool j.
Handed(Q, P, i, j) ==
  /\ P[i] # <<>> /\ Q[i] = Front(P[i]) /\ Q[j] = Append(P[j], Last(P[i]))
  /\ \A k \in Shelves : k # i /\ k # j => Q[k] = P[k]

LEMMA SpreadMoved ==
  ASSUME NEW P, NEW S, Spread(P, S), NEW i \in Shelves, NEW j \in Shelves, i # j, NEW Q, Handed(Q, P, i, j)
  PROVE  Spread(Q, S) /\ Len(Q[i]) = Len(P[i]) - 1 /\ Len(Q[j]) = Len(P[j]) + 1
<1> DEFINE R == [k \in Shelves |-> IF k = i THEN Front(P[i]) ELSE P[k]]
           f == Last(P[i])
<1>1. /\ Replaced(R, P, i, Front(P[i])) /\ R[j] = P[j] /\ R[i] = Q[i]
      /\ f = Last(P[i]) /\ Q[j] = Append(P[j], f) /\ P[i] # <<>>
      /\ \A k \in Shelves : k # i /\ k # j => Q[k] = P[k]
  BY DEF Replaced, Handed
<1> HIDE DEF R, f
<1>2. f \in S /\ f \in Nat /\ Spread(R, S \ {f}) /\ Len(R[i]) = Len(P[i]) - 1
  BY ONLY <1>1, Spread(P, S), i \in Shelves, SpreadLess
<1>3. Replaced(Q, R, j, Append(R[j], f))
  <2>1. \A k \in Shelves : k # i => R[k] = P[k]
    BY <1>1 DEF Replaced
  <2>2. \A k \in Shelves : k # j => Q[k] = R[k]
    BY <1>1, <2>1
  <2> QED BY <1>1, <2>2 DEF Replaced
<1>4. f \notin S \ {f} /\ (S \ {f}) \cup {f} = S
  BY <1>2
<1>5. Spread(Q, (S \ {f}) \cup {f}) /\ Len(Q[j]) = Len(R[j]) + 1
  <2> DEFINE T == S \ {f}
  <2>1. Spread(R, T) /\ f \in Nat /\ f \notin T
    BY <1>2, <1>4
  <2> HIDE DEF T
  <2>2. Spread(Q, T \cup {f}) /\ Len(Q[j]) = Len(R[j]) + 1
    BY ONLY <1>3, <2>1, j \in Shelves, SpreadMore
  <2> QED BY <2>2 DEF T
<1> QED BY <1>1, <1>2, <1>4, <1>5

\* The shared pool gives a fiber to worker w.
LEMMA FromParentStep ==
  ASSUME NEW s, NEW X, Pools(s, X), NEW w \in Workers, s.gpool.fibers # <<>>
  PROVE  LET t == FromParent(s, w) IN
         /\ Pools(t, X) /\ Moved(s, t, w)
         /\ Len(t.pool[w].fibers) = Len(s.pool[w].fibers) + 1
         /\ Len(t.gpool.fibers) = Len(s.gpool.fibers) - 1
<1>1. PICK S : PoolOK(s, S, X)
  BY DEF Pools
<1> DEFINE P == FibersOf(s)
           f == Last(s.gpool.fibers)
           q == Append(s.pool[w].fibers, f)
           g == Front(s.gpool.fibers)
           k == s.gpool.in_use + 1
           u == WithFibers(s, w, q)
           t == FromParent(s, w)
           Q == FibersOf(t)
<1>2. s \in PoolState /\ Spread(P, S) /\ w \in Shelves /\ 0 \in Shelves /\ w # 0
  BY <1>1, ShelfFacts DEF PoolOK, Workers
<1>3. t = WithShared(u, g, k)
  BY <1>2 DEF FromParent, WithFibers, WithShared, PoolState
<1>4. P[0] = s.gpool.fibers /\ P[w] = s.pool[w].fibers
  BY FibersAre
<1> HIDE DEF t, P
<1>5. f \in Nat /\ g \in Seq(Nat) /\ q \in Seq(Nat) /\ k \in Int
  <2>1. ListOf(s.gpool.fibers, Elems(s.gpool.fibers))
    BY <1>2, <1>4 DEF Spread
  <2>2. f \in Nat /\ g \in Seq(Nat)
    BY <2>1, FrontList DEF ListOf
  <2>3. s.pool[w].fibers \in Seq(Nat) /\ s.gpool.in_use \in Int
    BY <1>2, PoolFields
  <2> HIDE DEF f, g
  <2> QED BY <2>2, <2>3
<1> HIDE DEF q, g, k
<1>6. /\ u \in PoolState /\ u.mem = s.mem /\ u.gpool = s.gpool
      /\ u.pool[w].fibers = q /\ u.pool[w].in_use = s.pool[w].in_use
      /\ \A v \in Workers : v # w => u.pool[v] = s.pool[v]
      /\ Replaced(FibersOf(u), P, w, q)
  BY <1>2, <1>5, WithFibersIs DEF P
<1> HIDE DEF u
<1>7. /\ t \in PoolState /\ t.mem = u.mem /\ t.pool = u.pool
      /\ t.gpool.fibers = g /\ t.gpool.in_use = k /\ Replaced(Q, FibersOf(u), 0, g)
  BY <1>3, <1>5, <1>6, WithSharedIs
<1> HIDE DEF Q
<1>8. Spread(Q, S) /\ Len(Q[0]) = Len(P[0]) - 1 /\ Len(Q[w]) = Len(P[w]) + 1
  <2>1. Q[0] = Front(P[0]) /\ Q[w] = Append(P[w], f) /\ f = Last(P[0]) /\ P[0] # <<>>
    BY <1>2, <1>4, <1>6, <1>7 DEF Replaced, g, q
  <2>2. \A j \in Shelves : j # 0 /\ j # w => Q[j] = P[j]
    BY <1>6, <1>7 DEF Replaced
  <2>3. Handed(Q, P, 0, w)
    BY <2>1, <2>2 DEF Handed
  <2> QED BY ONLY <1>2, <2>3, SpreadMoved
<1>9. PoolOK(t, S, X)
  BY <1>1, <1>6, <1>7, <1>8 DEF PoolOK, Q
<1>10. Q[0] = t.gpool.fibers /\ Q[w] = t.pool[w].fibers
  BY FibersAre DEF Q
<1>11. /\ Len(t.pool[w].fibers) = Len(s.pool[w].fibers) + 1
       /\ Len(t.gpool.fibers) = Len(s.gpool.fibers) - 1
  BY <1>4, <1>8, <1>10
<1>12. Owed(t) = Owed(s)
  <2> DEFINE L == Len(s.gpool.fibers)
             K == Len(t.gpool.fibers)
  <2>1. K = L - 1 /\ s.gpool.in_use \in Int /\ t.gpool.in_use = s.gpool.in_use + 1 /\ L \in Nat
    <3>1. s.gpool.fibers \in Seq(Nat) /\ s.gpool.in_use \in Int
      BY <1>2, PoolFields
    <3> QED BY <1>7, <1>11, <3>1 DEF k
  <2>2. Owed(t) = t.gpool.in_use + K /\ Owed(s) = s.gpool.in_use + L
    BY DEF Owed
  <2> HIDE DEF K, L
  <2> QED BY <2>1, <2>2
<1>13. Moved(s, t, w)
  BY <1>6, <1>7, <1>12 DEF Moved, Kept
<1> QED BY <1>9, <1>11, <1>13 DEF t, Pools

\* Worker w gives its last fiber to the shared pool.
LEMMA ToParentStep ==
  ASSUME NEW s, NEW X, Pools(s, X), NEW w \in Workers, s.pool[w].fibers # <<>>
  PROVE  LET t == ToParent(s, w) IN
         /\ Pools(t, X) /\ Moved(s, t, w)
         /\ Len(t.pool[w].fibers) = Len(s.pool[w].fibers) - 1
         /\ Len(t.gpool.fibers) = Len(s.gpool.fibers) + 1
<1>1. PICK S : PoolOK(s, S, X)
  BY DEF Pools
<1> DEFINE P == FibersOf(s)
           f == Last(s.pool[w].fibers)
           q == Front(s.pool[w].fibers)
           g == Append(s.gpool.fibers, f)
           k == s.gpool.in_use - 1
           u == WithShared(s, g, k)
           t == ToParent(s, w)
           Q == FibersOf(t)
<1>2. s \in PoolState /\ Spread(P, S) /\ w \in Shelves /\ 0 \in Shelves /\ w # 0
  BY <1>1, ShelfFacts DEF PoolOK, Workers
<1>3. t = WithFibers(u, w, q)
  BY <1>2 DEF ToParent, WithFibers, WithShared, PoolState
<1>4. P[0] = s.gpool.fibers /\ P[w] = s.pool[w].fibers
  BY FibersAre
<1> HIDE DEF t, P
<1>5. f \in Nat /\ g \in Seq(Nat) /\ q \in Seq(Nat) /\ k \in Int
  <2>1. ListOf(s.pool[w].fibers, Elems(s.pool[w].fibers))
    BY <1>2, <1>4 DEF Spread
  <2>2. f \in Nat /\ q \in Seq(Nat)
    BY <2>1, FrontList DEF ListOf
  <2>3. s.gpool.fibers \in Seq(Nat) /\ s.gpool.in_use \in Int
    BY <1>2, PoolFields
  <2> HIDE DEF f, q
  <2> QED BY <2>2, <2>3
<1> HIDE DEF q, g, k
<1>6. /\ u \in PoolState /\ u.mem = s.mem /\ u.pool = s.pool
      /\ u.gpool.fibers = g /\ u.gpool.in_use = k /\ Replaced(FibersOf(u), P, 0, g)
  BY <1>2, <1>5, WithSharedIs DEF P
<1> HIDE DEF u
<1>7. /\ t \in PoolState /\ t.mem = u.mem /\ t.gpool = u.gpool
      /\ t.pool[w].fibers = q /\ t.pool[w].in_use = u.pool[w].in_use
      /\ \A v \in Workers : v # w => t.pool[v] = u.pool[v]
      /\ Replaced(Q, FibersOf(u), w, q)
  BY ONLY <1>3, <1>5, <1>6, w \in Workers, WithFibersIs DEF Q
<1> HIDE DEF Q
<1>8. Spread(Q, S) /\ Len(Q[w]) = Len(P[w]) - 1 /\ Len(Q[0]) = Len(P[0]) + 1
  <2>1. Q[w] = Front(P[w]) /\ Q[0] = Append(P[0], f) /\ f = Last(P[w]) /\ P[w] # <<>>
    BY <1>2, <1>4, <1>6, <1>7 DEF Replaced, g, q
  <2>2. \A j \in Shelves : j # w /\ j # 0 => Q[j] = P[j]
    BY <1>6, <1>7 DEF Replaced
  <2>3. Handed(Q, P, w, 0)
    BY <2>1, <2>2 DEF Handed
  <2> QED BY ONLY <1>2, <2>3, SpreadMoved
<1>9. PoolOK(t, S, X)
  BY <1>1, <1>6, <1>7, <1>8 DEF PoolOK, Q
<1>10. Q[0] = t.gpool.fibers /\ Q[w] = t.pool[w].fibers
  BY FibersAre DEF Q
<1>11. /\ Len(t.pool[w].fibers) = Len(s.pool[w].fibers) - 1
       /\ Len(t.gpool.fibers) = Len(s.gpool.fibers) + 1
  BY <1>4, <1>8, <1>10
<1>12. Owed(t) = Owed(s)
  <2> DEFINE L == Len(s.gpool.fibers)
             K == Len(t.gpool.fibers)
  <2>1. K = L + 1 /\ s.gpool.in_use \in Int /\ t.gpool.in_use = s.gpool.in_use - 1 /\ L \in Nat
    <3>1. s.gpool.fibers \in Seq(Nat) /\ s.gpool.in_use \in Int
      BY <1>2, PoolFields
    <3> QED BY <1>6, <1>7, <1>11, <3>1 DEF k
  <2>2. Owed(t) = t.gpool.in_use + K /\ Owed(s) = s.gpool.in_use + L
    BY DEF Owed
  <2> HIDE DEF K, L
  <2> QED BY <2>1, <2>2
<1>13. Moved(s, t, w)
  BY <1>6, <1>7, <1>12 DEF Moved, Kept
<1> QED BY <1>9, <1>11, <1>13 DEF t, Pools

\* The loops over the fibers of a pool.
Allocates == INSTANCE FoldInduction WITH Op <- FiberAllocate
Frees == INSTANCE FoldInduction WITH Op <- FiberDeallocate
Takes == INSTANCE FoldInduction WITH Op <- FromParent
Gives == INSTANCE FoldInduction WITH Op <- ToParent

AllocateFibers(s, w, n) == FoldLeft(FiberAllocate, s, Repeat(n, w))
FreeFibers(s, w, n) == FoldLeft(FiberDeallocate, s, Repeat(n, w))
TakeFibers(s, w, n) == FoldLeft(FromParent, s, Repeat(n, w))
GiveFibers(s, w, n) == FoldLeft(ToParent, s, Repeat(n, w))

\* Moves of worker w after one another.
LEMMA MovedTwice ==
  ASSUME NEW s, NEW t, NEW u, NEW w \in Workers, Moved(s, t, w), Moved(t, u, w)
  PROVE  Moved(s, u, w)
  BY DEF Moved, Kept

\* The lengths of the pools.
LEMMA PoolLens ==
  ASSUME NEW s, NEW X, Pools(s, X), NEW w \in Workers
  PROVE  /\ s \in PoolState /\ Len(s.pool[w].fibers) \in Nat /\ Len(s.gpool.fibers) \in Nat
         /\ (Len(s.pool[w].fibers) > 0 => s.pool[w].fibers # <<>>)
         /\ (Len(s.gpool.fibers) > 0 => s.gpool.fibers # <<>>)
<1>1. s \in PoolState
  BY DEF Pools, PoolOK
<1>2. s.pool[w].fibers \in Seq(Nat) /\ s.gpool.fibers \in Seq(Nat)
  BY <1>1, PoolFields
<1> QED BY <1>1, <1>2

\* n fibers are allocated.
LEMMA AllocateFibersLoop ==
  ASSUME NEW s, NEW X, Pools(s, X), NEW w \in Workers, NEW n \in Nat
  PROVE  LET r == AllocateFibers(s, w, n) IN
         /\ Pools(r, X) /\ Moved(s, r, w)
         /\ Len(r.pool[w].fibers) = Len(s.pool[w].fibers) + n
         /\ r.gpool = s.gpool
<1> DEFINE seq == Repeat(n, w)
           K(t) == Len(t.pool[w].fibers)
           L(t) == Len(t.gpool.fibers)
           P(k, t) == Pools(t, X) /\ Moved(s, t, w) /\ K(t) = K(s) + k /\ t.gpool = s.gpool
           I == [k \in 0 .. n |-> {t \in PoolState : P(k, t)}]
<1>1. DOMAIN seq = 1 .. n /\ \A k \in 1 .. n : seq[k] = w
  BY DEF Repeat
<1>2. \A k \in 0 .. n : \A t : t \in I[k] <=> t \in PoolState /\ P(k, t)
  OBVIOUS
<1>3. 0 \in 0 .. n /\ n \in 0 .. n /\ \A k \in 1 .. n : k \in 0 .. n /\ k - 1 \in 0 .. n
  OBVIOUS
<1>4. K(s) \in Nat /\ L(s) \in Nat /\ s \in PoolState
  BY PoolLens
<1> HIDE DEF I, K, L
<1>5. s \in I[0]
  BY <1>2, <1>3, <1>4 DEF Moved, Kept
<1>6. ASSUME NEW k \in 1 .. n, NEW t \in I[k - 1] PROVE FiberAllocate(t, seq[k]) \in I[k]
  <2> DEFINE u == FiberAllocate(t, w)
  <2>1. Pools(t, X) /\ Moved(s, t, w) /\ K(t) = K(s) + (k - 1) /\ t.gpool = s.gpool
    BY <1>2, <1>3
  <2>3. Pools(u, X) /\ Moved(t, u, w) /\ K(u) = K(t) + 1 /\ u.gpool = t.gpool
    BY <2>1, FiberAllocateStep DEF K, L
  <2> HIDE DEF u
  <2>4. K(u) = K(s) + k /\ u.gpool = s.gpool
    BY <1>4, <2>1, <2>3
  <2>5. Moved(s, u, w)
    BY <2>1, <2>3, MovedTwice
  <2>6. u \in PoolState
    BY <2>3, PoolLens
  <2> QED BY <1>1, <1>2, <1>3, <2>3, <2>4, <2>5, <2>6 DEF u
<1> HIDE DEF seq
<1>7. Allocates!FoldLeft(FiberAllocate, s, seq) \in I[n]
  BY <1>1, <1>5, <1>6, Allocates!FoldInvariant
<1>8. AllocateFibers(s, w, n) = Allocates!FoldLeft(FiberAllocate, s, seq)
  BY DEF AllocateFibers, seq, FoldLeft, Allocates!FoldLeft, MapThenFoldSet, Allocates!MapThenFoldSet, Max, Allocates!Max
<1> QED BY <1>2, <1>3, <1>7, <1>8 DEF K, L

\* n fibers are given back to the allocator.
LEMMA FreeFibersLoop ==
  ASSUME NEW s, NEW X, Pools(s, X), NEW w \in Workers, NEW n \in Nat, n <= Len(s.pool[w].fibers)
  PROVE  LET r == FreeFibers(s, w, n) IN
         /\ Pools(r, X) /\ Moved(s, r, w)
         /\ Len(r.pool[w].fibers) = Len(s.pool[w].fibers) - n
         /\ r.gpool = s.gpool
<1> DEFINE seq == Repeat(n, w)
           K(t) == Len(t.pool[w].fibers)
           L(t) == Len(t.gpool.fibers)
           P(k, t) == Pools(t, X) /\ Moved(s, t, w) /\ K(t) = K(s) - k /\ t.gpool = s.gpool
           I == [k \in 0 .. n |-> {t \in PoolState : P(k, t)}]
<1>1. DOMAIN seq = 1 .. n /\ \A k \in 1 .. n : seq[k] = w
  BY DEF Repeat
<1>2. \A k \in 0 .. n : \A t : t \in I[k] <=> t \in PoolState /\ P(k, t)
  OBVIOUS
<1>3. 0 \in 0 .. n /\ n \in 0 .. n /\ \A k \in 1 .. n : k \in 0 .. n /\ k - 1 \in 0 .. n
  OBVIOUS
<1>4. K(s) \in Nat /\ L(s) \in Nat /\ s \in PoolState /\ n <= K(s)
  BY PoolLens
<1> HIDE DEF I, K, L
<1>5. s \in I[0]
  BY <1>2, <1>3, <1>4 DEF Moved, Kept
<1>6. ASSUME NEW k \in 1 .. n, NEW t \in I[k - 1] PROVE FiberDeallocate(t, seq[k]) \in I[k]
  <2> DEFINE u == FiberDeallocate(t, w)
  <2>1. Pools(t, X) /\ Moved(s, t, w) /\ K(t) = K(s) - (k - 1) /\ t.gpool = s.gpool
    BY <1>2, <1>3
  <2>2. t.pool[w].fibers # <<>>
    BY <1>4, <2>1, PoolLens DEF K, L
  <2>3. Pools(u, X) /\ Moved(t, u, w) /\ K(u) = K(t) - 1 /\ u.gpool = t.gpool
    BY <2>1, <2>2, FiberDeallocateStep DEF K, L
  <2> HIDE DEF u
  <2>4. K(u) = K(s) - k /\ u.gpool = s.gpool
    BY <1>4, <2>1, <2>3
  <2>5. Moved(s, u, w)
    BY <2>1, <2>3, MovedTwice
  <2>6. u \in PoolState
    BY <2>3, PoolLens
  <2> QED BY <1>1, <1>2, <1>3, <2>3, <2>4, <2>5, <2>6 DEF u
<1> HIDE DEF seq
<1>7. Frees!FoldLeft(FiberDeallocate, s, seq) \in I[n]
  BY <1>1, <1>5, <1>6, Frees!FoldInvariant
<1>8. FreeFibers(s, w, n) = Frees!FoldLeft(FiberDeallocate, s, seq)
  BY DEF FreeFibers, seq, FoldLeft, Frees!FoldLeft, MapThenFoldSet, Frees!MapThenFoldSet, Max, Frees!Max
<1> QED BY <1>2, <1>3, <1>7, <1>8 DEF K, L

\* n fibers come from the shared pool.
LEMMA TakeFibersLoop ==
  ASSUME NEW s, NEW X, Pools(s, X), NEW w \in Workers, NEW n \in Nat, n <= Len(s.gpool.fibers)
  PROVE  LET r == TakeFibers(s, w, n) IN
         /\ Pools(r, X) /\ Moved(s, r, w)
         /\ Len(r.pool[w].fibers) = Len(s.pool[w].fibers) + n
         /\ Len(r.gpool.fibers) = Len(s.gpool.fibers) - n
<1> DEFINE seq == Repeat(n, w)
           K(t) == Len(t.pool[w].fibers)
           L(t) == Len(t.gpool.fibers)
           P(k, t) == Pools(t, X) /\ Moved(s, t, w) /\ K(t) = K(s) + k /\ L(t) = L(s) - k
           I == [k \in 0 .. n |-> {t \in PoolState : P(k, t)}]
<1>1. DOMAIN seq = 1 .. n /\ \A k \in 1 .. n : seq[k] = w
  BY DEF Repeat
<1>2. \A k \in 0 .. n : \A t : t \in I[k] <=> t \in PoolState /\ P(k, t)
  OBVIOUS
<1>3. 0 \in 0 .. n /\ n \in 0 .. n /\ \A k \in 1 .. n : k \in 0 .. n /\ k - 1 \in 0 .. n
  OBVIOUS
<1>4. K(s) \in Nat /\ L(s) \in Nat /\ s \in PoolState /\ n <= L(s)
  BY PoolLens
<1> HIDE DEF I, K, L
<1>5. s \in I[0]
  BY <1>2, <1>3, <1>4 DEF Moved, Kept
<1>6. ASSUME NEW k \in 1 .. n, NEW t \in I[k - 1] PROVE FromParent(t, seq[k]) \in I[k]
  <2> DEFINE u == FromParent(t, w)
  <2>1. Pools(t, X) /\ Moved(s, t, w) /\ K(t) = K(s) + (k - 1) /\ L(t) = L(s) - (k - 1)
    BY <1>2, <1>3
  <2>2. t.gpool.fibers # <<>>
    BY <1>4, <2>1, PoolLens DEF K, L
  <2>3. Pools(u, X) /\ Moved(t, u, w) /\ K(u) = K(t) + 1 /\ L(u) = L(t) - 1
    BY <2>1, <2>2, FromParentStep DEF K, L
  <2> HIDE DEF u
  <2>4. K(u) = K(s) + k /\ L(u) = L(s) - k
    BY <1>4, <2>1, <2>3
  <2>5. Moved(s, u, w)
    BY <2>1, <2>3, MovedTwice
  <2>6. u \in PoolState
    BY <2>3, PoolLens
  <2> QED BY <1>1, <1>2, <1>3, <2>3, <2>4, <2>5, <2>6 DEF u
<1> HIDE DEF seq
<1>7. Takes!FoldLeft(FromParent, s, seq) \in I[n]
  BY <1>1, <1>5, <1>6, Takes!FoldInvariant
<1>8. TakeFibers(s, w, n) = Takes!FoldLeft(FromParent, s, seq)
  BY DEF TakeFibers, seq, FoldLeft, Takes!FoldLeft, MapThenFoldSet, Takes!MapThenFoldSet, Max, Takes!Max
<1> QED BY <1>2, <1>3, <1>7, <1>8 DEF K, L

\* n fibers go to the shared pool.
LEMMA GiveFibersLoop ==
  ASSUME NEW s, NEW X, Pools(s, X), NEW w \in Workers, NEW n \in Nat, n <= Len(s.pool[w].fibers)
  PROVE  LET r == GiveFibers(s, w, n) IN
         /\ Pools(r, X) /\ Moved(s, r, w)
         /\ Len(r.pool[w].fibers) = Len(s.pool[w].fibers) - n
         /\ Len(r.gpool.fibers) = Len(s.gpool.fibers) + n
<1> DEFINE seq == Repeat(n, w)
           K(t) == Len(t.pool[w].fibers)
           L(t) == Len(t.gpool.fibers)
           P(k, t) == Pools(t, X) /\ Moved(s, t, w) /\ K(t) = K(s) - k /\ L(t) = L(s) + k
           I == [k \in 0 .. n |-> {t \in PoolState : P(k, t)}]
<1>1. DOMAIN seq = 1 .. n /\ \A k \in 1 .. n : seq[k] = w
  BY DEF Repeat
<1>2. \A k \in 0 .. n : \A t : t \in I[k] <=> t \in PoolState /\ P(k, t)
  OBVIOUS
<1>3. 0 \in 0 .. n /\ n \in 0 .. n /\ \A k \in 1 .. n : k \in 0 .. n /\ k - 1 \in 0 .. n
  OBVIOUS
<1>4. K(s) \in Nat /\ L(s) \in Nat /\ s \in PoolState /\ n <= K(s)
  BY PoolLens
<1> HIDE DEF I, K, L
<1>5. s \in I[0]
  BY <1>2, <1>3, <1>4 DEF Moved, Kept
<1>6. ASSUME NEW k \in 1 .. n, NEW t \in I[k - 1] PROVE ToParent(t, seq[k]) \in I[k]
  <2> DEFINE u == ToParent(t, w)
  <2>1. Pools(t, X) /\ Moved(s, t, w) /\ K(t) = K(s) - (k - 1) /\ L(t) = L(s) + (k - 1)
    BY <1>2, <1>3
  <2>2. t.pool[w].fibers # <<>>
    BY <1>4, <2>1, PoolLens DEF K, L
  <2>3. Pools(u, X) /\ Moved(t, u, w) /\ K(u) = K(t) - 1 /\ L(u) = L(t) + 1
    BY <2>1, <2>2, ToParentStep DEF K, L
  <2> HIDE DEF u
  <2>4. K(u) = K(s) - k /\ L(u) = L(s) + k
    BY <1>4, <2>1, <2>3
  <2>5. Moved(s, u, w)
    BY <2>1, <2>3, MovedTwice
  <2>6. u \in PoolState
    BY <2>3, PoolLens
  <2> QED BY <1>1, <1>2, <1>3, <2>3, <2>4, <2>5, <2>6 DEF u
<1> HIDE DEF seq
<1>7. Gives!FoldLeft(ToParent, s, seq) \in I[n]
  BY <1>1, <1>5, <1>6, Gives!FoldInvariant
<1>8. GiveFibers(s, w, n) = Gives!FoldLeft(ToParent, s, seq)
  BY DEF GiveFibers, seq, FoldLeft, Gives!FoldLeft, MapThenFoldSet, Gives!MapThenFoldSet, Max, Gives!Max
<1> QED BY <1>2, <1>3, <1>7, <1>8 DEF K, L

\* The smaller of two numbers.
LEMMA SmallerOf ==
  ASSUME NEW a \in Nat, NEW b \in Nat
  PROVE  Min({a, b}) \in Nat /\ Min({a, b}) <= a /\ Min({a, b}) <= b
<1> DEFINE S == {a, b}
           k == Sums!Min(S)
<1>1. S \in SUBSET Nat /\ S # {} /\ a \in S /\ b \in S
  OBVIOUS
<1>2. Min(S) = k
  BY DEF Min, Sums!Min
<1> HIDE DEF S
<1>3. k \in S /\ \A y \in S : k <= y
  BY <1>1, Sums!MinOf
<1> HIDE DEF k
<1> QED BY <1>1, <1>2, <1>3 DEF S

\* Half a pool, which is at least one fiber.
PoolBatch == FiberPoolCap \div BatchFraction

LEMMA PoolBatchFacts ==
  /\ PoolBatch \in Nat /\ PoolBatch > 0 /\ PoolBatch <= FiberPoolCap
  /\ FiberPoolCap \in Nat /\ GlobalCap \in Nat
<1>1. FiberPoolCap \in Nat /\ FiberPoolCap > 1 /\ GlobalPoolRatio \in Nat
  BY FiberPoolAssumption
<1>2. PoolBatch = FiberPoolCap \div 2
  BY DEF PoolBatch, BatchFraction
<1>3. GlobalCap \in Nat
  BY <1>1 DEF GlobalCap
<1> QED BY <1>1, <1>2, <1>3

\* fiber_pool_allocate_batch brings half a pool.
LEMMA PoolAllocateBatchOK ==
  ASSUME NEW s, NEW X, Pools(s, X), NEW w \in Workers
  PROVE  LET t == PoolAllocateBatch(s, w) IN
         /\ Pools(t, X) /\ Moved(s, t, w)
         /\ Len(t.pool[w].fibers) = Len(s.pool[w].fibers) + PoolBatch
         /\ Len(t.gpool.fibers) <= Len(s.gpool.fibers)
<1> DEFINE L == Len(s.gpool.fibers)
           n == Min({L, PoolBatch})
           k == PoolBatch - n
           u == TakeFibers(s, w, n)
           v == AllocateFibers(u, w, k)
           t == PoolAllocateBatch(s, w)
<1>1. t = v
  BY DEF PoolAllocateBatch, PoolBatch, AllocateFibers, TakeFibers
<1>2. L \in Nat /\ Len(s.pool[w].fibers) \in Nat
  BY PoolLens
<1>3. n \in Nat /\ n <= L /\ n <= PoolBatch /\ PoolBatch \in Nat
  <2> HIDE DEF L
  <2> QED BY <1>2, SmallerOf, PoolBatchFacts
<1> HIDE DEF n, t
<1>4. k \in Nat
  BY <1>3
<1>5. /\ Pools(u, X) /\ Moved(s, u, w) /\ Len(u.pool[w].fibers) = Len(s.pool[w].fibers) + n
      /\ Len(u.gpool.fibers) = L - n
  BY <1>3, TakeFibersLoop
<1> HIDE DEF u, k
<1>6. /\ Pools(v, X) /\ Moved(u, v, w) /\ Len(v.pool[w].fibers) = Len(u.pool[w].fibers) + k
      /\ v.gpool = u.gpool
  BY <1>4, <1>5, AllocateFibersLoop
<1> HIDE DEF v
<1>7. Moved(s, v, w)
  BY <1>5, <1>6, MovedTwice
<1>8. Len(v.pool[w].fibers) = Len(s.pool[w].fibers) + PoolBatch
  <2> DEFINE a == Len(v.pool[w].fibers)
             b == Len(u.pool[w].fibers)
             c == Len(s.pool[w].fibers)
  <2>1. a = b + k /\ b = c + n /\ k = PoolBatch - n
    BY <1>5, <1>6 DEF k
  <2>2. c \in Nat
    BY <1>2
  <2> HIDE DEF a, b, c
  <2> QED BY <1>3, <2>1, <2>2 DEF a, c
<1>9. Len(v.gpool.fibers) <= L
  <2>1. Len(v.gpool.fibers) = L - n
    BY <1>5, <1>6
  <2> HIDE DEF L
  <2> QED BY <1>2, <1>3, <2>1
<1> QED BY <1>1, <1>6, <1>7, <1>8, <1>9 DEF t

\* fiber_pool_free_batch takes half a pool away and does not overfill the
\* shared one.
LEMMA PoolFreeBatchOK ==
  ASSUME NEW s, NEW X, Pools(s, X), NEW w \in Workers,
         Len(s.pool[w].fibers) = FiberPoolCap, Len(s.gpool.fibers) <= GlobalCap
  PROVE  LET t == PoolFreeBatch(s, w) IN
         /\ Pools(t, X) /\ Moved(s, t, w)
         /\ Len(t.pool[w].fibers) = FiberPoolCap - PoolBatch
         /\ Len(t.gpool.fibers) <= GlobalCap
<1> DEFINE L == Len(s.gpool.fibers)
           room == GlobalCap - L
           n == Min({PoolBatch, room})
           k == PoolBatch - n
           u == GiveFibers(s, w, n)
           v == FreeFibers(u, w, k)
           t == PoolFreeBatch(s, w)
<1>1. t = v
  BY DEF PoolFreeBatch, PoolBatch, FreeFibers, GiveFibers, ParentRoom
<1>2. L \in Nat /\ Len(s.pool[w].fibers) \in Nat /\ L <= GlobalCap
  BY PoolLens
<1>3. n \in Nat /\ n <= room /\ n <= PoolBatch /\ PoolBatch \in Nat /\ PoolBatch <= FiberPoolCap /\ GlobalCap \in Nat
      /\ FiberPoolCap \in Nat
  <2>1. GlobalCap \in Nat /\ PoolBatch \in Nat
    BY PoolBatchFacts
  <2> HIDE DEF L
  <2>2. room \in Nat
    BY <1>2, <2>1
  <2> HIDE DEF room
  <2> QED BY <2>1, <2>2, SmallerOf, PoolBatchFacts
<1> HIDE DEF n, t, L
<1>4. k \in Nat
  BY <1>3
<1>5. /\ Pools(u, X) /\ Moved(s, u, w) /\ Len(u.pool[w].fibers) = Len(s.pool[w].fibers) - n
      /\ Len(u.gpool.fibers) = L + n
  <2>1. n <= Len(s.pool[w].fibers)
    BY <1>3
  <2> QED BY <1>3, <2>1, GiveFibersLoop DEF L
<1> HIDE DEF u
<1>6. Len(u.pool[w].fibers) = FiberPoolCap - n /\ k <= Len(u.pool[w].fibers)
  <2> DEFINE a == Len(u.pool[w].fibers)
  <2>1. a = FiberPoolCap - n
    BY <1>5
  <2> HIDE DEF a
  <2>2. k <= a
    BY <1>3, <2>1
  <2> QED BY <2>1, <2>2 DEF a
<1> HIDE DEF k
<1>7. /\ Pools(v, X) /\ Moved(u, v, w) /\ Len(v.pool[w].fibers) = Len(u.pool[w].fibers) - k
      /\ v.gpool = u.gpool
  BY <1>4, <1>5, <1>6, FreeFibersLoop
<1> HIDE DEF v
<1>8. Moved(s, v, w)
  BY <1>5, <1>7, MovedTwice
<1>9. Len(v.pool[w].fibers) = FiberPoolCap - PoolBatch
  <2> DEFINE a == Len(v.pool[w].fibers)
             b == Len(u.pool[w].fibers)
  <2>1. a = b - k /\ b = FiberPoolCap - n /\ k = PoolBatch - n
    BY <1>6, <1>7 DEF k
  <2> HIDE DEF a, b
  <2> QED BY <1>3, <2>1 DEF a
<1>10. Len(v.gpool.fibers) <= GlobalCap
  <2>1. Len(v.gpool.fibers) = L + n
    BY <1>5, <1>7
  <2> QED BY <1>2, <1>3, <2>1
<1> QED BY <1>1, <1>7, <1>8, <1>9, <1>10 DEF t

-----------------------------------------------------------------------------
(* The pools with another allocator *)

LEMMA PoolsWithMem ==
  ASSUME NEW s, NEW S, NEW X, PoolOK(s, S, X), NEW Y, \A y \in Y : y[1] \notin S,
         NEW m, MemOK(m, Y \cup (S \X {"fiber"}))
  PROVE  PoolOK(WithMem(s, m), S, Y) /\ WithMem(s, m).mem = m
         /\ WithMem(s, m).pool = s.pool /\ WithMem(s, m).gpool = s.gpool
<1>1. s \in PoolState /\ Spread(FibersOf(s), S) /\ m \in Mem
  BY DEF PoolOK, MemOK, Holding
<1>2. /\ WithMem(s, m) \in PoolState /\ WithMem(s, m).mem = m /\ WithMem(s, m).gpool = s.gpool
      /\ WithMem(s, m).pool = s.pool /\ FibersOf(WithMem(s, m)) = FibersOf(s)
  BY <1>1, WithMemIs
<1> QED BY <1>1, <1>2 DEF PoolOK

\* A thing more is in use.
LEMMA MallocPools ==
  ASSUME NEW s, NEW X, Pools(s, X), NEW w \in Workers, NEW tag \in Tags
  PROVE  LET r == Malloc(s.mem, w, Size[tag], tag) IN
         /\ r.p \in Nat /\ (\A x \in X : x[1] # r.p) /\ Kept(s.mem, r.mem, w)
         /\ Pools(WithMem(s, r.mem), X \cup {<<r.p, tag>>})
<1>1. PICK S : PoolOK(s, S, X)
  BY DEF Pools
<1> DEFINE r == Malloc(s.mem, w, Size[tag], tag)
           U == X \cup (S \X {"fiber"})
           Y == X \cup {<<r.p, tag>>}
<1>2. MemOK(s.mem, U)
  BY <1>1 DEF PoolOK
<1> HIDE DEF U
<1>3. /\ r.p \in Nat /\ \A u \in U : u[1] # r.p
      /\ MemOK(r.mem, U \cup {<<r.p, tag>>}) /\ Kept(s.mem, r.mem, w)
  BY <1>2, MallocOK
<1> HIDE DEF r
<1>4. r.p \notin S /\ \A x \in X : x[1] # r.p
  <2>1. \A f \in S : <<f, "fiber">> \in U
    BY DEF U
  <2> QED BY <1>3, <2>1 DEF U
<1>5. U \cup {<<r.p, tag>>} = Y \cup (S \X {"fiber"})
  BY DEF U
<1>6. \A y \in Y : y[1] \notin S
  BY <1>1, <1>4 DEF PoolOK
<1> HIDE DEF Y
<1>7. MemOK(r.mem, Y \cup (S \X {"fiber"}))
  BY <1>3, <1>5
<1>8. PoolOK(WithMem(s, r.mem), S, Y)
  BY <1>1, <1>6, <1>7, PoolsWithMem
<1> QED BY <1>3, <1>4, <1>8 DEF r, Y, Pools

\* A thing less is in use.
LEMMA LessInUse ==
  ASSUME NEW s, NEW S, NEW X, PoolOK(s, S, X), NEW p, NEW tag, <<p, tag>> \in X
  PROVE  LET Y == X \ {<<p, tag>>} IN
         /\ <<p, tag>> \in X \cup (S \X {"fiber"}) /\ (\A y \in Y : y[1] \notin S)
         /\ (X \cup (S \X {"fiber"})) \ {<<p, tag>>} = Y \cup (S \X {"fiber"})
<1>1. p \notin S
  <2>1. <<p, tag>>[1] = p
    OBVIOUS
  <2> QED BY <2>1 DEF PoolOK
<1>2. <<p, tag>> \notin S \X {"fiber"}
  BY <1>1
<1> QED BY <1>2 DEF PoolOK

LEMMA FreePools ==
  ASSUME NEW s, NEW X, Pools(s, X), NEW w \in Workers, NEW p, NEW tag, <<p, tag>> \in X
  PROVE  LET m == Free(s.mem, w, p, Size[tag], tag) IN
         Pools(WithMem(s, m), X \ {<<p, tag>>}) /\ Kept(s.mem, m, w)
<1>1. PICK S : PoolOK(s, S, X)
  BY DEF Pools
<1> DEFINE m == Free(s.mem, w, p, Size[tag], tag)
           U == X \cup (S \X {"fiber"})
           Y == X \ {<<p, tag>>}
<1>2. <<p, tag>> \in U /\ (\A y \in Y : y[1] \notin S) /\ U \ {<<p, tag>>} = Y \cup (S \X {"fiber"})
  BY <1>1, LessInUse
<1>3. MemOK(s.mem, U)
  BY <1>1 DEF PoolOK
<1> HIDE DEF U, Y
<1>4. MemOK(m, U \ {<<p, tag>>}) /\ Kept(s.mem, m, w)
  BY <1>2, <1>3, FreeOK
<1> HIDE DEF m
<1>5. MemOK(m, Y \cup (S \X {"fiber"}))
  BY <1>2, <1>4
<1>6. PoolOK(WithMem(s, m), S, Y)
  BY <1>1, <1>2, <1>5, PoolsWithMem
<1> QED BY <1>4, <1>6 DEF m, Y, Pools

LEMMA FreeGlobalPools ==
  ASSUME NEW s, NEW X, Pools(s, X), NEW p, NEW tag, <<p, tag>> \in X
  PROVE  LET m == FreeGlobal(s.mem, p, Size[tag], tag) IN
         Pools(WithMem(s, m), X \ {<<p, tag>>}) /\ m.l = s.mem.l
<1>1. PICK S : PoolOK(s, S, X)
  BY DEF Pools
<1> DEFINE m == FreeGlobal(s.mem, p, Size[tag], tag)
           U == X \cup (S \X {"fiber"})
           Y == X \ {<<p, tag>>}
<1>2. <<p, tag>> \in U /\ (\A y \in Y : y[1] \notin S) /\ U \ {<<p, tag>>} = Y \cup (S \X {"fiber"})
  BY <1>1, LessInUse
<1>3. MemOK(s.mem, U)
  BY <1>1 DEF PoolOK
<1> HIDE DEF U, Y
<1>4. MemOK(m, U \ {<<p, tag>>}) /\ m.l = s.mem.l
  BY <1>2, <1>3, FreeGlobalOK
<1> HIDE DEF m
<1>5. MemOK(m, Y \cup (S \X {"fiber"}))
  BY <1>2, <1>4
<1>6. PoolOK(WithMem(s, m), S, Y)
  BY <1>1, <1>2, <1>5, PoolsWithMem
<1> QED BY <1>4, <1>6 DEF m, Y, Pools

\* cilk_internal_malloc_per_worker_terminate with fibers still in other pools.
LEMMA TerminatePools ==
  ASSUME NEW s, NEW X, Pools(s, X), NEW w \in Workers
  PROVE  LET m == MallocTerminate(s.mem, w) IN
         Pools(WithMem(s, m), X) /\ Kept(s.mem, m, w) /\ Emptied(m, w)
<1>1. PICK S : PoolOK(s, S, X)
  BY DEF Pools
<1> DEFINE m == MallocTerminate(s.mem, w)
           U == X \cup (S \X {"fiber"})
<1>2. MemOK(s.mem, U)
  BY <1>1 DEF PoolOK
<1> HIDE DEF U
<1>3. MemOK(m, U) /\ Kept(s.mem, m, w) /\ Emptied(m, w)
  BY <1>2, MallocTerminateOK
<1> HIDE DEF m
<1>4. MemOK(m, X \cup (S \X {"fiber"})) /\ \A x \in X : x[1] \notin S
  BY <1>1, <1>3 DEF PoolOK, U
<1>5. PoolOK(WithMem(s, m), S, X)
  BY <1>1, <1>4, PoolsWithMem
<1> QED BY <1>3, <1>5 DEF m, Pools

-----------------------------------------------------------------------------
(* Fibers between the pools and the program *)

WithPool(s, w, q, k) == [s EXCEPT !.pool[w] = [fibers |-> q, in_use |-> k]]

LEMMA WithPoolIs ==
  ASSUME NEW s \in PoolState, NEW w \in Workers, NEW q \in Seq(Nat), NEW k \in Int
  PROVE  LET t == WithPool(s, w, q, k) IN
         /\ t \in PoolState /\ t.mem = s.mem /\ t.gpool = s.gpool
         /\ t.pool[w].fibers = q /\ t.pool[w].in_use = k
         /\ \A v \in Workers : v # w => t.pool[v] = s.pool[v]
         /\ Replaced(FibersOf(t), FibersOf(s), w, q)
<1> DEFINE x == [fibers |-> q, in_use |-> k]
           t == WithPool(s, w, q, k)
<1>1. x \in FiberList /\ x.fibers = q /\ x.in_use = k
  BY DEF FiberList
<1>2. s.pool \in [Workers -> FiberList]
  BY PoolFields
<1>3. t = [s EXCEPT !.pool = [s.pool EXCEPT ![w] = x]]
  BY DEF WithPool
<1> HIDE DEF x, t
<1>4. [s.pool EXCEPT ![w] = x] \in [Workers -> FiberList]
  BY <1>1, <1>2
<1>5. t \in PoolState /\ t.mem = s.mem /\ t.gpool = s.gpool /\ t.pool = [s.pool EXCEPT ![w] = x]
  BY <1>3, <1>4 DEF PoolState
<1>6. t.pool[w] = x /\ \A v \in Workers : v # w => t.pool[v] = s.pool[v]
  BY <1>2, <1>5
<1>7. Replaced(FibersOf(t), FibersOf(s), w, q)
  <2>1. FibersOf(t)[w] = q
    BY <1>1, <1>6, FibersAre
  <2>2. ASSUME NEW j \in Shelves, j # w PROVE FibersOf(t)[j] = FibersOf(s)[j]
    <3>1. CASE j = 0
      BY <1>5, <3>1, FibersAre
    <3>2. CASE j # 0
      <4>1. j \in Workers
        BY <3>2, ShelfFacts
      <4>2. FibersOf(t)[j] = t.pool[j].fibers
        BY <4>1, FibersAre
      <4>3. FibersOf(s)[j] = s.pool[j].fibers
        BY <4>1, FibersAre
      <4> QED BY <1>6, <2>2, <4>1, <4>2, <4>3
    <3> QED BY <3>1, <3>2
  <2> QED BY <2>1, <2>2 DEF Replaced
<1> QED BY <1>1, <1>5, <1>6, <1>7 DEF t

\* cilk_fiber_allocate_from_pool hands out the last fiber of a pool.
LEMMA FiberOut ==
  ASSUME NEW s, NEW X, Pools(s, X), NEW w \in Workers, s.pool[w].fibers # <<>>
  PROVE  LET f == Last(s.pool[w].fibers)
             t == WithPool(s, w, Front(s.pool[w].fibers), s.pool[w].in_use + 1)
         IN /\ f \in Nat /\ (\A x \in X : x[1] # f) /\ Pools(t, X \cup {<<f, "fiber">>})
            /\ t.mem = s.mem /\ t.gpool = s.gpool /\ t.pool[w].in_use = s.pool[w].in_use + 1
            /\ Len(t.pool[w].fibers) = Len(s.pool[w].fibers) - 1
            /\ \A v \in Workers : v # w => t.pool[v] = s.pool[v]
<1>1. PICK S : PoolOK(s, S, X)
  BY DEF Pools
<1> DEFINE f == Last(s.pool[w].fibers)
           q == Front(s.pool[w].fibers)
           k == s.pool[w].in_use + 1
           t == WithPool(s, w, q, k)
           R == S \ {f}
           Y == X \cup {<<f, "fiber">>}
           P == FibersOf(s)
           Q == FibersOf(t)
<1>2. s \in PoolState /\ Spread(P, S) /\ w \in Shelves
  BY <1>1, ShelfFacts DEF PoolOK
<1>3. P[w] = s.pool[w].fibers
  BY FibersAre
<1> HIDE DEF P
<1>4. q \in Seq(Nat) /\ k \in Int
  <2>1. ListOf(s.pool[w].fibers, Elems(s.pool[w].fibers))
    BY <1>2, <1>3 DEF Spread
  <2>2. q \in Seq(Nat)
    BY <2>1, FrontList DEF ListOf
  <2>3. s.pool[w].in_use \in Int
    BY <1>2, PoolFields
  <2> QED BY <2>2, <2>3
<1>5. P[w] # <<>> /\ f = Last(P[w]) /\ q = Front(P[w])
  BY <1>3
<1> HIDE DEF f, q, k
<1>6. /\ t \in PoolState /\ t.mem = s.mem /\ t.gpool = s.gpool
      /\ t.pool[w].fibers = q /\ t.pool[w].in_use = k
      /\ \A v \in Workers : v # w => t.pool[v] = s.pool[v]
      /\ Replaced(Q, P, w, q)
  BY <1>2, <1>4, WithPoolIs DEF P
<1>7. Q[w] = t.pool[w].fibers
  BY FibersAre
<1> HIDE DEF t, Q
<1>8. f \in S /\ f \in Nat /\ Spread(Q, R) /\ Len(Q[w]) = Len(P[w]) - 1
  <2>1. Replaced(Q, P, w, Front(P[w]))
    BY <1>5, <1>6
  <2> QED BY ONLY <1>2, <1>5, <2>1, SpreadLess DEF R
<1>9. \A x \in X : x[1] # f
  BY <1>1, <1>8 DEF PoolOK
<1>10. Y \cup (R \X {"fiber"}) = X \cup (S \X {"fiber"})
  BY <1>8
<1>11. PoolOK(t, R, Y)
  <2>1. \A y \in Y : y[1] \notin R
    BY <1>1 DEF PoolOK
  <2> HIDE DEF R, Y
  <2> QED BY <1>1, <1>6, <1>8, <1>10, <2>1 DEF PoolOK, Q
<1>12. Len(t.pool[w].fibers) = Len(s.pool[w].fibers) - 1
  BY <1>3, <1>7, <1>8
<1> QED BY <1>6, <1>8, <1>9, <1>11, <1>12 DEF t, f, q, k, Pools

\* cilk_fiber_deallocate_to_pool puts a fiber at the end of a pool.
LEMMA FiberIn ==
  ASSUME NEW s, NEW X, Pools(s, X), NEW w \in Workers, NEW f \in Nat, <<f, "fiber">> \in X
  PROVE  LET t == WithPool(s, w, Append(s.pool[w].fibers, f), s.pool[w].in_use - 1)
         IN /\ Pools(t, X \ {<<f, "fiber">>})
            /\ t.mem = s.mem /\ t.gpool = s.gpool /\ t.pool[w].in_use = s.pool[w].in_use - 1
            /\ Len(t.pool[w].fibers) = Len(s.pool[w].fibers) + 1
            /\ \A v \in Workers : v # w => t.pool[v] = s.pool[v]
<1>1. PICK S : PoolOK(s, S, X)
  BY DEF Pools
<1> DEFINE q == Append(s.pool[w].fibers, f)
           k == s.pool[w].in_use - 1
           t == WithPool(s, w, q, k)
           R == S \cup {f}
           Y == X \ {<<f, "fiber">>}
           P == FibersOf(s)
           Q == FibersOf(t)
<1>2. s \in PoolState /\ Spread(P, S) /\ w \in Shelves
  BY <1>1, ShelfFacts DEF PoolOK
<1>3. P[w] = s.pool[w].fibers
  BY FibersAre
<1> HIDE DEF P
<1>4. q \in Seq(Nat) /\ k \in Int
  <2>1. s.pool[w].in_use \in Int /\ s.pool[w].fibers \in Seq(Nat)
    BY <1>2, PoolFields
  <2> QED BY <2>1
<1>5. q = Append(P[w], f)
  BY <1>3
<1> HIDE DEF q, k
<1>6. /\ t \in PoolState /\ t.mem = s.mem /\ t.gpool = s.gpool
      /\ t.pool[w].fibers = q /\ t.pool[w].in_use = k
      /\ \A v \in Workers : v # w => t.pool[v] = s.pool[v]
      /\ Replaced(Q, P, w, q)
  BY <1>2, <1>4, WithPoolIs DEF P
<1>7. Q[w] = t.pool[w].fibers
  BY FibersAre
<1> HIDE DEF t, Q
<1>8. f \notin S
  <2>1. <<f, "fiber">>[1] = f
    OBVIOUS
  <2> QED BY <1>1, <2>1 DEF PoolOK
<1>9. Spread(Q, R) /\ Len(Q[w]) = Len(P[w]) + 1
  <2>1. Replaced(Q, P, w, Append(P[w], f))
    BY <1>5, <1>6
  <2> QED BY ONLY <1>2, <1>8, <2>1, f \in Nat, SpreadMore DEF R
<1>10. Y \cup (R \X {"fiber"}) = X \cup (S \X {"fiber"})
  OBVIOUS
<1>11. PoolOK(t, R, Y)
  <2>1. ASSUME NEW y \in Y PROVE y[1] \notin R
    <3>1. y[1] \notin S
      BY <1>1 DEF PoolOK
    <3>2. y[1] # f
      <4>1. Unique(X \cup (S \X {"fiber"}))
        BY <1>1 DEF PoolOK, MemOK
      <4>2. y \in X /\ y # <<f, "fiber">> /\ <<f, "fiber">>[1] = f
        OBVIOUS
      <4> QED BY <4>1, <4>2 DEF Unique
    <3> QED BY <3>1, <3>2
  <2> HIDE DEF R, Y
  <2> QED BY <1>1, <1>6, <1>9, <1>10, <2>1 DEF PoolOK, Q
<1>12. Len(t.pool[w].fibers) = Len(s.pool[w].fibers) + 1
  BY <1>3, <1>7, <1>9
<1> QED BY <1>6, <1>11, <1>12 DEF t, q, k, Pools

\* What the private counters add up to.
CountOf(s) == SumOf([w \in Workers |-> s.pool[w].in_use])

LEMMA CountChanged ==
  ASSUME NEW s \in PoolState, NEW t \in PoolState, NEW w \in Workers,
         \A v \in Workers : v # w => t.pool[v] = s.pool[v]
  PROVE  CountOf(s) \in Int /\ CountOf(t) = CountOf(s) + (t.pool[w].in_use - s.pool[w].in_use)
<1> DEFINE f == [v \in Workers |-> s.pool[v].in_use]
           e == [v \in Workers |-> t.pool[v].in_use]
<1>1. f \in [Workers -> Int] /\ e \in [Workers -> Int]
  <2>1. \A v \in Workers : s.pool[v].in_use \in Int
    BY PoolFields
  <2>2. \A v \in Workers : t.pool[v].in_use \in Int
    BY PoolFields
  <2> QED BY <2>1, <2>2
<1>2. f[w] = s.pool[w].in_use /\ e[w] = t.pool[w].in_use /\ \A v \in Workers : v # w => e[v] = f[v]
  OBVIOUS
<1>3. CountOf(s) = SumOf(f) /\ CountOf(t) = SumOf(e)
  BY DEF CountOf
<1> HIDE DEF f, e
<1> QED BY <1>1, <1>2, <1>3, SumChanged

-----------------------------------------------------------------------------
(* The inductive invariant *)

\* What the program has: fibers h, objects o, the root r until it is freed.
Object == [p : Nat, tag : {"closure", "map"}]
Hands(h, o, r, ph) ==
  (h \X {"fiber"}) \cup {<<x.p, x.tag>> : x \in o}
  \cup (IF ph = Running THEN {<<r.fiber, "fiber">>, <<r.closure, "closure">>} ELSE {})

\* The root is not among the fibers and objects.
Apart(h, o, r, ph) ==
  /\ h \in SUBSET Nat /\ IsFiniteSet(h) /\ o \in SUBSET Object /\ IsFiniteSet(o)
  /\ r \in [closure : Nat, fiber : Nat]
  /\ ph = Running => r.fiber \notin h /\ [p |-> r.closure, tag |-> "closure"] \notin o

Limits(s) ==
  /\ \A w \in Workers : Len(s.pool[w].fibers) <= FiberPoolCap
  /\ Len(s.gpool.fibers) <= GlobalCap

\* While the program runs, in_use is what is in use.
Counted(s, h, ph) == ph = Running => CountOf(s) = Cardinality(h) /\ Owed(s) = 0

\* What the shutdown has done when it got to phase ph.
Down(s, h, o, ph) ==
  /\ ph \in -1 .. Running
  /\ ph # Running => h = {} /\ \A x \in o : x.tag = "map" /\ \A y \in o : x = y
  /\ \A w \in Workers : w > ph => s.pool[w].fibers = <<>> /\ Emptied(s.mem, w)
  /\ ph <= 0 => o = {}
  /\ ph = Over => s.gpool.fibers = <<>>

Good(s, h, o, r, ph) ==
  /\ Apart(h, o, r, ph) /\ Pools(s, Hands(h, o, r, ph))
  /\ Limits(s) /\ Counted(s, h, ph) /\ Down(s, h, o, ph)

\* No part of the shutdown is done while the program runs.
LEMMA PhaseFacts ==
  /\ Running \in Nat /\ Running > 1 /\ Running # Over /\ 1 \in Workers
  /\ \A w \in Workers : w \in Nat /\ w > 0 /\ w < Running
  /\ \A s, h, o : Down(s, h, o, Running)
<1>1. NWorkers \in Nat /\ NWorkers > 0 /\ Workers = 1 .. NWorkers /\ Running = NWorkers + 1 /\ Over = -1
  BY MallocAssumption DEF Workers, Running, Over
<1>2. /\ Running \in Nat /\ Running > 1 /\ Running # Over /\ 1 \in Workers
      /\ \A w \in Workers : w \in Nat /\ w > 0 /\ w < Running
  BY <1>1
<1>3. Running \in -1 .. Running /\ ~(Running <= 0) /\ \A w \in Workers : ~(w > Running)
  BY <1>2
<1>4. \A s, h, o : Down(s, h, o, Running)
  <2> TAKE s, h, o
  <2> QED BY <1>2, <1>3 DEF Down
<1> QED BY <1>2, <1>4

\* One object more, one fiber or object less.
LEMMA HandsMoreObject ==
  ASSUME NEW h, NEW o, NEW r, NEW ph, NEW x
  PROVE  Hands(h, o \cup {x}, r, ph) = Hands(h, o, r, ph) \cup {<<x.p, x.tag>>}
<1>1. {<<y.p, y.tag>> : y \in o \cup {x}} = {<<y.p, y.tag>> : y \in o} \cup {<<x.p, x.tag>>}
  OBVIOUS
<1> QED BY <1>1 DEF Hands

LEMMA HandsLessFiber ==
  ASSUME NEW h, NEW o, NEW r, NEW ph, Apart(h, o, r, ph), NEW f \in h
  PROVE  <<f, "fiber">> \in Hands(h, o, r, ph) /\ Hands(h \ {f}, o, r, ph) = Hands(h, o, r, ph) \ {<<f, "fiber">>}
<1> DEFINE O == {<<x.p, x.tag>> : x \in o}
           R == IF ph = Running THEN {<<r.fiber, "fiber">>, <<r.closure, "closure">>} ELSE {}
           x == <<f, "fiber">>
<1>1. x \notin O
  <2>1. \A y \in o : y.tag # "fiber"
    BY DEF Apart, Object
  <2> QED BY <2>1
<1>2. x \notin R
  BY DEF Apart
<1>3. (h \ {f}) \X {"fiber"} = (h \X {"fiber"}) \ {x} /\ x \in h \X {"fiber"}
  OBVIOUS
<1>4. /\ Hands(h, o, r, ph) = (h \X {"fiber"}) \cup O \cup R
      /\ Hands(h \ {f}, o, r, ph) = ((h \ {f}) \X {"fiber"}) \cup O \cup R
  BY DEF Hands
<1> HIDE DEF O, R, x
<1>5. x \in Hands(h, o, r, ph) /\ Hands(h \ {f}, o, r, ph) = Hands(h, o, r, ph) \ {x}
  BY <1>1, <1>2, <1>3, <1>4
<1> QED BY <1>5 DEF x

LEMMA HandsLessObject ==
  ASSUME NEW h, NEW o, NEW r, NEW ph, Apart(h, o, r, ph), NEW x \in o
  PROVE  /\ x.p \in Nat /\ x.tag \in Tags /\ <<x.p, x.tag>> \in Hands(h, o, r, ph)
         /\ Hands(h, o \ {x}, r, ph) = Hands(h, o, r, ph) \ {<<x.p, x.tag>>}
<1> DEFINE F == h \X {"fiber"}
           O(s) == {<<y.p, y.tag>> : y \in s}
           R == IF ph = Running THEN {<<r.fiber, "fiber">>, <<r.closure, "closure">>} ELSE {}
           a == <<x.p, x.tag>>
<1>1. x \in Object /\ x.p \in Nat /\ x.tag \in {"closure", "map"} /\ x = [p |-> x.p, tag |-> x.tag]
  BY DEF Apart, Object
<1>2. a \notin F /\ x.tag \in Tags
  BY <1>1 DEF Tags
<1>3. a \notin R
  <2>1. SUFFICES ASSUME ph = Running, a = <<r.closure, "closure">> PROVE FALSE
    BY <1>1
  <2>2. x = [p |-> r.closure, tag |-> "closure"]
    BY <1>1, <2>1
  <2> QED BY <2>1, <2>2 DEF Apart
<1>4. O(o \ {x}) = O(o) \ {a} /\ a \in O(o)
  <2>1. ASSUME NEW y \in o, <<y.p, y.tag>> = a PROVE y = x
    <3>1. y \in Object
      BY DEF Apart
    <3>2. y = [p |-> y.p, tag |-> y.tag] /\ y.p = x.p /\ y.tag = x.tag
      BY <2>1, <3>1 DEF Object
    <3> QED BY <1>1, <3>2
  <2> QED BY <2>1
<1>5. Hands(h, o, r, ph) = F \cup O(o) \cup R /\ Hands(h, o \ {x}, r, ph) = F \cup O(o \ {x}) \cup R
  BY DEF Hands
<1> HIDE DEF F, O, R, a
<1>6. a \in Hands(h, o, r, ph) /\ Hands(h, o \ {x}, r, ph) = Hands(h, o, r, ph) \ {a}
  BY <1>2, <1>3, <1>4, <1>5
<1> QED BY <1>1, <1>2, <1>6 DEF a

\* A batch keeps the counts.
LEMMA MovedCounts ==
  ASSUME NEW s \in PoolState, NEW t \in PoolState, NEW w \in Workers, Moved(s, t, w)
  PROVE  CountOf(t) = CountOf(s) /\ CountOf(s) \in Int /\ Owed(t) = Owed(s)
<1>1. (\A v \in Workers : v # w => t.pool[v] = s.pool[v]) /\ t.pool[w].in_use = s.pool[w].in_use /\ Owed(t) = Owed(s)
  BY DEF Moved
<1>2. s.pool[w].in_use \in Int
  BY PoolFields
<1>3. CountOf(s) \in Int /\ CountOf(t) = CountOf(s) + (t.pool[w].in_use - s.pool[w].in_use)
  BY <1>1, CountChanged
<1> QED BY <1>1, <1>2, <1>3

\* cilk_fiber_allocate_from_pool: the pool as it is when the fiber is taken.
Filled(s, w) == IF s.pool[w].fibers = <<>> THEN PoolAllocateBatch(s, w) ELSE s
Taken(t, w) == WithPool(t, w, Front(t.pool[w].fibers), t.pool[w].in_use + 1)

LEMMA TakenGood ==
  ASSUME NEW s, NEW h, NEW o, NEW r, Good(s, h, o, r, Running), NEW w \in Workers
  PROVE  LET t == Filled(s, w) IN
         Good(Taken(t, w), h \cup {Last(t.pool[w].fibers)}, o, r, Running)
<1> DEFINE X == Hands(h, o, r, Running)
           t == Filled(s, w)
           f == Last(t.pool[w].fibers)
           u == Taken(t, w)
           L(x) == Len(x.pool[w].fibers)
           G(x) == Len(x.gpool.fibers)
<1>1. Pools(s, X) /\ Limits(s) /\ Apart(h, o, r, Running) /\ Counted(s, h, Running)
  BY DEF Good
<1>2. s \in PoolState /\ L(s) \in Nat /\ G(s) \in Nat
  BY <1>1, PoolLens
<1> HIDE DEF X
<1>3. Pools(t, X) /\ Moved(s, t, w) /\ L(t) \in Nat /\ L(t) > 0 /\ L(t) <= FiberPoolCap /\ G(t) <= GlobalCap
  <2>1. CASE s.pool[w].fibers = <<>>
    <3>1. t = PoolAllocateBatch(s, w)
      BY <2>1 DEF Filled
    <3> HIDE DEF t
    <3>2. Pools(t, X) /\ Moved(s, t, w) /\ L(t) = L(s) + PoolBatch /\ G(t) <= G(s)
      BY <1>1, <3>1, PoolAllocateBatchOK
    <3>3. L(s) = 0 /\ G(s) <= GlobalCap
      BY <1>1, <2>1 DEF Limits
    <3>4. G(t) \in Nat
      BY <3>2, PoolLens
    <3> HIDE DEF L, G
    <3> QED BY <1>2, <3>2, <3>3, <3>4, PoolBatchFacts
  <2>2. CASE s.pool[w].fibers # <<>>
    <3>1. t = s
      BY <2>2 DEF Filled
    <3> HIDE DEF t
    <3>2. L(s) > 0
      <4>1. s.pool[w].fibers \in Seq(Nat)
        BY <1>2, PoolFields
      <4> QED BY <2>2, <4>1
    <3>3. Moved(s, s, w)
      BY DEF Moved, Kept
    <3> QED BY <1>1, <1>2, <3>1, <3>2, <3>3 DEF Limits
  <2> QED BY <2>1, <2>2
<1> HIDE DEF t
<1>4. t.pool[w].fibers # <<>> /\ t \in PoolState
  BY <1>3, PoolLens
<1>5. /\ f \in Nat /\ (\A x \in X : x[1] # f) /\ Pools(u, X \cup {<<f, "fiber">>})
      /\ u.mem = t.mem /\ u.gpool = t.gpool /\ u.pool[w].in_use = t.pool[w].in_use + 1
      /\ L(u) = L(t) - 1 /\ \A v \in Workers : v # w => u.pool[v] = t.pool[v]
  BY <1>3, <1>4, FiberOut DEF Taken
<1> HIDE DEF f, u
<1>6. u \in PoolState
  BY <1>5, PoolLens
<1>7. Apart(h \cup {f}, o, r, Running) /\ f \notin h
  <2>1. f # r.fiber /\ f \notin h
    <3>1. <<r.fiber, "fiber">> \in X /\ \A g \in h : <<g, "fiber">> \in X
      BY DEF X, Hands
    <3>2. <<r.fiber, "fiber">>[1] = r.fiber /\ \A g \in h : <<g, "fiber">>[1] = g
      OBVIOUS
    <3> QED BY <1>5, <3>1, <3>2
  <2>2. IsFiniteSet(h \cup {f})
    BY <1>1, FS_AddElement DEF Apart
  <2> QED BY <1>1, <1>5, <2>1, <2>2 DEF Apart
<1>8. Pools(u, Hands(h \cup {f}, o, r, Running))
  <2>1. (h \cup {f}) \X {"fiber"} = (h \X {"fiber"}) \cup {<<f, "fiber">>}
    OBVIOUS
  <2>2. Hands(h \cup {f}, o, r, Running) = X \cup {<<f, "fiber">>}
    BY <2>1 DEF Hands, X
  <2> QED BY <1>5, <2>2
<1>9. Limits(u)
  <2>1. L(u) <= FiberPoolCap
    <3> HIDE DEF L
    <3> QED BY <1>3, <1>5, PoolBatchFacts
  <2>2. \A v \in Workers : v # w => u.pool[v] = s.pool[v]
    BY <1>3, <1>5 DEF Moved
  <2> QED BY <1>1, <1>3, <1>5, <2>1, <2>2 DEF Limits
<1>10. Counted(u, h \cup {f}, Running)
  <2>1. CountOf(t) = CountOf(s) /\ CountOf(s) \in Int /\ Owed(t) = Owed(s)
    BY <1>2, <1>3, <1>4, MovedCounts
  <2>2. CountOf(u) = CountOf(t) + (u.pool[w].in_use - t.pool[w].in_use)
    BY <1>4, <1>5, <1>6, CountChanged
  <2>3. t.pool[w].in_use \in Int
    BY <1>4, PoolFields
  <2>4. CountOf(s) = Cardinality(h) /\ Owed(s) = 0
    BY <1>1 DEF Counted
  <2>5. Cardinality(h \cup {f}) = Cardinality(h) + 1
    BY <1>1, <1>7, FS_AddElement DEF Apart
  <2>6. Owed(u) = Owed(t)
    BY <1>5 DEF Owed
  <2>7. CountOf(u) = Cardinality(h \cup {f})
    BY <1>5, <2>1, <2>2, <2>3, <2>4, <2>5
  <2> QED BY <2>1, <2>4, <2>6, <2>7 DEF Counted
<1>11. Good(u, h \cup {f}, o, r, Running)
  BY <1>7, <1>8, <1>9, <1>10, PhaseFacts DEF Good
<1> QED BY <1>11 DEF t, f, u

\* cilk_fiber_deallocate_to_pool: the pool as it is when the fiber is put back.
Drained(s, w) == IF Len(s.pool[w].fibers) = FiberPoolCap THEN PoolFreeBatch(s, w) ELSE s
Given(t, w, f) == WithPool(t, w, Append(t.pool[w].fibers, f), t.pool[w].in_use - 1)

LEMMA GivenGood ==
  ASSUME NEW s, NEW h, NEW o, NEW r, Good(s, h, o, r, Running), NEW w \in Workers, NEW f \in h
  PROVE  Good(Given(Drained(s, w), w, f), h \ {f}, o, r, Running)
<1> DEFINE X == Hands(h, o, r, Running)
           t == Drained(s, w)
           u == Given(t, w, f)
           L(x) == Len(x.pool[w].fibers)
           G(x) == Len(x.gpool.fibers)
<1>1. Pools(s, X) /\ Limits(s) /\ Apart(h, o, r, Running) /\ Counted(s, h, Running)
  BY DEF Good
<1>2. s \in PoolState /\ L(s) \in Nat /\ G(s) \in Nat
  BY <1>1, PoolLens
<1>3. f \in Nat /\ <<f, "fiber">> \in X /\ Hands(h \ {f}, o, r, Running) = X \ {<<f, "fiber">>}
  <2>1. <<f, "fiber">> \in X /\ Hands(h \ {f}, o, r, Running) = X \ {<<f, "fiber">>}
    BY <1>1, HandsLessFiber
  <2>2. h \in SUBSET Nat
    BY <1>1 DEF Apart
  <2> QED BY <2>1, <2>2
<1> HIDE DEF X
<1>4. Pools(t, X) /\ Moved(s, t, w) /\ L(t) \in Nat /\ L(t) < FiberPoolCap /\ G(t) <= GlobalCap
  <2>1. CASE L(s) = FiberPoolCap
    <3>1. t = PoolFreeBatch(s, w) /\ G(s) <= GlobalCap
      BY <1>1, <2>1 DEF Drained, Limits
    <3> HIDE DEF t
    <3>2. Pools(t, X) /\ Moved(s, t, w) /\ L(t) = FiberPoolCap - PoolBatch /\ G(t) <= GlobalCap
      BY <1>1, <2>1, <3>1, PoolFreeBatchOK
    <3> HIDE DEF L, G
    <3> QED BY <3>2, PoolBatchFacts
  <2>2. CASE L(s) # FiberPoolCap
    <3>1. t = s
      BY <2>2 DEF Drained
    <3> HIDE DEF t
    <3>2. L(s) <= FiberPoolCap /\ G(s) <= GlobalCap
      BY <1>1 DEF Limits
    <3>3. Moved(s, s, w)
      BY DEF Moved, Kept
    <3> HIDE DEF L, G
    <3>4. L(s) < FiberPoolCap
      BY <1>2, <2>2, <3>2, PoolBatchFacts
    <3> QED BY <1>1, <1>2, <3>1, <3>2, <3>3, <3>4
  <2> QED BY <2>1, <2>2
<1> HIDE DEF t
<1>5. t \in PoolState
  BY <1>4, PoolLens
<1>6. /\ Pools(u, X \ {<<f, "fiber">>})
      /\ u.mem = t.mem /\ u.gpool = t.gpool /\ u.pool[w].in_use = t.pool[w].in_use - 1
      /\ L(u) = L(t) + 1 /\ \A v \in Workers : v # w => u.pool[v] = t.pool[v]
  <2>1. Pools(t, X) /\ f \in Nat /\ <<f, "fiber">> \in X
    BY <1>3, <1>4
  <2>2. u = WithPool(t, w, Append(t.pool[w].fibers, f), t.pool[w].in_use - 1)
    BY DEF Given
  <2> HIDE DEF u
  <2> QED BY ONLY <2>1, <2>2, w \in Workers, FiberIn
<1> HIDE DEF u
<1>7. u \in PoolState
  BY <1>6, PoolLens
<1>8. Apart(h \ {f}, o, r, Running)
  <2>1. IsFiniteSet(h \ {f})
    BY <1>1, FS_RemoveElement DEF Apart
  <2> QED BY <1>1, <2>1 DEF Apart
<1>9. Limits(u)
  <2>1. L(u) <= FiberPoolCap
    <3> HIDE DEF L
    <3> QED BY <1>4, <1>6, PoolBatchFacts
  <2>2. \A v \in Workers : v # w => u.pool[v] = s.pool[v]
    BY <1>4, <1>6 DEF Moved
  <2> QED BY <1>1, <1>4, <1>6, <2>1, <2>2 DEF Limits
<1>10. Counted(u, h \ {f}, Running)
  <2>1. CountOf(t) = CountOf(s) /\ CountOf(s) \in Int /\ Owed(t) = Owed(s)
    BY <1>2, <1>4, <1>5, MovedCounts
  <2>2. CountOf(u) = CountOf(t) + (u.pool[w].in_use - t.pool[w].in_use)
    BY <1>5, <1>6, <1>7, CountChanged
  <2>3. t.pool[w].in_use \in Int
    BY <1>5, PoolFields
  <2>4. CountOf(s) = Cardinality(h) /\ Owed(s) = 0
    BY <1>1 DEF Counted
  <2>5. Cardinality(h \ {f}) = Cardinality(h) - 1
    BY <1>1, FS_RemoveElement DEF Apart
  <2>6. Owed(u) = Owed(t)
    BY <1>6 DEF Owed
  <2>7. CountOf(u) = Cardinality(h \ {f})
    BY <1>6, <2>1, <2>2, <2>3, <2>4, <2>5
  <2> QED BY <2>1, <2>4, <2>6, <2>7 DEF Counted
<1>11. Good(u, h \ {f}, o, r, Running)
  BY <1>3, <1>6, <1>8, <1>9, <1>10, PhaseFacts DEF Good
<1> QED BY <1>11 DEF t, u

\* Only the allocator of a state changed.
LEMMA MemOnly ==
  ASSUME NEW s, NEW m, NEW X, Pools(WithMem(s, m), X), s \in PoolState, m \in Mem
  PROVE  LET t == WithMem(s, m) IN
         /\ t.mem = m /\ t.pool = s.pool /\ t.gpool = s.gpool
         /\ (Limits(s) => Limits(t)) /\ \A h, ph : Counted(s, h, ph) => Counted(t, h, ph)
<1> DEFINE t == WithMem(s, m)
<1>1. t.mem = m /\ t.pool = s.pool /\ t.gpool = s.gpool
  BY WithMemIs
<1> HIDE DEF t
<1>2. Limits(s) => Limits(t)
  BY <1>1 DEF Limits
<1>3. \A h, ph : Counted(s, h, ph) => Counted(t, h, ph)
  BY <1>1 DEF Counted, CountOf, Owed
<1> QED BY <1>1, <1>2, <1>3 DEF t

\* Closure_create and cilkred_map_make_map.
LEMMA CreateGood ==
  ASSUME NEW s, NEW h, NEW o, NEW r, Good(s, h, o, r, Running), NEW w \in Workers, NEW tag \in {"closure", "map"}
  PROVE  LET a == Malloc(s.mem, w, Size[tag], tag) IN
         Good(WithMem(s, a.mem), h, o \cup {[p |-> a.p, tag |-> tag]}, r, Running)
<1> DEFINE X == Hands(h, o, r, Running)
           a == Malloc(s.mem, w, Size[tag], tag)
           t == WithMem(s, a.mem)
           x == [p |-> a.p, tag |-> tag]
<1>1. Pools(s, X) /\ Limits(s) /\ Apart(h, o, r, Running) /\ Counted(s, h, Running)
  BY DEF Good
<1>2. tag \in Tags
  BY DEF Tags
<1> HIDE DEF X
<1>3. /\ a.p \in Nat /\ (\A y \in X : y[1] # a.p) /\ Pools(t, X \cup {<<a.p, tag>>})
  BY <1>1, <1>2, MallocPools
<1> HIDE DEF a
<1>4. Hands(h, o \cup {x}, r, Running) = X \cup {<<a.p, tag>>}
  <2>1. x.p = a.p /\ x.tag = tag
    OBVIOUS
  <2> HIDE DEF x
  <2>2. Hands(h, o \cup {x}, r, Running) = X \cup {<<x.p, x.tag>>}
    BY HandsMoreObject DEF X
  <2> QED BY <2>1, <2>2
<1>5. Apart(h, o \cup {x}, r, Running)
  <2>1. x \in Object /\ x.p = a.p
    BY <1>3 DEF Object
  <2>2. a.p # r.closure
    <3>1. <<r.closure, "closure">> \in X
      BY DEF X, Hands
    <3>2. <<r.closure, "closure">>[1] = r.closure
      OBVIOUS
    <3> QED BY <1>3, <3>1, <3>2
  <2>3. x # [p |-> r.closure, tag |-> "closure"]
    BY <2>1, <2>2
  <2> HIDE DEF x
  <2>4. IsFiniteSet(o \cup {x})
    BY <1>1, FS_AddElement DEF Apart
  <2> QED BY <1>1, <2>1, <2>3, <2>4 DEF Apart
<1>6. Limits(t) /\ Counted(t, h, Running)
  <2>1. s \in PoolState
    BY <1>1 DEF Pools, PoolOK
  <2>2. t.mem \in Mem
    BY <1>3 DEF Pools, PoolOK, PoolState
  <2>3. t = [s EXCEPT !.mem = a.mem]
    BY DEF WithMem
  <2>4. t.mem = a.mem
    <3> HIDE DEF t
    <3> QED BY <2>1, <2>3 DEF PoolState
  <2> QED BY <1>1, <1>3, <2>1, <2>2, <2>4, MemOnly
<1>7. Good(t, h, o \cup {x}, r, Running)
  BY <1>3, <1>4, <1>5, <1>6, PhaseFacts DEF Good
<1> QED BY <1>7 DEF a

\* Closure_destroy and cilkred_map_destroy_map.
LEMMA DestroyGood ==
  ASSUME NEW s, NEW h, NEW o, NEW r, Good(s, h, o, r, Running), NEW w \in Workers, NEW x \in o
  PROVE  Good(WithMem(s, Free(s.mem, w, x.p, Size[x.tag], x.tag)), h, o \ {x}, r, Running)
<1> DEFINE X == Hands(h, o, r, Running)
           m == Free(s.mem, w, x.p, Size[x.tag], x.tag)
           t == WithMem(s, m)
<1>1. Pools(s, X) /\ Limits(s) /\ Apart(h, o, r, Running) /\ Counted(s, h, Running)
  BY DEF Good
<1>2. /\ x.p \in Nat /\ x.tag \in Tags /\ <<x.p, x.tag>> \in X
      /\ Hands(h, o \ {x}, r, Running) = X \ {<<x.p, x.tag>>}
  BY <1>1, HandsLessObject
<1> HIDE DEF X
<1>3. Pools(t, X \ {<<x.p, x.tag>>})
  BY <1>1, <1>2, FreePools
<1> HIDE DEF m
<1>4. Apart(h, o \ {x}, r, Running)
  <2>1. IsFiniteSet(o \ {x})
    BY <1>1, FS_RemoveElement DEF Apart
  <2> QED BY <1>1, <2>1 DEF Apart
<1>5. Limits(t) /\ Counted(t, h, Running)
  <2>1. s \in PoolState
    BY <1>1 DEF Pools, PoolOK
  <2>2. t.mem \in Mem
    BY <1>3 DEF Pools, PoolOK, PoolState
  <2>3. t = [s EXCEPT !.mem = m]
    BY DEF WithMem
  <2>4. t.mem = m
    <3> HIDE DEF t
    <3> QED BY <2>1, <2>3 DEF PoolState
  <2> QED BY <1>1, <1>3, <2>1, <2>2, <2>4, MemOnly
<1>6. Good(t, h, o \ {x}, r, Running)
  BY <1>2, <1>3, <1>4, <1>5, PhaseFacts DEF Good
<1> QED BY <1>6 DEF m

-----------------------------------------------------------------------------
(* The shutdown *)

\* One allocator after another.
LEMMA WithMemTwice ==
  ASSUME NEW s \in PoolState, NEW m, NEW n
  PROVE  WithMem(WithMem(s, m), n) = WithMem(s, n) /\ WithMem(s, m).mem = m
         /\ WithMem(s, m).pool = s.pool /\ WithMem(s, m).gpool = s.gpool
  BY DEF PoolState, WithMem

\* A set with fewer than two elements.
LEMMA AllEqual ==
  ASSUME NEW S, IsFiniteSet(S), Cardinality(S) < 2, NEW x \in S, NEW y \in S
  PROVE  x = y
<1> SUFFICES ASSUME x # y PROVE FALSE
  OBVIOUS
<1>1. IsFiniteSet({}) /\ Cardinality({}) = 0
  BY FS_EmptySet
<1>2. IsFiniteSet({x}) /\ Cardinality({x}) = 1
  BY FS_Singleton
<1>3. {x} \cup {y} \subseteq S /\ y \notin {x}
  OBVIOUS
<1>4. Cardinality({x} \cup {y}) = Cardinality({x}) + 1
  BY <1>2, <1>3, FS_AddElement
<1>5. Cardinality({x} \cup {y}) <= Cardinality(S) /\ Cardinality(S) \in Nat
  BY <1>3, FS_Subset, FS_CardinalityType
<1> QED BY <1>2, <1>4, <1>5

\* The root closure and its fiber are freed.
LEMMA FreeRootGood ==
  ASSUME NEW s, NEW h, NEW o, NEW r, Good(s, h, o, r, Running),
         h = {}, Cardinality(o) < 2, \A x \in o : x.tag = "map"
  PROVE  LET m == FreeGlobal(FreeGlobal(s.mem, r.fiber, Size["fiber"], "fiber"),
                             r.closure, Size["closure"], "closure")
         IN Good(WithMem(s, m), h, o, r, NWorkers)
<1> DEFINE X == Hands(h, o, r, Running)
           x == <<r.fiber, "fiber">>
           y == <<r.closure, "closure">>
           m == FreeGlobal(s.mem, r.fiber, Size["fiber"], "fiber")
           n == FreeGlobal(m, r.closure, Size["closure"], "closure")
           t == WithMem(s, m)
           u == WithMem(s, n)
<1>1. Pools(s, X) /\ Limits(s) /\ Apart(h, o, r, Running)
  BY DEF Good
<1>2. s \in PoolState /\ NWorkers \in Nat /\ NWorkers > 0
  BY <1>1, MallocAssumption DEF Pools, PoolOK
<1>3. x \in X /\ y \in X \ {x} /\ Hands(h, o, r, NWorkers) = (X \ {x}) \ {y}
  <2> DEFINE O == {<<a.p, a.tag>> : a \in o}
  <2>1. X = O \cup {x, y}
    BY DEF Hands
  <2>2. NWorkers # Running
    BY <1>2 DEF Running
  <2>3. Hands(h, o, r, NWorkers) = O
    BY <2>2 DEF Hands
  <2>4. x \notin O /\ y \notin O /\ x # y
    OBVIOUS
  <2> HIDE DEF O, x, y, X
  <2> QED BY <2>1, <2>3, <2>4
<1> HIDE DEF X
<1>4. Pools(t, X \ {x}) /\ m.l = s.mem.l
  BY <1>1, <1>3, FreeGlobalPools
<1>5. t.mem = m /\ WithMem(t, n) = u
  BY <1>2, WithMemTwice
<1> HIDE DEF t
<1>6. Pools(WithMem(t, n), (X \ {x}) \ {y})
  <2> DEFINE Z == X \ {x}
  <2>1. Pools(t, Z) /\ <<r.closure, "closure">> \in Z
    BY <1>3, <1>4
  <2> HIDE DEF Z
  <2>2. Pools(WithMem(t, FreeGlobal(t.mem, r.closure, Size["closure"], "closure")), Z \ {y})
    BY <2>1, FreeGlobalPools
  <2>3. n = FreeGlobal(t.mem, r.closure, Size["closure"], "closure")
    BY <1>5
  <2> QED BY <2>2, <2>3 DEF Z
<1> HIDE DEF n, x, y
<1>7. Pools(u, Hands(h, o, r, NWorkers))
  BY <1>3, <1>5, <1>6
<1>8. u.pool = s.pool /\ u.gpool = s.gpool
  BY <1>2, WithMemTwice
<1> HIDE DEF u
<1>9. Limits(u)
  BY <1>1, <1>8 DEF Limits
<1>10. Apart(h, o, r, NWorkers)
  BY <1>1, <1>2 DEF Apart, Running
<1>11. Down(u, h, o, NWorkers)
  <2>1. \A a \in o : a.tag = "map" /\ \A b \in o : a = b
    BY <1>1, AllEqual DEF Apart
  <2>2. NWorkers \in -1 .. Running /\ ~(NWorkers <= 0) /\ NWorkers # Over /\ \A w \in Workers : ~(w > NWorkers)
    BY <1>2 DEF Running, Over, Workers
  <2> QED BY <2>1, <2>2 DEF Down
<1>12. Counted(u, h, NWorkers)
  BY <1>2 DEF Counted, Running
<1>13. Good(u, h, o, r, NWorkers)
  BY <1>7, <1>9, <1>10, <1>11, <1>12 DEF Good
<1> QED BY <1>13 DEF n, m, u

\* Worker w was terminated and took the objects o \ p with it.
LEMMA TerminatedGood ==
  ASSUME NEW s, NEW h, NEW o, NEW r, NEW w \in Workers, Good(s, h, o, r, w),
         NEW p \in SUBSET o, w = 1 => p = {}, NEW u, Pools(u, Hands(h, p, r, w)),
         u.gpool = s.gpool, \A v \in Workers : v # w => u.pool[v] = s.pool[v],
         Kept(s.mem, u.mem, w), u.pool[w].fibers = <<>>, Emptied(u.mem, w)
  PROVE  Good(u, h, p, r, w - 1)
<1>1. w \in Nat /\ w > 0 /\ w < Running /\ Running \in Nat
  BY PhaseFacts
<1>2. Apart(h, o, r, w) /\ Limits(s) /\ Down(s, h, o, w)
  BY DEF Good
<1>3. Apart(h, p, r, w - 1)
  <2>1. IsFiniteSet(p)
    BY <1>2, FS_Subset DEF Apart
  <2>2. w - 1 # Running
    BY <1>1
  <2> QED BY <1>2, <2>1, <2>2 DEF Apart
<1>4. Hands(h, p, r, w - 1) = Hands(h, p, r, w)
  BY <1>1 DEF Hands
<1>5. Limits(u)
  <2>1. Len(u.pool[w].fibers) <= FiberPoolCap
    BY PoolBatchFacts
  <2> QED BY <1>2, <2>1 DEF Limits
<1>6. Counted(u, h, w - 1)
  BY <1>1 DEF Counted
<1>7. Down(u, h, p, w - 1)
  <2>1. w - 1 \in -1 .. Running /\ w - 1 # Over
    BY <1>1 DEF Over
  <2>2. h = {} /\ \A x \in o : x.tag = "map" /\ \A y \in o : x = y
    BY <1>1, <1>2 DEF Down
  <2>3. ASSUME NEW v \in Workers, v > w - 1 PROVE u.pool[v].fibers = <<>> /\ Emptied(u.mem, v)
    <3>1. CASE v # w
      <4>1. v > w
        BY <1>1, <2>3, <3>1 DEF Workers
      <4>2. s.pool[v].fibers = <<>> /\ Emptied(s.mem, v)
        BY <1>2, <4>1 DEF Down
      <4>3. u.pool[v] = s.pool[v] /\ u.mem.l[v] = s.mem.l[v]
        BY <3>1 DEF Kept
      <4> QED BY <4>2, <4>3 DEF Emptied
    <3> QED BY <3>1
  <2>4. w - 1 <= 0 => p = {}
    BY <1>1
  <2> QED BY <2>1, <2>2, <2>3, <2>4 DEF Down
<1> QED BY <1>3, <1>4, <1>5, <1>6, <1>7 DEF Good

\* The fibers of worker w's pool are freed.
LEMMA PoolFreed ==
  ASSUME NEW s, NEW X, Pools(s, X), NEW w \in Workers
  PROVE  LET t == FreeFibers(s, w, Len(s.pool[w].fibers)) IN
         /\ Pools(t, X) /\ Kept(s.mem, t.mem, w) /\ t.gpool = s.gpool /\ t.pool[w].fibers = <<>>
         /\ \A v \in Workers : v # w => t.pool[v] = s.pool[v]
<1> DEFINE n == Len(s.pool[w].fibers)
           t == FreeFibers(s, w, n)
<1>1. n \in Nat /\ n <= n
  BY PoolLens
<1>2. Pools(t, X) /\ Moved(s, t, w) /\ Len(t.pool[w].fibers) = n - n /\ t.gpool = s.gpool
  <2>1. n <= Len(s.pool[w].fibers) /\ n - n = Len(s.pool[w].fibers) - n
    BY <1>1
  <2> HIDE DEF n
  <2> QED BY <1>1, <2>1, FreeFibersLoop
<1> HIDE DEF t
<1>3. t.pool[w].fibers \in Seq(Nat)
  BY <1>2, PoolLens, PoolFields
<1>4. Len(t.pool[w].fibers) = 0
  <2> HIDE DEF n
  <2> QED BY <1>1, <1>2
<1>5. t.pool[w].fibers = <<>>
  BY <1>3, <1>4, EmptySeq
<1> QED BY <1>2, <1>5 DEF t, Moved

\* worker_terminate without a map to free.
LEMMA WorkerTerminateGood ==
  ASSUME NEW s, NEW h, NEW o, NEW r, NEW w \in Workers, Good(s, h, o, r, w), o = {} \/ w > 1
  PROVE  LET t == FreeFibers(s, w, Len(s.pool[w].fibers)) IN
         Good(WithMem(t, MallocTerminate(t.mem, w)), h, o, r, w - 1)
<1> DEFINE X == Hands(h, o, r, w)
           t == FreeFibers(s, w, Len(s.pool[w].fibers))
           m == MallocTerminate(t.mem, w)
           u == WithMem(t, m)
<1>1. Pools(s, X)
  BY DEF Good
<1> HIDE DEF X
<1>2. /\ Pools(t, X) /\ Kept(s.mem, t.mem, w) /\ t.gpool = s.gpool /\ t.pool[w].fibers = <<>>
      /\ \A v \in Workers : v # w => t.pool[v] = s.pool[v]
  BY <1>1, PoolFreed
<1> HIDE DEF t
<1>3. Pools(u, X) /\ Kept(t.mem, m, w) /\ Emptied(m, w)
  BY <1>2, TerminatePools
<1> HIDE DEF m
<1>4. u.mem = m /\ u.pool = t.pool /\ u.gpool = t.gpool
  BY <1>2, PoolLens, WithMemTwice
<1> HIDE DEF u
<1>5. Kept(s.mem, u.mem, w)
  BY <1>2, <1>3, <1>4 DEF Kept
<1>6. w = 1 => o = {}
  BY PhaseFacts
<1>7. /\ Pools(u, Hands(h, o, r, w)) /\ u.gpool = s.gpool /\ u.pool[w].fibers = <<>> /\ Emptied(u.mem, w)
      /\ \A v \in Workers : v # w => u.pool[v] = s.pool[v]
  BY <1>2, <1>3, <1>4 DEF X
<1>8. Good(u, h, o, r, w - 1)
  <2>1. o \in SUBSET o /\ Good(s, h, o, r, w) /\ w \in Workers
    OBVIOUS
  <2> QED BY ONLY <1>5, <1>6, <1>7, <2>1, TerminatedGood
<1> QED BY <1>8 DEF u, m, t

\* worker_terminate with the map of the worker that exited last.
LEMMA WorkerTerminateMapGood ==
  ASSUME NEW s, NEW h, NEW o, NEW r, NEW w \in Workers, Good(s, h, o, r, w), NEW x \in o
  PROVE  LET t == FreeFibers(s, w, Len(s.pool[w].fibers))
             n == Free(t.mem, w, x.p, Size["map"], "map")
         IN Good(WithMem(t, MallocTerminate(n, w)), h, o \ {x}, r, w - 1)
<1> DEFINE X == Hands(h, o, r, w)
           Y == Hands(h, o \ {x}, r, w)
           t == FreeFibers(s, w, Len(s.pool[w].fibers))
           n == Free(t.mem, w, x.p, Size["map"], "map")
           m == MallocTerminate(n, w)
           a == WithMem(t, n)
           u == WithMem(t, m)
<1>1. Pools(s, X) /\ Apart(h, o, r, w) /\ Down(s, h, o, w) /\ w < Running /\ Running \in Nat /\ w \in Nat
  BY PhaseFacts DEF Good
<1>2. x.tag = "map" /\ \A y \in o : y = x
  BY <1>1 DEF Down
<1>3. <<x.p, "map">> \in X /\ Y = X \ {<<x.p, "map">>}
  <2>1. <<x.p, x.tag>> \in X /\ Y = X \ {<<x.p, x.tag>>}
    BY <1>1, HandsLessObject
  <2> HIDE DEF X, Y
  <2> QED BY <1>2, <2>1
<1> HIDE DEF X, Y
<1>4. /\ Pools(t, X) /\ Kept(s.mem, t.mem, w) /\ t.gpool = s.gpool /\ t.pool[w].fibers = <<>>
      /\ \A v \in Workers : v # w => t.pool[v] = s.pool[v]
  BY <1>1, PoolFreed
<1> HIDE DEF t
<1>5. Pools(a, Y) /\ Kept(t.mem, n, w)
  BY <1>3, <1>4, FreePools
<1> HIDE DEF n
<1>6. t \in PoolState /\ a.mem = n /\ WithMem(a, m) = u /\ u.mem = m /\ u.pool = t.pool /\ u.gpool = t.gpool
  BY <1>4, PoolLens, WithMemTwice
<1> HIDE DEF a
<1>7. Pools(u, Y) /\ Kept(n, m, w) /\ Emptied(m, w)
  BY <1>5, <1>6, TerminatePools
<1> HIDE DEF m, u
<1>8. Kept(s.mem, u.mem, w)
  BY <1>4, <1>5, <1>6, <1>7 DEF Kept
<1>9. o \ {x} \in SUBSET o /\ o \ {x} = {}
  BY <1>2
<1>10. /\ Pools(u, Hands(h, o \ {x}, r, w)) /\ u.gpool = s.gpool /\ u.pool[w].fibers = <<>> /\ Emptied(u.mem, w)
       /\ \A v \in Workers : v # w => u.pool[v] = s.pool[v]
  BY <1>4, <1>6, <1>7 DEF Y
<1>11. Good(u, h, o \ {x}, r, w - 1)
  <2>1. Good(s, h, o, r, w) /\ w \in Workers
    OBVIOUS
  <2> DEFINE p == o \ {x}
  <2>2. p \in SUBSET o /\ (w = 1 => p = {}) /\ Pools(u, Hands(h, p, r, w))
    BY <1>9, <1>10
  <2> HIDE DEF p
  <2>3. Good(u, h, p, r, w - 1)
    BY ONLY <1>8, <1>10, <2>1, <2>2, TerminatedGood
  <2> QED BY <2>3 DEF p
<1> QED BY <1>11 DEF u, m, n, t

\* The fibers of the shared pool are freed one after the other.
Clears == INSTANCE FoldInduction WITH Op <- FiberDeallocateGlobal
ClearAll(m, q) == FoldLeft(FiberDeallocateGlobal, m, q)

LEMMA ClearStep ==
  ASSUME NEW m, NEW U, MemOK(m, U), NEW p, <<p, "fiber">> \in U
  PROVE  LET n == FiberDeallocateGlobal(m, p) IN MemOK(n, U \ {<<p, "fiber">>}) /\ n.l = m.l
<1> DEFINE n == FreeGlobal(m, p, Size["fiber"], "fiber")
<1>1. MemOK(n, U \ {<<p, "fiber">>}) /\ n.l = m.l
  BY FreeGlobalOK
<1> QED BY <1>1 DEF FiberDeallocateGlobal

LEMMA ClearLoop ==
  ASSUME NEW m, NEW q, NEW S, ListOf(q, S), MemOK(m, S \X {"fiber"})
  PROVE  MemOK(ClearAll(m, q), {}) /\ ClearAll(m, q).l = m.l
<1> DEFINE n == Len(q)
           Left(k) == {<<q[j], "fiber">> : j \in k + 1 .. n}
           I == [k \in 0 .. n |-> {t \in Mem : MemOK(t, Left(k)) /\ t.l = m.l}]
<1>1. q \in Seq(Nat) /\ n \in Nat /\ DOMAIN q = 1 .. n
  BY DEF ListOf
<1>2. \A k \in 0 .. n : \A t : t \in I[k] <=> t \in Mem /\ MemOK(t, Left(k)) /\ t.l = m.l
  OBVIOUS
<1>3. 0 \in 0 .. n /\ n \in 0 .. n /\ \A k \in 1 .. n : k \in 0 .. n /\ k - 1 \in 0 .. n
  BY <1>1
<1> HIDE DEF I
<1>4. m \in I[0]
  <2>1. Left(0) = S \X {"fiber"}
    <3>1. S = {q[j] : j \in 1 .. n}
      BY DEF ListOf, Elems
    <3> HIDE DEF n
    <3> QED BY <3>1
  <2>2. m \in Mem
    BY DEF MemOK, Holding
  <2> QED BY <1>2, <1>3, <2>1, <2>2
<1>5. ASSUME NEW k \in 1 .. n, NEW t \in I[k - 1] PROVE FiberDeallocateGlobal(t, q[k]) \in I[k]
  <2> DEFINE u == FiberDeallocateGlobal(t, q[k])
             A == Left(k - 1)
             B == Left(k)
  <2>1. MemOK(t, A) /\ t.l = m.l
    BY <1>2, <1>3
  <2>2. <<q[k], "fiber">> \in A /\ A \ {<<q[k], "fiber">>} = B
    <3>1. k \in (k - 1) + 1 .. n
      BY <1>1
    <3>2. \A j \in (k - 1) + 1 .. n : j = k \/ j \in k + 1 .. n
      BY <1>1
    <3>3. \A j \in k + 1 .. n : j \in (k - 1) + 1 .. n /\ q[j] # q[k]
      <4> TAKE j \in k + 1 .. n
      <4>1. j \in 1 .. n /\ j # k /\ j \in (k - 1) + 1 .. n
        BY <1>1
      <4> QED BY <4>1 DEF ListOf, NoRepeat
    <3> QED BY <3>1, <3>2, <3>3
  <2> HIDE DEF A, B
  <2>3. MemOK(u, A \ {<<q[k], "fiber">>}) /\ u.l = t.l
    BY <2>1, <2>2, ClearStep
  <2> HIDE DEF u
  <2>4. u \in Mem /\ MemOK(u, B) /\ u.l = m.l
    BY <2>1, <2>2, <2>3 DEF MemOK, Holding
  <2> QED BY <1>2, <1>3, <2>4 DEF u, B
<1>6. Clears!FoldLeft(FiberDeallocateGlobal, m, q) \in I[n]
  BY <1>1, <1>4, <1>5, Clears!FoldInvariant
<1>7. ClearAll(m, q) = Clears!FoldLeft(FiberDeallocateGlobal, m, q)
  BY DEF ClearAll, FoldLeft, Clears!FoldLeft, MapThenFoldSet, Clears!MapThenFoldSet, Max, Clears!Max
<1>8. Left(n) = {}
  BY <1>1
<1> HIDE DEF Left, n
<1>9. MemOK(ClearAll(m, q), Left(n)) /\ ClearAll(m, q).l = m.l
  BY <1>2, <1>3, <1>6, <1>7
<1> QED BY <1>8, <1>9

\* Empty pools hold nothing.
LEMMA SpreadNone ==
  ASSUME NEW P, \A i \in Shelves : P[i] = <<>>
  PROVE  Spread(P, {}) /\ \A S : Spread(P, S) => S = {}
<1>1. \A i \in Shelves : ListOf(P[i], {}) /\ Elems(P[i]) = {}
  BY EmptyList DEF ListOf
<1> QED BY <1>1 DEF Spread

\* cilk_fiber_pool_global_terminate.
LEMMA GlobalTerminateGood ==
  ASSUME NEW s, NEW h, NEW o, NEW r, Good(s, h, o, r, 0)
  PROVE  LET m == ClearAll(s.mem, s.gpool.fibers) IN
         Good(WithShared(WithMem(s, m), <<>>, s.gpool.in_use), h, o, r, Over)
<1> DEFINE q == s.gpool.fibers
           m == ClearAll(s.mem, q)
           t == WithMem(s, m)
           u == WithShared(t, <<>>, s.gpool.in_use)
<1>1. Running # 0 /\ Running # Over /\ Over = -1 /\ Running \in Nat
  BY PhaseFacts DEF Over
<1>2. /\ Apart(h, o, r, 0) /\ Pools(s, Hands(h, o, r, 0)) /\ Limits(s) /\ h = {} /\ o = {}
      /\ \A w \in Workers : s.pool[w].fibers = <<>> /\ Emptied(s.mem, w)
  <2>1. \A w \in Workers : w > 0
    BY PhaseFacts
  <2> QED BY <1>1, <2>1 DEF Good, Down
<1>3. Hands(h, o, r, 0) = {} /\ Hands(h, o, r, Over) = {}
  BY <1>1, <1>2 DEF Hands
<1>4. PICK S : PoolOK(s, S, {})
  BY <1>2, <1>3 DEF Pools
<1>5. s \in PoolState /\ Spread(FibersOf(s), S) /\ MemOK(s.mem, S \X {"fiber"})
  <2>1. {} \cup (S \X {"fiber"}) = S \X {"fiber"}
    OBVIOUS
  <2> QED BY <1>4, <2>1 DEF PoolOK
<1>6. ListOf(q, S)
  <2> DEFINE P == FibersOf(s)
  <2>1. P[0] = q /\ \A w \in Workers : P[w] = <<>>
    BY <1>2, FibersAre
  <2>2. \A i \in Shelves : i = 0 \/ i \in Workers
    BY ShelfFacts
  <2>3. 0 \in Shelves
    BY ShelfFacts
  <2>4. Elems(<<>>) = {}
    BY EmptyList DEF ListOf
  <2>5. Spread(P, S)
    BY <1>5
  <2> HIDE DEF P, q
  <2>6. S \subseteq Elems(q)
    <3> SUFFICES ASSUME NEW f \in S PROVE f \in Elems(q)
      OBVIOUS
    <3>1. PICK i \in Shelves : f \in Elems(P[i])
      BY <2>5 DEF Spread
    <3> QED BY <2>1, <2>2, <2>4, <3>1
  <2>7. ListOf(q, Elems(q)) /\ Elems(q) \subseteq S
    BY <2>1, <2>3, <2>5 DEF Spread
  <2>8. S = Elems(q)
    BY <2>6, <2>7
  <2> QED BY <2>7, <2>8
<1>7. MemOK(m, {}) /\ m.l = s.mem.l
  BY <1>5, <1>6, ClearLoop
<1> HIDE DEF m
<1>8. t \in PoolState /\ t.mem = m /\ t.gpool = s.gpool /\ t.pool = s.pool
  BY <1>5, <1>7, WithMemIs DEF MemOK, Holding
<1> HIDE DEF t
<1>9. /\ u \in PoolState /\ u.mem = m /\ u.pool = s.pool /\ u.gpool.fibers = <<>>
  <2>1. <<>> \in Seq(Nat) /\ s.gpool.in_use \in Int
    BY <1>5, PoolFields
  <2> QED BY <1>8, <2>1, WithSharedIs
<1> HIDE DEF u
<1>10. Spread(FibersOf(u), {})
  <2>1. \A i \in Shelves : FibersOf(u)[i] = <<>>
    <3> TAKE i \in Shelves
    <3>1. i = 0 \/ i \in Workers
      BY ShelfFacts
    <3> QED BY <1>2, <1>9, <3>1, FibersAre
  <2> QED BY <2>1, SpreadNone
<1>11. Pools(u, {})
  <2>1. {} \cup ({} \X {"fiber"}) = {}
    OBVIOUS
  <2>2. PoolOK(u, {}, {})
    BY <1>7, <1>9, <1>10, <2>1 DEF PoolOK
  <2> QED BY <2>2 DEF Pools
<1>12. Limits(u)
  <2>1. Len(u.gpool.fibers) <= GlobalCap
    BY <1>9, PoolBatchFacts
  <2> QED BY <1>2, <1>9, <2>1 DEF Limits
<1>13. Apart(h, o, r, Over) /\ Counted(u, h, Over)
  BY <1>1, <1>2 DEF Apart, Counted
<1>14. Down(u, h, o, Over)
  <2>1. \A w \in Workers : Emptied(u.mem, w)
    BY <1>2, <1>7, <1>9 DEF Emptied
  <2>2. Over \in -1 .. Running
    BY <1>1
  <2> QED BY <1>1, <1>2, <1>9, <2>1, <2>2 DEF Down
<1>15. Good(u, h, o, r, Over)
  BY <1>3, <1>11, <1>12, <1>13, <1>14 DEF Good
<1> QED BY <1>15 DEF u, t, m

-----------------------------------------------------------------------------
(* The start *)

\* A new allocator is empty.
LEMMA MallocInitOK == MemOK(MallocInit, {})
<1> DEFINE d == InitBuckets
           m == MallocInit
<1>1. d \in Descriptor /\ d.free = [b \in Buckets |-> <<>>] /\ d.num_malloc = [t \in Tags |-> 0]
  <2>1. [b \in Buckets |-> <<>>] \in [Buckets -> Seq(Nat)]
    OBVIOUS
  <2> DEFINE f == [b \in Buckets |-> <<>>]
             z == [b \in Buckets |-> 0]
             n == [t \in Tags |-> 0]
  <2>2. f \in [Buckets -> Seq(Nat)] /\ z \in [Buckets -> Int] /\ n \in [Tags -> Int] /\ 0 \in Int
    BY <2>1
  <2>3. d = [free |-> f, allocated |-> z, wasted |-> z, used |-> 0, num_malloc |-> n]
    BY DEF InitBuckets
  <2> HIDE DEF d, f, z, n
  <2>4. d \in Descriptor /\ d.free = f /\ d.num_malloc = n
    BY <2>2, <2>3 DEF Descriptor
  <2> QED BY <2>4 DEF f, n
<1> HIDE DEF d
<1>2. /\ m \in Mem /\ m.g = d /\ (\A w \in Workers : m.l[w] = d)
      /\ m.pool.mem_begin = 0 /\ m.pool.mem_end = 0 /\ m.pool.allocated = 0
  <2> DEFINE c == [mem_begin |-> 0, mem_end |-> 0, allocated |-> 0, wasted |-> 0]
             l == [w \in Workers |-> d]
  <2>1. c \in Chunk /\ c.mem_begin = 0 /\ c.mem_end = 0 /\ c.allocated = 0
    BY DEF Chunk
  <2>2. l \in [Workers -> Descriptor] /\ \A w \in Workers : l[w] = d
    BY <1>1
  <2>3. m = [l |-> l, g |-> d, pool |-> c]
    BY DEF MallocInit, d
  <2> HIDE DEF c, l, m
  <2>4. m \in Mem /\ m.l = l /\ m.g = d /\ m.pool = c
    BY <1>1, <2>1, <2>2, <2>3 DEF Mem
  <2> QED BY <2>1, <2>2, <2>4
<1> HIDE DEF m
<1>3. \A b \in Buckets : d.free[b] = <<>>
  BY <1>1
<1>4. InOrder(Lists(m), {}, 0)
  <2> DEFINE F == Lists(m)
  <2>1. F \in Stock /\ F[0] = m.g.free /\ \A v \in Workers : F[v] = m.l[v].free
    BY <1>2, ListsAre
  <2> HIDE DEF F
  <2>2. \A i \in Shelves, b \in Buckets : F[i][b] = <<>>
    <3> TAKE i \in Shelves, b \in Buckets
    <3>1. i = 0 \/ i \in Workers
      BY ShelfFacts
    <3> QED BY <1>2, <1>3, <2>1, <3>1
  <2>3. NoRepeat(<<>>) /\ Elems(<<>>) = {}
    BY EmptyList DEF ListOf
  <2>4. Once(F) /\ Out({}, F)
    BY <2>2, <2>3 DEF Once, Out
  <2>5. Blocks(F) = {}
    <3> SUFFICES ASSUME NEW x \in Blocks(F) PROVE FALSE
      OBVIOUS
    <3>1. x[2] \in Buckets /\ \E i \in Shelves : x[1] \in Elems(F[i][x[2]])
      BY DEF Blocks
    <3> QED BY <2>2, <2>3, <3>1
  <2>6. Separate({} \cup Blocks(F), 0)
    BY <2>5 DEF Separate
  <2> QED BY <2>1, <2>4, <2>6 DEF InOrder, F
<1>5. Holding(m, Uses({}))
  <2>1. Uses({}) = {}
    BY DEF Uses
  <2> QED BY <1>2, <1>4, <2>1 DEF Holding
<1>6. \A w \in Workers, b \in Buckets : Len(m.l[w].free[b]) <= BucketCapacity[b]
  <2> TAKE w \in Workers, b \in Buckets
  <2>1. Len(m.l[w].free[b]) = 0
    BY <1>2, <1>3, EmptyList
  <2> QED BY <2>1, BucketFacts
<1>7. ASSUME NEW t \in Tags PROVE Allocated(m, t) = Cardinality(OfTag({}, t))
  <2> DEFINE f == [w \in Workers |-> m.l[w].num_malloc[t]]
  <2>1. f \in [Workers -> Int] /\ \A w \in Workers : f[w] = 0
    BY <1>1, <1>2
  <2>2. Allocated(m, t) = m.g.num_malloc[t] + SumOf(f)
    BY DEF Allocated
  <2> HIDE DEF f
  <2>3. SumOf(f) = 0
    BY <2>1, SumZero
  <2>4. m.g.num_malloc[t] = 0
    BY <1>1, <1>2
  <2>5. OfTag({}, t) = {} /\ Cardinality({}) = 0
    BY FS_EmptySet DEF OfTag
  <2> QED BY <2>2, <2>3, <2>4, <2>5
<1>8. IsFiniteSet({}) /\ {} \subseteq Things /\ Unique({})
  BY FS_EmptySet DEF Unique
<1> QED BY <1>5, <1>6, <1>7, <1>8 DEF MemOK, m

\* Before workers_init.
EmptyPools == [mem |-> MallocInit,
               pool |-> [w \in Workers |-> [fibers |-> <<>>, in_use |-> 0]],
               gpool |-> [fibers |-> <<>>, in_use |-> 0]]

LEMMA EmptyPoolsOK ==
  /\ Pools(EmptyPools, {}) /\ EmptyPools.gpool.fibers = <<>> /\ EmptyPools.gpool.in_use = 0
  /\ \A w \in Workers : EmptyPools.pool[w].fibers = <<>> /\ EmptyPools.pool[w].in_use = 0
<1> DEFINE x == [fibers |-> <<>>, in_use |-> 0]
           p == [w \in Workers |-> x]
           m == MallocInit
           s == EmptyPools
<1>1. x \in FiberList /\ x.fibers = <<>> /\ x.in_use = 0
  BY DEF FiberList
<1>2. MemOK(m, {})
  BY MallocInitOK
<1>3. s = [mem |-> m, pool |-> p, gpool |-> x]
  BY DEF EmptyPools
<1> HIDE DEF x, m, s
<1>4. p \in [Workers -> FiberList] /\ (\A w \in Workers : p[w] = x) /\ m \in Mem
  BY <1>1, <1>2 DEF MemOK, Holding
<1> HIDE DEF p
<1>5. s \in PoolState /\ s.mem = m /\ s.pool = p /\ s.gpool = x
  BY <1>1, <1>3, <1>4 DEF PoolState
<1>6. Spread(FibersOf(s), {})
  <2>1. \A i \in Shelves : FibersOf(s)[i] = <<>>
    <3> TAKE i \in Shelves
    <3>1. i = 0 \/ i \in Workers
      BY ShelfFacts
    <3> QED BY <1>1, <1>4, <1>5, <3>1, FibersAre
  <2> QED BY <2>1, SpreadNone
<1>7. PoolOK(s, {}, {})
  <2>1. {} \cup ({} \X {"fiber"}) = {}
    OBVIOUS
  <2> QED BY <1>2, <1>5, <1>6, <2>1 DEF PoolOK
<1> QED BY <1>1, <1>4, <1>5, <1>7 DEF s, Pools

\* cilk_fiber_pool_per_worker_init, worker after worker.
Fills == INSTANCE FoldInduction WITH Op <- PoolAllocateBatch
FillAll == FoldLeft(PoolAllocateBatch, EmptyPools, [w \in Workers |-> w])

\* k workers have their pools.
Ready(s, k) ==
  /\ Pools(s, {}) /\ Len(s.gpool.fibers) = 0 /\ Owed(s) = 0
  /\ \A w \in Workers : /\ s.pool[w].in_use = 0
                        /\ Len(s.pool[w].fibers) = IF w <= k THEN PoolBatch ELSE 0

LEMMA FillStep ==
  ASSUME NEW k \in Workers, NEW s, Ready(s, k - 1)
  PROVE  Ready(PoolAllocateBatch(s, k), k)
<1> DEFINE t == PoolAllocateBatch(s, k)
           L(x) == Len(x.pool[k].fibers)
           G(x) == Len(x.gpool.fibers)
<1>1. /\ Pools(s, {}) /\ G(s) = 0 /\ Owed(s) = 0
      /\ \A w \in Workers : /\ s.pool[w].in_use = 0
                            /\ Len(s.pool[w].fibers) = IF w <= k - 1 THEN PoolBatch ELSE 0
  BY DEF Ready
<1>2. Pools(t, {}) /\ Moved(s, t, k) /\ L(t) = L(s) + PoolBatch /\ G(t) <= G(s)
  BY <1>1, PoolAllocateBatchOK
<1> HIDE DEF t
<1>3. G(t) \in Nat
  BY <1>2, PoolLens
<1>4. k \in Nat /\ \A w \in Workers : w \in Nat
  BY PhaseFacts
<1>5. L(s) = 0
  BY <1>1, <1>4
<1>6. G(t) = 0 /\ L(t) = PoolBatch
  <2> HIDE DEF L, G
  <2> QED BY <1>1, <1>2, <1>3, <1>5, PoolBatchFacts
<1>7. ASSUME NEW w \in Workers
      PROVE  t.pool[w].in_use = 0 /\ Len(t.pool[w].fibers) = IF w <= k THEN PoolBatch ELSE 0
  <2>1. CASE w = k
    BY <1>1, <1>2, <1>4, <1>6, <2>1 DEF Moved
  <2>2. CASE w # k
    <3>1. t.pool[w] = s.pool[w]
      BY <1>2, <2>2 DEF Moved
    <3>2. w \in Nat /\ k \in Nat
      BY <1>4
    <3>3. (w <= k) <=> (w <= k - 1)
      BY <2>2, <3>2
    <3> QED BY <1>1, <3>1, <3>3
  <2> QED BY <2>1, <2>2
<1>8. Owed(t) = 0
  BY <1>1, <1>2 DEF Moved
<1> QED BY <1>2, <1>6, <1>7, <1>8 DEF Ready, t

LEMMA FillLoop == Ready(FillAll, NWorkers)
<1> DEFINE n == NWorkers
           seq == [w \in Workers |-> w]
           I == [k \in 0 .. n |-> {t \in PoolState : Ready(t, k)}]
<1>1. n \in Nat /\ Workers = 1 .. n /\ DOMAIN seq = 1 .. n /\ \A k \in 1 .. n : seq[k] = k
  BY MallocAssumption DEF Workers
<1>2. \A k \in 0 .. n : \A t : t \in I[k] <=> t \in PoolState /\ Ready(t, k)
  OBVIOUS
<1>3. 0 \in 0 .. n /\ n \in 0 .. n /\ \A k \in 1 .. n : k \in 0 .. n /\ k - 1 \in 0 .. n
  BY <1>1
<1> HIDE DEF I
<1>4. EmptyPools \in I[0]
  <2> DEFINE s == EmptyPools
  <2>1. /\ Pools(s, {}) /\ s.gpool.fibers = <<>> /\ s.gpool.in_use = 0
        /\ \A w \in Workers : s.pool[w].fibers = <<>> /\ s.pool[w].in_use = 0
    BY EmptyPoolsOK
  <2> HIDE DEF s
  <2>2. Len(s.gpool.fibers) = 0 /\ Owed(s) = 0 /\ s \in PoolState
    BY <2>1, EmptyList DEF Owed, Pools, PoolOK
  <2>3. \A w \in Workers : ~(w <= 0) /\ Len(s.pool[w].fibers) = 0
    BY <2>1, EmptyList, PhaseFacts
  <2>4. Ready(s, 0)
    BY <2>1, <2>2, <2>3 DEF Ready
  <2> QED BY <1>2, <1>3, <2>2, <2>4 DEF s
<1>5. ASSUME NEW k \in 1 .. n, NEW t \in I[k - 1] PROVE PoolAllocateBatch(t, seq[k]) \in I[k]
  <2> DEFINE u == PoolAllocateBatch(t, k)
  <2>1. Ready(t, k - 1) /\ k \in Workers
    BY <1>1, <1>2, <1>3
  <2>2. Ready(u, k)
    BY <2>1, FillStep
  <2> HIDE DEF u
  <2>3. u \in PoolState
    BY <2>2 DEF Ready, Pools, PoolOK
  <2>4. u \in I[k]
    BY <1>2, <1>3, <2>2, <2>3
  <2> QED BY <1>1, <2>4 DEF u
<1> HIDE DEF seq
<1>6. Fills!FoldLeft(PoolAllocateBatch, EmptyPools, seq) \in I[n]
  BY <1>1, <1>4, <1>5, Fills!FoldInvariant
<1>7. FillAll = Fills!FoldLeft(PoolAllocateBatch, EmptyPools, seq)
  BY DEF FillAll, seq, FoldLeft, Fills!FoldLeft, MapThenFoldSet, Fills!MapThenFoldSet, Max, Fills!Max
<1> QED BY <1>2, <1>3, <1>6, <1>7

\* The root closure and its fiber are allocated.
LEMMA StartGood ==
  LET s == FillAll
      c == Malloc(s.mem, 1, Size["closure"], "closure")
      f == Malloc(c.mem, 1, Size["fiber"], "fiber")
  IN Good(WithMem(s, f.mem), {}, {}, [closure |-> c.p, fiber |-> f.p], Running)
<1> DEFINE s == FillAll
           c == Malloc(s.mem, 1, Size["closure"], "closure")
           f == Malloc(c.mem, 1, Size["fiber"], "fiber")
           t == WithMem(s, c.mem)
           u == WithMem(s, f.mem)
           r == [closure |-> c.p, fiber |-> f.p]
           X == {<<c.p, "closure">>}
           Y == X \cup {<<f.p, "fiber">>}
<1>1. Ready(s, NWorkers) /\ 1 \in Workers /\ "closure" \in Tags /\ "fiber" \in Tags
  BY FillLoop, PhaseFacts DEF Tags
<1> HIDE DEF s
<1>2. Pools(s, {}) /\ s \in PoolState
  BY <1>1 DEF Ready, Pools, PoolOK
<1>3. c.p \in Nat /\ Pools(t, {} \cup {<<c.p, "closure">>})
  BY <1>1, <1>2, MallocPools
<1> HIDE DEF c
<1>4. Pools(t, X) /\ t.mem = c.mem /\ WithMem(t, f.mem) = u
  BY <1>2, <1>3, WithMemTwice
<1> HIDE DEF t, X
<1>5. f.p \in Nat /\ Pools(u, Y)
  <2> DEFINE a == Malloc(t.mem, 1, Size["fiber"], "fiber")
  <2>1. a.p \in Nat /\ Pools(WithMem(t, a.mem), X \cup {<<a.p, "fiber">>})
    BY <1>1, <1>4, MallocPools
  <2>2. a = f
    BY <1>4
  <2> HIDE DEF a, f
  <2> QED BY <1>4, <2>1, <2>2
<1> HIDE DEF f
<1>6. u.pool = s.pool /\ u.gpool = s.gpool /\ u \in PoolState
  BY <1>2, <1>5, PoolLens, WithMemTwice, <1>1
<1> HIDE DEF u
<1>7. r \in [closure : Nat, fiber : Nat] /\ r.closure = c.p /\ r.fiber = f.p
  BY <1>3, <1>5
<1> HIDE DEF r
<1>8. Hands({}, {}, r, Running) = Y
  BY <1>7 DEF Hands, X
<1>9. Apart({}, {}, r, Running)
  <2>1. IsFiniteSet({})
    BY FS_EmptySet
  <2> QED BY <1>7, <2>1 DEF Apart
<1>10. Limits(u)
  <2>1. \A w \in Workers : Len(s.pool[w].fibers) = PoolBatch \/ Len(s.pool[w].fibers) = 0
    BY <1>1 DEF Ready
  <2>2. Len(s.gpool.fibers) = 0
    BY <1>1 DEF Ready
  <2> QED BY <1>6, <2>1, <2>2, PoolBatchFacts DEF Limits
<1>11. Counted(u, {}, Running)
  <2> DEFINE g == [w \in Workers |-> u.pool[w].in_use]
  <2>1. g \in [Workers -> Int] /\ \A w \in Workers : g[w] = 0
    BY <1>1, <1>6 DEF Ready
  <2>2. CountOf(u) = SumOf(g)
    BY DEF CountOf
  <2> HIDE DEF g
  <2>3. SumOf(g) = 0 /\ Cardinality({}) = 0
    BY <2>1, SumZero, FS_EmptySet
  <2>4. Owed(u) = 0
    BY <1>1, <1>6 DEF Owed, Ready
  <2> QED BY <2>2, <2>3, <2>4 DEF Counted
<1>12. Good(u, {}, {}, r, Running)
  BY <1>5, <1>8, <1>9, <1>10, <1>11, PhaseFacts DEF Good
<1> QED BY <1>12 DEF u, f, c, s, r

-----------------------------------------------------------------------------
(* The specification *)

FiberPoolInv == Good(State, held, objects, root, phase)

\* The state after a step.
LEMMA StateIs ==
  ASSUME NEW x, x \in PoolState, mem' = x.mem, pool' = x.pool, gpool' = x.gpool
  PROVE  State' = x
  BY DEF State, PoolState

LEMMA GoodState ==
  ASSUME NEW s, NEW h, NEW o, NEW r, NEW ph, Good(s, h, o, r, ph)
  PROVE  s \in PoolState
  BY DEF Good, Pools, PoolOK

\* State is what it is made of.
LEMMA StateFields == State.mem = mem /\ State.pool = pool /\ State.gpool = gpool
  BY DEF State

LEMMA InitGood == Init => FiberPoolInv
<1> SUFFICES ASSUME Init PROVE FiberPoolInv
  OBVIOUS
<1> DEFINE s == FillAll
           c == Malloc(s.mem, 1, Size["closure"], "closure")
           f == Malloc(c.mem, 1, Size["fiber"], "fiber")
           u == WithMem(s, f.mem)
<1>1. /\ mem = f.mem /\ pool = s.pool /\ gpool = s.gpool
      /\ root = [closure |-> c.p, fiber |-> f.p]
      /\ held = {} /\ objects = {} /\ phase = Running
  BY DEF Init, FillAll, EmptyPools
<1>2. Good(u, {}, {}, [closure |-> c.p, fiber |-> f.p], Running)
  BY StartGood
<1>3. s \in PoolState
  BY FillLoop DEF Ready, Pools, PoolOK
<1> HIDE DEF s, f, c
<1>4. State = u
  BY <1>1, <1>3 DEF State, WithMem, PoolState
<1> HIDE DEF u
<1> QED BY <1>1, <1>2, <1>4 DEF FiberPoolInv

LEMMA AllocateFromPoolGood ==
  ASSUME FiberPoolInv, NEW w \in Workers, AllocateFromPool(w)
  PROVE  FiberPoolInv'
<1> DEFINE s == State
           t == Filled(s, w)
           u == Taken(t, w)
           f == Last(t.pool[w].fibers)
<1>1. phase = Running /\ phase' = Running /\ root' = root /\ objects' = objects
  BY DEF AllocateFromPool, Call
<1>2. t = IF pool[w].fibers = <<>> THEN PoolAllocateBatch(State, w) ELSE State
  BY StateFields DEF Filled
<1>3. Good(u, held \cup {f}, objects, root, Running)
  BY <1>1, TakenGood DEF FiberPoolInv
<1>4. held' = held \cup {f} /\ Becomes(u)
  <2> HIDE DEF t
  <2>1. u = [t EXCEPT !.pool[w] = [fibers |-> Front(@.fibers), in_use |-> @.in_use + 1]]
    BY DEF Taken, WithPool
  <2> QED BY <1>2, <2>1 DEF AllocateFromPool
<1>5. u \in PoolState
  BY <1>3, GoodState
<1> HIDE DEF u, f
<1>6. State' = u
  BY <1>4, <1>5, StateIs DEF Becomes
<1> QED BY <1>1, <1>3, <1>4, <1>6 DEF FiberPoolInv

LEMMA DeallocateToPoolGood ==
  ASSUME FiberPoolInv, NEW w \in Workers, NEW f \in held, DeallocateToPool(w, f)
  PROVE  FiberPoolInv'
<1> DEFINE s == State
           t == Drained(s, w)
           u == Given(t, w, f)
<1>1. phase = Running /\ phase' = Running /\ root' = root /\ objects' = objects
  BY DEF DeallocateToPool, Call
<1>2. t = IF Len(pool[w].fibers) = FiberPoolCap THEN PoolFreeBatch(State, w) ELSE State
  BY StateFields DEF Drained
<1>3. Good(u, held \ {f}, objects, root, Running)
  BY <1>1, GivenGood DEF FiberPoolInv
<1>4. held' = held \ {f} /\ Becomes(u)
  <2> HIDE DEF t
  <2>1. u = [t EXCEPT !.pool[w] = [fibers |-> Append(@.fibers, f), in_use |-> @.in_use - 1]]
    BY DEF Given, WithPool
  <2> QED BY <1>2, <2>1 DEF DeallocateToPool
<1>5. u \in PoolState
  BY <1>3, GoodState
<1> HIDE DEF u
<1>6. State' = u
  BY <1>4, <1>5, StateIs DEF Becomes
<1> QED BY <1>1, <1>3, <1>4, <1>6 DEF FiberPoolInv

\* A step of the allocator alone.
LEMMA MemStep ==
  ASSUME NEW m, NEW h, NEW o, NEW r, NEW ph, State \in PoolState, Good(WithMem(State, m), h, o, r, ph),
         mem' = m, pool' = pool, gpool' = gpool
  PROVE  Good(State', h, o, r, ph)
<1> DEFINE u == WithMem(State, m)
<1>1. u.mem = m /\ u.pool = pool /\ u.gpool = gpool /\ u \in PoolState
  BY WithMemTwice, StateFields, GoodState
<1> HIDE DEF u
<1>2. State' = u
  BY <1>1, StateIs
<1> QED BY <1>2 DEF u

LEMMA CreateStep ==
  ASSUME FiberPoolInv, NEW w \in Workers, NEW tag \in {"closure", "map"}, Create(w, tag)
  PROVE  FiberPoolInv'
<1> DEFINE a == Malloc(mem, w, Size[tag], tag)
           o == objects \cup {[p |-> a.p, tag |-> tag]}
<1>1. /\ phase = Running /\ phase' = Running /\ root' = root /\ held' = held /\ objects' = o
      /\ mem' = a.mem /\ pool' = pool /\ gpool' = gpool
  BY DEF Create, Call
<1>2. Good(WithMem(State, a.mem), held, o, root, Running)
  BY <1>1, CreateGood, StateFields DEF FiberPoolInv
<1>3. State \in PoolState
  BY GoodState DEF FiberPoolInv
<1> HIDE DEF a, o
<1>4. Good(State', held, o, root, Running)
  BY <1>1, <1>2, <1>3, MemStep
<1> QED BY <1>1, <1>4 DEF FiberPoolInv

LEMMA DestroyStep ==
  ASSUME FiberPoolInv, NEW w \in Workers, NEW x \in objects, Destroy(w, x)
  PROVE  FiberPoolInv'
<1> DEFINE m == Free(mem, w, x.p, Size[x.tag], x.tag)
           o == objects \ {x}
<1>1. /\ phase = Running /\ phase' = Running /\ root' = root /\ held' = held /\ objects' = o
      /\ mem' = m /\ pool' = pool /\ gpool' = gpool
  BY DEF Destroy, Call
<1>2. Good(WithMem(State, m), held, o, root, Running)
  BY <1>1, DestroyGood, StateFields DEF FiberPoolInv
<1>3. State \in PoolState
  BY GoodState DEF FiberPoolInv
<1> HIDE DEF m, o
<1>4. Good(State', held, o, root, Running)
  BY <1>1, <1>2, <1>3, MemStep
<1> QED BY <1>1, <1>4 DEF FiberPoolInv

LEMMA FreeRootStep ==
  ASSUME FiberPoolInv, FreeRoot
  PROVE  FiberPoolInv'
<1> DEFINE m == FreeGlobal(FreeGlobal(mem, root.fiber, Size["fiber"], "fiber"),
                           root.closure, Size["closure"], "closure")
<1>1. /\ phase = Running /\ held = {} /\ Cardinality(objects) < 2 /\ \A o \in objects : o.tag = "map"
      /\ phase' = NWorkers /\ root' = root /\ held' = held /\ objects' = objects
      /\ mem' = m /\ pool' = pool /\ gpool' = gpool
  BY DEF FreeRoot
<1>2. Good(WithMem(State, m), held, objects, root, NWorkers)
  <2>1. Good(State, held, objects, root, Running)
    BY <1>1 DEF FiberPoolInv
  <2> QED BY <1>1, <2>1, FreeRootGood, StateFields
<1>3. State \in PoolState
  BY GoodState DEF FiberPoolInv
<1> HIDE DEF m
<1>4. Good(State', held, objects, root, NWorkers)
  BY <1>1, <1>2, <1>3, MemStep
<1> QED BY <1>1, <1>4 DEF FiberPoolInv

LEMMA WorkerTerminateStep ==
  ASSUME FiberPoolInv, NEW w \in Workers, WorkerTerminate(w)
  PROVE  FiberPoolInv'
<1> DEFINE t == FreeFibers(State, w, Len(State.pool[w].fibers))
           n(x) == Free(t.mem, w, x.p, Size["map"], "map")
           a == WithMem(t, MallocTerminate(t.mem, w))
           b(x) == WithMem(t, MallocTerminate(n(x), w))
<1>1. phase = w /\ phase' = w - 1 /\ held' = held /\ root' = root
  BY DEF WorkerTerminate
<1>2. t = FoldLeft(FiberDeallocate, State, Repeat(Len(pool[w].fibers), w))
  BY StateFields DEF FreeFibers
<1> HIDE DEF t
<1>3. Good(State, held, objects, root, w)
  BY <1>1 DEF FiberPoolInv
<1>4. \/ (objects = {} \/ w > 1) /\ Becomes([t EXCEPT !.mem = MallocTerminate(@, w)]) /\ objects' = objects
      \/ \E x \in objects : Becomes([t EXCEPT !.mem = MallocTerminate(n(x), w)]) /\ objects' = objects \ {x}
  BY <1>2 DEF WorkerTerminate
<1>5. CASE (objects = {} \/ w > 1) /\ Becomes([t EXCEPT !.mem = MallocTerminate(@, w)]) /\ objects' = objects
  <2>1. Good(a, held, objects, root, w - 1)
    BY <1>3, <1>5, WorkerTerminateGood DEF t
  <2>2. Becomes(a)
    BY <1>5 DEF WithMem
  <2>3. a \in PoolState
    BY <2>1, GoodState
  <2> HIDE DEF a
  <2>4. State' = a
    BY <2>2, <2>3, StateIs DEF Becomes
  <2> QED BY <1>1, <1>5, <2>1, <2>4 DEF FiberPoolInv
<1>6. CASE \E x \in objects : Becomes([t EXCEPT !.mem = MallocTerminate(n(x), w)]) /\ objects' = objects \ {x}
  <2>1. PICK x \in objects : Becomes([t EXCEPT !.mem = MallocTerminate(n(x), w)]) /\ objects' = objects \ {x}
    BY <1>6
  <2> DEFINE c == b(x)
  <2>2. Good(c, held, objects \ {x}, root, w - 1)
    BY <1>3, WorkerTerminateMapGood DEF t
  <2>3. Becomes(c)
    BY <2>1 DEF WithMem
  <2>4. c \in PoolState
    BY <2>2, GoodState
  <2> HIDE DEF c
  <2>5. State' = c
    BY <2>3, <2>4, StateIs DEF Becomes
  <2> QED BY <1>1, <2>1, <2>2, <2>5 DEF FiberPoolInv
<1> QED BY <1>4, <1>5, <1>6

LEMMA GlobalTerminateStep ==
  ASSUME FiberPoolInv, GlobalTerminate
  PROVE  FiberPoolInv'
<1> DEFINE m == ClearAll(mem, gpool.fibers)
           u == WithShared(WithMem(State, m), <<>>, gpool.in_use)
<1>1. /\ phase = 0 /\ phase' = Over /\ held' = held /\ root' = root /\ objects' = objects
      /\ mem' = m /\ pool' = pool /\ gpool' = [gpool EXCEPT !.fibers = <<>>]
  BY DEF GlobalTerminate, ClearAll
<1>2. Good(u, held, objects, root, Over)
  BY <1>1, GlobalTerminateGood, StateFields DEF FiberPoolInv
<1>3. State \in PoolState /\ u \in PoolState
  BY <1>2, GoodState DEF FiberPoolInv
<1> HIDE DEF m
<1>4. u.mem = m /\ u.pool = pool /\ u.gpool = gpool'
  <2> DEFINE t == WithMem(State, m)
  <2>1. t.mem = m /\ t.pool = pool /\ t.gpool = gpool /\ t = [t EXCEPT !.mem = m]
    BY <1>3, WithMemTwice, StateFields DEF WithMem
  <2>2. u = [t EXCEPT !.gpool.fibers = <<>>, !.gpool.in_use = gpool.in_use]
    BY DEF WithShared
  <2>3. gpool \in FiberList
    BY <1>3, StateFields, PoolFields
  <2>4. t = [mem |-> m, pool |-> pool, gpool |-> gpool]
    BY DEF WithMem, State
  <2> HIDE DEF t
  <2>5. u.mem = m /\ u.pool = pool /\ u.gpool = [gpool EXCEPT !.fibers = <<>>, !.in_use = gpool.in_use]
    BY <2>2, <2>4
  <2>6. [gpool EXCEPT !.fibers = <<>>, !.in_use = gpool.in_use] = [gpool EXCEPT !.fibers = <<>>]
    BY <2>3 DEF FiberList
  <2> QED BY <1>1, <2>5, <2>6
<1> HIDE DEF u
<1>5. State' = u
  BY <1>1, <1>3, <1>4, StateIs
<1> QED BY <1>1, <1>2, <1>5 DEF FiberPoolInv

LEMMA SameGood ==
  ASSUME FiberPoolInv, UNCHANGED vars
  PROVE  FiberPoolInv'
<1>1. State' = State /\ held' = held /\ objects' = objects /\ root' = root /\ phase' = phase
  BY DEF vars, State
<1> QED BY <1>1 DEF FiberPoolInv

\* The invariant of the specification: lists, pools and what is in use are
\* apart, and the counters say how much is in use.
THEOREM FiberPoolInvariant == Spec => []FiberPoolInv
<1>1. Init => FiberPoolInv
  BY InitGood
<1>2. FiberPoolInv /\ [Next]_vars => FiberPoolInv'
  <2> SUFFICES ASSUME FiberPoolInv, [Next]_vars PROVE FiberPoolInv'
    OBVIOUS
  <2>1. ASSUME NEW w \in Workers, AllocateFromPool(w) PROVE FiberPoolInv'
    BY <2>1, AllocateFromPoolGood
  <2>2. ASSUME NEW w \in Workers, NEW f \in held, DeallocateToPool(w, f) PROVE FiberPoolInv'
    BY <2>2, DeallocateToPoolGood
  <2>3. ASSUME NEW w \in Workers, NEW tag \in {"closure", "map"}, Create(w, tag) PROVE FiberPoolInv'
    BY <2>3, CreateStep
  <2>4. ASSUME NEW w \in Workers, NEW o \in objects, Destroy(w, o) PROVE FiberPoolInv'
    BY <2>4, DestroyStep
  <2>5. ASSUME NEW w \in Workers, WorkerTerminate(w) PROVE FiberPoolInv'
    BY <2>5, WorkerTerminateStep
  <2>6. CASE FreeRoot
    BY <2>6, FreeRootStep
  <2>7. CASE GlobalTerminate
    BY <2>7, GlobalTerminateStep
  <2>8. CASE Ended \/ UNCHANGED vars
    <3>1. UNCHANGED vars
      BY <2>8 DEF Ended
    <3> QED BY <3>1, SameGood
  <2> QED BY <2>1, <2>2, <2>3, <2>4, <2>5, <2>6, <2>7, <2>8 DEF Next
<1> QED BY <1>1, <1>2, PTL DEF Spec

-----------------------------------------------------------------------------
(* No two things at one address *)

\* What the program has, and where the model says it is.
Hand == Hands(held, objects, root, phase)
PlaceOf(u) == IF u[2] = "fiber" /\ u[1] \in held THEN <<"held">>
              ELSE IF u \in {<<root.fiber, "fiber">>, <<root.closure, "closure">>} /\ phase = Running
                   THEN <<"root">> ELSE <<"object">>

\* e is entry k of a free list, of a pool, or what the program has.
ListEntry(e, i, b, k) ==
  k \in 1 .. Len(Lists(mem)[i][b]) /\ e = Entry(<<"list", i, b, k>>, Lists(mem)[i][b][k], BucketSizes[b])
PoolEntry(e, i, k) ==
  /\ k \in 1 .. Len(FibersOf(State)[i])
  /\ e = Entry(IF i = 0 THEN <<"gpool", k>> ELSE <<"pool", i, k>>, FibersOf(State)[i][k], Classed("fiber"))
HandEntry(e, u) == e = Entry(PlaceOf(u), u[1], Classed(u[2]))

LEMMA FreeEntriesAre ==
  ASSUME mem \in Mem, NEW e \in FreeEntries
  PROVE  \E i \in Shelves, b \in Buckets : \E k \in Nat : ListEntry(e, i, b, k)
<1> DEFINE F == Lists(mem)
<1>1. PICK i \in 0 .. NWorkers, b \in Buckets :
        \E k \in DOMAIN Descriptors[i].free[b] : e = Entry(<<"list", i, b, k>>, Descriptors[i].free[b][k], BucketSizes[b])
  BY DEF FreeEntries
<1>2. F \in Stock /\ i \in Shelves /\ F[i] = Descriptors[i].free
  BY ListsAre DEF Shelves, Descriptors, Lists
<1>3. F[i][b] \in Seq(Nat)
  BY <1>2 DEF Stock
<1>4. PICK k \in DOMAIN F[i][b] : e = Entry(<<"list", i, b, k>>, F[i][b][k], BucketSizes[b])
  BY <1>1, <1>2
<1>5. k \in 1 .. Len(F[i][b]) /\ k \in Nat
  BY <1>3, <1>4
<1> QED BY <1>2, <1>4, <1>5 DEF ListEntry

LEMMA FiberEntriesAre ==
  ASSUME FiberPoolInv, NEW e \in FiberEntries
  PROVE  (\E i \in Shelves : \E k \in Nat : PoolEntry(e, i, k)) \/ (\E u \in Hand : HandEntry(e, u))
<1>1. State \in PoolState
  BY GoodState DEF FiberPoolInv
<1>2. gpool.fibers \in Seq(Nat) /\ \A w \in Workers : pool[w].fibers \in Seq(Nat)
  BY <1>1, PoolFields, StateFields
<1>3. FibersOf(State)[0] = gpool.fibers /\ \A w \in Workers : FibersOf(State)[w] = pool[w].fibers
  BY FibersAre, StateFields
<1>4. CASE \E w \in Workers : \E k \in DOMAIN pool[w].fibers : e = Entry(<<"pool", w, k>>, pool[w].fibers[k], Classed("fiber"))
  <2>1. PICK w \in Workers : \E k \in DOMAIN pool[w].fibers : e = Entry(<<"pool", w, k>>, pool[w].fibers[k], Classed("fiber"))
    BY <1>4
  <2>2. PICK k \in DOMAIN pool[w].fibers : e = Entry(<<"pool", w, k>>, pool[w].fibers[k], Classed("fiber"))
    BY <2>1
  <2>3. k \in 1 .. Len(pool[w].fibers) /\ k \in Nat
    BY <1>2, <2>2
  <2>4. w # 0 /\ w \in Shelves
    BY ShelfFacts DEF Workers
  <2>5. PoolEntry(e, w, k)
    BY <1>3, <2>2, <2>3, <2>4 DEF PoolEntry
  <2> QED BY <2>3, <2>4, <2>5
<1>5. CASE \E k \in DOMAIN gpool.fibers : e = Entry(<<"gpool", k>>, gpool.fibers[k], Classed("fiber"))
  <2>1. PICK k \in DOMAIN gpool.fibers : e = Entry(<<"gpool", k>>, gpool.fibers[k], Classed("fiber"))
    BY <1>5
  <2>2. k \in 1 .. Len(gpool.fibers) /\ k \in Nat
    BY <1>2, <2>1
  <2>3. PoolEntry(e, 0, k) /\ 0 \in Shelves
    BY <1>3, <2>1, <2>2, ShelfFacts DEF PoolEntry
  <2> QED BY <2>2, <2>3
<1>6. CASE \E f \in held : e = Entry(<<"held">>, f, Classed("fiber"))
  <2>1. PICK f \in held : e = Entry(<<"held">>, f, Classed("fiber"))
    BY <1>6
  <2> DEFINE u == <<f, "fiber">>
  <2>2. u[1] = f /\ u[2] = "fiber" /\ u \in Hand
    BY DEF Hand, Hands
  <2> HIDE DEF u
  <2>3. PlaceOf(u) = <<"held">>
    BY <2>2 DEF PlaceOf
  <2>4. HandEntry(e, u)
    BY <2>1, <2>2, <2>3 DEF HandEntry
  <2> QED BY <2>2, <2>4
<1> DEFINE A == UNION {{Entry(<<"pool", w, k>>, pool[w].fibers[k], Classed("fiber")) : k \in DOMAIN pool[w].fibers} : w \in Workers}
           B == {Entry(<<"gpool", k>>, gpool.fibers[k], Classed("fiber")) : k \in DOMAIN gpool.fibers}
           C == {Entry(<<"held">>, f, Classed("fiber")) : f \in held}
<1>7. FiberEntries = A \cup B \cup C
  BY DEF FiberEntries
<1>8. e \in A => \E w \in Workers : \E k \in DOMAIN pool[w].fibers : e = Entry(<<"pool", w, k>>, pool[w].fibers[k], Classed("fiber"))
  OBVIOUS
<1>9. e \in B => \E k \in DOMAIN gpool.fibers : e = Entry(<<"gpool", k>>, gpool.fibers[k], Classed("fiber"))
  OBVIOUS
<1>10. e \in C => \E f \in held : e = Entry(<<"held">>, f, Classed("fiber"))
  OBVIOUS
<1> HIDE DEF A, B, C
<1>11. CASE e \in A
  BY <1>4, <1>8, <1>11
<1>12. CASE e \in B
  BY <1>5, <1>9, <1>12
<1>13. CASE e \in C
  BY <1>6, <1>10, <1>13
<1>14. e \in FiberEntries
  OBVIOUS
<1> QED BY <1>7, <1>11, <1>12, <1>13, <1>14

LEMMA ObjectEntriesAre ==
  ASSUME FiberPoolInv, NEW e \in ObjectEntries \cup RootEntries
  PROVE  \E u \in Hand : HandEntry(e, u)
<1>1. Apart(held, objects, root, phase)
  BY DEF FiberPoolInv, Good
<1>2. CASE e \in ObjectEntries
  <2>1. PICK o \in objects : e = Entry(<<"object">>, o.p, Classed(o.tag))
    BY <1>2 DEF ObjectEntries
  <2> DEFINE u == <<o.p, o.tag>>
  <2>2. u[1] = o.p /\ u[2] = o.tag /\ u \in Hand
    BY DEF Hand, Hands
  <2>3. o \in Object /\ o.tag \in {"closure", "map"} /\ o = [p |-> o.p, tag |-> o.tag]
    BY <1>1 DEF Apart, Object
  <2>4. phase = Running => u # <<root.closure, "closure">>
    BY <1>1, <2>3 DEF Apart
  <2>5. u # <<root.fiber, "fiber">>
    BY <2>3
  <2> HIDE DEF u
  <2>6. PlaceOf(u) = <<"object">>
    BY <2>2, <2>3, <2>4, <2>5 DEF PlaceOf
  <2>7. HandEntry(e, u)
    BY <2>1, <2>2, <2>6 DEF HandEntry
  <2> QED BY <2>2, <2>7
<1>3. CASE e \in RootEntries
  <2>1. phase = Running /\ (\/ e = Entry(<<"root">>, root.fiber, Classed("fiber"))
                            \/ e = Entry(<<"root">>, root.closure, Classed("closure")))
    BY <1>3 DEF RootEntries
  <2>2. root.fiber \notin held
    BY <1>1, <2>1 DEF Apart
  <2> DEFINE u == <<root.fiber, "fiber">>
             v == <<root.closure, "closure">>
  <2>3. u \in Hand /\ v \in Hand /\ u[1] = root.fiber /\ u[2] = "fiber" /\ v[1] = root.closure /\ v[2] = "closure"
    BY <2>1 DEF Hand, Hands
  <2>4. PlaceOf(u) = <<"root">> /\ PlaceOf(v) = <<"root">>
    BY <2>1, <2>2 DEF PlaceOf
  <2> HIDE DEF u, v
  <2>5. HandEntry(e, u) \/ HandEntry(e, v)
    BY <2>1, <2>3, <2>4 DEF HandEntry
  <2> QED BY <2>3, <2>5
<1> QED BY <1>2, <1>3

\* Everything that has an address is one of these.
LEMMA EntriesAre ==
  ASSUME FiberPoolInv, NEW e \in Entries
  PROVE  \/ \E i \in Shelves, b \in Buckets : \E k \in Nat : ListEntry(e, i, b, k)
         \/ \E i \in Shelves : \E k \in Nat : PoolEntry(e, i, k)
         \/ \E u \in Hand : HandEntry(e, u)
<1>1. mem \in Mem
  BY GoodState, PoolFields, StateFields DEF FiberPoolInv
<1>2. e \in FreeEntries \/ e \in FiberEntries \/ e \in ObjectEntries \cup RootEntries
  BY DEF Entries
<1> QED BY <1>1, <1>2, FreeEntriesAre, FiberEntriesAre, ObjectEntriesAre

\* What the invariant says of addresses: S are the fibers in the pools.
Placed(S) ==
  LET F == Lists(mem)
      P == FibersOf(State)
      U == Hand \cup (S \X {"fiber"})
  IN /\ Spread(P, S) /\ (\A x \in Hand : x[1] \notin S) /\ U \subseteq Things /\ Unique(U)
     /\ InOrder(F, Uses(U), mem.pool.mem_begin)

LEMMA SomePlaced ==
  ASSUME FiberPoolInv
  PROVE  \E S : Placed(S)
<1>1. PICK S : PoolOK(State, S, Hand)
  BY DEF FiberPoolInv, Good, Pools, Hand
<1>2. MemOK(mem, Hand \cup (S \X {"fiber"}))
  BY <1>1, StateFields DEF PoolOK
<1>3. Placed(S)
  BY <1>1, <1>2 DEF PoolOK, Placed, MemOK, Holding
<1> QED BY <1>3

\* The block of an entry.
BlockOf(S, z, e) ==
  /\ z \in Uses(Hand \cup (S \X {"fiber"})) \cup Blocks(Lists(mem))
  /\ z[1] = e.p /\ BucketSizes[z[2]] = e.size

LEMMA EntryBlock ==
  ASSUME FiberPoolInv, NEW S, Placed(S), NEW e \in Entries
  PROVE  \E z : BlockOf(S, z, e)
<1> DEFINE F == Lists(mem)
           P == FibersOf(State)
           U == Hand \cup (S \X {"fiber"})
<1>1. Spread(P, S) /\ U \subseteq Things /\ F \in Stock
  BY DEF Placed, InOrder
<1>2. ASSUME NEW u \in U, e.p = u[1], e.size = Classed(u[2]) PROVE \E z : BlockOf(S, z, e)
  <2> DEFINE z == <<u[1], Class(u[2])>>
  <2>1. z \in Uses(U) /\ z[1] = u[1] /\ BucketSizes[z[2]] = Classed(u[2])
    BY DEF Uses, Class, Classed
  <2> HIDE DEF z
  <2>2. BlockOf(S, z, e)
    BY <1>2, <2>1 DEF BlockOf
  <2> QED BY <2>2
<1>3. CASE \E i \in Shelves, b \in Buckets : \E k \in Nat : ListEntry(e, i, b, k)
  <2>1. PICK i \in Shelves, b \in Buckets : \E k \in Nat : ListEntry(e, i, b, k)
    BY <1>3
  <2>2. PICK k \in Nat : ListEntry(e, i, b, k)
    BY <2>1
  <2> DEFINE p == F[i][b][k]
             z == <<p, b>>
  <2>3. k \in 1 .. Len(F[i][b]) /\ e.p = p /\ e.size = BucketSizes[b]
    BY <2>2 DEF ListEntry, Entry
  <2>4. F[i][b] \in Seq(Nat)
    BY <1>1 DEF Stock
  <2>5. p \in Nat /\ p \in Elems(F[i][b])
    BY <2>3, <2>4 DEF Elems
  <2> HIDE DEF p, F
  <2>6. z \in Blocks(F) /\ z[1] = p /\ z[2] = b
    BY <2>5 DEF Blocks
  <2> HIDE DEF z
  <2>7. BlockOf(S, z, e)
    BY <2>3, <2>6 DEF BlockOf, F
  <2> QED BY <2>7
<1>4. CASE \E i \in Shelves : \E k \in Nat : PoolEntry(e, i, k)
  <2>1. PICK i \in Shelves : \E k \in Nat : PoolEntry(e, i, k)
    BY <1>4
  <2>2. PICK k \in Nat : PoolEntry(e, i, k)
    BY <2>1
  <2> DEFINE f == P[i][k]
             u == <<f, "fiber">>
  <2>3. k \in 1 .. Len(P[i]) /\ e.p = f /\ e.size = Classed("fiber")
    BY <2>2 DEF PoolEntry, Entry
  <2>4. f \in S
    BY <1>1, <2>3 DEF Spread, Elems
  <2> HIDE DEF f
  <2>5. u \in U /\ u[1] = f /\ u[2] = "fiber"
    BY <2>4
  <2> HIDE DEF u, U
  <2> QED BY <1>2, <2>3, <2>5
<1>5. CASE \E u \in Hand : HandEntry(e, u)
  <2>1. PICK u \in Hand : HandEntry(e, u)
    BY <1>5
  <2>2. e.p = u[1] /\ e.size = Classed(u[2]) /\ u \in U
    BY <2>1 DEF HandEntry, Entry
  <2> QED BY <1>2, <2>2
<1> QED BY <1>3, <1>4, <1>5, EntriesAre

\* Entries of free lists at one address.
LEMMA ListsTwice ==
  ASSUME NEW S, Placed(S), NEW i \in Shelves, NEW b \in Buckets, NEW k \in Nat, NEW x, ListEntry(x, i, b, k),
         NEW j \in Shelves, NEW c \in Buckets, NEW l \in Nat, NEW y, ListEntry(y, j, c, l), x.p = y.p
  PROVE  x = y
<1> DEFINE F == Lists(mem)
           p == x.p
<1>1. Once(F)
  BY DEF Placed, InOrder
<1>2. k \in 1 .. Len(F[i][b]) /\ p = F[i][b][k] /\ x = Entry(<<"list", i, b, k>>, p, BucketSizes[b])
  BY DEF ListEntry, Entry
<1>3. l \in 1 .. Len(F[j][c]) /\ p = F[j][c][l] /\ y = Entry(<<"list", j, c, l>>, p, BucketSizes[c])
  BY DEF ListEntry, Entry
<1> HIDE DEF p, F
<1>4. p \in Elems(F[i][b]) /\ p \in Elems(F[j][c])
  BY <1>2, <1>3 DEF Elems
<1>5. i = j /\ b = c
  BY <1>1, <1>4 DEF Once
<1>6. NoRepeat(F[i][b])
  BY <1>1 DEF Once
<1>7. k = l
  BY <1>2, <1>3, <1>5, <1>6 DEF NoRepeat
<1> QED BY <1>2, <1>3, <1>5, <1>7

\* What is in use is in no free list.
LEMMA NotListed ==
  ASSUME NEW S, Placed(S), NEW i \in Shelves, NEW b \in Buckets, NEW k \in Nat, NEW x, ListEntry(x, i, b, k),
         NEW u \in Hand \cup (S \X {"fiber"})
  PROVE  x.p # u[1]
<1> DEFINE F == Lists(mem)
           U == Hand \cup (S \X {"fiber"})
           p == x.p
           z == <<u[1], Class(u[2])>>
<1>1. Out(Uses(U), F)
  BY DEF Placed, InOrder
<1>2. k \in 1 .. Len(F[i][b]) /\ p = F[i][b][k]
  BY DEF ListEntry, Entry
<1>3. z \in Uses(U) /\ z[1] = u[1]
  BY DEF Uses
<1> HIDE DEF p, F, U, z
<1>4. p \in Elems(F[i][b])
  BY <1>2 DEF Elems
<1>5. z[1] \notin Elems(F[i][b])
  BY <1>1, <1>3 DEF Out
<1> QED BY <1>3, <1>4, <1>5 DEF p

\* The fiber of a pool entry.
LEMMA PoolEntryIs ==
  ASSUME NEW S, Placed(S), NEW i \in Shelves, NEW k \in Nat, NEW x, PoolEntry(x, i, k)
  PROVE  x.p \in S /\ <<x.p, "fiber">> \in Hand \cup (S \X {"fiber"})
<1> DEFINE P == FibersOf(State)
<1>1. Spread(P, S)
  BY DEF Placed
<1>2. k \in 1 .. Len(P[i]) /\ x.p = P[i][k]
  BY DEF PoolEntry, Entry
<1> HIDE DEF P
<1>3. x.p \in Elems(P[i])
  BY <1>2 DEF Elems
<1>4. x.p \in S
  BY <1>1, <1>3 DEF Spread
<1> QED BY <1>4

\* Entries of pools at one address.
LEMMA PoolsTwice ==
  ASSUME NEW S, Placed(S), NEW i \in Shelves, NEW k \in Nat, NEW x, PoolEntry(x, i, k),
         NEW j \in Shelves, NEW l \in Nat, NEW y, PoolEntry(y, j, l), x.p = y.p
  PROVE  x = y
<1> DEFINE P == FibersOf(State)
           p == x.p
           Place(h, n) == IF h = 0 THEN <<"gpool", n>> ELSE <<"pool", h, n>>
<1>1. Spread(P, S)
  BY DEF Placed
<1>2. k \in 1 .. Len(P[i]) /\ p = P[i][k] /\ x = Entry(Place(i, k), p, Classed("fiber"))
  BY DEF PoolEntry, Entry
<1>3. l \in 1 .. Len(P[j]) /\ p = P[j][l] /\ y = Entry(Place(j, l), p, Classed("fiber"))
  BY DEF PoolEntry, Entry
<1> HIDE DEF P, p, Place
<1>4. p \in Elems(P[i]) /\ p \in Elems(P[j])
  BY <1>2, <1>3 DEF Elems
<1>5. i = j
  BY <1>1, <1>4 DEF Spread
<1>6. NoRepeat(P[i])
  BY <1>1 DEF Spread, ListOf
<1>7. k = l
  BY <1>2, <1>3, <1>5, <1>6 DEF NoRepeat
<1> QED BY <1>2, <1>3, <1>5, <1>7

\* Two entries at one address are one.
LEMMA OneEntry ==
  ASSUME FiberPoolInv, NEW S, Placed(S), NEW x \in Entries, NEW y \in Entries, x.p = y.p
  PROVE  x = y
<1> DEFINE U == Hand \cup (S \X {"fiber"})
           OfList(e) == \E i \in Shelves, b \in Buckets : \E k \in Nat : ListEntry(e, i, b, k)
           OfPool(e) == \E i \in Shelves : \E k \in Nat : PoolEntry(e, i, k)
           OfHand(e) == \E u \in Hand : HandEntry(e, u)
           InUseAt(e) == \E u \in U : e.p = u[1]
<1>1. \A e \in Entries : OfList(e) \/ OfPool(e) \/ OfHand(e)
  BY EntriesAre
<1>2. OfList(x) /\ OfList(y) => x = y
  BY ListsTwice
<1>3. OfPool(x) /\ OfPool(y) => x = y
  BY PoolsTwice
<1>4. ASSUME NEW e, OfPool(e) PROVE InUseAt(e) /\ e.p \in S
  <2>1. PICK i \in Shelves : \E k \in Nat : PoolEntry(e, i, k)
    BY <1>4
  <2>2. PICK k \in Nat : PoolEntry(e, i, k)
    BY <2>1
  <2>3. e.p \in S /\ <<e.p, "fiber">> \in U
    BY <2>2, PoolEntryIs
  <2>4. <<e.p, "fiber">>[1] = e.p
    OBVIOUS
  <2> QED BY <2>3, <2>4
<1>5. ASSUME NEW e, OfHand(e) PROVE InUseAt(e) /\ e.p \notin S
  <2>1. PICK u \in Hand : HandEntry(e, u)
    BY <1>5
  <2>2. e.p = u[1] /\ u \in U
    BY <2>1 DEF HandEntry, Entry
  <2>3. u[1] \notin S
    BY DEF Placed
  <2> QED BY <2>2, <2>3
<1>6. ASSUME NEW e, NEW d, OfList(e), InUseAt(d) PROVE e.p # d.p
  <2>1. PICK u \in U : d.p = u[1]
    BY <1>6
  <2>2. PICK i \in Shelves, b \in Buckets : \E k \in Nat : ListEntry(e, i, b, k)
    BY <1>6
  <2>3. PICK k \in Nat : ListEntry(e, i, b, k)
    BY <2>2
  <2>4. e.p # u[1]
    BY <2>3, NotListed
  <2> QED BY <2>1, <2>4
<1>7. ASSUME OfHand(x), OfHand(y) PROVE x = y
  <2>1. PICK u \in Hand : HandEntry(x, u)
    BY <1>7
  <2>2. PICK v \in Hand : HandEntry(y, v)
    BY <1>7
  <2>3. u[1] = v[1]
    BY <2>1, <2>2 DEF HandEntry, Entry
  <2>4. u = v
    BY <2>3 DEF Placed, Unique
  <2> QED BY <2>1, <2>2, <2>4 DEF HandEntry
<1> HIDE DEF OfList, OfPool, OfHand, InUseAt, U
<1> QED BY <1>1, <1>2, <1>3, <1>4, <1>5, <1>6, <1>7

\* What the fiber pools and the allocator hand out does not overlap.
LEMMA Disjoint == FiberPoolInv => NoOverlap
<1> SUFFICES ASSUME FiberPoolInv, NEW x \in Entries, NEW y \in Entries, x # y
             PROVE  x.p + x.size <= y.p \/ y.p + y.size <= x.p
  BY DEF NoOverlap
<1>1. PICK S : Placed(S)
  BY SomePlaced
<1> DEFINE Z == Uses(Hand \cup (S \X {"fiber"})) \cup Blocks(Lists(mem))
<1>2. PICK w : BlockOf(S, w, x)
  BY <1>1, EntryBlock
<1>3. PICK z : BlockOf(S, z, y)
  BY <1>1, EntryBlock
<1>4. x.p # y.p
  BY <1>1, OneEntry
<1>5. Separate(Z, mem.pool.mem_begin)
  BY <1>1 DEF Placed, InOrder
<1>6. w \in Z /\ w[1] = x.p /\ End(w) = x.p + x.size /\ z \in Z /\ z[1] = y.p /\ End(z) = y.p + y.size
  BY <1>2, <1>3 DEF BlockOf, End
<1>7. w # z
  BY <1>4, <1>6
<1> HIDE DEF Z
<1>8. End(w) <= z[1] \/ End(z) <= w[1]
  BY <1>5, <1>6, <1>7 DEF Separate
<1> QED BY <1>6, <1>8

-----------------------------------------------------------------------------
(* The properties *)

\* The lists and pools keep their limits.
LEMMA LimitsKept == FiberPoolInv => WithinLimits
<1> SUFFICES ASSUME FiberPoolInv PROVE WithinLimits
  OBVIOUS
<1>1. PICK S : PoolOK(State, S, Hand)
  BY DEF FiberPoolInv, Good, Pools, Hand
<1>2. \A w \in Workers, b \in Buckets : Len(mem.l[w].free[b]) <= BucketCapacity[b] /\ mem.l[w].free[b] \in Seq(Nat)
  <2>1. MemOK(mem, Hand \cup (S \X {"fiber"}))
    BY <1>1, StateFields DEF PoolOK
  <2>2. mem \in Mem
    BY <2>1 DEF MemOK, Holding
  <2> QED BY <2>1, <2>2 DEF MemOK, Mem, Descriptor
<1>3. ASSUME NEW w \in Workers, NEW b \in Buckets PROVE ~OverLimit(mem.l[w], b)
  <2>1. Len(mem.l[w].free[b]) <= BucketCapacity[b] /\ Len(mem.l[w].free[b]) \in Nat
    BY <1>2
  <2>2. BucketCapacity[b] \in Nat
    BY BucketFacts
  <2> QED BY <2>1, <2>2 DEF OverLimit
<1>4. (\A w \in Workers : Len(pool[w].fibers) <= FiberPoolCap) /\ Len(gpool.fibers) <= GlobalCap
  BY StateFields DEF FiberPoolInv, Good, Limits
<1> QED BY <1>3, <1>4 DEF WithinLimits

\* The counters of the fiber pools are right.
LEMMA CountsRight == FiberPoolInv => InUse
<1> SUFFICES ASSUME FiberPoolInv, phase = Running
             PROVE  SumOf([w \in Workers |-> pool[w].in_use]) = Cardinality(held) /\ gpool.in_use = -Len(gpool.fibers)
  BY DEF InUse
<1>1. CountOf(State) = Cardinality(held) /\ Owed(State) = 0
  BY DEF FiberPoolInv, Good, Counted
<1>2. State \in PoolState
  BY GoodState DEF FiberPoolInv
<1>3. gpool.in_use \in Int /\ gpool.fibers \in Seq(Nat)
  BY <1>2, PoolFields, StateFields
<1>4. gpool.in_use + Len(gpool.fibers) = 0
  BY <1>1, StateFields DEF Owed
<1>5. Len(gpool.fibers) \in Nat
  BY <1>3
<1>6. gpool.in_use = -Len(gpool.fibers)
  BY <1>3, <1>4, <1>5
<1>7. SumOf([w \in Workers |-> pool[w].in_use]) = Cardinality(held)
  BY <1>1, StateFields DEF CountOf
<1> QED BY <1>6, <1>7

\* After the shutdown nothing is left.
LEMMA EmptyAtTheEnd == FiberPoolInv => NothingLeft
<1> SUFFICES ASSUME FiberPoolInv, phase = Over
             PROVE  /\ \A w \in Workers : /\ pool[w].fibers = <<>>
                                          /\ \A b \in Buckets : mem.l[w].free[b] = <<>>
                    /\ gpool.fibers = <<>> /\ objects = {}
                    /\ \A t \in Tags : mem.g.num_malloc[t] = 0
  BY DEF NothingLeft
<1>1. Apart(held, objects, root, phase) /\ Down(State, held, objects, phase)
  BY DEF FiberPoolInv, Good
<1>2. NWorkers \in Nat /\ Workers = 1 .. NWorkers
  BY MallocAssumption DEF Workers
<1>3. phase = -1 /\ phase # Running /\ \A w \in Workers : w > phase
  BY <1>2 DEF Over, Running
<1>4. /\ held = {} /\ objects = {} /\ gpool.fibers = <<>>
      /\ \A w \in Workers : pool[w].fibers = <<>> /\ Emptied(mem, w)
  BY <1>1, <1>3, StateFields DEF Down
<1>5. Hand = {}
  BY <1>3, <1>4 DEF Hand, Hands
<1>6. PICK S : PoolOK(State, S, Hand)
  BY DEF FiberPoolInv, Good, Pools, Hand
<1> DEFINE P == FibersOf(State)
<1>7. \A i \in Shelves : P[i] = <<>>
  BY <1>4, FibersAre, StateFields, ShelfFacts
<1>8. Spread(P, S)
  BY <1>6 DEF PoolOK
<1> HIDE DEF P
<1>9. S = {}
  BY <1>7, <1>8, SpreadNone
<1>10. MemOK(mem, {})
  <2>1. MemOK(mem, Hand \cup (S \X {"fiber"}))
    BY <1>6, StateFields DEF PoolOK
  <2>2. Hand \cup (S \X {"fiber"}) = {}
    BY <1>5, <1>9
  <2> QED BY <2>1, <2>2
<1>11. ASSUME NEW t \in Tags PROVE mem.g.num_malloc[t] = 0
  <2> DEFINE f == [w \in Workers |-> mem.l[w].num_malloc[t]]
  <2>1. \A w \in Workers : f[w] = 0
    BY <1>4 DEF Emptied
  <2>2. f \in [Workers -> Int]
    BY <2>1
  <2>3. SumOf(f) = 0
    BY <2>1, <2>2, SumZero
  <2>4. OfTag({}, t) = {}
    BY DEF OfTag
  <2>5. Allocated(mem, t) = 0
    BY <1>10, <2>4, FS_EmptySet DEF MemOK
  <2>6. mem.g.num_malloc[t] \in Int
    BY <1>10 DEF MemOK, Holding, Mem, Descriptor
  <2> QED BY <2>3, <2>5, <2>6 DEF Allocated
<1> QED BY <1>4, <1>11 DEF Emptied

\* No memory is handed out twice: the blocks in the free lists, the fibers in
\* the pools and in use, the closures, maps and the root never overlap,
\* whichever worker allocates and frees them (cilk_internal_malloc,
\* cilk_internal_free, the batches of internal-malloc.c and fiber-pool.c).
THEOREM NoOverlapAlways == Spec => []NoOverlap
BY FiberPoolInvariant, Disjoint, PTL

\* The lists of a worker keep to bucket_capacity, the private fiber pools to
\* their capacity and the shared one to the capacity it was given: the
\* assertions of assert_bucket and fiber_pool_free_batch.
THEOREM WithinLimitsAlways == Spec => []WithinLimits
BY FiberPoolInvariant, LimitsKept, PTL

\* While the program runs the in_use counters of the private pools add up to
\* the fibers in use, and the shared pool's is what it gave away less what it
\* got (cilk_fiber_allocate_from_pool, cilk_fiber_deallocate_to_pool and the
\* batches).
THEOREM InUseAlways == Spec => []InUse
BY FiberPoolInvariant, CountsRight, PTL

\* The order of __cilkrts_shutdown leaves nothing: pools and lists are empty
\* and no tag has an object left, what the destructors assert.
THEOREM NothingLeftAlways == Spec => []NothingLeft
BY FiberPoolInvariant, EmptyAtTheEnd, PTL
=============================================================================
