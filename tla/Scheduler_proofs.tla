-------------------------- MODULE Scheduler_proofs --------------------------
(***************************************************************************)
(* Proofs about Scheduler, for every program and any number of workers.    *)
(***************************************************************************)
EXTENDS Scheduler, FiniteSetTheorems, SequenceTheorems, WellFoundedInduction, TLAPS

-----------------------------------------------------------------------------
(* The forest of the frames *)

\* The caller of a frame is the frame whose code invokes it.
LEMMA CallParentIs ==
  ASSUME NEW f \in Frames \ Roots
  PROVE  CallParent(f) \in Frames /\ f \in Ops(CallParent(f), "spawn") \cup Ops(CallParent(f), "call")
<1>1. \E g \in Frames : f \in Ops(g, "spawn") \cup Ops(g, "call")
  BY SchedulerAssumption
<1> QED BY <1>1 DEF CallParent, Caller

\* What an operation invokes is below the frame that invokes it, and detached
\* if it is spawned.
LEMMA Invoked ==
  ASSUME NEW f \in Frames, NEW i \in DOMAIN Code[f], Invokes(Code[f][i])
  PROVE  /\ Code[f][i][2] \in Frames \ Roots /\ CallParent(Code[f][i][2]) = f
         /\ Detached(Code[f][i][2]) <=> Code[f][i][1] = "spawn"
<1> DEFINE x == Code[f][i][2]
<1>1. Code[f] \in Seq(Operation) /\ Code[f][i] \in Operation
  BY SchedulerAssumption
<1>2. x \in Frames
  BY <1>1 DEF Operation, Invokes
<1>3. x \notin Roots
  BY SchedulerAssumption
<1>4. \A g \in Frames : \A j \in DOMAIN Code[g] :
        Invokes(Code[g][j]) /\ Code[g][j][2] = x => g = f /\ j = i
  BY SchedulerAssumption
<1>5. ASSUME NEW g \in Frames, NEW k \in {"spawn", "call"}, x \in Ops(g, k)
      PROVE  g = f /\ Code[f][i][1] = k
  <2>1. PICK j \in DOMAIN Code[g] : Code[g][j][1] = k /\ Code[g][j][2] = x
    BY <1>5 DEF Ops
  <2> QED BY <1>4, <2>1 DEF Invokes
<1>6. CallParent(x) = f
  BY <1>2, <1>3, <1>5, CallParentIs
<1>7. Code[f][i][1] = "spawn" => x \in Ops(f, "spawn")
  BY DEF Ops
<1> QED BY <1>2, <1>3, <1>5, <1>6, <1>7 DEF Detached, Spawned

\* Detached frames are not roots.
LEMMA DetachedBelow ==
  ASSUME NEW f, Detached(f)
  PROVE  f \in Frames \ Roots
<1>1. PICK g \in Frames : f \in Ops(g, "spawn")
  BY DEF Detached, Spawned
<1>2. PICK i \in DOMAIN Code[g] : Code[g][i][1] = "spawn" /\ Code[g][i][2] = f
  BY <1>1 DEF Ops
<1> QED BY <1>2, Invoked DEF Invokes

\* The ancestors of a frame include it and are closed under callers.
LEMMA AboveSelf ==
  ASSUME NEW f \in Frames
  PROVE  f \in Above[f] /\ Above[f] \subseteq Frames /\ Above[f] \in CallerClosed
<1>1. Above[f] = {g \in Frames : \A S \in CallerClosed : f \in S => g \in S}
  BY DEF Above
<1>2. ASSUME NEW g \in Above[f] \ Roots PROVE CallParent(g) \in Above[f]
  <2>1. g \in Frames /\ \A S \in CallerClosed : f \in S => g \in S
    BY <1>1
  <2>2. CallParent(g) \in Frames
    BY <2>1, CallParentIs
  <2>3. \A S \in CallerClosed : f \in S => CallParent(g) \in S
    BY <2>1 DEF CallerClosed
  <2> QED BY <1>1, <2>2, <2>3
<1> QED BY <1>1, <1>2 DEF CallerClosed

\* Induction over the ancestors.
LEMMA AboveLeast ==
  ASSUME NEW f \in Frames, NEW S \in CallerClosed, f \in S
  PROVE  Above[f] \subseteq S
BY DEF Above

\* A frame's ancestors are the frame and those of its caller.
LEMMA AboveCaller ==
  ASSUME NEW f \in Frames
  PROVE  /\ f \in Roots => Above[f] = {f}
         /\ f \notin Roots => Above[f] = {f} \cup Above[CallParent(f)] /\ f \notin Above[CallParent(f)]
<1>1. CASE f \in Roots
  <2>1. {f} \in CallerClosed
    BY <1>1 DEF CallerClosed
  <2> QED BY <1>1, <2>1, AboveSelf, AboveLeast
<1>2. CASE f \notin Roots
  <2> DEFINE p == CallParent(f)
             S == {f} \cup Above[p]
  <2>1. p \in Frames /\ Above[p] \in CallerClosed /\ p \in Above[p] /\ Above[p] \subseteq Frames
    BY <1>2, CallParentIs, AboveSelf
  <2>2. S \in CallerClosed
    BY <2>1 DEF CallerClosed
  <2>3. Above[f] \subseteq S
    BY <2>2, AboveLeast
  <2>4. Above[f] \in CallerClosed /\ f \in Above[f]
    BY AboveSelf
  <2>5. p \in Above[f]
    BY <1>2, <2>4 DEF CallerClosed
  <2>6. Above[p] \subseteq Above[f]
    BY <2>1, <2>4, <2>5, AboveLeast
  <2>7. f \notin Above[p]
    BY <1>2, SchedulerAssumption
  <2> QED BY <1>2, <2>3, <2>4, <2>6, <2>7
<1> QED BY <1>1, <1>2

\* The ancestors of an ancestor are ancestors.
LEMMA AboveTransitive ==
  ASSUME NEW f \in Frames, NEW g \in Above[f]
  PROVE  g \in Frames /\ Above[g] \subseteq Above[f]
<1>1. Above[f] \in CallerClosed /\ Above[f] \subseteq Frames
  BY AboveSelf
<1> QED BY <1>1, AboveLeast

\* A proper ancestor is an ancestor of the caller, and not the other way round.
LEMMA AboveProper ==
  ASSUME NEW f \in Frames, NEW g \in Above[f], g # f
  PROVE  f \notin Roots /\ g \in Above[CallParent(f)] /\ f \notin Above[g]
<1>1. f \notin Roots /\ g \in Above[CallParent(f)] /\ f \notin Above[CallParent(f)]
  BY AboveCaller
<1>2. Above[g] \subseteq Above[CallParent(f)]
  BY <1>1, CallParentIs, AboveTransitive
<1> QED BY <1>1, <1>2

\* The ancestors of a frame are a chain.
LEMMA AboveChain ==
  ASSUME NEW f \in Frames, NEW g \in Above[f], NEW h \in Above[f]
  PROVE  g \in Above[h] \/ h \in Above[g]
<1> DEFINE S == {x \in Above[f] : g \in Above[x] \/ x \in Above[g]}
<1>1. Above[f] \in CallerClosed /\ Above[f] \subseteq Frames /\ f \in Above[f] /\ g \in Frames
  BY AboveSelf
<1>2. ASSUME NEW x \in S \ Roots PROVE CallParent(x) \in S
  <2>1. CallParent(x) \in Above[f] /\ x \in Frames
    BY <1>1 DEF CallerClosed
  <2>2. CASE g \in Above[x] /\ g # x
    BY <2>1, <2>2, AboveProper
  <2>3. CASE x \in Above[g] \/ g = x
    <3>1. x \in Above[g] /\ Above[g] \in CallerClosed
      BY <1>1, <2>3, AboveSelf
    <3> QED BY <2>1, <3>1 DEF CallerClosed
  <2> QED BY <2>2, <2>3
<1>3. S \in CallerClosed
  BY <1>1, <1>2 DEF CallerClosed
<1> QED BY <1>1, <1>3, AboveLeast

\* Below an ancestor there is one frame on the way to f.
LEMMA AboveChild ==
  ASSUME NEW f \in Frames, NEW g \in Above[f], g # f
  PROVE  \E h \in Above[f] \ Roots : CallParent(h) = g
<1> DEFINE S == {x \in Above[f] : x = f \/ \E h \in Above[f] \ Roots : CallParent(h) = x}
<1>1. Above[f] \in CallerClosed /\ Above[f] \subseteq Frames /\ f \in Above[f]
  BY AboveSelf
<1>2. S \in CallerClosed
  BY <1>1 DEF CallerClosed
<1> QED BY <1>1, <1>2, AboveLeast

\* Two frames on one path have different callers.
LEMMA AboveSiblings ==
  ASSUME NEW f \in Frames, NEW g \in Above[f] \ Roots, NEW h \in Above[f] \ Roots,
         CallParent(g) = CallParent(h)
  PROVE  g = h
<1>1. g \in Frames /\ h \in Frames
  BY AboveSelf
<1>2. ASSUME NEW x \in Frames \ Roots, NEW y \in Frames \ Roots, x \in Above[y], x # y,
             CallParent(x) = CallParent(y)
      PROVE  FALSE
  BY <1>2, AboveProper, AboveCaller
<1> QED BY <1>1, <1>2, AboveChain

-----------------------------------------------------------------------------
(* Stacklets *)

\* Frame b, spawn parent p and outer frame o of a closure.
BaseOf(o, b, p) ==
  /\ p # 0 => o \in Frames /\ (b # 0 => b \in Frames \ Roots /\ CallParent(b) = o /\ Detached(b))
  /\ p = 0 => \/ b \in Roots /\ o = 0
              \/ b \in Frames \ Roots /\ o = CallParent(b) /\ ~Detached(b)

\* 0, the null pointer, is no frame.
LEMMA FramesPositive == 0 \notin Frames /\ Roots \subseteq Frames
BY SchedulerAssumption

\* A stacklet is what Above says, with and without an outer frame.
LEMMA StackletIs ==
  ASSUME NEW f \in Frames, NEW o \in Frames \cup {0}
  PROVE  /\ Stacklet(o, f) \subseteq Above[f] /\ Stacklet(o, f) \subseteq Frames
         /\ o # 0 => Stacklet(o, f) = Above[f] \ Above[o]
         /\ o = 0 => Stacklet(o, f) = Above[f]
BY AboveSelf DEF Stacklet, Beyond

\* The outermost frame of a stacklet hangs below the outer frame.
LEMMA Outermost ==
  ASSUME NEW f \in Frames, NEW o \in Frames, o \in Above[f], NEW g \in Stacklet(o, f)
  PROVE  /\ o \in Above[g] /\ o # g /\ g \in Frames \ Roots /\ o \in Above[CallParent(g)]
         /\ CallParent(g) \in Above[f]
         /\ CallParent(g) \notin Stacklet(o, f) <=> CallParent(g) = o
<1>0. o # 0 /\ Stacklet(o, f) = Above[f] \ Above[o]
  BY FramesPositive, StackletIs
<1>1. g \in Above[f] /\ g \notin Above[o] /\ g \in Frames
  BY <1>0, AboveSelf
<1>2. o \in Above[g] /\ o # g
  BY <1>1, AboveChain, AboveSelf
<1>3. g \notin Roots /\ o \in Above[CallParent(g)] /\ CallParent(g) \in Frames
  BY <1>1, <1>2, AboveProper, CallParentIs
<1>4. CallParent(g) \in Above[f]
  BY <1>1, <1>3, AboveSelf DEF CallerClosed
<1>5. ASSUME CallParent(g) \in Above[o] PROVE CallParent(g) = o
  BY <1>3, <1>5, AboveProper
<1>6. o \in Above[o]
  BY AboveSelf
<1> QED BY <1>0, <1>1, <1>2, <1>3, <1>4, <1>5, <1>6

\* A worker begins on a stack of one frame: that of its closure.
LEMMA StackStart ==
  ASSUME NEW o, NEW b, NEW p, NEW T, BaseOf(o, b, p), b # 0, b \in T
  PROVE  Stacklet(o, b) = {b} /\ FitsStack(o, b, p, T, b, <<>>)
<1>1. b \in Frames /\ o \in Frames \cup {0} /\ (b \in Roots => o = 0 /\ p = 0)
      /\ (b \notin Roots => o = CallParent(b) /\ o # 0)
  BY FramesPositive, CallParentIs DEF BaseOf
<1>2. Stacklet(o, b) = {b}
  BY <1>1, AboveCaller, StackletIs
<1>3. b \notin Roots => o \in Above[b]
  BY <1>1, AboveCaller, AboveSelf
<1>4. \A g \in {b} \ Roots : CallParent(g) # b
  BY <1>1, AboveCaller, AboveSelf, CallParentIs
<1>5. b \notin Roots => (Detached(b) <=> p # 0)
  BY DEF BaseOf
<1>6. DOMAIN <<>> = {}
  OBVIOUS
<1> QED BY <1>1, <1>2, <1>3, <1>4, <1>5, <1>6 DEF FitsStack, ShadowOf

\* The stolen frames may grow elsewhere.
LEMMA StackGrow ==
  ASSUME NEW o, NEW b, NEW p, NEW T, NEW U, NEW f, NEW s, FitsStack(o, b, p, T, f, s),
         T \subseteq U, U \cap Stacklet(o, f) \subseteq T
  PROVE  FitsStack(o, b, p, U, f, s)
<1>1. U \cap Stacklet(o, f) = T \cap Stacklet(o, f)
  OBVIOUS
<1> QED BY <1>1 DEF FitsStack

\* Frame g begins on top of frame f: Spawn and Call.
Pushed(o, b, p, T, f, s, g) ==
  /\ Stacklet(o, g) = Stacklet(o, f) \cup {g}
  /\ Detached(g) => FitsStack(o, b, p, T, g, Append(s, f))
  /\ ~Detached(g) => FitsStack(o, b, p, T, g, s)

\* A frame that is spawned or called goes on top of the stack.
LEMMA StackPush ==
  ASSUME NEW o \in Frames \cup {0}, NEW b, NEW p, NEW T, NEW f \in Frames, NEW s \in Seq(Frames),
         FitsStack(o, b, p, T, f, s), NEW g \in Frames \ Roots, CallParent(g) = f, g \notin T
  PROVE  Pushed(o, b, p, T, f, s, g)
<1> DEFINE S == Stacklet(o, f)
           R == Stacklet(o, g)
<1>1. Above[g] = {g} \cup Above[f] /\ g \notin Above[f] /\ f \in Above[f]
  BY AboveCaller, AboveSelf
<1>2. f \in S /\ (o # 0 => o \in Above[f]) /\ S \subseteq Above[f]
  BY StackletIs DEF FitsStack
<1>3. o # 0 => g \notin Above[o]
  BY <1>1, <1>2, AboveTransitive
<1>4. R = S \cup {g} /\ g \notin S
  BY <1>1, <1>2, <1>3, StackletIs
<1>5. T \cap R = T \cap S
  BY <1>4
<1>6. \A x \in S \ Roots : CallParent(x) # g /\ CallParent(x) # f
  BY <1>1, <1>2, AboveCaller, AboveTransitive, AboveSelf, AboveProper, CallParentIs, StackletIs
<1>7. \A x \in R \ Roots : CallParent(x) \in R <=> x = g \/ CallParent(x) \in S
  BY <1>1, <1>2, <1>4, <1>6
<1>8. ASSUME NEW s2, ShadowOf(R, s2) PROVE FitsStack(o, b, p, T, g, s2)
  <2>1. g \in R /\ (o # 0 => o \in Above[g]) /\ (o = 0 => b \in R /\ b \in Roots) /\ T \cap R = {b} \ {0}
    BY <1>1, <1>2, <1>4, <1>5 DEF FitsStack
  <2>2. \A x \in R \ Roots : CallParent(x) \notin R => (Detached(x) <=> p # 0)
    BY <1>4, <1>7 DEF FitsStack
  <2> QED BY <1>8, <2>1, <2>2 DEF FitsStack
<1>9. CASE ~Detached(g)
  <2>1. \A i \in DOMAIN s : \E x \in R \ Roots : Detached(x) /\ CallParent(x) \in R /\ s[i] = CallParent(x)
    BY <1>4 DEF FitsStack, ShadowOf
  <2>2. \A x \in R \ Roots : Detached(x) /\ CallParent(x) \in R => \E i \in DOMAIN s : s[i] = CallParent(x)
    BY <1>4, <1>7, <1>9 DEF FitsStack, ShadowOf
  <2>3. \A i, j \in DOMAIN s : i < j => s[i] # s[j] /\ s[i] \in Above[s[j]]
    BY DEF FitsStack, ShadowOf
  <2>4. ShadowOf(R, s)
    BY <2>1, <2>2, <2>3 DEF ShadowOf
  <2> QED BY <1>4, <1>8, <1>9, <2>4 DEF Pushed
<1>10. CASE Detached(g)
  <2> DEFINE s2 == Append(s, f)
             n == Len(s)
  <2>1. n \in Nat /\ DOMAIN s = 1 .. n /\ DOMAIN s2 = 1 .. n + 1 /\ s2[n + 1] = f /\ \A i \in 1 .. n : s2[i] = s[i]
    OBVIOUS
  <2> HIDE DEF s2, n
  <2>2. \A i \in 1 .. n : \E x \in S \ Roots : Detached(x) /\ CallParent(x) \in S /\ s[i] = CallParent(x)
    BY <2>1 DEF FitsStack, ShadowOf
  <2>3. \A i \in DOMAIN s2 : \E x \in R \ Roots : Detached(x) /\ CallParent(x) \in R /\ s2[i] = CallParent(x)
    <3>1. \A i \in 1 .. n : \E x \in R \ Roots : Detached(x) /\ CallParent(x) \in R /\ s2[i] = CallParent(x)
      BY <1>4, <2>1, <2>2
    <3>2. g \in R \ Roots /\ CallParent(g) \in R /\ s2[n + 1] = CallParent(g)
      BY <1>2, <1>4, <2>1
    <3> QED BY <1>10, <2>1, <3>1, <3>2
  <2>4. \A x \in R \ Roots : Detached(x) /\ CallParent(x) \in R => \E i \in DOMAIN s2 : s2[i] = CallParent(x)
    <3>1. ASSUME NEW x \in S \ Roots, Detached(x), CallParent(x) \in S PROVE \E i \in DOMAIN s2 : s2[i] = CallParent(x)
      <4>1. PICK i \in 1 .. n : s[i] = CallParent(x)
        BY <2>1, <3>1 DEF FitsStack, ShadowOf
      <4> QED BY <2>1, <4>1
    <3>2. n + 1 \in DOMAIN s2 /\ s2[n + 1] = CallParent(g)
      BY <2>1
    <3> QED BY <1>4, <1>7, <3>1, <3>2
  <2>5. \A i \in 1 .. n : s[i] # f /\ s[i] \in Above[f]
    BY <1>2, <1>6, <2>2
  <2>6. \A i, j \in DOMAIN s2 : i < j => s2[i] # s2[j] /\ s2[i] \in Above[s2[j]]
    <3>1. ASSUME NEW i \in 1 .. n, NEW j \in 1 .. n, i < j PROVE s2[i] # s2[j] /\ s2[i] \in Above[s2[j]]
      BY <2>1, <3>1 DEF FitsStack, ShadowOf
    <3>2. ASSUME NEW i \in 1 .. n PROVE s2[i] # s2[n + 1] /\ s2[i] \in Above[s2[n + 1]]
      BY <2>1, <2>5
    <3> QED BY <2>1, <3>1, <3>2
  <2>7. ShadowOf(R, s2)
    BY <2>3, <2>4, <2>6 DEF ShadowOf
  <2>8. FitsStack(o, b, p, T, g, s2)
    BY <1>8, <2>7
  <2> QED BY <1>4, <1>10, <2>8 DEF s2, Pushed
<1> QED BY <1>9, <1>10

\* The frame outside of a stacklet is a frame or none.
LEMMA BaseOuter ==
  ASSUME NEW o, NEW b, NEW p, BaseOf(o, b, p)
  PROVE  o \in Frames \cup {0}
BY CallParentIs DEF BaseOf

\* Where the frame of a closure is in its stacklet.
LEMMA BaseIn ==
  ASSUME NEW o, NEW b, NEW p, NEW T, NEW f \in Frames, NEW s,
         BaseOf(o, b, p), FitsStack(o, b, p, T, f, s)
  PROVE  /\ o \in Frames \cup {0} /\ o \notin Stacklet(o, f)
         /\ p # 0 => o # 0
         /\ b # 0 => b \in Stacklet(o, f) /\ (b \in Roots \/ CallParent(b) = o)
         /\ \A g \in Stacklet(o, f) : g \in Frames /\ g \in Above[f]
              /\ (g \in Roots => g = b)
              /\ (g \notin Roots => CallParent(g) \in Above[f])
              /\ (g \notin Roots /\ CallParent(g) \notin Stacklet(o, f) => CallParent(g) = o /\ (b # 0 => g = b))
<1>1. o \in Frames \cup {0} /\ (p # 0 => o # 0)
  BY CallParentIs, FramesPositive DEF BaseOf
<1>2. o \notin Stacklet(o, f)
  BY <1>1, StackletIs, AboveSelf, FramesPositive
<1>3. b # 0 => b \in Stacklet(o, f) /\ (b \in Roots \/ CallParent(b) = o)
  BY DEF FitsStack, BaseOf
<1>4. ASSUME NEW g \in Stacklet(o, f)
      PROVE  /\ g \in Frames /\ g \in Above[f] /\ (g \in Roots => g = b)
             /\ (g \notin Roots => CallParent(g) \in Above[f])
             /\ (g \notin Roots /\ CallParent(g) \notin Stacklet(o, f) => CallParent(g) = o /\ (b # 0 => g = b))
  <2>1. g \in Frames /\ g \in Above[f]
    BY <1>1, StackletIs
  <2>2. g \notin Roots => CallParent(g) \in Above[f]
    BY <2>1, AboveSelf DEF CallerClosed
  <2>3. CASE o # 0
    <3>1. o \in Frames /\ o \in Above[f]
      BY <1>1, <2>3 DEF FitsStack
    <3>2. g \notin Roots /\ (CallParent(g) \notin Stacklet(o, f) => CallParent(g) = o)
      BY <3>1, Outermost
    <3>3. ASSUME CallParent(g) = o, b # 0 PROVE g = b
      <4>1. b \in Stacklet(o, f) /\ b \in Above[f] /\ b \notin Roots
        BY <1>1, <1>3, <3>1, <3>3, Outermost, StackletIs
      <4> QED BY <1>3, <2>1, <3>2, <3>3, <4>1, AboveSiblings
    <3> QED BY <2>1, <2>2, <3>2, <3>3
  <2>4. CASE o = 0
    <3>1. Stacklet(o, f) = Above[f] /\ b \in Above[f] /\ b \in Roots
      BY <1>1, <2>4, StackletIs DEF FitsStack
    <3>2. g \in Roots => g = b
      <4>1. g \in Above[b] \/ b \in Above[g]
        BY <2>1, <3>1, AboveChain
      <4>2. Above[b] = {b} /\ (g \in Roots => Above[g] = {g})
        BY <2>1, <3>1, FramesPositive, AboveCaller
      <4> QED BY <4>1, <4>2
    <3> QED BY <2>1, <2>2, <3>1, <3>2
  <2> QED BY <2>3, <2>4
<1> QED BY <1>1, <1>2, <1>3, <1>4

\* The innermost frame returns to its caller in the same stacklet.
LEMMA StackUp ==
  ASSUME NEW o, NEW b, NEW p, NEW T, NEW f \in Frames \ Roots, NEW s,
         BaseOf(o, b, p), FitsStack(o, b, p, T, f, s), CallParent(f) \in Stacklet(o, f)
  PROVE  /\ Stacklet(o, CallParent(f)) = Stacklet(o, f) \ {f} /\ f \notin T
         /\ \A x \in Stacklet(o, f) \ Roots :
              /\ CallParent(x) # f
              /\ CallParent(x) \in Above[CallParent(f)]
              /\ x # f => x \in Above[CallParent(f)] /\ CallParent(x) # CallParent(f)
         /\ \A s2 : ShadowOf(Stacklet(o, f) \ {f}, s2) => FitsStack(o, b, p, T, CallParent(f), s2)
<1> DEFINE g == CallParent(f)
           S == Stacklet(o, f)
           R == Stacklet(o, g)
<1>1. g \in Frames /\ Above[f] = {f} \cup Above[g] /\ f \notin Above[g] /\ g \in Above[g]
  BY CallParentIs, AboveCaller, AboveSelf
<1>2. /\ o \in Frames \cup {0} /\ o \notin S /\ (b # 0 => b \in S /\ (b \in Roots \/ CallParent(b) = o))
      /\ \A x \in S : x \in Frames /\ x \in Above[f]
  BY BaseIn
<1>3. f \in S /\ (o # 0 => o \in Above[f]) /\ T \cap S = {b} \ {0}
  BY DEF FitsStack
<1>4. R = S \ {f}
  BY <1>1, <1>2, StackletIs
<1>5. f # b /\ f \notin T
  BY <1>2, <1>3, FramesPositive
<1>6. \A x \in S \ Roots : /\ CallParent(x) # f /\ CallParent(x) \in Above[g]
                           /\ x # f => x \in Above[g] /\ CallParent(x) # g
  <2> SUFFICES ASSUME NEW x \in S \ Roots
               PROVE /\ CallParent(x) # f /\ CallParent(x) \in Above[g]
                     /\ x # f => x \in Above[g] /\ CallParent(x) # g
    OBVIOUS
  <2>1. x \in Frames \ Roots /\ x \in Above[f]
    BY <1>2
  <2>2. CallParent(x) \in Above[f] /\ CallParent(x) \in Above[CallParent(x)] /\ x \notin Above[CallParent(x)] /\ CallParent(x) \in Frames
    BY <2>1, AboveSelf, AboveCaller, CallParentIs DEF CallerClosed
  <2>3. CallParent(x) # f
    BY <2>1, <2>2
  <2>4. x # f => CallParent(x) # g
    BY <1>1, <2>1, <2>2
  <2> QED BY <1>1, <2>1, <2>2, <2>3, <2>4
<1>7. ASSUME NEW s2, ShadowOf(S \ {f}, s2) PROVE FitsStack(o, b, p, T, g, s2)
  <2>1. g \in R /\ (o # 0 => o \in Above[g]) /\ (o = 0 => b \in R /\ b \in Roots) /\ T \cap R = {b} \ {0}
    BY <1>1, <1>2, <1>3, <1>4, <1>5 DEF FitsStack
  <2>2. \A x \in R \ Roots : CallParent(x) \in R <=> CallParent(x) \in S
    BY <1>4, <1>6
  <2>3. \A x \in R \ Roots : CallParent(x) \notin R => (Detached(x) <=> p # 0)
    BY <1>4, <2>2 DEF FitsStack
  <2> QED BY <1>4, <1>7, <2>1, <2>3 DEF FitsStack
<1> QED BY <1>4, <1>5, <1>6, <1>7

\* LeaveCalled: a called frame that was not stolen returns to its caller.
LEMMA StackReturn ==
  ASSUME NEW o, NEW b, NEW p, NEW T, NEW f \in Frames \ Roots, NEW s,
         BaseOf(o, b, p), FitsStack(o, b, p, T, f, s), ~Detached(f), f \notin T
  PROVE  /\ Stacklet(o, CallParent(f)) \subseteq Stacklet(o, f)
         /\ FitsStack(o, b, p, T, CallParent(f), s)
<1> DEFINE S == Stacklet(o, f)
<1>1. f \in S /\ T \cap S = {b} \ {0} /\ (CallParent(f) \notin S => p = 0) /\ ShadowOf(S, s)
  BY DEF FitsStack
<1>2. CallParent(f) \in S
  <2> SUFFICES ASSUME CallParent(f) \notin S PROVE FALSE
    OBVIOUS
  <2>1. p = 0 /\ b # 0
    BY <1>1, FramesPositive DEF BaseOf
  <2>2. f = b
    BY <1>1, <2>1, BaseIn
  <2> QED BY <1>1, <2>1, <2>2
<1>3. ShadowOf(S \ {f}, s)
  <2>1. \A x \in S \ Roots : CallParent(x) # f
    BY <1>2, StackUp
  <2> QED BY <1>1, <2>1 DEF ShadowOf
<1> QED BY <1>2, <1>3, StackUp

\* The frames of a shadow stack, and which is the youngest.
LEMMA StackLast ==
  ASSUME NEW o, NEW b, NEW p, NEW T, NEW f \in Frames \ Roots, NEW s \in Seq(Frames),
         BaseOf(o, b, p), FitsStack(o, b, p, T, f, s), CallParent(f) \in Stacklet(o, f), Detached(f)
  PROVE  s # <<>> /\ s[Len(s)] = CallParent(f)
<1> DEFINE S == Stacklet(o, f)
           n == Len(s)
<1>1. n \in Nat /\ DOMAIN s = 1 .. n /\ (n # 0 <=> s # <<>>)
  OBVIOUS
<1>2. f \in S /\ ShadowOf(S, s)
  BY DEF FitsStack
<1>3. PICK i \in 1 .. n : s[i] = CallParent(f)
  BY <1>1, <1>2 DEF ShadowOf
<1>4. n \in 1 .. n
  BY <1>1, <1>3
<1>5. PICK x \in S \ Roots : s[n] = CallParent(x)
  BY <1>1, <1>2, <1>4 DEF ShadowOf
<1> HIDE DEF n, S
<1>6. s[n] \in Above[s[i]] /\ s[i] \in Frames
  <2>1. CallParent(x) \in Above[CallParent(f)]
    BY <1>5, StackUp DEF S
  <2> QED BY <1>3, <1>5, <2>1, CallParentIs
<1>7. ASSUME i # n PROVE FALSE
  <2>1. i < n
    BY <1>3, <1>4, <1>7
  <2>2. s[i] # s[n] /\ s[i] \in Above[s[n]]
    BY <1>1, <1>2, <1>3, <1>4, <2>1 DEF ShadowOf
  <2>3. s[n] \in Frames
    BY <1>6, AboveSelf
  <2> QED BY <1>6, <2>2, <2>3, AboveProper
<1>8. i = n
  BY <1>7
<1> QED BY <1>1, <1>3, <1>4, <1>8 DEF n

\* LeavePop: a detached frame returns to its caller, which was not stolen.
LEMMA StackPop ==
  ASSUME NEW o, NEW b, NEW p, NEW T, NEW f \in Frames \ Roots, NEW s \in Seq(Frames),
         BaseOf(o, b, p), FitsStack(o, b, p, T, f, s), Detached(f), s # <<>>
  PROVE  /\ Stacklet(o, CallParent(f)) \subseteq Stacklet(o, f)
         /\ FitsStack(o, b, p, T, CallParent(f), Front(s))
<1> DEFINE S == Stacklet(o, f)
           n == Len(s)
           s2 == Front(s)
<1>1. n \in Nat \ {0} /\ DOMAIN s = 1 .. n
  OBVIOUS
<1>2. f \in S /\ ShadowOf(S, s) /\ T \cap S = {b} \ {0}
  BY DEF FitsStack
<1>3. CallParent(f) \in S
  <2>1. PICK g \in S \ Roots : CallParent(g) \in S
    BY <1>1, <1>2 DEF ShadowOf
  <2> SUFFICES ASSUME CallParent(f) \notin S PROVE FALSE
    OBVIOUS
  <2>2. CallParent(f) = o /\ o \in Frames \cup {0} /\ o # 0
    BY <1>2, BaseIn, CallParentIs, FramesPositive
  <2>3. S = Above[f] \ Above[o] /\ Above[f] = {f} \cup Above[o]
    BY <2>2, StackletIs, AboveCaller
  <2>4. g = f
    BY <2>1, <2>3
  <2> QED BY <2>1, <2>4
<1>4. s[n] = CallParent(f)
  BY <1>3, StackLast
<1>5. DOMAIN s2 = 1 .. n - 1 /\ \A i \in 1 .. n - 1 : s2[i] = s[i]
  BY <1>1 DEF Front
<1> HIDE DEF s2, n
<1>6. \A x \in S \ Roots : x # f => CallParent(x) # CallParent(f)
  BY ZenonT(40), <1>3, StackUp
<1>7. \A x \in S \ Roots : CallParent(x) # f
  BY ZenonT(40), <1>3, StackUp
<1>8. ShadowOf(S \ {f}, s2)
  <2>1. ASSUME NEW i \in DOMAIN s2
        PROVE \E g \in (S \ {f}) \ Roots : Detached(g) /\ CallParent(g) \in S \ {f} /\ s2[i] = CallParent(g)
    <3>1. i \in 1 .. n /\ i < n /\ n \in 1 .. n /\ s2[i] = s[i]
      BY <1>1, <1>5
    <3>2. PICK g \in S \ Roots : Detached(g) /\ CallParent(g) \in S /\ s[i] = CallParent(g)
      BY <1>1, <1>2, <3>1 DEF ShadowOf
    <3>3. s[i] # s[n]
      BY <1>1, <1>2, <3>1 DEF ShadowOf
    <3> QED BY <1>4, <1>7, <3>1, <3>2, <3>3
  <2>2. ASSUME NEW g \in (S \ {f}) \ Roots, Detached(g), CallParent(g) \in S
        PROVE \E i \in DOMAIN s2 : s2[i] = CallParent(g)
    <3>1. PICK i \in 1 .. n : s[i] = CallParent(g)
      BY <1>1, <1>2, <2>2 DEF ShadowOf
    <3>2. i # n
      BY <1>4, <1>6, <2>2, <3>1
    <3> QED BY <1>1, <1>5, <3>1, <3>2
  <2>3. ASSUME NEW i \in DOMAIN s2, NEW j \in DOMAIN s2, i < j PROVE s2[i] # s2[j] /\ s2[i] \in Above[s2[j]]
    <3>1. i \in 1 .. n /\ j \in 1 .. n /\ s2[i] = s[i] /\ s2[j] = s[j]
      BY <1>1, <1>5
    <3> QED BY <1>1, <1>2, <2>3, <3>1 DEF ShadowOf
  <2> QED BY <2>1, <2>2, <2>3 DEF ShadowOf
<1>9. /\ Stacklet(o, CallParent(f)) = S \ {f}
      /\ \A s3 : ShadowOf(S \ {f}, s3) => FitsStack(o, b, p, T, CallParent(f), s3)
  BY <1>3, StackUp
<1>10. FitsStack(o, b, p, T, CallParent(f), s2)
  BY <1>8, <1>9
<1> QED BY <1>9, <1>10 DEF s2

\* The innermost frame is the closure's outermost: LeaveStolen and SetReturn.
LEMMA StackBottom ==
  ASSUME NEW o, NEW b, NEW p, NEW T, NEW f \in Frames \ Roots, NEW s \in Seq(Frames),
         BaseOf(o, b, p), FitsStack(o, b, p, T, f, s)
  PROVE  /\ Detached(f) /\ s = <<>> => p # 0 /\ CallParent(f) = o /\ (b # 0 => b = f)
         /\ ~Detached(f) /\ f \in T => p = 0 /\ b = f /\ s = <<>>
<1> DEFINE S == Stacklet(o, f)
<1>1. f \in S /\ ShadowOf(S, s) /\ T \cap S = {b} \ {0} /\ (CallParent(f) \notin S => (Detached(f) <=> p # 0))
  BY DEF FitsStack
<1>2. ASSUME Detached(f), s = <<>> PROVE p # 0 /\ CallParent(f) = o /\ (b # 0 => b = f)
  <2>1. CallParent(f) \notin S
    BY <1>1, <1>2 DEF ShadowOf
  <2> QED BY <1>1, <1>2, <2>1, BaseIn
<1>3. ASSUME ~Detached(f), f \in T PROVE p = 0 /\ b = f /\ s = <<>>
  <2>1. b = f /\ b # 0
    BY <1>1, <1>3
  <2>2. p = 0 /\ o = CallParent(f)
    BY <1>3, <2>1 DEF BaseOf
  <2>3. o # 0 /\ S = Above[f] \ Above[o] /\ Above[f] = {f} \cup Above[o]
    BY <2>2, StackletIs, AboveCaller, CallParentIs, FramesPositive
  <2>4. \A x \in S \ Roots : CallParent(x) \notin S
    BY <2>2, <2>3, AboveSelf, CallParentIs
  <2>5. DOMAIN s = {}
    BY <1>1, <2>4 DEF ShadowOf
  <2> QED BY <2>1, <2>2, <2>5
<1> QED BY <1>2, <1>3

\* Frame h is the oldest on shadow stack s, which a thief takes.
HeadOf(o, b, f, s, h) ==
  /\ h \in Frames /\ h \in Stacklet(o, f) /\ h # f /\ h \in Above[f] /\ 1 \in DOMAIN s /\ s[1] = h
  /\ \E g \in Above[f] \ Roots : Detached(g) /\ CallParent(g) = h
  /\ \A i \in DOMAIN s : h \in Above[s[i]] /\ (i # 1 => h # s[i])
  /\ b # 0 => b \in Above[h]
  /\ Above[h] \in CallerClosed

\* The oldest stealable frame of a stack lies above all others.
LEMMA StackHead ==
  ASSUME NEW o, NEW b, NEW p, NEW T, NEW f \in Frames, NEW s \in Seq(Frames),
         BaseOf(o, b, p), FitsStack(o, b, p, T, f, s), s # <<>>, NEW h, h = Head(s)
  PROVE  HeadOf(o, b, f, s, h)
<1> DEFINE S == Stacklet(o, f)
<1>1. h = s[1] /\ 1 \in DOMAIN s /\ h \in Frames /\ DOMAIN s = 1 .. Len(s) /\ Len(s) \in Nat
  OBVIOUS
<1>2. ShadowOf(S, s)
  BY DEF FitsStack
<1>3. PICK g \in S \ Roots : Detached(g) /\ CallParent(g) \in S /\ h = CallParent(g)
  BY <1>1, <1>2 DEF ShadowOf
<1>4. /\ o \in Frames \cup {0} /\ (b # 0 => b \in S /\ (b \in Roots \/ CallParent(b) = o))
      /\ \A x \in S : x \in Frames /\ x \in Above[f]
  BY BaseIn
<1>5. h \in Above[f] /\ h \in S /\ g \in Above[f] /\ g \in Frames
  BY <1>3, <1>4
<1>6. h # f
  BY <1>3, <1>5, AboveCaller, AboveProper
<1>7. Above[h] \in CallerClosed /\ h \in Above[h]
  BY <1>1, AboveSelf
<1>8. ASSUME NEW i \in DOMAIN s PROVE h \in Above[s[i]] /\ (i # 1 => h # s[i])
  <2>1. i = 1 \/ 1 < i
    BY <1>1
  <2> QED BY <1>1, <1>2, <1>7, <2>1 DEF ShadowOf
<1>9. ASSUME b # 0 PROVE b \in Above[h]
  <2>1. b \in S /\ b \in Frames /\ b \in Above[f] /\ (b \in Roots \/ CallParent(b) = o)
    BY <1>4, <1>9
  <2>2. b \in Above[h] \/ h \in Above[b]
    BY <1>5, <2>1, AboveChain
  <2>3. CASE b \in Roots
    BY <1>7, <2>2, <2>3, FramesPositive, AboveCaller
  <2>4. CASE b \notin Roots
    <3>1. o = CallParent(b) /\ o \in Frames /\ o # 0
      BY <2>1, <2>4, CallParentIs, FramesPositive
    <3>2. h \notin Above[o]
      BY <1>4, <1>5, <3>1, StackletIs
    <3> QED BY <1>7, <2>1, <2>2, <2>4, <3>1, <3>2, AboveCaller
  <2> QED BY <2>3, <2>4
<1> HIDE DEF S
<1> QED BY <1>1, <1>3, <1>5, <1>6, <1>7, <1>8, <1>9 DEF HeadOf, S

\* The victim continues in the frames below the stolen one.
Continues(o, q, T, f, s, h) ==
  /\ FitsStack(h, 0, q, T \cup {h}, f, Tail(s))
  /\ Stacklet(h, f) \subseteq Stacklet(o, f) /\ h \notin Stacklet(h, f)

\* What is left to the victim begins below the stolen frame.
LEMMA StackStolen ==
  ASSUME NEW o, NEW b, NEW p, NEW T, NEW f \in Frames, NEW s \in Seq(Frames),
         BaseOf(o, b, p), FitsStack(o, b, p, T, f, s), s # <<>>, NEW h, h = Head(s), NEW q, q # 0
  PROVE  Continues(o, q, T, f, s, h)
<1> DEFINE S == Stacklet(o, f)
           R == Stacklet(h, f)
           t == Tail(s)
<1>1. /\ h \in Frames /\ h \in S /\ h # f /\ h \in Above[f] /\ 1 \in DOMAIN s /\ s[1] = h
      /\ \E g \in Above[f] \ Roots : Detached(g) /\ CallParent(g) = h
      /\ \A i \in DOMAIN s : h \in Above[s[i]] /\ (i # 1 => h # s[i])
      /\ b # 0 => b \in Above[h]
      /\ Above[h] \in CallerClosed
  <2>1. HeadOf(o, b, f, s, h)
    BY StackHead
  <2> QED BY <2>1 DEF HeadOf
<1>2. R = Above[f] \ Above[h] /\ h # 0 /\ h \in Above[h]
  BY <1>1, StackletIs, FramesPositive, AboveSelf
<1>3. f \in R /\ h \notin R
  BY <1>1, <1>2, AboveSelf, AboveProper
<1>4. o \in Frames \cup {0} /\ (o # 0 => o \in Above[f] /\ S = Above[f] \ Above[o]) /\ (o = 0 => S = Above[f])
  BY BaseIn, StackletIs DEF FitsStack
<1>5. R \subseteq S
  <2>1. o # 0 => o \in Above[h]
    BY <1>1, <1>4, Outermost
  <2>2. o # 0 => Above[o] \subseteq Above[h]
    BY <1>1, <1>4, <2>1, AboveTransitive
  <2> QED BY <1>2, <1>4, <2>2
<1>6. (T \cup {h}) \cap R = {0} \ {0}
  <2>1. T \cap S = {b} \ {0}
    BY DEF FitsStack
  <2> QED BY <1>1, <1>2, <1>3, <1>5, <2>1
<1>7. ASSUME NEW g \in R \ Roots, CallParent(g) \notin R PROVE Detached(g)
  <2>1. CallParent(g) = h
    BY <1>1, <1>7, Outermost
  <2> QED BY <1>1, <1>2, <2>1, AboveSiblings
<1>8. ShadowOf(S, s)
  BY DEF FitsStack
<1>9. DOMAIN s = 1 .. Len(s) /\ Len(s) \in Nat \ {0} /\ DOMAIN t = 1 .. Len(s) - 1 /\ \A i \in DOMAIN t : t[i] = s[i + 1] /\ i + 1 \in DOMAIN s
  BY <1>1
<1> HIDE DEF t, S, R
<1>10. ASSUME NEW i \in DOMAIN t
       PROVE  \E g \in R \ Roots : Detached(g) /\ CallParent(g) \in R /\ t[i] = CallParent(g)
  <2>1. i + 1 \in DOMAIN s /\ i + 1 # 1 /\ t[i] = s[i + 1]
    BY <1>9
  <2>2. PICK g \in S \ Roots : Detached(g) /\ CallParent(g) \in S /\ s[i + 1] = CallParent(g)
    BY <1>8, <2>1 DEF ShadowOf
  <2>3. h \in Above[CallParent(g)] /\ h # CallParent(g)
    BY <1>1, <2>1, <2>2
  <2>4. g \in Above[f] /\ CallParent(g) \in Above[f] /\ CallParent(g) \in Frames
    BY <1>4, <2>2, AboveSelf
  <2>5. CallParent(g) \notin Above[h]
    BY <2>3, <2>4, AboveProper
  <2>6. g \notin Above[h]
    BY <1>1, <2>2, <2>5 DEF CallerClosed
  <2> QED BY <1>2, <2>1, <2>2, <2>4, <2>5, <2>6
<1>11. ASSUME NEW g \in R \ Roots, Detached(g), CallParent(g) \in R
       PROVE  \E i \in DOMAIN t : t[i] = CallParent(g)
  <2>1. PICK i \in DOMAIN s : s[i] = CallParent(g)
    BY <1>5, <1>8, <1>11 DEF ShadowOf
  <2>2. i # 1
    BY <1>1, <1>3, <1>11, <2>1
  <2>3. i - 1 \in DOMAIN t /\ (i - 1) + 1 = i
    BY <1>9, <2>2
  <2> QED BY <1>9, <2>1, <2>3
<1>12. ASSUME NEW i \in DOMAIN t, NEW j \in DOMAIN t, i < j PROVE t[i] # t[j] /\ t[i] \in Above[t[j]]
  <2>1. i + 1 \in DOMAIN s /\ j + 1 \in DOMAIN s /\ i + 1 < j + 1 /\ t[i] = s[i + 1] /\ t[j] = s[j + 1]
    BY <1>9, <1>12
  <2> QED BY <1>8, <2>1 DEF ShadowOf
<1>13. ShadowOf(R, t)
  BY <1>10, <1>11, <1>12 DEF ShadowOf
<1>14. FitsStack(h, 0, q, T \cup {h}, f, t)
  BY <1>1, <1>2, <1>3, <1>6, <1>7, <1>13 DEF FitsStack, R
<1> QED BY <1>3, <1>5, <1>14 DEF t, S, R, Continues

\* StealFull: the stolen frame is or becomes the victim's closure's own.
LEMMA StackFull ==
  ASSUME NEW o, NEW b, NEW p, NEW T, NEW f \in Frames, NEW s \in Seq(Frames),
         BaseOf(o, b, p), FitsStack(o, b, p, T, f, s), s # <<>>, NEW h, h = Head(s), h = b \/ Detached(h)
  PROVE  BaseOf(o, h, p) /\ (b = 0 \/ b = h)
<1> DEFINE S == Stacklet(o, f)
<1>1. /\ h \in Frames /\ h \in S /\ h # f /\ h \in Above[f] /\ 1 \in DOMAIN s /\ s[1] = h
      /\ \A i \in DOMAIN s : h \in Above[s[i]] /\ (i # 1 => h # s[i])
  <2>1. HeadOf(o, b, f, s, h)
    BY StackHead
  <2> QED BY <2>1 DEF HeadOf
<1>2. CASE h = b
  BY <1>2
<1>3. CASE h # b
  <2>1. Detached(h) /\ h \in Frames \ Roots
    BY <1>3, DetachedBelow
  <2>2. h \notin Above[CallParent(h)]
    BY <2>1, AboveCaller
  <2>3. ShadowOf(S, s) /\ (CallParent(h) \notin S => p # 0)
    BY <1>1, <2>1 DEF FitsStack
  <2>4. CallParent(h) \notin S
    BY <1>1, <2>1, <2>2, <2>3 DEF ShadowOf
  <2>5. CallParent(h) = o /\ (b # 0 => h = b) /\ p # 0
    BY <1>1, <2>1, <2>3, <2>4, BaseIn
  <2>6. o \in Frames
    BY <2>1, <2>5, CallParentIs
  <2> QED BY <1>3, <2>1, <2>5, <2>6 DEF BaseOf
<1> QED BY <1>2, <1>3

\* Stolen frame h leaves the frames above it to the closure of the stacklet.
Splits(o, b, p, T, f, h) ==
  /\ h \in Frames \ Roots /\ h \notin T /\ h \in Stacklet(o, f)
  /\ FitsStack(o, b, p, T \cup {h}, CallParent(h), <<>>)
  /\ Stacklet(o, CallParent(h)) \subseteq Stacklet(o, f)
  /\ Stacklet(o, CallParent(h)) \cap Stacklet(h, f) = {}

\* StealStacklet: what is left of the victim's stacklet above the stolen frame.
LEMMA StackSplit ==
  ASSUME NEW o, NEW b, NEW p, NEW T, NEW f \in Frames, NEW s \in Seq(Frames),
         BaseOf(o, b, p), FitsStack(o, b, p, T, f, s), s # <<>>, NEW h, h = Head(s), h # b, ~Detached(h)
  PROVE  Splits(o, b, p, T, f, h)
<1> DEFINE S == Stacklet(o, f)
           c == CallParent(h)
           U == Stacklet(o, c)
<1>1. /\ h \in Frames /\ h \in S /\ h # f /\ h \in Above[f] /\ 1 \in DOMAIN s /\ s[1] = h
      /\ \A i \in DOMAIN s : h \in Above[s[i]] /\ (i # 1 => h # s[i])
      /\ b # 0 => b \in Above[h]
      /\ Above[h] \in CallerClosed
  <2>1. HeadOf(o, b, f, s, h)
    BY StackHead
  <2> QED BY <2>1 DEF HeadOf
<1>2. T \cap S = {b} \ {0} /\ ShadowOf(S, s) /\ (o = 0 => b \in S /\ b \in Roots) /\ (o # 0 => o \in Above[f])
      /\ \A g \in S \ Roots : CallParent(g) \notin S => (Detached(g) <=> p # 0)
  BY DEF FitsStack
<1>3. /\ o \in Frames \cup {0} /\ (b # 0 => b \in S)
      /\ (h \in Roots => h = b)
      /\ (h \notin Roots /\ c \notin S => c = o /\ (b # 0 => h = b))
  BY <1>1, BaseIn
<1>4. h \notin Roots /\ h \notin T
  BY <1>1, <1>2, <1>3
<1>5. c \in S
  <2> SUFFICES ASSUME c \notin S PROVE FALSE
    OBVIOUS
  <2>1. p = 0
    BY <1>1, <1>2, <1>4
  <2>2. b # 0
    BY <2>1, FramesPositive DEF BaseOf
  <2> QED BY <1>3, <1>4, <2>2
<1>6. c \in Frames /\ Above[h] = {h} \cup Above[c] /\ h \notin Above[c] /\ c \in Above[c] /\ Above[c] \in CallerClosed
  BY <1>1, <1>4, AboveCaller, AboveSelf, CallParentIs
<1>7. /\ (o # 0 => S = Above[f] \ Above[o] /\ U = Above[c] \ Above[o])
      /\ (o = 0 => S = Above[f] /\ U = Above[c])
  BY <1>3, <1>6, StackletIs
<1>8. Above[c] \subseteq Above[f]
  BY <1>1, <1>6, AboveTransitive
<1>9. U \subseteq S /\ h \notin U /\ c \in U /\ U = S \cap Above[c]
  BY <1>5, <1>6, <1>7, <1>8
<1>10. o # 0 => o \in Above[c]
  BY <1>1, <1>2, <1>3, <1>4, Outermost
<1>11. b # 0 => b \in U
  BY <1>1, <1>3, <1>6, <1>9
<1>12. (o = 0 => b \in U /\ b \in Roots) /\ (T \cup {h}) \cap U = {b} \ {0}
  BY <1>2, <1>9, <1>11, FramesPositive
<1>13. \A g \in U \ Roots : CallParent(g) \notin U => (Detached(g) <=> p # 0)
  BY <1>2, <1>6, <1>9 DEF CallerClosed
<1>14. ShadowOf(U, <<>>)
  <2>1. ASSUME NEW g \in U \ Roots, Detached(g), CallParent(g) \in U PROVE FALSE
    <3>1. PICK i \in DOMAIN s : s[i] = CallParent(g)
      BY <1>2, <1>9, <2>1 DEF ShadowOf
    <3>2. h \in Above[s[i]] /\ s[i] \in Above[c]
      BY <1>1, <1>9, <2>1, <3>1
    <3> QED BY <1>6, <3>2, AboveTransitive
  <2>2. DOMAIN <<>> = {}
    OBVIOUS
  <2> QED BY <2>1, <2>2 DEF ShadowOf
<1>15. FitsStack(o, b, p, T \cup {h}, c, <<>>)
  BY <1>9, <1>10, <1>12, <1>13, <1>14 DEF FitsStack
<1>16. U \cap Stacklet(h, f) = {}
  <2>1. Stacklet(h, f) = Above[f] \ Above[h]
    BY <1>1, StackletIs, FramesPositive
  <2> QED BY <1>6, <1>9, <2>1
<1> QED BY <1>1, <1>4, <1>9, <1>15, <1>16 DEF Splits

\* Frames B and frame top are the stacklet from o to the caller of frame f.
SplitAt(o, b, p, T, f, top, B) ==
  /\ top \in Frames /\ BaseOf(o, top, p) /\ (b # 0 => top = b)
  /\ B \cup {top} = Stacklet(o, CallParent(f)) /\ top \notin B /\ f \notin B /\ f # top
  /\ B \subseteq Frames \ Roots
  /\ \A g \in B \cup {f} : ~Detached(g) /\ CallParent(g) \in B \cup {top}
  /\ \A g \in B \cup {top} : \E h \in B \cup {f} : CallParent(h) = g
  /\ \A g, h \in B \cup {f} : CallParent(g) = CallParent(h) => g = h
  /\ T \cap (B \cup {top}) = {b} \ {0}

\* The oldest frame of what is left of the victim's stacklet.
LEMMA HelperIs ==
  ASSUME NEW o, NEW p, NEW T, NEW f \in Frames \ Roots, ~Detached(f),
         BaseOf(o, 0, p), FitsStack(o, 0, p, T, CallParent(f), <<>>)
  PROVE  LET top == Helper(f) IN
         top \in Stacklet(o, CallParent(f)) /\ CallParent(top) = o /\ top \in Frames \ Roots /\ BaseOf(o, top, p)
<1> DEFINE c == CallParent(f)
           U == Stacklet(o, c)
           top == Helper(f)
<1>1. c \in U /\ (o # 0 => o \in Above[c]) /\ (o = 0 => 0 \in Roots)
      /\ \A g \in U \ Roots : CallParent(g) \notin U => (Detached(g) <=> p # 0)
  BY DEF FitsStack
<1>2. ShadowOf(U, <<>>)
  BY DEF FitsStack
<1>3. \A g \in U \ Roots : Detached(g) => CallParent(g) \notin U
  <2>1. DOMAIN <<>> = {}
    OBVIOUS
  <2> QED BY <1>2, <2>1 DEF ShadowOf
<1>4. p # 0 /\ o \in Frames /\ o \in Above[c] /\ c \in Frames /\ o # 0
  BY <1>1, FramesPositive, CallParentIs DEF BaseOf
<1>5. U = Above[c] \ Above[o] /\ o \in Above[o] /\ U \subseteq Frames
  BY <1>4, StackletIs, AboveSelf
<1>6. PICK h \in Above[c] \ Roots : CallParent(h) = o
  BY <1>1, <1>4, <1>5, AboveChild
<1>7. h \in Frames \ Roots /\ h \in U
  BY <1>4, <1>5, <1>6, AboveSelf, AboveCaller
<1>8. Detached(h)
  BY <1>1, <1>4, <1>5, <1>6, <1>7
<1>9. ASSUME NEW g \in Above[f], Detached(g) PROVE g \in Above[h]
  <2>1. g # f /\ g \in Frames \ Roots
    BY <1>9, DetachedBelow
  <2>2. g \in Above[c]
    BY <2>1, AboveCaller
  <2>3. Above[o] \subseteq Above[h] /\ h \in Above[h]
    BY <1>6, <1>7, AboveCaller
  <2>4. CASE g \in Above[o]
    BY <2>3, <2>4
  <2>5. CASE g \in U
    <3>1. CallParent(g) \notin U
      BY <1>3, <1>9, <2>1, <2>5
    <3>2. CallParent(g) = o
      BY <1>4, <2>5, <3>1, Outermost
    <3>3. g = h
      BY <1>4, <1>6, <2>1, <2>2, <3>2, AboveSiblings
    <3> QED BY <2>3, <3>3
  <2> QED BY <1>5, <2>2, <2>4, <2>5
<1>10. h \in Above[f]
  BY <1>6, AboveCaller
<1>11. Detached(top) /\ top \in Above[f] /\ h \in Above[top]
  BY <1>8, <1>9, <1>10 DEF Helper
<1>12. top = h
  BY <1>7, <1>9, <1>11, AboveProper
<1>13. BaseOf(o, h, p)
  BY <1>4, <1>6, <1>7, <1>8 DEF BaseOf
<1> HIDE DEF top
<1> QED BY <1>6, <1>7, <1>12, <1>13 DEF top

\* PromoteStacklet promotes every frame of what is left of the stacklet.
LEMMA StackPromote ==
  ASSUME NEW o, NEW b, NEW p, NEW T, NEW f \in Frames \ Roots, ~Detached(f),
         BaseOf(o, b, p), FitsStack(o, b, p, T, CallParent(f), <<>>),
         NEW top, top = IF b = 0 THEN Helper(f) ELSE b,
         NEW B, B = {g \in Above[f] : top \in Above[g]} \ {f, top}
  PROVE  SplitAt(o, b, p, T, f, top, B)
<1> DEFINE c == CallParent(f)
           U == Stacklet(o, c)
<1>1. c \in U /\ T \cap U = {b} \ {0}
  BY DEF FitsStack
<1>2. ShadowOf(U, <<>>)
  BY DEF FitsStack
<1>3. \A g \in U \ Roots : Detached(g) => CallParent(g) \notin U
  <2>1. DOMAIN <<>> = {}
    OBVIOUS
  <2> QED BY <1>2, <2>1 DEF ShadowOf
<1>4. c \in Frames /\ Above[f] = {f} \cup Above[c] /\ f \notin Above[c] /\ c \in Above[c] /\ Above[c] \in CallerClosed
  BY AboveCaller, CallParentIs, AboveSelf
<1>5. /\ o \in Frames \cup {0}
      /\ (b # 0 => b \in U /\ (b \in Roots \/ CallParent(b) = o))
      /\ \A g \in U : g \in Frames /\ g \in Above[c]
  BY ZenonT(40), <1>4, BaseIn
<1>6. top \in U /\ (top \in Roots \/ CallParent(top) = o) /\ BaseOf(o, top, p) /\ top \in Frames /\ (b # 0 => top = b)
  <2>1. CASE b = 0
    BY <2>1, HelperIs
  <2>2. CASE b # 0
    BY <1>5, <2>2
  <2> QED BY <2>1, <2>2
<1>7. top \in Above[c] /\ (o # 0 => U = Above[c] \ Above[o]) /\ (o = 0 => U = Above[c])
  BY <1>4, <1>5, <1>6, StackletIs
<1>8. ASSUME NEW g \in U PROVE g \in Above[c] /\ top \in Above[g]
  <2>1. g \in Above[c] /\ g \in Frames
    BY <1>5
  <2>2. top \in Above[g] \/ g \in Above[top]
    BY <1>4, <1>7, <2>1, AboveChain
  <2>3. ASSUME g \in Above[top], g # top PROVE FALSE
    <3>1. top \notin Roots /\ g \in Above[CallParent(top)]
      BY <1>6, <2>3, AboveProper
    <3>2. CallParent(top) = o /\ o # 0
      BY <1>6, <3>1, CallParentIs, FramesPositive
    <3> QED BY <1>7, <3>1, <3>2
  <2>4. top \in Above[top]
    BY <1>6, AboveSelf
  <2> QED BY <2>1, <2>2, <2>3, <2>4
<1>9. ASSUME NEW g \in Above[c], top \in Above[g] PROVE g \in U
  <2>1. ASSUME o # 0, g \in Above[o] PROVE FALSE
    <3>1. top \in Above[o]
      BY <1>5, <1>9, <2>1, AboveTransitive
    <3> QED BY <1>6, <1>7, <2>1, <3>1
  <2> QED BY <1>7, <2>1
<1>10. f # top
  BY <1>4, <1>7
<1>11. B \cup {top} = U /\ top \notin B /\ f \notin B
  BY <1>4, <1>6, <1>8, <1>9
<1>12. ASSUME NEW g \in B
       PROVE g \in Frames \ Roots /\ ~Detached(g) /\ CallParent(g) \in U
  <2>1. g \in Frames /\ g \in U /\ g \in Above[c] /\ top \in Above[g] /\ g # top
    BY <1>5, <1>8, <1>11
  <2>2. g \notin Roots /\ top \in Above[CallParent(g)]
    BY <2>1, AboveProper
  <2>3. CallParent(g) \in Above[c]
    BY <1>4, <2>1, <2>2 DEF CallerClosed
  <2>4. CallParent(g) \in U
    BY <1>9, <2>2, <2>3
  <2> QED BY <1>3, <2>1, <2>2, <2>4
<1>13. ASSUME NEW g \in U PROVE \E h \in B \cup {f} : CallParent(h) = g
  <2>1. CASE g = c
    BY <2>1
  <2>2. CASE g # c
    <3>1. g \in Above[c] /\ top \in Above[g] /\ g \in Frames
      BY <1>5, <1>8
    <3>2. PICK h \in Above[c] \ Roots : CallParent(h) = g
      BY <1>4, <2>2, <3>1, AboveChild
    <3>3. h \in Frames \ Roots
      BY <1>4, <3>2, AboveSelf
    <3>4. Above[h] = {h} \cup Above[g] /\ h \notin Above[g]
      BY <3>2, <3>3, AboveCaller
    <3>5. h \in U /\ h # top
      BY <1>9, <3>1, <3>2, <3>4
    <3> QED BY <1>11, <3>2, <3>5
  <2> QED BY <2>1, <2>2
<1>14. \A g \in B \cup {f} : g \in Above[f] \ Roots
  BY <1>4, <1>12, <1>5, <1>11
<1>15. \A g, h \in B \cup {f} : CallParent(g) = CallParent(h) => g = h
  BY <1>14, AboveSiblings
<1>16. \A g \in B \cup {f} : ~Detached(g) /\ CallParent(g) \in B \cup {top}
  BY <1>1, <1>11, <1>12
<1>17. B \subseteq Frames \ Roots
  BY <1>12
<1>18. T \cap (B \cup {top}) = {b} \ {0}
  BY <1>1, <1>11
<1> QED BY <1>6, <1>10, <1>11, <1>13, <1>15, <1>16, <1>17, <1>18 DEF SplitAt

-----------------------------------------------------------------------------
(* The closure tree *)

\* Closure c is free in tree C.
Dead(C, c) == C[c].status = "FREE"

\* Closure c has the same place in trees C and D.
SamePlace(C, D, c) ==
  /\ D[c].spawn_parent = C[c].spawn_parent /\ D[c].left_sib = C[c].left_sib /\ D[c].right_sib = C[c].right_sib

\* Closure c has the same children in trees C and D.
SameList(C, D, c) ==
  /\ D[c].join_counter = C[c].join_counter /\ D[c].right_most_child = C[c].right_most_child

\* Tree D is C and some new closures without parent and children.
Extends(C, D) ==
  /\ \A c \in Closures : ~Dead(C, c) => ~Dead(D, c) /\ SamePlace(C, D, c) /\ SameList(C, D, c)
  /\ \A c \in Closures : Dead(C, c) /\ ~Dead(D, c) =>
       /\ D[c].spawn_parent = 0 /\ D[c].join_counter = 0 /\ D[c].right_most_child = 0
       /\ \A k \in Closures : ~Dead(C, k) => C[k].spawn_parent # c

\* New closures without parent and children leave the lists alone.
LEMMA ListsExtends ==
  ASSUME NEW C, NEW D, Lists(C), Extends(C, D)
  PROVE  Lists(D)
<1> SUFFICES ASSUME NEW p \in Closures, ~Dead(D, p)
             PROVE  \E s \in [1 .. D[p].join_counter -> Kids(D, p)] : Linked(D, p, s)
  BY DEF Lists, Dead
<1>0. p # 0
  BY SchedulerAssumption DEF Closures
<1>1. CASE Dead(C, p)
  <2>1. D[p].join_counter = 0 /\ D[p].right_most_child = 0
    BY <1>1 DEF Extends
  <2>2. Kids(D, p) = {}
    BY <1>0, <1>1 DEF Extends, SamePlace, Kids, Dead
  <2> DEFINE s == [i \in 1 .. 0 |-> p]
  <2>3. s \in [1 .. D[p].join_counter -> Kids(D, p)] /\ Linked(D, p, s)
    BY <2>1, <2>2 DEF Linked
  <2> QED BY <2>3
<1>2. CASE ~Dead(C, p)
  <2>1. PICK s \in [1 .. C[p].join_counter -> Kids(C, p)] : Linked(C, p, s)
    BY <1>2 DEF Lists, Dead
  <2>2. SameList(C, D, p)
    BY <1>2 DEF Extends
  <2>3. Kids(D, p) = Kids(C, p)
    BY <1>0 DEF Extends, SamePlace, Kids, Dead
  <2>4. \A c \in Kids(C, p) : SamePlace(C, D, c)
    BY DEF Extends, Kids, Dead
  <2>5. s \in [1 .. D[p].join_counter -> Kids(D, p)] /\ Linked(D, p, s)
    BY <2>1, <2>2, <2>3, <2>4 DEF Linked, SamePlace, SameList
  <2> QED BY <2>5
<1> QED BY <1>1, <1>2

\* Tree D is C with the new closure c as the last child of p.
Appended(C, D, p, c) ==
  /\ p \in Closures /\ c \in Closures /\ p # c /\ ~Dead(C, p) /\ Dead(C, c) /\ ~Dead(D, c)
  /\ \A k \in Closures : ~Dead(C, k) => C[k].spawn_parent # c
  /\ D[c].spawn_parent = p /\ D[c].left_sib = C[p].right_most_child /\ D[c].right_sib = 0
  /\ D[c].join_counter = 0 /\ D[c].right_most_child = 0
  /\ D[p].join_counter = C[p].join_counter + 1 /\ D[p].right_most_child = c
  /\ \A k \in Closures \ {c} : /\ Dead(D, k) <=> Dead(C, k)
                               /\ D[k].spawn_parent = C[k].spawn_parent /\ D[k].left_sib = C[k].left_sib
                               /\ D[k].right_sib = IF k = C[p].right_most_child THEN c ELSE C[k].right_sib
                               /\ k # p => SameList(C, D, k)

\* A child at the end of its parent's list.
LEMMA ListsAppended ==
  ASSUME NEW C, NEW D, NEW p, NEW c, Lists(C), Appended(C, D, p, c), C[p].join_counter \in Nat
  PROVE  Lists(D)
<1>0. 0 \notin Closures
  BY SchedulerAssumption DEF Closures
<1> SUFFICES ASSUME NEW q \in Closures, ~Dead(D, q)
             PROVE  \E s \in [1 .. D[q].join_counter -> Kids(D, q)] : Linked(D, q, s)
  BY DEF Lists, Dead
<1>1. p \in Closures /\ c \in Closures /\ p # c /\ ~Dead(C, p)
  BY DEF Appended
<1>2. PICK s \in [1 .. C[p].join_counter -> Kids(C, p)] : Linked(C, p, s)
  BY <1>1 DEF Lists, Dead
<1> DEFINE n == C[p].join_counter
<1>3. n \in Nat /\ C[p].right_most_child = IF n = 0 THEN 0 ELSE s[n]
  BY <1>2 DEF Linked
<1>4. c \notin Kids(C, p) /\ Kids(D, p) = Kids(C, p) \cup {c} /\ Kids(C, p) \subseteq Closures
  BY <1>1 DEF Appended, Kids, Dead
<1>5. CASE q = p
  <2> DEFINE t == [i \in 1 .. n + 1 |-> IF i = n + 1 THEN c ELSE s[i]]
  <2>1. D[p].join_counter = n + 1 /\ D[p].right_most_child = c
    BY DEF Appended
  <2>2. \A i \in 1 .. n : t[i] = s[i] /\ s[i] \in Kids(C, p) /\ i \in 1 .. n + 1 /\ i # n + 1
    BY <1>3
  <2>3. t[n + 1] = c /\ n + 1 \in 1 .. n + 1 /\ \A i \in 1 .. n + 1 : i = n + 1 \/ i \in 1 .. n
    BY <1>3
  <2>4. t \in [1 .. n + 1 -> Kids(D, p)]
    BY <1>4, <2>2, <2>3
  <2> HIDE DEF t
  <2>5. \A i, j \in 1 .. n + 1 : t[i] = t[j] => i = j
    BY <1>2, <1>4, <2>2, <2>3 DEF Linked
  <2>6. \A k \in Kids(D, p) : \E i \in 1 .. n + 1 : t[i] = k
    BY <1>2, <1>4, <2>2, <2>3 DEF Linked
  <2>7. ASSUME NEW i \in 1 .. n
        PROVE /\ D[t[i]].left_sib = IF i = 1 THEN 0 ELSE t[i - 1]
              /\ D[t[i]].right_sib = IF i = n + 1 THEN 0 ELSE t[i + 1]
    <3>1. /\ C[s[i]].left_sib = IF i = 1 THEN 0 ELSE s[i - 1]
          /\ C[s[i]].right_sib = IF i = n THEN 0 ELSE s[i + 1]
          /\ \A j \in 1 .. n : s[i] = s[j] => i = j
      BY <1>2 DEF Linked
    <3>2. s[i] \in Closures \ {c} /\ t[i] = s[i] /\ n \in 1 .. n
      BY <1>3, <1>4, <2>2
    <3>3. D[s[i]].left_sib = C[s[i]].left_sib
      BY <3>2 DEF Appended
    <3>4. D[s[i]].right_sib = IF s[i] = C[p].right_most_child THEN c ELSE C[s[i]].right_sib
      BY <3>2 DEF Appended
    <3>5. s[i] = C[p].right_most_child <=> i = n
      BY <1>3, <3>1, <3>2
    <3>6. i # 1 => t[i - 1] = s[i - 1]
      BY <2>2, <1>3
    <3>7. i # n => t[i + 1] = s[i + 1]
      BY <2>2, <1>3
    <3>8. i = n => t[i + 1] = c
      BY <2>3
    <3>9. i # n + 1
      BY <1>3
    <3> QED BY <3>1, <3>2, <3>3, <3>4, <3>5, <3>6, <3>7, <3>8, <3>9
  <2>8. D[c].left_sib = (IF n + 1 = 1 THEN 0 ELSE t[n]) /\ D[c].right_sib = 0
    BY <1>3, <2>2 DEF Appended
  <2>9. \A i \in 1 .. n + 1 : /\ D[t[i]].left_sib = IF i = 1 THEN 0 ELSE t[i - 1]
                              /\ D[t[i]].right_sib = IF i = n + 1 THEN 0 ELSE t[i + 1]
    BY SMTT(30), <1>3, <2>3, <2>7, <2>8
  <2>10. n + 1 # 0 /\ t[n + 1] = c
    BY <1>3, <2>3
  <2>11. Linked(D, p, t)
    BY <2>1, <2>5, <2>6, <2>9, <2>10 DEF Linked
  <2> QED BY <1>5, <2>1, <2>4, <2>11
<1>6. CASE q = c
  <2>1. D[c].join_counter = 0 /\ D[c].right_most_child = 0
    BY DEF Appended
  <2>2. Kids(D, c) = {}
    BY <1>1 DEF Appended, Kids, Dead
  <2> DEFINE t == [i \in 1 .. 0 |-> p]
  <2>3. t \in [1 .. D[c].join_counter -> Kids(D, c)] /\ Linked(D, c, t)
    BY <2>1, <2>2 DEF Linked
  <2> QED BY <1>6, <2>3
<1>7. CASE q # p /\ q # c
  <2>1. ~Dead(C, q) /\ SameList(C, D, q)
    BY <1>7 DEF Appended
  <2>2. PICK t \in [1 .. C[q].join_counter -> Kids(C, q)] : Linked(C, q, t)
    BY <2>1 DEF Lists, Dead
  <2>3. Kids(D, q) = Kids(C, q)
    BY <1>7 DEF Appended, Kids, Dead
  <2>4. ASSUME NEW k \in Kids(C, q) PROVE SamePlace(C, D, k)
    <3>1. k \in Closures \ {c}
      BY DEF Appended, Kids, Dead
    <3>2. k # C[p].right_most_child
      <4> SUFFICES ASSUME k = C[p].right_most_child PROVE FALSE
        OBVIOUS
      <4>1. n # 0 /\ n \in 1 .. n /\ k = s[n]
        BY <1>0, <1>3, <3>1
      <4>2. k \in Kids(C, p)
        BY <4>1
      <4> QED BY <1>7, <4>2 DEF Kids
    <3> QED BY <3>1, <3>2 DEF Appended, SamePlace
  <2>5. t \in [1 .. D[q].join_counter -> Kids(D, q)] /\ Linked(D, q, t)
    BY SMTT(30), <2>1, <2>2, <2>3, <2>4 DEF Linked, SamePlace, SameList
  <2> QED BY <2>5
<1> QED BY <1>5, <1>6, <1>7

\* Tree D is C without closure c, a child of p without children.
Unchained(C, D, p, c) ==
  /\ p \in Closures /\ c \in Closures /\ p # c /\ ~Dead(C, p) /\ ~Dead(C, c) /\ Dead(D, c)
  /\ C[c].spawn_parent = p
  /\ D[p].join_counter = C[p].join_counter - 1
  /\ D[p].right_most_child = IF C[p].right_most_child = c THEN C[c].left_sib ELSE C[p].right_most_child
  /\ \A k \in Closures \ {c} : /\ Dead(D, k) <=> Dead(C, k)
                               /\ D[k].spawn_parent = C[k].spawn_parent
                               /\ D[k].left_sib = IF k = C[c].right_sib THEN C[c].left_sib ELSE C[k].left_sib
                               /\ D[k].right_sib = IF k = C[c].left_sib THEN C[c].right_sib ELSE C[k].right_sib
                               /\ k # p => SameList(C, D, k)

\* A child unlinked from anywhere in its parent's list.
LEMMA ListsRemoved ==
  ASSUME NEW C, NEW D, NEW p, NEW c, Lists(C), Unchained(C, D, p, c), C[p].join_counter \in Nat
  PROVE  Lists(D) /\ C[p].join_counter # 0
<1>0. 0 \notin Closures
  BY SchedulerAssumption DEF Closures
<1>1. p \in Closures /\ c \in Closures /\ p # c /\ ~Dead(C, p) /\ c \in Kids(C, p)
  BY DEF Unchained, Kids, Dead
<1>2. PICK s \in [1 .. C[p].join_counter -> Kids(C, p)] : Linked(C, p, s)
  BY <1>1 DEF Lists, Dead
<1> DEFINE n == C[p].join_counter
<1>3. n \in Nat /\ C[p].right_most_child = IF n = 0 THEN 0 ELSE s[n]
  BY <1>2 DEF Linked
<1>4. PICK m \in 1 .. n : s[m] = c
  BY <1>1, <1>2 DEF Linked
<1>5. /\ C[c].left_sib = IF m = 1 THEN 0 ELSE s[m - 1]
      /\ C[c].right_sib = IF m = n THEN 0 ELSE s[m + 1]
  BY <1>2, <1>4 DEF Linked
<1>6. n # 0 /\ n \in 1 .. n /\ n - 1 \in Nat
  BY <1>3, <1>4
<1>7. Kids(D, p) = Kids(C, p) \ {c} /\ Kids(C, p) \subseteq Closures
  BY <1>1 DEF Unchained, Kids, Dead
<1>8. \A i, j \in 1 .. n : s[i] = s[j] => i = j
  BY <1>2 DEF Linked
<1> DEFINE at2(i) == IF i < m THEN i ELSE i + 1
           t == [i \in 1 .. n - 1 |-> s[at2(i)]]
<1>9. ASSUME NEW i \in 1 .. n - 1
      PROVE  at2(i) \in 1 .. n /\ at2(i) # m /\ t[i] = s[at2(i)] /\ s[at2(i)] \in Kids(C, p) /\ s[at2(i)] # c
  <2>1. at2(i) \in 1 .. n /\ at2(i) # m
    BY <1>3, <1>4
  <2> HIDE DEF at2
  <2> QED BY <1>4, <1>8, <2>1
<1>10. t \in [1 .. n - 1 -> Kids(D, p)]
  BY <1>7, <1>9
<1> HIDE DEF t
<1>11. \A i, j \in 1 .. n - 1 : t[i] = t[j] => i = j
  <2> SUFFICES ASSUME NEW i \in 1 .. n - 1, NEW j \in 1 .. n - 1, t[i] = t[j] PROVE i = j
    OBVIOUS
  <2>1. at2(i) = at2(j)
    BY <1>8, <1>9
  <2> QED BY <1>4, <2>1
<1>12. \A k \in Kids(D, p) : \E i \in 1 .. n - 1 : t[i] = k
  <2> SUFFICES ASSUME NEW k \in Kids(C, p), k # c PROVE \E i \in 1 .. n - 1 : t[i] = k
    BY <1>7
  <2>1. PICK i \in 1 .. n : s[i] = k
    BY <1>2 DEF Linked
  <2>2. i # m
    BY <1>4, <2>1
  <2>3. CASE i < m
    <3>1. i \in 1 .. n - 1 /\ at2(i) = i
      BY <1>3, <1>4, <2>3
    <3> QED BY <1>9, <2>1, <3>1
  <2>4. CASE i > m
    <3>1. i - 1 \in 1 .. n - 1 /\ at2(i - 1) = i
      BY <1>3, <1>4, <2>4
    <3> QED BY <1>9, <2>1, <3>1
  <2> QED BY <1>4, <2>2, <2>3, <2>4
\* The neighbours of the i-th child.
<1>13. ASSUME NEW k \in 1 .. n, k # m
       PROVE  /\ s[k] \in Closures \ {c}
              /\ D[s[k]].left_sib = IF k = m + 1 THEN C[c].left_sib ELSE C[s[k]].left_sib
              /\ D[s[k]].right_sib = IF k = m - 1 THEN C[c].right_sib ELSE C[s[k]].right_sib
  <2>1. s[k] \in Closures \ {c}
    BY <1>4, <1>7, <1>8, <1>13
  <2>2. s[k] = C[c].right_sib <=> k = m + 1
    <3>1. m # n => m + 1 \in 1 .. n
      BY <1>3, <1>4
    <3>2. m = n => k # m + 1
      BY <1>3
    <3> QED BY <1>0, <1>5, <1>8, <2>1, <3>1, <3>2
  <2>3. s[k] = C[c].left_sib <=> k = m - 1
    <3>1. m # 1 => m - 1 \in 1 .. n
      BY <1>3, <1>4
    <3>2. m = 1 => k # m - 1
      BY <1>3
    <3> QED BY <1>0, <1>5, <1>8, <2>1, <3>1, <3>2
  <2>4. /\ D[s[k]].left_sib = IF s[k] = C[c].right_sib THEN C[c].left_sib ELSE C[s[k]].left_sib
        /\ D[s[k]].right_sib = IF s[k] = C[c].left_sib THEN C[c].right_sib ELSE C[s[k]].right_sib
    BY <2>1 DEF Unchained
  <2> QED BY <2>1, <2>2, <2>3, <2>4
<1>14. ASSUME NEW k \in 1 .. n
       PROVE  /\ C[s[k]].left_sib = IF k = 1 THEN 0 ELSE s[k - 1]
              /\ C[s[k]].right_sib = IF k = n THEN 0 ELSE s[k + 1]
  BY <1>2 DEF Linked
<1>15. ASSUME NEW i \in 1 .. n - 1
       PROVE  /\ D[t[i]].left_sib = IF i = 1 THEN 0 ELSE t[i - 1]
              /\ D[t[i]].right_sib = IF i = n - 1 THEN 0 ELSE t[i + 1]
  <2>1. at2(i) \in 1 .. n /\ at2(i) # m /\ t[i] = s[at2(i)]
    BY <1>9
  <2>2. i # 1 => t[i - 1] = s[at2(i - 1)]
    <3>1. i # 1 => i - 1 \in 1 .. n - 1
      BY <1>3
    <3> QED BY <3>1, <1>9
  <2>3. i # n - 1 => t[i + 1] = s[at2(i + 1)]
    <3>1. i # n - 1 => i + 1 \in 1 .. n - 1
      BY <1>3
    <3> QED BY <3>1, <1>9
  <2>4. CASE i < m
    <3>1. at2(i) = i /\ i # m + 1 /\ (i # 1 => at2(i - 1) = i - 1)
      BY <1>4, <2>4
    <3>2. D[t[i]].left_sib = IF i = 1 THEN 0 ELSE t[i - 1]
      BY <1>13, <1>14, <2>1, <2>2, <3>1
    <3>3. CASE i = m - 1
      <4>1. (m = n <=> i = n - 1) /\ (i # n - 1 => at2(i + 1) = m + 1)
        BY <1>3, <1>4, <3>3
      <4>2. D[t[i]].right_sib = IF m = n THEN 0 ELSE s[m + 1]
        BY <1>5, <1>13, <2>1, <3>1, <3>3
      <4> QED BY <2>3, <3>2, <4>1, <4>2
    <3>4. CASE i # m - 1
      <4>1. i # n /\ i # n - 1 /\ at2(i + 1) = i + 1
        BY <1>3, <1>4, <2>4, <3>4
      <4>2. D[t[i]].right_sib = s[i + 1]
        BY <1>13, <1>14, <2>1, <3>1, <3>4, <4>1
      <4> QED BY <2>3, <3>2, <4>1, <4>2
    <3> QED BY <3>3, <3>4
  <2>5. CASE ~(i < m)
    <3>1. at2(i) = i + 1 /\ i + 1 # m - 1 /\ at2(i + 1) = i + 2 /\ (i + 1 = n <=> i = n - 1) /\ i + 1 # 1
          /\ (i + 1) + 1 = i + 2 /\ (i + 1) - 1 = i
      BY SMTT(30), <1>3, <1>4, <2>5
    <3>2. D[t[i]].right_sib = IF i = n - 1 THEN 0 ELSE t[i + 1]
      <4>1. D[s[i + 1]].right_sib = C[s[i + 1]].right_sib
        BY <1>13, <2>1, <3>1
      <4>2. C[s[i + 1]].right_sib = IF i + 1 = n THEN 0 ELSE s[i + 2]
        BY <1>14, <2>1, <3>1
      <4> QED BY <2>1, <2>3, <3>1, <4>1, <4>2
    <3>3. CASE i = m
      <4>1. (m = 1 <=> i = 1) /\ (i # 1 => at2(i - 1) = m - 1)
        BY <1>4, <3>3
      <4>2. D[t[i]].left_sib = IF m = 1 THEN 0 ELSE s[m - 1]
        BY <1>5, <1>13, <2>1, <3>1, <3>3
      <4> QED BY <2>2, <3>2, <4>1, <4>2
    <3>4. CASE i # m
      <4>1. i # 1 /\ at2(i - 1) = i /\ i + 1 # m + 1
        BY <1>3, <1>4, <2>5, <3>4
      <4>2. D[t[i]].left_sib = s[i]
        BY SMTT(30), <1>13, <1>14, <2>1, <3>1, <4>1
      <4> QED BY <2>2, <3>2, <4>1, <4>2
    <3> QED BY <3>3, <3>4
  <2> QED BY <2>4, <2>5
<1>16. D[p].right_most_child = IF n - 1 = 0 THEN 0 ELSE t[n - 1]
  <2>1. D[p].right_most_child = IF s[n] = c THEN C[c].left_sib ELSE s[n]
    BY <1>3, <1>6 DEF Unchained
  <2>2. s[n] = c <=> m = n
    BY <1>4, <1>6, <1>8
  <2>3. n - 1 # 0 => n - 1 \in 1 .. n - 1
    BY <1>6
  <2>4. n - 1 # 0 => t[n - 1] = s[at2(n - 1)]
    BY <1>9, <2>3
  <2>5. CASE m = n
    <3>1. (m = 1 <=> n - 1 = 0) /\ (n - 1 # 0 => at2(n - 1) = m - 1)
      BY <1>3, <2>5
    <3> QED BY <1>5, <2>1, <2>2, <2>4, <2>5, <3>1
  <2>6. CASE m # n
    <3>1. n - 1 # 0 /\ at2(n - 1) = n
      BY <1>3, <1>4, <2>6
    <3> QED BY <2>1, <2>2, <2>4, <2>6, <3>1
  <2> QED BY <2>5, <2>6
<1>17. D[p].join_counter = n - 1
  BY DEF Unchained
<1>18. Linked(D, p, t) /\ t \in [1 .. D[p].join_counter -> Kids(D, p)]
  BY ZenonT(40), <1>10, <1>11, <1>12, <1>15, <1>16, <1>17 DEF Linked
<1>19. ASSUME NEW q \in Closures, ~Dead(D, q), q # p
       PROVE  \E u \in [1 .. D[q].join_counter -> Kids(D, q)] : Linked(D, q, u)
  <2>1. q # c /\ ~Dead(C, q) /\ SameList(C, D, q)
    BY <1>19 DEF Unchained
  <2>2. PICK u \in [1 .. C[q].join_counter -> Kids(C, q)] : Linked(C, q, u)
    BY <2>1 DEF Lists, Dead
  <2>3. Kids(D, q) = Kids(C, q)
    BY <1>19, <2>1 DEF Unchained, Kids, Dead
  <2>4. ASSUME NEW k \in Kids(C, q) PROVE SamePlace(C, D, k)
    <3>1. k \in Closures \ {c} /\ k \notin Kids(C, p)
      BY <1>1, <1>19 DEF Kids
    <3>2. m # n => m + 1 \in 1 .. n
      BY <1>3, <1>4
    <3>3. m # 1 => m - 1 \in 1 .. n
      BY <1>3, <1>4
    <3>4. k # C[c].right_sib /\ k # C[c].left_sib
      BY <1>0, <1>5, <3>1, <3>2, <3>3
    <3> QED BY <3>1, <3>4 DEF Unchained, SamePlace
  <2>5. u \in [1 .. D[q].join_counter -> Kids(D, q)] /\ Linked(D, q, u)
    BY <2>1, <2>2, <2>3, <2>4 DEF Linked, SamePlace, SameList
  <2> QED BY <2>5
<1>20. Lists(D)
  BY <1>18, <1>19 DEF Lists, Dead
<1> QED BY <1>6, <1>20

\* The lists make the tree consistent.
LEMMA ListsTree ==
  ASSUME Lists(clo), \A c \in Closures : clo[c].join_counter \in Nat
  PROVE  TreeConsistent
<1>0. 0 \notin Closures
  BY SchedulerAssumption DEF Closures
<1> SUFFICES ASSUME NEW p \in Live
             PROVE  LET K == Children(p)
                        r == clo[p].right_most_child IN
                    /\ clo[p].join_counter = Cardinality(K)
                    /\ (r = 0) = (K = {})
                    /\ r # 0 => r \in K /\ clo[r].right_sib = 0
                    /\ Cardinality({c \in K : clo[c].left_sib = 0}) = (IF K = {} THEN 0 ELSE 1)
                    /\ \A c \in K : clo[c].left_sib # 0 =>
                         clo[c].left_sib \in K /\ clo[clo[c].left_sib].right_sib = c
  BY DEF TreeConsistent
<1> DEFINE K == Children(p)
           n == clo[p].join_counter
           r == clo[p].right_most_child
           L == {c \in K : clo[c].left_sib = 0}
<1>1. p \in Closures /\ clo[p].status # "FREE" /\ K = Kids(clo, p) /\ n \in Nat
  BY DEF Live, Children, Kids
<1>2. PICK s \in [1 .. n -> K] : Linked(clo, p, s)
  BY <1>1 DEF Lists
<1>3. /\ \A i, j \in 1 .. n : s[i] = s[j] => i = j
      /\ \A c \in K : \E i \in 1 .. n : s[i] = c
      /\ \A i \in 1 .. n : /\ clo[s[i]].left_sib = IF i = 1 THEN 0 ELSE s[i - 1]
                           /\ clo[s[i]].right_sib = IF i = n THEN 0 ELSE s[i + 1]
      /\ r = IF n = 0 THEN 0 ELSE s[n]
  BY <1>1, <1>2 DEF Linked
<1>4. K \subseteq Closures
  BY <1>1 DEF Kids
<1> HIDE DEF K, n, r
<1>5. s \in Bijection(1 .. n, K)
  BY <1>2, <1>3 DEF Bijection, Injection, Surjection, IsInjective
<1>6. IsFiniteSet(1 .. n) /\ Cardinality(1 .. n) = n
  <2>1. 1 \in Int /\ n \in Int
    BY <1>1
  <2>2. IsFiniteSet(1 .. n) /\ Cardinality(1 .. n) = (IF 1 > n THEN 0 ELSE n - 1 + 1)
    BY <2>1, FS_Interval
  <2> QED BY <1>1, <2>2
<1>7. Cardinality(K) = n
  <2>1. \E g : g \in Bijection(1 .. n, K)
    BY <1>5
  <2>2. ExistsBijection(1 .. n, K)
    BY <1>5 DEF ExistsBijection
  <2> QED BY <1>6, <2>2, FS_Bijection
<1>8. n = 0 <=> K = {}
  <2>1. n = 0 => K = {}
    BY <1>3
  <2>2. n # 0 => 1 \in 1 .. n
    BY <1>1
  <2> QED BY <1>2, <2>1, <2>2
<1>9. n # 0 => n \in 1 .. n /\ 1 \in 1 .. n
  BY <1>1
<1>10. n # 0 => r = s[n] /\ r \in K /\ clo[r].right_sib = 0
  BY <1>2, <1>3, <1>9
<1>11. (r = 0) = (K = {})
  BY <1>0, <1>3, <1>4, <1>8, <1>10
<1>12. \A i \in 1 .. n : s[i] \in K /\ s[i] # 0
  BY <1>0, <1>2, <1>4
<1>13. \A i \in 1 .. n : i # 1 => i - 1 \in 1 .. n /\ (i - 1 # n) /\ (i - 1) + 1 = i
  BY <1>1
<1>14. ASSUME NEW c \in K, clo[c].left_sib # 0
       PROVE  clo[c].left_sib \in K /\ clo[clo[c].left_sib].right_sib = c
  <2>1. PICK i \in 1 .. n : s[i] = c
    BY <1>3
  <2>2. i # 1 /\ clo[c].left_sib = s[i - 1]
    BY <1>3, <1>14, <2>1
  <2>3. i - 1 \in 1 .. n /\ i - 1 # n /\ (i - 1) + 1 = i
    BY <1>13, <2>2
  <2>4. clo[s[i - 1]].right_sib = s[(i - 1) + 1]
    BY <1>3, <2>3
  <2> QED BY <1>12, <2>1, <2>2, <2>3, <2>4
<1>15. K # {} => L = {s[1]}
  <2> SUFFICES ASSUME K # {} PROVE L = {s[1]}
    OBVIOUS
  <2>1. 1 \in 1 .. n
    BY <1>8, <1>9
  <2>2. s[1] \in L
    BY <1>3, <1>12, <2>1
  <2>3. ASSUME NEW c \in L PROVE c = s[1]
    <3>1. PICK i \in 1 .. n : s[i] = c
      BY <1>3
    <3>2. i = 1
      BY <1>3, <1>12, <1>13, <3>1
    <3> QED BY <3>1, <3>2
  <2> QED BY <2>2, <2>3
<1>16. K = {} => L = {}
  OBVIOUS
<1>17. Cardinality(L) = (IF K = {} THEN 0 ELSE 1)
  BY <1>15, <1>16, FS_EmptySet, FS_Singleton
<1> QED BY <1>7, <1>8, <1>10, <1>11, <1>14, <1>17 DEF K, n, r

-----------------------------------------------------------------------------
(* Closures and stacks *)

\* 0 is no closure, no frame and no worker.
LEMMA NotNull == 0 \notin Closures /\ 0 \notin Frames /\ 0 \notin Workers
BY SchedulerAssumption DEF Closures

\* Where a closure lies says where its stacklet is.
LEMMA PlacedBase ==
  ASSUME NEW c \in Live, Placed(c), clo \in [Closures -> Closure]
  PROVE  BaseOf(Outer(c), clo[c].frame, clo[c].spawn_parent)
<1> DEFINE b == clo[c].frame
           p == clo[c].spawn_parent
<1>1. b \in Frames \cup {0}
  BY DEF Live, Closure, Ptr
<1>2. CASE p # 0
  <2>1. p \in Closures /\ clo[p].frame # 0 /\ (b # 0 => Detached(b) /\ CallParent(b) = clo[p].frame)
    BY <1>2 DEF Placed, Live
  <2>2. clo[p].frame \in Frames
    BY <2>1 DEF Closure, Ptr
  <2>3. Outer(c) = clo[p].frame
    BY <1>2 DEF Outer
  <2> QED BY <1>2, <2>1, <2>2, <2>3, DetachedBelow DEF BaseOf
<1>3. CASE p = 0
  <2>1. b \in Roots \/ (b \in Frames \ Roots /\ ~Detached(b))
    BY <1>3 DEF Placed
  <2>2. Outer(c) = IF b \in Roots THEN 0 ELSE CallParent(b)
    BY <1>3 DEF Outer
  <2> QED BY <1>3, <2>1, <2>2 DEF BaseOf
<1> QED BY <1>2, <1>3

\* A worker in user code.
AtWork(w) ==
  LET c == dq[w] IN
  /\ w \in Workers /\ wst[w] = "run" /\ cl[w] = 0
  /\ c \in Closures /\ c # 0 /\ c \in Live /\ clo[c].status = "RUNNING" /\ ~clo[c].has_cilk_callee
  /\ cur[w] \in Frames /\ shadow[w] \in Seq(Frames)
  /\ Bottom(w) = c /\ Tip(w) = cur[w] /\ Shadow(w) = shadow[w] /\ Stack(w) = Stacklet(Outer(c), cur[w])
  /\ BaseOf(Outer(c), clo[c].frame, clo[c].spawn_parent)
  /\ FitsStack(Outer(c), clo[c].frame, clo[c].spawn_parent, stolen, cur[w], shadow[w])

\* A worker in user code.
LEMMA RunFacts ==
  ASSUME SchedulerInv, NEW w \in Workers, wst[w] = "run"
  PROVE  AtWork(w)
<1> DEFINE c == dq[w]
<1>1. HoldsOne(w) /\ TypeOK
  BY DEF SchedulerInv, Owners
<1>2. cl[w] = 0 /\ c # 0 /\ clo[c].status = "RUNNING" /\ cur[w] # 0
  BY <1>1 DEF HoldsOne
<1>3. c \in Closures /\ c \in Live /\ cur[w] \in Frames /\ shadow[w] \in Seq(Frames)
  BY <1>1, <1>2 DEF TypeOK, Ptr, Live
<1>4. ~clo[c].has_cilk_callee
  BY <1>2, <1>3 DEF SchedulerInv, Callees
<1>5. Bottom(w) = c /\ Tip(w) = cur[w] /\ Shadow(w) = shadow[w] /\ Stack(w) = Stacklet(Outer(c), cur[w])
  BY DEF Bottom, Tip, Shadow, Stack
<1>6. BaseOf(Outer(c), clo[c].frame, clo[c].spawn_parent)
  BY <1>1, <1>3, PlacedBase DEF TypeOK, SchedulerInv
<1>7. StackFits(w)
  BY DEF SchedulerInv, Stacks, OnStack
<1>8. FitsStack(Outer(c), clo[c].frame, clo[c].spawn_parent, stolen, cur[w], shadow[w])
  BY <1>5, <1>7 DEF StackFits
<1> QED BY <1>2, <1>3, <1>4, <1>5, <1>6, <1>8 DEF AtWork

\* A thief that promotes a stacklet.
AtPromote(w) ==
  LET r == cl[w]
      c == clo[r].call_parent
      f == clo[r].frame IN
  /\ w \in Workers /\ wst[w] = "promote" /\ dq[w] = 0
  /\ r \in Closures /\ r # 0 /\ r \in Live /\ clo[r].status = "RUNNING" /\ r \in Promoting
  /\ clo[r].spawn_parent = 0 /\ ~clo[r].has_cilk_callee
  /\ f \in Frames \ Roots /\ ~Detached(f) /\ f \in stolen
  /\ c \in Closures /\ c # 0 /\ c # r /\ c \in Live /\ clo[c].status = "SUSPENDED" /\ clo[c].has_cilk_callee
  /\ Bottom(w) = c /\ Tip(w) = CallParent(f) /\ Shadow(w) = <<>> /\ Stack(w) = Stacklet(Outer(c), CallParent(f))
  /\ BaseOf(Outer(c), clo[c].frame, clo[c].spawn_parent)
  /\ FitsStack(Outer(c), clo[c].frame, clo[c].spawn_parent, stolen, CallParent(f), <<>>)

\* A thief that promotes a stacklet.
LEMMA PromoteFacts ==
  ASSUME SchedulerInv, NEW w \in Workers, wst[w] = "promote"
  PROVE  AtPromote(w)
<1> DEFINE r == cl[w]
           c == clo[r].call_parent
           f == clo[r].frame
<1>1. HoldsOne(w) /\ TypeOK
  BY DEF SchedulerInv, Owners
<1>2. dq[w] = 0 /\ r # 0 /\ clo[r].status = "RUNNING" /\ c # 0
  BY <1>1 DEF HoldsOne
<1>3. r \in Closures /\ r \in Live /\ r \in Promoting
  BY <1>1, <1>2 DEF TypeOK, Ptr, Live, Promoting
<1>4. Placed(r)
  BY <1>3 DEF SchedulerInv
<1>5. clo[r].spawn_parent = 0 /\ c \in Live /\ c # r /\ clo[c].has_cilk_callee /\ f \in Frames \ Roots /\ ~Detached(f)
  BY <1>2, <1>4 DEF Placed
<1>6. c \in Closures /\ clo[c].status = "SUSPENDED" /\ ~clo[r].has_cilk_callee
  BY <1>2, <1>3, <1>5 DEF SchedulerInv, Callees, Live
<1>7. Bottom(w) = c /\ Tip(w) = CallParent(f) /\ Shadow(w) = <<>> /\ Stack(w) = Stacklet(Outer(c), CallParent(f))
  BY DEF Bottom, Tip, Shadow, Stack
<1>8. BaseOf(Outer(c), clo[c].frame, clo[c].spawn_parent)
  BY <1>1, <1>5, PlacedBase DEF TypeOK, SchedulerInv
<1>9. StackFits(w)
  BY DEF SchedulerInv, Stacks, OnStack
<1>10. FitsStack(Outer(c), clo[c].frame, clo[c].spawn_parent, stolen, CallParent(f), <<>>)
  BY <1>7, <1>9 DEF StackFits
<1>11. f \in stolen
  BY <1>3, <1>5, FramesPositive DEF SchedulerInv, Named
<1> QED BY <1>2, <1>3, <1>5, <1>6, <1>7, <1>8, <1>10, <1>11 DEF AtPromote

\* No two stacks are on one closure.
LEMMA BottomsDiffer ==
  ASSUME SchedulerInv, NEW w \in Workers, NEW v \in Workers, w # v, OnStack(w), OnStack(v)
  PROVE  Bottom(w) \in Live /\ Bottom(w) # Bottom(v)
<1>1. (wst[w] = "run" => AtWork(w)) /\ (wst[w] = "promote" => AtPromote(w))
  BY RunFacts, PromoteFacts
<1>2. (wst[v] = "run" => AtWork(v)) /\ (wst[v] = "promote" => AtPromote(v))
  BY RunFacts, PromoteFacts
<1>3. Holds(w) # 0 => Holds(w) # Holds(v)
  BY DEF SchedulerInv, Owners
<1>4. \A c, d \in Live : clo[c].call_parent = clo[d].call_parent /\ clo[c].call_parent # 0 => c = d
  BY DEF SchedulerInv, Callees
<1>5. CASE wst[w] = "run" /\ wst[v] = "run"
  BY <1>1, <1>2, <1>3, <1>5 DEF AtWork, Holds
<1>6. CASE wst[w] = "promote" /\ wst[v] = "promote"
  BY ZenonT(40), <1>1, <1>2, <1>3, <1>4, <1>6 DEF AtPromote, Holds
<1>7. CASE wst[w] = "run" /\ wst[v] = "promote"
  BY SMTT(30), <1>1, <1>2, <1>7 DEF AtWork, AtPromote
<1>8. CASE wst[w] = "promote" /\ wst[v] = "run"
  BY <1>1, <1>2, <1>8 DEF AtWork, AtPromote
<1> QED BY <1>5, <1>6, <1>7, <1>8 DEF OnStack

\* The stack of a worker that a step leaves alone.
LEMMA KeepStack ==
  ASSUME NEW v \in Workers, StackFits(v),
         wst'[v] = wst[v], cl'[v] = cl[v], dq'[v] = dq[v], cur'[v] = cur[v], shadow'[v] = shadow[v],
         wst[v] = "run" \/ (clo'[cl[v]].call_parent = clo[cl[v]].call_parent /\ clo'[cl[v]].frame = clo[cl[v]].frame),
         clo'[Bottom(v)].frame = clo[Bottom(v)].frame,
         clo'[Bottom(v)].spawn_parent = clo[Bottom(v)].spawn_parent,
         clo[Bottom(v)].spawn_parent # 0 =>
           clo'[clo[Bottom(v)].spawn_parent].frame = clo[clo[Bottom(v)].spawn_parent].frame,
         stolen \subseteq stolen', stolen' \cap Stack(v) \subseteq stolen
  PROVE  Stack(v)' = Stack(v) /\ StackFits(v)' /\ Bottom(v)' = Bottom(v)
<1>1. Bottom(v)' = Bottom(v) /\ Tip(v)' = Tip(v) /\ Shadow(v)' = Shadow(v)
  BY DEF Bottom, Tip, Shadow
<1>2. Outer(Bottom(v))' = Outer(Bottom(v))
  BY <1>1 DEF Outer
<1>3. Stack(v)' = Stack(v)
  BY <1>1, <1>2 DEF Stack
<1>4. FitsStack(Outer(Bottom(v)), clo[Bottom(v)].frame, clo[Bottom(v)].spawn_parent, stolen', Tip(v), Shadow(v))
  BY StackGrow DEF StackFits, Stack
<1>5. StackFits(v)'
  BY <1>1, <1>2, <1>4 DEF StackFits
<1> QED BY <1>1, <1>3, <1>5

-----------------------------------------------------------------------------
(* What steps keep *)

\* The closures lie where they lay.
SameFrames ==
  \A c \in Closures :
    /\ Dead(clo', c) <=> Dead(clo, c)
    /\ clo'[c].frame = clo[c].frame /\ clo'[c].spawn_parent = clo[c].spawn_parent
    /\ clo'[c].call_parent = clo[c].call_parent /\ clo'[c].has_cilk_callee = clo[c].has_cilk_callee

\* The closures lie as they did if frames and parents are the same.
LEMMA PlacesSame ==
  ASSUME SchedulerInv, SameFrames, stolen \subseteq stolen', Promoting \subseteq Promoting',
         \A c \in Live : clo[c].has_cilk_callee => clo'[c].status = "SUSPENDED"
  PROVE  Live' = Live /\ Named' /\ (\A c \in Live : Placed(c))' /\ Callees'
<1>1. Live' = Live
  BY DEF SameFrames, Live, Dead
<1>2. \A c \in Live : /\ c \in Closures
                      /\ clo'[c].frame = clo[c].frame /\ clo'[c].spawn_parent = clo[c].spawn_parent
                      /\ clo'[c].call_parent = clo[c].call_parent /\ clo'[c].has_cilk_callee = clo[c].has_cilk_callee
  BY DEF SameFrames, Live
<1>3. Named'
  BY <1>1, <1>2 DEF SchedulerInv, Named
<1>4. ASSUME NEW c \in Live PROVE Placed(c)'
  <2>1. Placed(c)
    BY DEF SchedulerInv
  <2>2. \A d \in Live : d \in Live' /\ clo'[d].frame = clo[d].frame /\ clo'[d].has_cilk_callee = clo[d].has_cilk_callee
    BY <1>1, <1>2
  <2>3. /\ clo'[c].frame = clo[c].frame /\ clo'[c].spawn_parent = clo[c].spawn_parent
        /\ clo'[c].call_parent = clo[c].call_parent
    BY <1>2
  <2> QED BY <2>1, <2>2, <2>3 DEF Placed
<1>5. Callees'
  BY <1>1, <1>2 DEF SchedulerInv, Callees
<1> QED BY <1>1, <1>3, <1>4, <1>5

\* No entry of var but that of worker w changes.
Same(var, w) == \A v \in Workers \ {w} : var'[v] = var[v]
\* Only worker w moves.
OthersSame(w) == Same(wst, w) /\ Same(cl, w) /\ Same(dq, w) /\ Same(cur, w) /\ Same(shadow, w)

\* Only worker w's stack changes.
LEMMA StacksMove ==
  ASSUME SchedulerInv, SameFrames, stolen' = stolen, NEW w \in Workers, OthersSame(w),
         OnStack(w)' => /\ StackFits(w)' /\ \A f \in Frames : Ahead(f)' \cap Stack(w)' = {}
                        /\ \A v \in Workers \ {w} : OnStack(v) => Stack(w)' \cap Stack(v) = {},
         \A f \in Frames : Ahead(f)' \subseteq Ahead(f)
  PROVE  Stacks' /\ Unbegun'
<1>1. ASSUME NEW v \in Workers \ {w}, OnStack(v)'
      PROVE  OnStack(v) /\ Stack(v)' = Stack(v) /\ StackFits(v)'
  <2>1. wst'[v] = wst[v] /\ cl'[v] = cl[v] /\ dq'[v] = dq[v] /\ cur'[v] = cur[v] /\ shadow'[v] = shadow[v]
    BY DEF OthersSame, Same
  <2>2. OnStack(v)
    BY <1>1, <2>1 DEF OnStack
  <2>3. Bottom(v) \in Closures /\ (wst[v] = "run" \/ cl[v] \in Closures)
    BY <2>2, RunFacts, PromoteFacts DEF OnStack, AtWork, AtPromote
  <2>4. StackFits(v) /\ Placed(Bottom(v))
    BY <2>2, <2>3, RunFacts, PromoteFacts DEF SchedulerInv, Stacks, OnStack, AtWork, AtPromote
  <2>5. clo[Bottom(v)].spawn_parent # 0 => clo[Bottom(v)].spawn_parent \in Closures
    BY <2>4 DEF Placed, Live
  <2> QED BY <2>1, <2>2, <2>3, <2>4, <2>5, KeepStack DEF SameFrames
<1>2. Stacks'
  <2>1. ASSUME NEW v \in Workers, OnStack(v)' PROVE StackFits(v)'
    BY <1>1, <2>1
  <2>2. ASSUME NEW v \in Workers, NEW u \in Workers, v # u, OnStack(v)', OnStack(u)'
        PROVE  Stack(v)' \cap Stack(u)' = {}
    <3>1. CASE v # w /\ u # w
      BY <1>1, <2>2, <3>1 DEF SchedulerInv, Stacks
    <3>2. CASE v = w \/ u = w
      BY <1>1, <2>2, <3>2
    <3> QED BY <3>1, <3>2
  <2> QED BY <2>1, <2>2 DEF Stacks
<1>3. ASSUME NEW f \in Frames
      PROVE  Ahead(f)' \cap (stolen' \cup UNION {Stack(v)' : v \in {v \in Workers : OnStack(v)'}}) = {}
  <2>1. Ahead(f) \cap stolen = {} /\ \A v \in Workers : OnStack(v) => Ahead(f) \cap Stack(v) = {}
    BY DEF SchedulerInv, Unbegun
  <2>2. \A v \in Workers : OnStack(v)' => Ahead(f)' \cap Stack(v)' = {}
    BY <1>1, <2>1
  <2> QED BY <2>1, <2>2
<1>4. Unbegun'
  BY <1>3 DEF Unbegun
<1> QED BY <1>2, <1>4

\* A frame that has gone on has less ahead of it.
LEMMA AheadLess ==
  ASSUME NEW f \in Frames, at[f] \in Nat, at'[f] \in Nat, at'[f] >= at[f]
  PROVE  Ahead(f)' \subseteq Ahead(f)
<1>1. DOMAIN Code[f] \subseteq Nat
  <2>1. Code[f] \in Seq(Operation)
    BY SchedulerAssumption
  <2> QED BY <2>1
<1> QED BY <1>1 DEF Ahead

\* An operation that invokes goes ahead no more.
LEMMA AheadInvoked ==
  ASSUME NEW f \in Frames, NEW i \in DOMAIN Code[f], at[f] = i, at'[f] = i + 1, Invokes(Code[f][i])
  PROVE  /\ Code[f][i][2] \in Ahead(f)
         /\ \A g \in Frames : (g # f => at'[g] = at[g]) => Code[f][i][2] \notin Ahead(g)'
<1>1. DOMAIN Code[f] \subseteq Nat
  <2>1. Code[f] \in Seq(Operation)
    BY SchedulerAssumption
  <2> QED BY <2>1
<1>2. Code[f][i][2] \in Ahead(f)
  BY <1>1 DEF Ahead
<1>3. ASSUME NEW g \in Frames, Code[f][i][2] \in Ahead(g)' PROVE FALSE
  <2>1. PICK j \in DOMAIN Code[g] : j >= at'[g] /\ Invokes(Code[g][j]) /\ Code[f][i][2] = Code[g][j][2]
    BY <1>3 DEF Ahead
  <2>2. f = g /\ i = j
    BY <2>1, SchedulerAssumption
  <2> QED BY <1>1, <2>1, <2>2
<1> QED BY <1>2, <1>3

-----------------------------------------------------------------------------
(* Steps of user code on a shadow stack *)

\* A worker that only moves to another frame of its stack.
Moves(w) ==
  /\ UNCHANGED <<wst, cl, dq, clo, stolen, unsynced>> /\ Same(cur, w) /\ Same(shadow, w)
  /\ cur'[w] # 0

\* A worker that moves on its own stack keeps the invariant.
LEMMA MovesKeep ==
  ASSUME SchedulerInv, TypeOK', NEW w \in Workers, AtWork(w), Moves(w),
         LET c == dq[w] IN
         FitsStack(Outer(c), clo[c].frame, clo[c].spawn_parent, stolen, cur'[w], shadow'[w]),
         \A v \in Workers \ {w} : OnStack(v) => Stacklet(Outer(dq[w]), cur'[w]) \cap Stack(v) = {},
         \A f \in Frames : Ahead(f)' \subseteq Ahead(f) /\ Ahead(f)' \cap Stacklet(Outer(dq[w]), cur'[w]) = {}
  PROVE  SchedulerInv'
<1>1. wst[w] = "run" /\ wst' = wst /\ cl' = cl /\ dq' = dq /\ clo' = clo /\ stolen' = stolen /\ unsynced' = unsynced
  BY DEF AtWork, Moves
<1>2. Live' = Live /\ Promoting' = Promoting /\ Finishing' = Finishing
  BY <1>1 DEF Live, Promoting, Finishing
<1>3. Owners'
  <2>1. \A v \in Workers : HoldsOne(v) => HoldsOne(v)'
    <3>1. ASSUME NEW v \in Workers, HoldsOne(v) PROVE wst[v] = "run" => cur'[v] # 0
      BY <1>1, <3>1 DEF HoldsOne, Moves, Same
    <3> QED BY <1>1, <3>1 DEF HoldsOne
  <2> QED BY <1>1, <2>1 DEF SchedulerInv, Owners, Holds
<1>4. Blank' /\ Lists(clo)' /\ NoLostWakeup' /\ Unsynched'
  <2>1. Lists(clo)'
    BY <1>1 DEF SchedulerInv
  <2>2. Blank' /\ NoLostWakeup'
    BY <1>1, <1>2 DEF SchedulerInv, Blank, NoLostWakeup
  <2>3. Unsynched'
    BY <1>1, <1>2 DEF SchedulerInv, Unsynched
  <2> QED BY <2>1, <2>2, <2>3
<1>5. SameFrames
  BY <1>1 DEF SameFrames, Dead
<1>6. Named' /\ (\A c \in Live : Placed(c))' /\ Callees'
  <2>1. \A c \in Live : clo[c].has_cilk_callee => clo'[c].status = "SUSPENDED"
    BY <1>1 DEF SchedulerInv, Callees
  <2> QED BY <1>1, <1>2, <1>5, <2>1, PlacesSame
<1>7. OthersSame(w)
  BY <1>1 DEF OthersSame, Moves, Same
<1>8. Bottom(w)' = dq[w] /\ Tip(w)' = cur'[w] /\ Shadow(w)' = shadow'[w] /\ Outer(dq[w])' = Outer(dq[w])
  BY <1>1 DEF Bottom, Tip, Shadow, Outer
<1>9. Stack(w)' = Stacklet(Outer(dq[w]), cur'[w])
  <2>1. Outer(Bottom(w))' = Outer(dq[w])
    BY <1>1, <1>8 DEF Outer
  <2> QED BY <1>8, <2>1 DEF Stack
<1>10. StackFits(w)'
  <2>1. Outer(Bottom(w))' = Outer(dq[w])
    BY <1>1, <1>8 DEF Outer
  <2> QED BY <1>1, <1>8, <2>1 DEF StackFits
<1>11. Stacks' /\ Unbegun'
  BY <1>1, <1>5, <1>7, <1>9, <1>10, StacksMove
<1> QED BY <1>3, <1>4, <1>6, <1>11 DEF SchedulerInv

\* The operation that a worker is about to perform.
LEMMA NextOp ==
  ASSUME TypeOK, NEW w \in Workers, cur[w] \in Frames, NEW kind, AtOp(w, kind)
  PROVE  /\ at[cur[w]] \in DOMAIN Code[cur[w]] /\ Code[cur[w]][at[cur[w]]][1] = kind
         /\ Code[cur[w]][at[cur[w]]] \in Operation /\ at[cur[w]] \in Nat \ {0}
<1>1. Code[cur[w]] \in Seq(Operation)
  BY SchedulerAssumption
<1>2. at[cur[w]] \in Nat \ {0}
  BY DEF TypeOK
<1> QED BY <1>1, <1>2 DEF AtOp

\* The frame goes on to its next operation.
LEMMA AdvanceType ==
  ASSUME TypeOK, NEW w \in Workers, cur[w] \in Frames, Advance(w)
  PROVE  /\ at' \in [Frames -> Nat \ {0}] /\ at'[cur[w]] = at[cur[w]] + 1
         /\ \A f \in Frames : (f # cur[w] => at'[f] = at[f]) /\ Ahead(f)' \subseteq Ahead(f)
<1>1. at \in [Frames -> Nat \ {0}]
  BY DEF TypeOK
<1>2. at'[cur[w]] = at[cur[w]] + 1 /\ \A f \in Frames \ {cur[w]} : at'[f] = at[f]
  BY <1>1 DEF Advance
<1>3. at' \in [Frames -> Nat \ {0}]
  <2>1. at[cur[w]] + 1 \in Nat \ {0}
    BY <1>1
  <2> QED BY <1>1, <2>1 DEF Advance
<1>4. \A f \in Frames : at'[f] >= at[f] /\ at[f] \in Nat /\ at'[f] \in Nat
  BY <1>1, <1>2, <1>3
<1> QED BY <1>2, <1>3, <1>4, AheadLess

\* Spawn and Call: the frame that begins.
LEMMA Begins ==
  ASSUME SchedulerInv, NEW w \in Workers, AtWork(w), NEW kind \in {"spawn", "call"}, AtOp(w, kind), Advance(w)
  PROVE  LET f == cur[w]
             g == Arg(w) IN
         /\ g \in Frames \ Roots /\ CallParent(g) = f /\ (Detached(g) <=> kind = "spawn") /\ g \notin stolen
         /\ \A v \in Workers : OnStack(v) => g \notin Stack(v)
         /\ \A h \in Frames : g \notin Ahead(h)'
<1> DEFINE f == cur[w]
           g == Arg(w)
<1>1. TypeOK /\ f \in Frames
  BY DEF SchedulerInv, AtWork
<1>2. at[f] \in DOMAIN Code[f] /\ Code[f][at[f]][1] = kind
  BY <1>1, NextOp
<1>3. Invokes(Code[f][at[f]]) /\ g = Code[f][at[f]][2]
  BY <1>2 DEF Invokes, Arg
<1>4. g \in Frames \ Roots /\ CallParent(g) = f /\ (Detached(g) <=> kind = "spawn")
  BY <1>1, <1>2, <1>3, Invoked
<1>5. at'[f] = at[f] + 1 /\ \A h \in Frames : h # f => at'[h] = at[h]
  BY <1>1, AdvanceType
<1>6. g \in Ahead(f) /\ \A h \in Frames : g \notin Ahead(h)'
  BY <1>1, <1>2, <1>3, <1>5, AheadInvoked
<1>7. g \notin stolen /\ \A v \in Workers : OnStack(v) => g \notin Stack(v)
  BY <1>1, <1>6 DEF SchedulerInv, Unbegun
<1> QED BY <1>4, <1>6, <1>7

\* A spawn or a call keeps the invariant.
LEMMA SpawnCallKeep ==
  ASSUME SchedulerInv, NEW w \in Workers, Spawn(w) \/ Call(w), TypeOK'
  PROVE  SchedulerInv'
<1> DEFINE f == cur[w]
           g == Arg(w)
           c == dq[w]
           o == Outer(c)
<1>1. wst[w] = "run" /\ TypeOK
  BY DEF Spawn, Call, AtOp, Running, SchedulerInv
<1>2. AtWork(w)
  BY <1>1, RunFacts
<1>3. PICK kind \in {"spawn", "call"} : AtOp(w, kind) /\ Advance(w) /\ (kind = "spawn" => Spawn(w)) /\ (kind = "call" => Call(w))
  BY DEF Spawn, Call
<1>4. /\ g \in Frames \ Roots /\ CallParent(g) = f /\ (Detached(g) <=> kind = "spawn") /\ g \notin stolen
      /\ \A v \in Workers : OnStack(v) => g \notin Stack(v)
      /\ \A h \in Frames : g \notin Ahead(h)'
  BY <1>2, <1>3, Begins
<1>5. Moves(w) /\ cur'[w] = g /\ shadow'[w] = IF kind = "spawn" THEN Append(shadow[w], f) ELSE shadow[w]
  <2>1. cur \in [Workers -> Ptr(Frames)] /\ shadow \in [Workers -> Seq(Frames)]
    BY <1>1 DEF TypeOK
  <2>2. g # 0
    BY <1>4, FramesPositive
  <2> QED BY <1>3, <2>1, <2>2 DEF Spawn, Call, Moves, Same, Set, worker, deque, flags
<1> DEFINE b == clo[c].frame
           p == clo[c].spawn_parent
<1>6. BaseOf(o, b, p) /\ FitsStack(o, b, p, stolen, f, shadow[w])
      /\ f \in Frames /\ shadow[w] \in Seq(Frames) /\ Stack(w) = Stacklet(o, f)
  BY <1>2 DEF AtWork
<1> DEFINE s == shadow[w]
<1> HIDE DEF b, p, o, g, f
<1>7. o \in Frames \cup {0}
  BY <1>6, BaseOuter
<1>8. /\ Stacklet(o, g) = Stacklet(o, f) \cup {g}
      /\ Detached(g) => FitsStack(o, b, p, stolen, g, Append(s, f))
      /\ ~Detached(g) => FitsStack(o, b, p, stolen, g, s)
  <2>1. s \in Seq(Frames) /\ FitsStack(o, b, p, stolen, f, s) /\ f \in Frames
    BY <1>6
  <2>2. g \in Frames \ Roots /\ CallParent(g) = f /\ g \notin stolen
    BY <1>4
  <2> HIDE DEF s
  <2>3. Pushed(o, b, p, stolen, f, s, g)
    BY <1>7, <2>1, <2>2, StackPush
  <2> QED BY <2>3 DEF Pushed
<1>9. FitsStack(o, b, p, stolen, g, shadow'[w])
  BY <1>4, <1>5, <1>8
<1>10. \A v \in Workers \ {w} : OnStack(v) => Stacklet(o, g) \cap Stack(v) = {}
  <2>1. OnStack(w)
    BY <1>1 DEF OnStack
  <2>2. \A v \in Workers \ {w} : OnStack(v) => Stacklet(o, f) \cap Stack(v) = {}
    BY <1>6, <2>1 DEF SchedulerInv, Stacks
  <2> QED BY <1>4, <1>8, <2>2
<1>11. \A h \in Frames : Ahead(h)' \subseteq Ahead(h)
  BY <1>1, <1>3, <1>6, AdvanceType DEF f
<1>12. \A h \in Frames : Ahead(h)' \cap Stacklet(o, g) = {}
  <2>1. OnStack(w)
    BY <1>1 DEF OnStack
  <2>2. \A h \in Frames : Ahead(h) \cap Stacklet(o, f) = {}
    BY <1>6, <2>1 DEF SchedulerInv, Unbegun
  <2> QED BY <1>4, <1>8, <1>11, <2>2
<1> QED BY <1>2, <1>5, <1>9, <1>10, <1>11, <1>12, MovesKeep DEF b, p, o

\* A return to a caller that was not stolen keeps the invariant.
LEMMA LeaveKeep ==
  ASSUME SchedulerInv, NEW w \in Workers, LeaveCalled(w) \/ LeavePop(w), TypeOK'
  PROVE  SchedulerInv'
<1> DEFINE f == cur[w]
           g == CallParent(f)
           c == dq[w]
           o == Outer(c)
           s == shadow[w]
           b == clo[c].frame
           p == clo[c].spawn_parent
<1>1. wst[w] = "run" /\ TypeOK
  BY DEF LeaveCalled, LeavePop, Leaving, Unwound, Unwinding, Running, SchedulerInv
<1>2. AtWork(w)
  BY <1>1, RunFacts
<1>3. BaseOf(o, b, p) /\ FitsStack(o, b, p, stolen, f, s) /\ f \in Frames /\ s \in Seq(Frames) /\ Stack(w) = Stacklet(o, f)
  BY <1>2 DEF AtWork
<1>4. f \in Frames \ Roots /\ g \in Frames
  <2>1. f \notin Roots
    BY DetachedBelow DEF LeaveCalled, LeavePop
  <2> QED BY <1>3, <2>1, CallParentIs
<1>5. Moves(w) /\ cur'[w] = g /\ shadow'[w] = (IF LeaveCalled(w) THEN s ELSE Front(s)) /\ at' = at
  <2>1. cur \in [Workers -> Ptr(Frames)] /\ shadow \in [Workers -> Seq(Frames)]
    BY <1>1 DEF TypeOK
  <2>2. g # 0
    BY <1>4, FramesPositive
  <2>3. CASE LeaveCalled(w)
    BY <2>1, <2>2, <2>3 DEF LeaveCalled, Moves, Same, Set, worker, deque, flags
  <2>4. CASE LeavePop(w) /\ ~LeaveCalled(w)
    BY <2>1, <2>2, <2>4 DEF LeavePop, Moves, Same, Set, worker, flags
  <2> QED BY <2>3, <2>4
<1>6. LeaveCalled(w) => ~Detached(f) /\ f \notin stolen
  BY DEF LeaveCalled
<1>7. ~LeaveCalled(w) => Detached(f) /\ s # <<>>
  BY DEF LeavePop
<1> HIDE DEF f, s, b, p, o
<1>8. Stacklet(o, g) \subseteq Stacklet(o, f) /\ FitsStack(o, b, p, stolen, g, shadow'[w])
  <2>1. CASE LeaveCalled(w)
    BY <1>3, <1>4, <1>5, <1>6, <2>1, StackReturn
  <2>2. CASE ~LeaveCalled(w)
    BY <1>3, <1>4, <1>5, <1>7, <2>2, StackPop
  <2> QED BY <2>1, <2>2
<1>9. OnStack(w)
  BY <1>1 DEF OnStack
<1>10. \A v \in Workers \ {w} : OnStack(v) => Stacklet(o, g) \cap Stack(v) = {}
  BY <1>3, <1>8, <1>9 DEF SchedulerInv, Stacks
<1>11. \A h \in Frames : Ahead(h)' \subseteq Ahead(h) /\ Ahead(h)' \cap Stacklet(o, g) = {}
  <2>1. \A h \in Frames : Ahead(h)' = Ahead(h)
    BY <1>5 DEF Ahead
  <2>2. \A h \in Frames : Ahead(h) \cap Stacklet(o, f) = {}
    BY <1>3, <1>9 DEF SchedulerInv, Unbegun
  <2> QED BY <1>8, <2>1, <2>2
<1> HIDE DEF g
<1> QED BY <1>2, <1>5, <1>8, <1>10, <1>11, MovesKeep DEF b, p, o
-----------------------------------------------------------------------------
(* Steps that leave the closures where they are *)

\* No closure changes its place or its children.
SameLists == \A c \in Closures : /\ SamePlace(clo, clo', c) /\ SameList(clo, clo', c)
                                 /\ Dead(clo, c) => clo'[c] = clo[c]

\* Then the lists are the same.
LEMMA SameListsKeep ==
  ASSUME SchedulerInv, SameFrames, SameLists
  PROVE  Lists(clo)' /\ Blank'
<1>1. Extends(clo, clo')
  BY DEF SameFrames, SameLists, Extends
<1>2. Lists(clo')
  BY <1>1, ListsExtends DEF SchedulerInv
<1>3. Blank'
  BY DEF SchedulerInv, SameFrames, SameLists, Blank, Dead, Live
<1> QED BY <1>2, <1>3

\* The states of a worker that returns a closure.
Returning(x) == x \in {"has", "exn", "red", "relock"}

\* A step that changes neither a status nor a stack.
Quiet(w) ==
  /\ UNCHANGED <<cl, dq, cur, shadow, stolen, unsynced>> /\ Same(wst, w)
  /\ \A c \in Closures : clo'[c].status = clo[c].status
  /\ wst'[w] = wst[w] \/ (Returning(wst[w]) /\ Returning(wst'[w]) /\ clo[cl[w]].status = "RETURNING")
  /\ SameFrames /\ SameLists
  /\ \A f \in Frames : Ahead(f)' \subseteq Ahead(f)

\* A quiet step keeps the invariant.
LEMMA QuietKeeps ==
  ASSUME SchedulerInv, TypeOK', NEW w \in Workers, Quiet(w)
  PROVE  SchedulerInv'
<1>1. /\ cl' = cl /\ dq' = dq /\ cur' = cur /\ shadow' = shadow /\ stolen' = stolen /\ unsynced' = unsynced
      /\ \A v \in Workers : wst'[v] = wst[v] \/
           (v = w /\ Returning(wst[v]) /\ Returning(wst'[v]) /\ clo[cl[v]].status = "RETURNING")
      /\ SameFrames /\ SameLists
      /\ \A c \in Closures : clo'[c].status = clo[c].status
  BY DEF Quiet, Same
<1>2. TypeOK
  BY DEF SchedulerInv
<1>3. \A v \in Workers : wst[v] \in {"run", "back", "promote", "finish"} \/ wst'[v] \in {"run", "back", "promote", "finish"}
        => wst'[v] = wst[v]
  BY <1>1 DEF Returning
<1>4. Live' = Live /\ Promoting' = Promoting /\ Finishing' = Finishing
  <2>1. Live' = Live
    BY <1>1 DEF Live
  <2>2. \A v \in Workers : wst'[v] = "promote" <=> wst[v] = "promote"
    BY <1>3
  <2>3. \A v \in Workers : wst'[v] \in {"promote", "finish"} <=> wst[v] \in {"promote", "finish"}
    BY <1>3
  <2>4. Promoting' = Promoting
    BY <1>1, <2>2 DEF Promoting
  <2>5. Finishing' = Finishing
    BY <1>1, <2>3 DEF Finishing
  <2> QED BY <2>1, <2>4, <2>5
<1>5. Owners'
  <2>1. ASSUME NEW v \in Workers PROVE HoldsOne(v)'
    <3>1. HoldsOne(v)
      BY DEF SchedulerInv, Owners
    <3>2. cl[v] # 0 => cl[v] \in Closures
      BY <1>2 DEF TypeOK, Ptr
    <3>3. dq[v] # 0 => dq[v] \in Closures
      BY <1>2 DEF TypeOK, Ptr
    <3>4. cl[v] # 0 => clo'[cl[v]].status = clo[cl[v]].status /\ clo'[cl[v]].frame = clo[cl[v]].frame
                       /\ clo'[cl[v]].call_parent = clo[cl[v]].call_parent
      BY <1>1, <3>2 DEF SameFrames
    <3>5. dq[v] # 0 => clo'[dq[v]].status = clo[dq[v]].status
      BY <1>1, <3>3
    <3>6. CASE wst'[v] = wst[v]
      BY <1>1, <3>1, <3>4, <3>5, <3>6 DEF HoldsOne
    <3>7. CASE Returning(wst[v]) /\ Returning(wst'[v]) /\ clo[cl[v]].status = "RETURNING"
      <4>1. cl[v] # 0 /\ dq[v] = 0
        BY <3>1, <3>7 DEF HoldsOne, Returning
      <4> QED BY <1>1, <3>4, <3>7, <4>1 DEF HoldsOne, Returning
    <3> QED BY <1>1, <3>6, <3>7
  <2> QED BY <1>1, <2>1 DEF SchedulerInv, Owners, Holds
<1>6. Lists(clo)' /\ Blank'
  BY <1>1, SameListsKeep
<1>7. Named' /\ (\A c \in Live : Placed(c))' /\ Callees'
  <2>1. \A c \in Live : clo[c].has_cilk_callee => clo'[c].status = "SUSPENDED"
    BY <1>1 DEF SchedulerInv, Callees, Live
  <2> QED BY <1>1, <1>4, <2>1, PlacesSame
<1>8. \A c \in Closures : /\ clo'[c].status = clo[c].status /\ clo'[c].has_cilk_callee = clo[c].has_cilk_callee
                          /\ clo'[c].join_counter = clo[c].join_counter /\ clo'[c].frame = clo[c].frame
                          /\ clo'[c].spawn_parent = clo[c].spawn_parent
  BY <1>1 DEF SameFrames, SameLists, SameList
<1>9. NoLostWakeup'
  BY <1>4, <1>8 DEF SchedulerInv, NoLostWakeup, HasChildren, Live
<1>10. Unsynched'
  BY <1>1, <1>4, <1>8 DEF SchedulerInv, Unsynched, Live
<1>11. Stacks' /\ Unbegun'
  <2>1. OthersSame(w)
    BY <1>1 DEF OthersSame, Same
  <2>2. \A f \in Frames : Ahead(f)' \subseteq Ahead(f)
    BY DEF Quiet
  <2>3. ASSUME OnStack(w)' PROVE Stack(w)' = Stack(w) /\ StackFits(w)' /\ OnStack(w)
    <3>1. wst'[w] = wst[w] /\ OnStack(w)
      BY <1>3, <2>3 DEF OnStack
    <3>2. Bottom(w) \in Closures /\ (wst[w] = "run" \/ cl[w] \in Closures)
      BY <3>1, RunFacts, PromoteFacts DEF OnStack, AtWork, AtPromote
    <3>3. StackFits(w) /\ Placed(Bottom(w))
      BY <3>1, <3>2, RunFacts, PromoteFacts DEF SchedulerInv, Stacks, OnStack, AtWork, AtPromote
    <3>4. clo[Bottom(w)].spawn_parent # 0 => clo[Bottom(w)].spawn_parent \in Closures
      BY <3>3 DEF Placed, Live
    <3> QED BY <1>1, <3>1, <3>2, <3>3, <3>4, KeepStack DEF SameFrames
  <2>4. ASSUME OnStack(w)'
        PROVE  /\ StackFits(w)' /\ \A f \in Frames : Ahead(f)' \cap Stack(w)' = {}
               /\ \A v \in Workers \ {w} : OnStack(v) => Stack(w)' \cap Stack(v) = {}
    <3>1. \A f \in Frames : Ahead(f) \cap Stack(w) = {}
      BY <2>3, <2>4 DEF SchedulerInv, Unbegun
    <3>2. \A v \in Workers \ {w} : OnStack(v) => Stack(w) \cap Stack(v) = {}
      BY <2>3, <2>4 DEF SchedulerInv, Stacks
    <3> QED BY <2>2, <2>3, <2>4, <3>1, <3>2
  <2> QED BY <1>1, <2>1, <2>2, <2>4, StacksMove
<1> QED BY <1>5, <1>6, <1>7, <1>9, <1>10, <1>11 DEF SchedulerInv

-----------------------------------------------------------------------------
(* Updates of closures *)

\* The values of clo.
Trees == [Closures -> Closure]

\* What Upd computes.
LEMMA UpdIs ==
  ASSUME NEW C \in Trees, NEW c \in Closures \cup {0}, NEW r, c # 0 => r \in Closure
  PROVE  /\ Upd(C, c, r) \in Trees
         /\ \A k \in Closures : Upd(C, c, r)[k] = IF k = c THEN r ELSE C[k]
<1>1. CASE c = 0
  BY <1>1, NotNull DEF Upd, Trees
<1>2. CASE c # 0
  BY <1>2 DEF Upd, Trees
<1> QED BY <1>1, <1>2

\* Closures q and r differ in nothing but what a return hands over.
Alike(q, r) ==
  /\ r.status = q.status /\ r.frame = q.frame /\ r.join_counter = q.join_counter
  /\ r.has_cilk_callee = q.has_cilk_callee /\ r.call_parent = q.call_parent /\ r.spawn_parent = q.spawn_parent
  /\ r.left_sib = q.left_sib /\ r.right_sib = q.right_sib /\ r.right_most_child = q.right_most_child

\* The closures of trees C and D are alike.
AllAlike(C, D) == \A c \in Closures : Alike(C[c], D[c]) /\ (Dead(C, c) => D[c] = C[c])

\* A closure replaced by one like it.
LEMMA UpdAlike ==
  ASSUME NEW C \in Trees, NEW c \in Closures \cup {0}, NEW r,
         c # 0 => r \in Closure /\ Alike(C[c], r) /\ ~Dead(C, c)
  PROVE  Upd(C, c, r) \in Trees /\ AllAlike(C, Upd(C, c, r))
<1>1. \A k \in Closures : Upd(C, c, r)[k] = IF k = c THEN r ELSE C[k]
  BY UpdIs
<1>2. \A k \in Closures : Alike(C[k], C[k])
  BY DEF Alike
<1>3. \A k \in Closures : k = c => c # 0
  BY NotNull
<1> QED BY <1>1, <1>2, <1>3, UpdIs DEF AllAlike

\* One replacement after the other.
LEMMA AlikeTwice ==
  ASSUME NEW C, NEW D, NEW E, AllAlike(C, D), AllAlike(D, E)
  PROVE  AllAlike(C, E)
BY DEF AllAlike, Alike, Dead

\* A step that leaves all closures alike moves none of them.
LEMMA AlikeSame ==
  ASSUME AllAlike(clo, clo')
  PROVE  SameFrames /\ SameLists /\ \A c \in Closures : clo'[c].status = clo[c].status
<1>1. \A c \in Closures : Alike(clo[c], clo'[c]) /\ (Dead(clo, c) => clo'[c] = clo[c])
  BY DEF AllAlike
<1>2. SameFrames
  BY <1>1 DEF Alike, SameFrames, Dead
<1>3. SameLists
  BY <1>1 DEF Alike, SameLists, SamePlace, SameList
<1> QED BY <1>1, <1>2, <1>3 DEF Alike

\* An exception field of a closure changes.
LEMMA ExnFields ==
  ASSUME NEW r \in Closure, NEW x \in Nat, NEW y \in Nat, NEW f \in {"right_exn", "child_exn", "user_exn"}
  PROVE  /\ [r EXCEPT ![f] = x] \in Closure /\ Alike(r, [r EXCEPT ![f] = x])
         /\ [r EXCEPT !.right_exn = x, !.user_exn = y] \in Closure
         /\ Alike(r, [r EXCEPT !.right_exn = x, !.user_exn = y])
<1>1. CASE f = "right_exn"
  BY <1>1 DEF Closure, Alike
<1>2. CASE f = "child_exn"
  BY <1>2 DEF Closure, Alike
<1>3. CASE f = "user_exn"
  BY <1>3 DEF Closure, Alike
<1>4. [r EXCEPT !.right_exn = x, !.user_exn = y] \in Closure /\ Alike(r, [r EXCEPT !.right_exn = x, !.user_exn = y])
  BY DEF Closure, Alike
<1> QED BY <1>1, <1>2, <1>3, <1>4

\* A map deposited with a closure.
LEMMA MapFields ==
  ASSUME NEW r \in Closure, NEW x \in Maps, NEW f \in {"right_rmap", "child_rmap"}
  PROVE  /\ [r EXCEPT ![f] = x] \in Closure /\ Alike(r, [r EXCEPT ![f] = x]) /\ r[f] \in Maps
<1> HIDE DEF Maps
<1>1. CASE f = "right_rmap"
  BY <1>1 DEF Closure, Alike
<1>2. CASE f = "child_rmap"
  BY <1>2 DEF Closure, Alike
<1> QED BY <1>1, <1>2

-----------------------------------------------------------------------------
(* Quiet steps *)

\* The smallest of a set of numbers exists.
LEMMA SmallestIs ==
  ASSUME NEW S \in SUBSET Nat, S # {}
  PROVE  Smallest(S) \in S /\ \A y \in S : Smallest(S) <= y
<1> DEFINE R == {ss \in Nat \X Nat : ss[1] < ss[2]}
<1>1. IsWellFoundedOn(R, Nat)
  BY NatLessThanWellFounded DEF OpToRel
<1>2. PICK x \in S : \A y \in S : ~ (<<y, x>> \in R)
  <2> HIDE DEF R
  <2> QED BY <1>1, WFMin
<1>3. ASSUME NEW y \in S PROVE x <= y
  <2>1. x \in Nat /\ y \in Nat /\ ~ (<<y, x>> \in R)
    BY <1>2
  <2>2. ~ (y < x)
    BY <2>1
  <2> QED BY <2>1, <2>2
<1> QED BY <1>3 DEF Smallest

\* Updates in program order and exceptions.
LEMMA UserQuiet ==
  ASSUME SchedulerInv, NEW w \in Workers,
         Update(w) \/ Throw(w) \/ EndTry(w) \/ (Sync(w) /\ cur[w] \notin unsynced)
  PROVE  Quiet(w) /\ TypeOK'
<1>1. wst[w] = "run" /\ TypeOK
  BY DEF Update, Throw, EndTry, Sync, AtOp, Running, SchedulerInv
<1>2. AtWork(w)
  BY <1>1, RunFacts
<1>3. cur[w] \in Frames
  BY <1>2 DEF AtWork
<1>4. Advance(w)
  BY DEF Update, Throw, EndTry, Sync
<1>5. at' \in [Frames -> Nat \ {0}] /\ \A f \in Frames : Ahead(f)' \subseteq Ahead(f)
  BY <1>1, <1>3, <1>4, AdvanceType
<1>6. UNCHANGED <<wst, cl, dq, cur, shadow, ftf, on, stolen, unsynced, pending, caught, sp, clo, mutex, fibers, exiting>>
  BY DEF Update, Throw, EndTry, Sync, CilkSync, worker, deque, flags
<1>7. Quiet(w)
  <2>1. AllAlike(clo, clo')
    BY <1>6 DEF AllAlike, Alike
  <2>2. SameFrames /\ SameLists /\ \A c \in Closures : clo'[c].status = clo[c].status
    BY <2>1, AlikeSame
  <2> QED BY <1>5, <1>6, <2>2 DEF Quiet, Same
<1>8. rmap' \in [Workers -> Maps]
  <2>1. CASE Update(w)
    <3>1. Arg(w) \in Nat
      <4>1. AtOp(w, "update")
        BY <2>1 DEF Update
      <4>2. Code[cur[w]][at[cur[w]]] \in Operation /\ Code[cur[w]][at[cur[w]]][1] = "update"
        BY <1>1, <1>3, <4>1, NextOp
      <4> QED BY <4>2 DEF Operation, Arg
    <3>2. rmap \in [Workers -> Seq(Nat)]
      BY <1>1 DEF TypeOK, Maps
    <3> QED BY <2>1, <3>1, <3>2 DEF Update, Set, Maps
  <2>2. CASE ~Update(w)
    BY <1>1, <2>2 DEF Throw, EndTry, Sync, CilkSync, TypeOK
  <2> QED BY <2>1, <2>2
<1>9. inflight' \in [Frames -> Nat]
  <2>1. CASE Throw(w)
    <3>1. Arg(w) \in Nat
      <4>1. AtOp(w, "throw")
        BY <2>1 DEF Throw
      <4>2. Code[cur[w]][at[cur[w]]] \in Operation /\ Code[cur[w]][at[cur[w]]][1] = "throw"
        BY <1>1, <1>3, <4>1, NextOp
      <4> QED BY <4>2 DEF Operation, Arg
    <3>2. inflight \in [Frames -> Nat]
      BY <1>1 DEF TypeOK
    <3> QED BY <2>1, <3>1, <3>2 DEF Throw
  <2>2. CASE ~Throw(w)
    BY <1>1, <2>2 DEF Update, EndTry, Sync, TypeOK
  <2> QED BY <2>1, <2>2
<1>10. TypeOK'
  BY <1>1, <1>5, <1>6, <1>8, <1>9 DEF TypeOK
<1> QED BY <1>7, <1>10

\* An exception raised after a sync is a quiet step.
LEMMA RaiseQuiet ==
  ASSUME SchedulerInv, NEW w \in Workers, CheckException(w) \/ Reraise(w)
  PROVE  Quiet(w) /\ TypeOK'
<1> DEFINE f == cur[w]
           t == dq[w]
<1>1. wst[w] = "run" /\ TypeOK /\ RaiseUserExn(w)
  BY DEF CheckException, Reraise, Unwinding, Running, SchedulerInv
<1>2. f \in Frames /\ t \in Closures /\ t \in Live
  BY <1>1, RunFacts DEF AtWork
<1>3. clo \in Trees /\ clo[t] \in Closure /\ clo[t].user_exn \in Nat
  BY <1>1, <1>2 DEF TypeOK, Trees, Closure
<1>4. clo' = Upd(clo, t, [clo[t] EXCEPT !.user_exn = 0]) /\ inflight' = [inflight EXCEPT ![f] = clo[t].user_exn]
      /\ pending' = pending \ {f}
      /\ UNCHANGED <<wst, cl, cur, shadow, dq, rmap, ftf, on, at, stolen, unsynced, sp, caught, mutex, fibers, exiting>>
  BY <1>1 DEF RaiseUserExn, worker, deque
<1> DEFINE r == [clo[t] EXCEPT !["user_exn"] = 0]
<1>5. r \in Closure /\ Alike(clo[t], r)
  BY <1>3, ExnFields
<1>6. clo' = Upd(clo, t, r)
  BY <1>4
<1>7. ~Dead(clo, t)
  BY <1>2 DEF Live, Dead
<1> HIDE DEF r
<1>8. clo' \in Trees /\ AllAlike(clo, clo')
  BY <1>2, <1>3, <1>5, <1>6, <1>7, UpdAlike
<1>9. Quiet(w)
  <2>1. SameFrames /\ SameLists /\ \A c \in Closures : clo'[c].status = clo[c].status
    BY <1>8, AlikeSame
  <2>2. \A h \in Frames : Ahead(h)' = Ahead(h)
    BY <1>4 DEF Ahead
  <2> QED BY <1>4, <2>1, <2>2 DEF Quiet, Same
<1>10. inflight' \in [Frames -> Nat] /\ pending' \subseteq Frames
  BY <1>1, <1>3, <1>4 DEF TypeOK
<1>11. TypeOK'
  BY <1>1, <1>4, <1>8, <1>10 DEF TypeOK, Trees
<1> QED BY <1>9, <1>11

\* So is one that is caught.
LEMMA CatchQuiet ==
  ASSUME SchedulerInv, NEW w \in Workers, Catch(w)
  PROVE  Quiet(w) /\ TypeOK'
<1> DEFINE f == cur[w]
           t == dq[w]
           synced == clo[t].parent_rsp # 0
           m == CHOOSE i \in Handlers(f) : \A j \in Handlers(f) : i <= j
<1>1. wst[w] = "run" /\ TypeOK /\ Handlers(f) # {}
  BY DEF Catch, Unwound, Unwinding, Running, SchedulerInv
<1>2. f \in Frames /\ t \in Closures /\ t \in Live
  BY <1>1, RunFacts DEF AtWork
<1>3. clo \in Trees /\ clo[t] \in Closure
  BY <1>1, <1>2 DEF TypeOK, Trees
<1>4. /\ at' = [at EXCEPT ![f] = 1 + m]
      /\ caught' = caught \cup {inflight[f]} /\ inflight' = [inflight EXCEPT ![f] = 0]
      /\ on' = Set(on, w, IF synced THEN clo[t].parent_rsp ELSE clo[t].fiber)
      /\ clo' = IF synced THEN Upd(clo, t, [clo[t] EXCEPT !.parent_rsp = 0, !.saved_throwing_fiber = 0]) ELSE clo
      /\ fibers' = IF synced THEN Freed({clo[t].saved_throwing_fiber}) ELSE fibers
      /\ UNCHANGED <<wst, cl, cur, shadow, dq, rmap, ftf, stolen, unsynced, pending, sp, mutex, exiting>>
  BY DEF Catch, worker, deque, flags
<1>5. m \in Nat /\ m >= at[f] /\ at[f] \in Nat
  <2>1. Handlers(f) \subseteq Nat
    <3>1. Code[f] \in Seq(Operation)
      BY <1>2, SchedulerAssumption
    <3> QED BY <3>1 DEF Handlers
  <2>2. m = Smallest(Handlers(f))
    BY DEF Smallest
  <2>3. m \in Handlers(f)
    BY <1>1, <2>1, <2>2, SmallestIs
  <2> QED BY <1>1, <1>2, <2>1, <2>3 DEF Handlers, TypeOK
<1> HIDE DEF m
<1>6. at' \in [Frames -> Nat \ {0}] /\ \A h \in Frames : at'[h] >= at[h] /\ at[h] \in Nat /\ at'[h] \in Nat
  <2>1. at \in [Frames -> Nat \ {0}] /\ 1 + m \in Nat \ {0} /\ 1 + m >= at[f]
    BY <1>1, <1>5 DEF TypeOK
  <2>2. \A h \in Frames : at'[h] = IF h = f THEN 1 + m ELSE at[h]
    BY <1>4, <2>1
  <2>3. at' \in [Frames -> Nat \ {0}]
    BY <1>4, <2>1
  <2>4. ASSUME NEW h \in Frames PROVE at'[h] >= at[h] /\ at[h] \in Nat /\ at'[h] \in Nat
    <3>1. at[h] \in Nat
      BY <2>1
    <3> QED BY <2>1, <2>2, <3>1
  <2> QED BY <2>3, <2>4
<1> DEFINE r == [clo[t] EXCEPT !.parent_rsp = 0, !.saved_throwing_fiber = 0]
<1>7. r \in Closure /\ Alike(clo[t], r)
  <2>1. 0 \in Ptr(Fibers)
    BY DEF Ptr
  <2> QED BY <1>3, <2>1 DEF Closure, Alike
<1>8. ~Dead(clo, t)
  BY <1>2 DEF Live, Dead
<1> HIDE DEF r
<1>9. clo' \in Trees /\ AllAlike(clo, clo')
  <2>1. Upd(clo, t, r) \in Trees /\ AllAlike(clo, Upd(clo, t, r))
    BY <1>2, <1>3, <1>7, <1>8, UpdAlike
  <2>2. AllAlike(clo, clo)
    BY DEF AllAlike, Alike
  <2> QED BY <1>3, <1>4, <2>1, <2>2 DEF r
<1>10. Quiet(w)
  <2>1. SameFrames /\ SameLists /\ \A c \in Closures : clo'[c].status = clo[c].status
    BY <1>9, AlikeSame
  <2>2. \A h \in Frames : Ahead(h)' \subseteq Ahead(h)
    BY <1>6, AheadLess
  <2> QED BY <1>4, <2>1, <2>2 DEF Quiet, Same
<1>11. inflight' \in [Frames -> Nat] /\ caught' \subseteq Nat
  BY <1>1, <1>2, <1>4 DEF TypeOK
<1>12. clo[t].parent_rsp \in Ptr(Fibers) /\ clo[t].fiber \in Ptr(Fibers) /\ clo[t].saved_throwing_fiber \in Ptr(Fibers)
  BY <1>3 DEF Closure
<1>13. on' \in [Workers -> Ptr(Fibers)] /\ fibers' \subseteq Fibers
  <2>1. on' \in [Workers -> Ptr(Fibers)]
    BY <1>1, <1>4, <1>12 DEF TypeOK, Set
  <2>2. fibers' \subseteq Fibers
    BY <1>1, <1>4, <1>12 DEF TypeOK, Freed, Ptr
  <2> QED BY <2>1, <2>2
<1>14. TypeOK'
  BY <1>1, <1>4, <1>6, <1>9, <1>11, <1>13 DEF TypeOK, Trees
<1> QED BY <1>10, <1>14

-----------------------------------------------------------------------------
(* Closure_return, before the child leaves the tree *)

\* The siblings of a child are children of the same parent.
LEMMA SiblingsLive ==
  ASSUME Lists(clo), clo \in Trees, NEW c \in Live, clo[c].spawn_parent \in Live
  PROVE  LET p == clo[c].spawn_parent
             l == clo[c].left_sib
             r == clo[c].right_sib IN
         /\ l # 0 => l \in Kids(clo, p) /\ l # c
         /\ r # 0 => r \in Kids(clo, p) /\ r # c
         /\ (l = 0 \/ r = 0 \/ l # r) /\ clo[p].join_counter \in Nat \ {0}
         /\ clo[p].right_most_child # 0 /\ clo[p].right_most_child \in Kids(clo, p)
<1> DEFINE p == clo[c].spawn_parent
           n == clo[p].join_counter
           l == clo[c].left_sib
           r == clo[c].right_sib
<1>1. p \in Closures /\ clo[p].status # "FREE" /\ c \in Kids(clo, p)
  BY DEF Live, Kids
<1>2. PICK s \in [1 .. n -> Kids(clo, p)] : Linked(clo, p, s)
  BY <1>1 DEF Lists
<1>3. n \in Nat
  BY SMTT(30), <1>1 DEF Trees, Closure
<1>4. PICK m \in 1 .. n : s[m] = c
  BY SMTT(30), <1>1, <1>2 DEF Linked
<1>5. l = (IF m = 1 THEN 0 ELSE s[m - 1]) /\ r = (IF m = n THEN 0 ELSE s[m + 1])
      /\ \A i, j \in 1 .. n : s[i] = s[j] => i = j
  BY SMTT(30), <1>2, <1>4 DEF Linked
<1>6. clo[p].right_most_child = IF n = 0 THEN 0 ELSE s[n]
  BY <1>2 DEF Linked
<1>7. (m # 1 => m - 1 \in 1 .. n /\ m - 1 # m) /\ (m # n => m + 1 \in 1 .. n /\ m + 1 # m) /\ m - 1 # m + 1 /\ n # 0 /\ n \in 1 .. n
  BY <1>3, <1>4
<1>8. 0 \notin Kids(clo, p)
  BY NotNull DEF Kids
<1> HIDE DEF n, p, l, r
<1>9. l # 0 => l \in Kids(clo, p) /\ l # c
  BY <1>2, <1>4, <1>5, <1>7
<1>10. r # 0 => r \in Kids(clo, p) /\ r # c
  BY <1>2, <1>4, <1>5, <1>7
<1>11. l = 0 \/ r = 0 \/ l # r
  BY <1>5, <1>7
<1>12. clo[p].right_most_child # 0 /\ clo[p].right_most_child \in Kids(clo, p)
  BY <1>2, <1>6, <1>7, <1>8
<1> QED BY <1>3, <1>7, <1>9, <1>10, <1>11, <1>12 DEF n, p, l, r

\* A worker that returns its closure.
AtReturn(w) ==
  LET c == cl[w]
      p == clo[c].spawn_parent IN
  /\ w \in Workers /\ dq[w] = 0 /\ c \in Closures /\ c # 0 /\ c \in Live
  /\ clo[c].status = "RETURNING" /\ clo[c].join_counter = 0 /\ ~clo[c].has_cilk_callee
  /\ p # 0 /\ p \in Closures /\ p \in Live /\ p # c /\ p = Parent(w) /\ clo[p].frame # 0
  /\ LeftOf(c) \in Closures /\ LeftOf(c) \in Live /\ LeftOf(c) # c
  /\ TypeOK /\ clo \in Trees /\ clo[c] \in Closure /\ clo[LeftOf(c)] \in Closure

\* A worker that returns a closure.
LEMMA ReturnFacts ==
  ASSUME SchedulerInv, NEW w \in Workers, wst[w] \in {"has", "exn", "red", "relock"},
         clo[cl[w]].status = "RETURNING"
  PROVE  AtReturn(w)
<1> DEFINE c == cl[w]
           p == clo[c].spawn_parent
<1>1. HoldsOne(w) /\ TypeOK /\ clo \in Trees /\ Lists(clo)
  BY DEF SchedulerInv, Owners, TypeOK, Trees
<1>2. c # 0 /\ dq[w] = 0
  BY <1>1 DEF HoldsOne
<1>3. c \in Closures /\ c \in Live
  BY <1>1, <1>2 DEF TypeOK, Ptr, Live
<1>4. clo[c].join_counter = 0 /\ p # 0
  BY <1>3 DEF SchedulerInv, Unsynched
<1>5. p \in Live /\ p # c /\ clo[p].frame # 0
  BY <1>3, <1>4 DEF SchedulerInv, Placed
<1>6. LeftOf(c) \in Live /\ LeftOf(c) # c
  <2>1. clo[c].left_sib # 0 => clo[c].left_sib \in Kids(clo, p) /\ clo[c].left_sib # c
    BY <1>1, <1>3, <1>5, SiblingsLive
  <2> QED BY <1>5, <2>1 DEF LeftOf, Kids, Live
<1>7. ~clo[c].has_cilk_callee
  BY <1>3 DEF SchedulerInv, Callees
<1>8. p \in Closures /\ LeftOf(c) \in Closures /\ p = Parent(w)
  BY <1>5, <1>6 DEF Live, Parent
<1> QED BY <1>1, <1>2, <1>3, <1>4, <1>5, <1>6, <1>7, <1>8 DEF AtReturn, Trees

\* The place to the left of a closure.
LEMMA PutLeftIs ==
  ASSUME clo \in Trees, NEW c \in Live, LeftOf(c) \in Live, LeftOf(c) # c, NEW f1, NEW f2, NEW x,
         \/ f1 = "right_exn" /\ f2 = "child_exn" /\ x \in Nat
         \/ f1 = "right_rmap" /\ f2 = "child_rmap" /\ x \in Maps
  PROVE  /\ PutLeft(clo, c, f1, f2, x) \in Trees /\ AllAlike(clo, PutLeft(clo, c, f1, f2, x))
         /\ PutLeft(clo, c, f1, f2, x)[c] = clo[c]
         /\ f1 = "right_exn" => Left(c, f1, f2) \in Nat
         /\ f1 = "right_rmap" => Left(c, f1, f2) \in Maps
<1> DEFINE u == LeftOf(c)
           f == LeftField(c, f1, f2)
           r == [clo[u] EXCEPT ![f] = x]
<1>1. u \in Closures /\ c \in Closures /\ clo[u] \in Closure /\ ~Dead(clo, u)
  BY DEF Live, Trees, Dead
<1>2. f = f1 \/ f = f2
  BY DEF LeftField
<1> HIDE DEF f
<1>3. r \in Closure /\ Alike(clo[u], r)
  <2>1. CASE f1 = "right_exn" /\ f2 = "child_exn" /\ x \in Nat
    BY <1>1, <1>2, <2>1, ExnFields
  <2>2. CASE f1 = "right_rmap" /\ f2 = "child_rmap" /\ x \in Maps
    BY <1>1, <1>2, <2>2, MapFields
  <2> QED BY <2>1, <2>2
<1>4. Left(c, f1, f2) = clo[u][f] /\ PutLeft(clo, c, f1, f2, x) = Upd(clo, u, r)
  BY DEF Left, PutLeft, f
<1>5. f1 = "right_exn" => Left(c, f1, f2) \in Nat
  BY <1>1, <1>2, <1>4 DEF Closure
<1>6. f1 = "right_rmap" => Left(c, f1, f2) \in Maps
  BY <1>1, <1>2, <1>4, MapFields
<1> HIDE DEF r, u
<1>7. Upd(clo, u, r) \in Trees /\ AllAlike(clo, Upd(clo, u, r)) /\ \A k \in Closures : Upd(clo, u, r)[k] = IF k = u THEN r ELSE clo[k]
  BY <1>1, <1>3, UpdAlike, UpdIs
<1> QED BY <1>1, <1>4, <1>5, <1>6, <1>7 DEF u

\* Taking and releasing the two locks of a return.
LEMMA LocksType ==
  ASSUME mutex \in [Closures -> Ptr(Workers)], NEW w \in Workers, Lock2(w) \/ Unlock2(w)
  PROVE  mutex' \in [Closures -> Ptr(Workers)]
<1>1. w \in Ptr(Workers) /\ 0 \in Ptr(Workers)
  BY DEF Ptr
<1> QED BY <1>1 DEF Lock2, Unlock2

\* Entering Closure_return and taking the locks again are quiet steps.
LEMMA StartQuiet ==
  ASSUME SchedulerInv, NEW w \in Workers, ExecuteReturning(w) \/ Relock(w)
  PROVE  Quiet(w) /\ TypeOK'
<1>1. TypeOK /\ HoldsOne(w)
  BY DEF SchedulerInv, Owners
<1>2. /\ wst[w] \in {"has", "relock"} /\ wst' = Set(wst, w, IF wst[w] = "has" THEN "exn" ELSE "red")
      /\ clo[cl[w]].status = "RETURNING"
      /\ UNCHANGED <<cl, dq, cur, shadow, rmap, ftf, on, at, inflight, caught, stolen, unsynced, pending, sp, clo, fibers, exiting>>
  BY <1>1 DEF ExecuteReturning, Relock, HoldsOne, deque, program, flags
<1>3. mutex' \in [Closures -> Ptr(Workers)]
  <2>1. CASE Relock(w)
    BY <1>1, <2>1, LocksType DEF Relock, TypeOK
  <2>2. CASE ExecuteReturning(w)
    BY <1>1, <2>2 DEF ExecuteReturning, TypeOK
  <2> QED BY <2>1, <2>2
<1>4. wst' \in [Workers -> WorkerState]
  BY <1>1, <1>2 DEF TypeOK, WorkerState, Set
<1>5. Quiet(w)
  <2>1. AllAlike(clo, clo')
    BY <1>2 DEF AllAlike, Alike
  <2>2. SameFrames /\ SameLists /\ \A c \in Closures : clo'[c].status = clo[c].status
    BY <2>1, AlikeSame
  <2>3. \A f \in Frames : Ahead(f)' = Ahead(f)
    BY <1>2 DEF Ahead
  <2>4. wst'[w] = IF wst[w] = "has" THEN "exn" ELSE "red"
    BY <1>1, <1>2 DEF TypeOK, Set
  <2>5. Same(wst, w)
    BY <1>1, <1>2 DEF TypeOK, Set, Same
  <2> QED BY <1>2, <2>2, <2>3, <2>4, <2>5 DEF Quiet, Returning
<1>6. TypeOK'
  BY <1>1, <1>2, <1>3, <1>4 DEF TypeOK
<1> QED BY <1>5, <1>6

\* So is a round of the exception loop,
LEMMA ReduceExnQuiet ==
  ASSUME SchedulerInv, NEW w \in Workers, ReduceExn(w)
  PROVE  Quiet(w) /\ TypeOK'
<1> DEFINE c == cl[w]
           D == PutLeft(clo, c, "right_exn", "child_exn", 0)
           l == Left(c, "right_exn", "child_exn")
           e == clo[c].user_exn
           x == IF l # 0 THEN l ELSE IF e # 0 THEN e ELSE clo[c].right_exn
           r == [clo[c] EXCEPT !.right_exn = 0, !.user_exn = x]
<1>1. TypeOK /\ HoldsOne(w)
  BY DEF SchedulerInv, Owners
<1>2. AtReturn(w)
  BY <1>1, ReturnFacts DEF HoldsOne, ReduceExn
<1>3. clo' = Upd(D, c, r)
      /\ UNCHANGED <<wst, cl, cur, shadow, dq, rmap, ftf, on, at, inflight, caught, stolen, unsynced, pending, sp, mutex, fibers, exiting>>
  BY DEF ReduceExn, worker, deque, program, flags
<1>4. c \in Live /\ c \in Closures /\ clo[c] \in Closure /\ clo \in Trees /\ LeftOf(c) \in Live /\ LeftOf(c) # c
  BY <1>2 DEF AtReturn
<1>5. D \in Trees /\ AllAlike(clo, D) /\ D[c] = clo[c] /\ l \in Nat
  BY <1>4, PutLeftIs
<1>6. e \in Nat /\ clo[c].right_exn \in Nat
  BY <1>4 DEF Closure
<1>7. r \in Closure /\ Alike(clo[c], r)
  <2>1. x \in Nat
    BY <1>5, <1>6
  <2> HIDE DEF x
  <2> QED BY <1>4, <2>1, ExnFields
<1>8. ~Dead(D, c)
  BY <1>4, <1>5 DEF Live, Dead
<1> HIDE DEF r, D
<1>9. clo' \in Trees /\ AllAlike(clo, clo')
  <2>1. Upd(D, c, r) \in Trees /\ AllAlike(D, Upd(D, c, r))
    BY <1>4, <1>5, <1>7, <1>8, UpdAlike
  <2>2. AllAlike(clo, Upd(D, c, r))
    BY <1>5, <2>1, AlikeTwice
  <2> QED BY <1>3, <2>1, <2>2
<1>10. Quiet(w)
  <2>1. SameFrames /\ SameLists /\ \A k \in Closures : clo'[k].status = clo[k].status
    BY <1>9, AlikeSame
  <2>2. \A f \in Frames : Ahead(f)' = Ahead(f)
    BY <1>3 DEF Ahead
  <2> QED BY <1>3, <2>1, <2>2 DEF Quiet, Same
<1>11. TypeOK'
  BY <1>1, <1>3, <1>9 DEF TypeOK, Trees
<1> QED BY <1>10, <1>11

\* the round that ends it,
LEMMA DepositQuiet ==
  ASSUME SchedulerInv, NEW w \in Workers, DepositExn(w)
  PROVE  Quiet(w) /\ TypeOK'
<1> DEFINE c == cl[w]
<1>1. TypeOK /\ HoldsOne(w)
  BY DEF SchedulerInv, Owners
<1>2. wst[w] = "exn" /\ clo[c].status = "RETURNING"
  BY <1>1 DEF HoldsOne, DepositExn
<1>3. AtReturn(w)
  BY <1>2, ReturnFacts
<1>4. clo' = PutLeft(clo, c, "right_exn", "child_exn", clo[c].user_exn) /\ wst' = Set(wst, w, "red") /\ Lock2(w)
      /\ UNCHANGED <<cl, cur, shadow, dq, rmap, ftf, on, at, inflight, caught, stolen, unsynced, pending, sp, fibers, exiting>>
  BY DEF DepositExn, deque, program, flags
<1>5. c \in Live /\ clo[c] \in Closure /\ clo \in Trees /\ LeftOf(c) \in Live /\ LeftOf(c) # c
  BY <1>3 DEF AtReturn
<1>6. clo[c].user_exn \in Nat
  BY <1>5 DEF Closure
<1>7. clo' \in Trees /\ AllAlike(clo, clo')
  BY <1>4, <1>5, <1>6, PutLeftIs
<1>8. wst' \in [Workers -> WorkerState] /\ wst'[w] = "red" /\ Same(wst, w)
  BY <1>1, <1>4 DEF TypeOK, WorkerState, Set, Same
<1>9. Quiet(w)
  <2>1. SameFrames /\ SameLists /\ \A k \in Closures : clo'[k].status = clo[k].status
    BY <1>7, AlikeSame
  <2>2. \A f \in Frames : Ahead(f)' = Ahead(f)
    BY <1>4 DEF Ahead
  <2> QED BY <1>2, <1>4, <1>8, <2>1, <2>2 DEF Quiet, Returning
<1>10. mutex' \in [Closures -> Ptr(Workers)]
  BY <1>1, <1>4, LocksType DEF TypeOK
<1>11. TypeOK'
  BY <1>1, <1>4, <1>7, <1>8, <1>10 DEF TypeOK, Trees
<1> QED BY <1>9, <1>11

\* Merged maps are maps.
LEMMA MergeType ==
  ASSUME NEW a \in Maps, NEW b \in Maps
  PROVE  Merge(a, b) \in Maps
BY DEF Merge, Maps

\* and a round of the reducer loop.
LEMMA ReduceMapsQuiet ==
  ASSUME SchedulerInv, NEW w \in Workers, ReduceMaps(w)
  PROVE  Quiet(w) /\ TypeOK'
<1> DEFINE c == cl[w]
           D == PutLeft(clo, c, "right_rmap", "child_rmap", <<>>)
           l == Left(c, "right_rmap", "child_rmap")
           r == [clo[c] EXCEPT !["right_rmap"] = <<>>]
<1>1. TypeOK /\ HoldsOne(w)
  BY DEF SchedulerInv, Owners
<1>2. wst[w] = "red" /\ clo[c].status = "RETURNING"
  BY <1>1 DEF HoldsOne, ReduceMaps
<1>3. AtReturn(w)
  BY <1>2, ReturnFacts
<1>4. clo' = Upd(D, c, r) /\ rmap' = Set(rmap, w, Merge(Merge(l, rmap[w]), clo[c].right_rmap))
      /\ wst' = Set(wst, w, "relock") /\ Unlock2(w)
      /\ UNCHANGED <<cl, cur, shadow, dq, ftf, on, at, inflight, caught, stolen, unsynced, pending, sp, fibers, exiting>>
  BY DEF ReduceMaps, deque, program, flags
<1>5. c \in Live /\ c \in Closures /\ clo[c] \in Closure /\ clo \in Trees /\ LeftOf(c) \in Live /\ LeftOf(c) # c
  BY <1>3 DEF AtReturn
<1>6. <<>> \in Maps
  BY DEF Maps
<1>7. D \in Trees /\ AllAlike(clo, D) /\ D[c] = clo[c] /\ l \in Maps
  BY <1>5, <1>6, PutLeftIs
<1>8. r \in Closure /\ Alike(clo[c], r) /\ clo[c].right_rmap \in Maps
  BY <1>5, <1>6, MapFields DEF Closure
<1>9. ~Dead(D, c)
  BY <1>5, <1>7 DEF Live, Dead
<1> HIDE DEF r, D, l
<1>10. clo' \in Trees /\ AllAlike(clo, clo')
  <2>1. Upd(D, c, r) \in Trees /\ AllAlike(D, Upd(D, c, r))
    BY <1>5, <1>7, <1>8, <1>9, UpdAlike
  <2>2. AllAlike(clo, Upd(D, c, r))
    BY <1>7, <2>1, AlikeTwice
  <2> QED BY <1>4, <2>1, <2>2
<1>11. wst' \in [Workers -> WorkerState] /\ wst'[w] = "relock" /\ Same(wst, w)
  BY <1>1, <1>4 DEF TypeOK, WorkerState, Set, Same
<1>12. Quiet(w)
  <2>1. SameFrames /\ SameLists /\ \A k \in Closures : clo'[k].status = clo[k].status
    BY <1>10, AlikeSame
  <2>2. \A f \in Frames : Ahead(f)' = Ahead(f)
    BY <1>4 DEF Ahead
  <2> QED BY <1>2, <1>4, <1>11, <2>1, <2>2 DEF Quiet, Returning
<1>13. mutex' \in [Closures -> Ptr(Workers)]
  BY <1>1, <1>4, LocksType DEF TypeOK
<1>14. rmap' \in [Workers -> Maps]
  <2>1. rmap \in [Workers -> Maps] /\ rmap[w] \in Maps
    BY <1>1 DEF TypeOK
  <2>2. Merge(Merge(l, rmap[w]), clo[c].right_rmap) \in Maps
    BY <1>7, <1>8, <2>1, MergeType
  <2> QED BY <1>4, <2>1, <2>2 DEF Set
<1>15. TypeOK'
  BY <1>1, <1>4, <1>10, <1>11, <1>13, <1>14 DEF TypeOK, Trees
<1> QED BY <1>12, <1>15

-----------------------------------------------------------------------------
(* Every step on a shadow stack keeps the types *)

\* An exception passed to the caller.
LEMMA PassType ==
  ASSUME inflight \in [Frames -> Nat], NEW f \in Frames \ Roots, PassExn(f)
  PROVE  inflight' \in [Frames -> Nat]
<1>1. CallParent(f) \in Frames /\ inflight[f] \in Nat
  BY CallParentIs
<1> QED BY <1>1 DEF PassExn

\* Types after a spawn or a call.
LEMMA SpawnCallType ==
  ASSUME SchedulerInv, NEW w \in Workers, Spawn(w) \/ Call(w)
  PROVE  TypeOK'
<1>1. TypeOK /\ wst[w] = "run"
  BY DEF SchedulerInv, Spawn, Call, AtOp, Running
<1>2. AtWork(w) /\ cur[w] \in Frames
  BY <1>1, RunFacts DEF AtWork
<1>3. PICK kind \in {"spawn", "call"} : AtOp(w, kind) /\ Advance(w) /\ (kind = "spawn" => Spawn(w)) /\ (kind = "call" => Call(w))
  BY DEF Spawn, Call
<1>4. Arg(w) \in Frames
  BY <1>2, <1>3, Begins
<1>5. at' \in [Frames -> Nat \ {0}]
  BY <1>1, <1>2, <1>3, AdvanceType
<1>6. cur' = Set(cur, w, Arg(w)) /\ shadow' = (IF kind = "spawn" THEN Set(shadow, w, Append(shadow[w], cur[w])) ELSE shadow)
      /\ UNCHANGED <<wst, cl, dq, rmap, ftf, on, inflight, caught, stolen, unsynced, pending, sp, clo, mutex, fibers, exiting>>
  BY <1>3 DEF Spawn, Call, worker, deque, flags
<1>7. cur' \in [Workers -> Ptr(Frames)]
  BY <1>1, <1>4, <1>6 DEF TypeOK, Set, Ptr
<1>8. shadow' \in [Workers -> Seq(Frames)]
  <2>1. shadow \in [Workers -> Seq(Frames)] /\ Append(shadow[w], cur[w]) \in Seq(Frames)
    BY <1>1, <1>2 DEF TypeOK
  <2> QED BY <1>6, <2>1 DEF Set
<1> QED BY <1>1, <1>5, <1>6, <1>7, <1>8 DEF TypeOK

\* Types after a return to the caller.
LEMMA LeaveType ==
  ASSUME SchedulerInv, NEW w \in Workers, LeaveCalled(w) \/ LeavePop(w)
  PROVE  TypeOK'
<1>1. TypeOK /\ wst[w] = "run"
  BY DEF SchedulerInv, LeaveCalled, LeavePop, Leaving, Unwound, Unwinding, Running
<1>2. cur[w] \in Frames
  BY <1>1, RunFacts DEF AtWork
<1>3. cur[w] \in Frames \ Roots
  BY <1>2, DetachedBelow DEF LeaveCalled, LeavePop
<1>4. CallParent(cur[w]) \in Frames /\ PassExn(cur[w])
  BY <1>3, CallParentIs DEF LeaveCalled, LeavePop
<1>5. inflight' \in [Frames -> Nat]
  BY <1>1, <1>3, <1>4, PassType DEF TypeOK
<1>6. cur' = Set(cur, w, CallParent(cur[w])) /\ (shadow' = shadow \/ (shadow' = Set(shadow, w, Front(shadow[w])) /\ shadow[w] # <<>>))
      /\ UNCHANGED <<wst, cl, dq, rmap, ftf, on, at, caught, stolen, unsynced, pending, sp, clo, mutex, fibers, exiting>>
  BY DEF LeaveCalled, LeavePop, worker, deque, flags
<1>7. cur' \in [Workers -> Ptr(Frames)]
  BY <1>1, <1>4, <1>6 DEF TypeOK, Set, Ptr
<1>8. shadow' \in [Workers -> Seq(Frames)]
  <2>1. shadow \in [Workers -> Seq(Frames)] /\ shadow[w] \in Seq(Frames)
    BY <1>1 DEF TypeOK
  <2>2. shadow[w] # <<>> => Front(shadow[w]) \in Seq(Frames)
    BY <2>1 DEF Front
  <2> QED BY <1>6, <2>1, <2>2 DEF Set
<1> QED BY <1>1, <1>5, <1>6, <1>7, <1>8 DEF TypeOK

-----------------------------------------------------------------------------
(* Steps that change who holds a closure *)

\* No entry of var but those of the workers W changes.
SameBut(var, W) == \A v \in Workers \ W : var'[v] = var[v]

\* A step of the workers W keeps one owner for each closure.
LEMMA OwnersStep ==
  ASSUME SchedulerInv, NEW W \in SUBSET Workers,
         SameBut(wst, W), SameBut(cl, W), SameBut(dq, W), SameBut(cur, W),
         \A v \in Workers \ W : Holds(v) # 0 =>
           /\ clo'[Holds(v)].status = clo[Holds(v)].status /\ clo'[Holds(v)].frame = clo[Holds(v)].frame
           /\ clo'[Holds(v)].call_parent = clo[Holds(v)].call_parent,
         \A u \in W : HoldsOne(u)',
         \A u \in W : \A v \in Workers : u # v /\ Holds(u)' # 0 => Holds(u)' # Holds(v)'
  PROVE  Owners'
<1>1. ASSUME NEW v \in Workers \ W PROVE HoldsOne(v)' /\ Holds(v)' = Holds(v)
  <2>1. wst'[v] = wst[v] /\ cl'[v] = cl[v] /\ dq'[v] = dq[v] /\ cur'[v] = cur[v]
    BY DEF SameBut
  <2>2. HoldsOne(v)
    BY DEF SchedulerInv, Owners
  <2>3. Holds(v)' = Holds(v)
    BY <2>1 DEF Holds
  <2>4. cl[v] # 0 => /\ clo'[cl[v]].status = clo[cl[v]].status /\ clo'[cl[v]].frame = clo[cl[v]].frame
                     /\ clo'[cl[v]].call_parent = clo[cl[v]].call_parent
    BY DEF Holds
  <2>5. dq[v] # 0 => clo'[dq[v]].status = clo[dq[v]].status
    <3>1. dq[v] # 0 => cl[v] = 0
      BY <2>2 DEF HoldsOne
    <3> QED BY <3>1 DEF Holds
  <2>6. HoldsOne(v)'
    BY <2>1, <2>2, <2>4, <2>5 DEF HoldsOne
  <2> QED BY <2>3, <2>6
<1>2. \A v \in Workers : HoldsOne(v)'
  BY <1>1
<1>3. ASSUME NEW u \in Workers, NEW v \in Workers, u # v, Holds(u)' # 0 PROVE Holds(u)' # Holds(v)'
  <2>1. CASE u \in W
    BY <1>3, <2>1
  <2>2. CASE v \in W
    BY <1>3, <2>2
  <2>3. CASE u \notin W /\ v \notin W
    BY <1>1, <1>3, <2>3 DEF SchedulerInv, Owners
  <2> QED BY <2>1, <2>2, <2>3
<1> QED BY <1>2, <1>3 DEF Owners

\* What a worker holds is alive, and suspended closures are held by nobody.
LEMMA HeldLive ==
  ASSUME SchedulerInv, NEW v \in Workers, Holds(v) # 0
  PROVE  Holds(v) \in Live /\ clo[Holds(v)].status \in {"READY", "RUNNING", "RETURNING"}
<1>1. HoldsOne(v) /\ TypeOK
  BY DEF SchedulerInv, Owners
<1>2. wst[v] \in WorkerState
  BY <1>1 DEF TypeOK
<1>3. clo[Holds(v)].status \in {"READY", "RUNNING", "RETURNING"}
  BY <1>1, <1>2 DEF HoldsOne, Holds, WorkerState
<1>4. Holds(v) \in Closures
  BY <1>1 DEF TypeOK, Ptr, Holds
<1> QED BY <1>3, <1>4 DEF Live

\* A closure with a new status in the same place.
Restated(r, q) ==
  /\ q.status # "FREE" /\ q.frame = r.frame /\ q.join_counter = r.join_counter
  /\ q.has_cilk_callee = r.has_cilk_callee /\ q.call_parent = r.call_parent /\ q.spawn_parent = r.spawn_parent
  /\ q.left_sib = r.left_sib /\ q.right_sib = r.right_sib /\ q.right_most_child = r.right_most_child

\* A closure with a new status stays where it is.
LEMMA RestatedSame ==
  ASSUME clo \in Trees, NEW t \in Live, NEW q \in Closure, Restated(clo[t], q), clo' = Upd(clo, t, q)
  PROVE  /\ clo' \in Trees /\ SameFrames /\ SameLists
         /\ \A c \in Closures : clo'[c] = IF c = t THEN q ELSE clo[c]
         /\ \A c \in Closures : clo'[c].join_counter = clo[c].join_counter
<1>1. t \in Closures /\ t # 0 /\ ~Dead(clo, t)
  BY NotNull DEF Live, Dead
<1>2. clo' \in Trees /\ \A c \in Closures : clo'[c] = IF c = t THEN q ELSE clo[c]
  BY <1>1, UpdIs
<1>3. SameFrames
  BY <1>1, <1>2 DEF SameFrames, Dead, Restated
<1>4. SameLists
  BY <1>1, <1>2 DEF SameLists, Dead, Restated, SamePlace, SameList
<1> QED BY <1>2, <1>3, <1>4 DEF SameLists, SameList

\* The places and lists of the closures when only statuses change.
LEMMA RestatedKeeps ==
  ASSUME SchedulerInv, SameFrames, SameLists, stolen' = stolen, Promoting \subseteq Promoting',
         \A c \in Live : clo[c].has_cilk_callee => clo'[c].status = "SUSPENDED"
  PROVE  Live' = Live /\ Lists(clo)' /\ Blank' /\ Named' /\ (\A c \in Live : Placed(c))' /\ Callees'
BY PlacesSame, SameListsKeep

\* A worker that does not promote leaves the promoters alone.
LEMMA PromotersSame ==
  ASSUME NEW w \in Workers, OthersSame(w),
         wst[w] \notin {"promote", "finish"}, wst'[w] \notin {"promote", "finish"}
  PROVE  Promoting' = Promoting /\ Finishing' = Finishing
<1>1. \A v \in Workers : wst[v] \in {"promote", "finish"} \/ wst'[v] \in {"promote", "finish"}
                           => wst'[v] = wst[v] /\ cl'[v] = cl[v]
  BY DEF OthersSame, Same
<1>2. {v \in Workers : wst'[v] = "promote"} = {v \in Workers : wst[v] = "promote"}
      /\ {v \in Workers : wst'[v] \in {"promote", "finish"}} = {v \in Workers : wst[v] \in {"promote", "finish"}}
  BY <1>1
<1>3. Promoting' = Promoting
  <2>1. \A v \in {v \in Workers : wst[v] = "promote"} : cl'[v] = cl[v]
    BY <1>1
  <2> QED BY <1>2, <2>1 DEF Promoting
<1>4. Finishing' = Finishing
  <2>1. \A v \in {v \in Workers : wst[v] \in {"promote", "finish"}} : cl'[v] = cl[v]
    BY <1>1
  <2> QED BY <1>2, <2>1 DEF Finishing
<1> QED BY <1>3, <1>4

\* Worker w holds what it held or nothing, and no other worker's closure changes.
LEMMA OwnersKeep ==
  ASSUME SchedulerInv, NEW w \in Workers, OthersSame(w), SameFrames, HoldsOne(w)',
         Holds(w)' \in {0, Holds(w)},
         \A c \in Closures : c # Holds(w) => clo'[c].status = clo[c].status
  PROVE  Owners'
<1>1. ASSUME NEW v \in Workers \ {w}, Holds(v) # 0
      PROVE  /\ clo'[Holds(v)].status = clo[Holds(v)].status /\ clo'[Holds(v)].frame = clo[Holds(v)].frame
             /\ clo'[Holds(v)].call_parent = clo[Holds(v)].call_parent
  <2>1. Holds(v) \in Closures /\ Holds(v) # Holds(w)
    BY <1>1, HeldLive DEF SchedulerInv, Owners, Live
  <2> QED BY <2>1 DEF SameFrames
<1>2. ASSUME NEW v \in Workers, w # v, Holds(w)' # 0 PROVE Holds(w)' # Holds(v)'
  <2>1. Holds(v)' = Holds(v)
    BY <1>2 DEF OthersSame, Same, Holds
  <2> QED BY <1>2, <2>1 DEF SchedulerInv, Owners
<1>3. SameBut(wst, {w}) /\ SameBut(cl, {w}) /\ SameBut(dq, {w}) /\ SameBut(cur, {w})
  BY DEF OthersSame, Same, SameBut
<1> HIDE DEF Owners, Holds
<1> QED BY <1>1, <1>2, <1>3, OwnersStep

\* The stacks when worker w is not on one after the step, or on the same.
LEMMA StacksOff ==
  ASSUME SchedulerInv, SameFrames, stolen' = stolen, NEW w \in Workers, OthersSame(w),
         \A f \in Frames : Ahead(f)' \subseteq Ahead(f),
         ~OnStack(w)' \/ (OnStack(w) /\ wst'[w] = wst[w] /\ cl'[w] = cl[w] /\ dq'[w] = dq[w] /\ cur'[w] = cur[w]
                           /\ shadow'[w] = shadow[w])
  PROVE  Stacks' /\ Unbegun'
<1>1. \A f \in Frames : Ahead(f)' \subseteq Ahead(f)
  OBVIOUS
<1>2. ASSUME OnStack(w)' PROVE Stack(w)' = Stack(w) /\ StackFits(w)' /\ OnStack(w)
  <2>1. OnStack(w) /\ wst'[w] = wst[w] /\ cl'[w] = cl[w] /\ dq'[w] = dq[w] /\ cur'[w] = cur[w] /\ shadow'[w] = shadow[w]
    BY <1>2
  <2>2. Bottom(w) \in Closures /\ (wst[w] = "run" \/ cl[w] \in Closures)
    BY <2>1, RunFacts, PromoteFacts DEF OnStack, AtWork, AtPromote
  <2>3. StackFits(w) /\ Placed(Bottom(w))
    BY <2>1, <2>2, RunFacts, PromoteFacts DEF SchedulerInv, Stacks, OnStack, AtWork, AtPromote
  <2>4. clo[Bottom(w)].spawn_parent # 0 => clo[Bottom(w)].spawn_parent \in Closures
    BY <2>3 DEF Placed, Live
  <2> QED BY <2>1, <2>2, <2>3, <2>4, KeepStack DEF SameFrames
<1>3. ASSUME OnStack(w)'
      PROVE  /\ StackFits(w)' /\ \A f \in Frames : Ahead(f)' \cap Stack(w)' = {}
             /\ \A v \in Workers \ {w} : OnStack(v) => Stack(w)' \cap Stack(v) = {}
  <2>1. \A f \in Frames : Ahead(f) \cap Stack(w) = {}
    BY <1>2, <1>3 DEF SchedulerInv, Unbegun
  <2>2. \A v \in Workers \ {w} : OnStack(v) => Stack(w) \cap Stack(v) = {}
    BY <1>2, <1>3 DEF SchedulerInv, Stacks
  <2> QED BY <1>1, <1>2, <1>3, <2>1, <2>2
<1> QED BY <1>1, <1>3, StacksMove

\* A worker that starts a ready closure keeps the invariant.
LEMMA ExecuteReadyKeeps ==
  ASSUME SchedulerInv, NEW w \in Workers, ExecuteReady(w)
  PROVE  SchedulerInv'
<1> DEFINE t == cl[w]
           b == clo[t].frame
           o == Outer(t)
           p == clo[t].spawn_parent
           q == [clo[t] EXCEPT !.status = "RUNNING"]
<1>1. TypeOK /\ HoldsOne(w) /\ clo \in Trees
  BY DEF SchedulerInv, Owners, TypeOK, Trees
<1>2. /\ wst[w] = "has" /\ clo[t].status = "READY"
      /\ clo' = Upd(clo, t, q) /\ cur' = Set(cur, w, b) /\ shadow' = Set(shadow, w, <<>>) /\ dq' = Set(dq, w, t)
      /\ on' = Set(on, w, sp[b]) /\ wst' = Set(wst, w, "run") /\ cl' = Set(cl, w, 0)
      /\ UNCHANGED <<rmap, ftf, at, inflight, caught, stolen, unsynced, pending, sp, mutex, fibers, exiting>>
  BY DEF ExecuteReady, program, flags
<1>3. t # 0 /\ t \in Closures /\ t \in Live /\ b \in Frames /\ b # 0
  BY <1>1, <1>2, NotNull DEF HoldsOne, TypeOK, Live, Closure, Ptr
<1>4. clo[t] \in Closure
  BY <1>1, <1>3 DEF Trees
<1>5. q \in Closure /\ Restated(clo[t], q) /\ q.status = "RUNNING"
  BY <1>4 DEF Closure, Restated, Status
<1> HIDE DEF q
<1>6. /\ clo' \in Trees /\ SameFrames /\ SameLists
      /\ \A c \in Closures : clo'[c] = IF c = t THEN q ELSE clo[c]
      /\ \A c \in Closures : clo'[c].join_counter = clo[c].join_counter
  BY <1>1, <1>2, <1>3, <1>5, RestatedSame
<1>7. /\ wst'[w] = "run" /\ cl'[w] = 0 /\ dq'[w] = t /\ cur'[w] = b /\ shadow'[w] = <<>> /\ OthersSame(w)
      /\ wst' \in [Workers -> WorkerState] /\ cl' \in [Workers -> Ptr(Closures)] /\ dq' \in [Workers -> Ptr(Closures)]
      /\ cur' \in [Workers -> Ptr(Frames)] /\ on' \in [Workers -> Ptr(Fibers)]
  <2>1. 0 \in Ptr(Closures) /\ t \in Ptr(Closures) /\ b \in Ptr(Frames) /\ sp[b] \in Ptr(Fibers)
    BY <1>1, <1>3 DEF TypeOK, Ptr
  <2> QED BY <1>1, <1>2, <2>1 DEF TypeOK, Set, OthersSame, Same, WorkerState
<1>8. shadow' \in [Workers -> Seq(Frames)]
  BY <1>1, <1>2 DEF TypeOK, Set
<1>9. TypeOK'
  BY <1>1, <1>2, <1>6, <1>7, <1>8 DEF TypeOK, Trees
<1>10. Promoting' = Promoting /\ Finishing' = Finishing
  BY <1>2, <1>7, PromotersSame
<1>11. \A c \in Live : clo[c].has_cilk_callee => clo'[c].status = "SUSPENDED"
  BY <1>2, <1>3, <1>6 DEF SchedulerInv, Callees, Live
<1>12. Live' = Live /\ Lists(clo)' /\ Blank' /\ Named' /\ (\A c \in Live : Placed(c))' /\ Callees'
  BY <1>2, <1>6, <1>10, <1>11, RestatedKeeps
<1>13. Owners'
  <2>1. HoldsOne(w)'
    BY <1>3, <1>5, <1>6, <1>7 DEF HoldsOne
  <2>2. Holds(w) = t /\ Holds(w)' = t
    BY <1>3, <1>7 DEF Holds
  <2> QED BY <1>6, <1>7, <2>1, <2>2, OwnersKeep
<1>14. NoLostWakeup'
  BY <1>5, <1>6, <1>12 DEF SchedulerInv, NoLostWakeup, HasChildren, SameFrames, Live
<1>15. Unsynched'
  BY <1>2, <1>5, <1>6, <1>10, <1>12 DEF SchedulerInv, Unsynched, SameFrames, Live
<1>16. BaseOf(o, b, p) /\ b \in stolen
  BY <1>1, <1>3, PlacedBase DEF SchedulerInv, Trees, Named
<1>17. Stacklet(o, b) = {b} /\ FitsStack(o, b, p, stolen, b, <<>>)
  BY <1>3, <1>16, StackStart
<1>18. ASSUME OnStack(w)'
       PROVE  /\ StackFits(w)' /\ \A f \in Frames : Ahead(f)' \cap Stack(w)' = {}
              /\ \A v \in Workers \ {w} : OnStack(v) => Stack(w)' \cap Stack(v) = {}
  <2>1. Bottom(w)' = t /\ Tip(w)' = b /\ Shadow(w)' = <<>>
    BY <1>7 DEF Bottom, Tip, Shadow
  <2>2. clo'[t].frame = b /\ clo'[t].spawn_parent = p
    BY <1>3, <1>6 DEF SameFrames
  <2>3. p # 0 => clo'[p].frame = clo[p].frame
    BY <1>3, <1>6 DEF SameFrames, SchedulerInv, Placed, Live
  <2>4. Outer(Bottom(w))' = o
    BY <2>1, <2>2, <2>3 DEF Outer
  <2>5. Stack(w)' = {b} /\ StackFits(w)'
    BY <1>2, <1>17, <2>1, <2>2, <2>4 DEF Stack, StackFits
  <2>6. \A f \in Frames : Ahead(f)' \cap {b} = {}
    BY <1>2, <1>16 DEF SchedulerInv, Unbegun, Ahead
  <2>7. ASSUME NEW v \in Workers \ {w}, OnStack(v), b \in Stack(v) PROVE FALSE
    <3>1. stolen \cap Stack(v) \subseteq {clo[Bottom(v)].frame}
      BY <2>7 DEF SchedulerInv, Stacks, StackFits, FitsStack, Stack
    <3>2. Bottom(v) \in Live /\ clo[Bottom(v)].status \in {"RUNNING", "SUSPENDED"}
      BY <2>7, RunFacts, PromoteFacts DEF OnStack, AtWork, AtPromote
    <3>3. clo[Bottom(v)].frame = b
      BY <1>16, <2>7, <3>1
    <3>4. Bottom(v) = t
      BY <1>3, <3>2, <3>3 DEF SchedulerInv, Named
    <3> QED BY <1>2, <3>2, <3>4
  <2> QED BY <2>5, <2>6, <2>7
<1>19. Stacks' /\ Unbegun'
  <2>1. \A f \in Frames : Ahead(f)' \subseteq Ahead(f)
    BY <1>2 DEF Ahead
  <2> QED BY <1>2, <1>6, <1>7, <1>18, <2>1, StacksMove
<1> QED BY <1>9, <1>12, <1>13, <1>14, <1>15, <1>19 DEF SchedulerInv

\* So does one that is back in the runtime or ends the region.
LEMMA BackKeeps ==
  ASSUME SchedulerInv, NEW w \in Workers, BackInRuntime(w) \/ ExitRoot(w)
  PROVE  SchedulerInv'
<1>1. TypeOK /\ HoldsOne(w)
  BY DEF SchedulerInv, Owners
<1>2. clo' = clo /\ UNCHANGED <<cur, shadow, rmap, at, inflight, caught, stolen, unsynced, pending, sp, mutex>>
  BY DEF BackInRuntime, ExitRoot, program, flags
<1>3. OthersSame(w) /\ wst[w] \in {"back", "run"} /\ wst'[w] \in {"idle", "has", "back"} /\ dq'[w] = 0
      /\ cl'[w] = (IF wst[w] = "back" THEN dq[w] ELSE cl[w])
      /\ (wst[w] = "back" => wst'[w] = IF dq[w] = 0 THEN "idle" ELSE "has")
      /\ (wst[w] = "run" => wst'[w] = "back")
  <2>1. CASE BackInRuntime(w)
    BY <1>1, <2>1 DEF BackInRuntime, TypeOK, Set, OthersSame, Same
  <2>2. CASE ExitRoot(w)
    BY <1>1, <2>2 DEF ExitRoot, TypeOK, Set, OthersSame, Same, Leaving, Unwound, Unwinding, Running
  <2> QED BY <2>1, <2>2
<1>4. TypeOK'
  <2>1. 0 \in Ptr(Closures) /\ 0 \in Ptr(Fibers) /\ w \in Ptr(Workers)
    BY DEF Ptr
  <2>2. CASE BackInRuntime(w)
    <3>1. /\ fibers' = Freed({ftf[w]}) /\ ftf' = Set(ftf, w, 0) /\ cl' = Set(cl, w, dq[w]) /\ dq' = Set(dq, w, 0)
          /\ wst' = Set(wst, w, IF dq[w] = 0 THEN "idle" ELSE "has") /\ UNCHANGED <<on, exiting>>
      BY <2>2 DEF BackInRuntime
    <3>2. fibers' \subseteq Fibers
      BY <1>1, <3>1 DEF TypeOK, Freed, Ptr
    <3>3. /\ ftf' \in [Workers -> Ptr(Fibers)] /\ cl' \in [Workers -> Ptr(Closures)] /\ dq' \in [Workers -> Ptr(Closures)]
          /\ wst' \in [Workers -> WorkerState]
      BY <1>1, <2>1, <3>1 DEF TypeOK, Set, WorkerState
    <3> QED BY <1>1, <1>2, <3>1, <3>2, <3>3 DEF TypeOK
  <2>3. CASE ExitRoot(w)
    <3>1. /\ exiting' = w /\ dq' = Set(dq, w, 0) /\ on' = Set(on, w, 0) /\ wst' = Set(wst, w, "back")
          /\ UNCHANGED <<cl, ftf, fibers>>
      BY <2>3 DEF ExitRoot
    <3>2. dq' \in [Workers -> Ptr(Closures)] /\ on' \in [Workers -> Ptr(Fibers)] /\ wst' \in [Workers -> WorkerState]
      BY <1>1, <2>1, <3>1 DEF TypeOK, Set, WorkerState
    <3> QED BY <1>1, <1>2, <2>1, <3>1, <3>2 DEF TypeOK
  <2> QED BY <2>2, <2>3
<1>5. SameFrames /\ SameLists
  BY <1>2 DEF SameFrames, SameLists, SamePlace, SameList
<1>6. Promoting' = Promoting /\ Finishing' = Finishing
  BY <1>3, PromotersSame
<1>7. Live' = Live /\ Lists(clo)' /\ Blank' /\ Named' /\ (\A c \in Live : Placed(c))' /\ Callees'
  <2>1. \A c \in Live : clo[c].has_cilk_callee => clo'[c].status = "SUSPENDED"
    BY <1>2 DEF SchedulerInv, Callees
  <2> QED BY <1>2, <1>5, <1>6, <2>1, RestatedKeeps
<1>8. Owners'
  <2>1. cl[w] = 0 /\ (wst[w] = "back" /\ dq[w] # 0 => clo[dq[w]].status = "RETURNING")
    BY <1>1, <1>3 DEF HoldsOne
  <2>2. HoldsOne(w)'
    BY <1>2, <1>3, <2>1 DEF HoldsOne
  <2>3. Holds(w)' \in {0, Holds(w)}
    BY <1>3, <2>1 DEF Holds
  <2> QED BY <1>2, <1>3, <1>5, <2>2, <2>3, OwnersKeep
<1>9. NoLostWakeup' /\ Unsynched'
  BY <1>2, <1>6, <1>7 DEF SchedulerInv, NoLostWakeup, Unsynched
<1>10. Stacks' /\ Unbegun'
  <2>1. ~OnStack(w)'
    BY <1>3 DEF OnStack
  <2>2. \A f \in Frames : Ahead(f)' \subseteq Ahead(f)
    BY <1>2 DEF Ahead
  <2> QED BY <1>2, <1>3, <1>5, <2>1, <2>2, StacksOff
<1> QED BY <1>4, <1>7, <1>8, <1>9, <1>10 DEF SchedulerInv

\* The closure of a frame that is leaving is not that of an unsynched frame.
LEMMA LeavingSynched ==
  ASSUME SchedulerInv, NEW w \in Workers, Leaving(w), AtWork(w),
         clo[dq[w]].frame \in {0, cur[w]}
  PROVE  clo[dq[w]].frame \notin unsynced /\ dq[w] \notin Finishing
<1>1. cur[w] \notin unsynced
  BY DEF Leaving, Unwound
<1>2. 0 \notin unsynced
  BY FramesPositive DEF SchedulerInv, Unsynched, TypeOK
<1>3. dq[w] \notin Finishing
  <2> SUFFICES ASSUME NEW v \in Workers, wst[v] \in {"promote", "finish"}, cl[v] = dq[w] PROVE FALSE
    BY DEF Finishing
  <2>1. v # w /\ Holds(v) = dq[w] /\ Holds(w) = dq[w] /\ dq[w] # 0
    BY DEF AtWork, Holds
  <2> QED BY <2>1 DEF SchedulerInv, Owners
<1> QED BY <1>1, <1>2, <1>3

\* A frame that is leaving has no children: its closure can go.
LEMMA LeavingChildless ==
  ASSUME SchedulerInv, NEW w \in Workers, Leaving(w), AtWork(w),
         clo[dq[w]].frame \in {0, cur[w]}
  PROVE  clo[dq[w]].join_counter = 0
<1>1. clo[dq[w]].frame \notin unsynced /\ dq[w] \notin Finishing
  BY LeavingSynched
<1> QED BY <1>1 DEF SchedulerInv, Unsynched, AtWork

\* What a worker that leaves the outermost frame of its stack knows.
LEMMA WorkBottom ==
  ASSUME NEW w \in Workers, AtWork(w), cur[w] \notin Roots
  PROVE  LET t == clo[dq[w]]
             f == cur[w] IN
         /\ Detached(f) /\ shadow[w] = <<>> =>
              t.spawn_parent # 0 /\ CallParent(f) = Outer(dq[w]) /\ (t.frame # 0 => t.frame = f)
         /\ ~Detached(f) /\ f \in stolen => t.spawn_parent = 0 /\ t.frame = f /\ shadow[w] = <<>>
<1> DEFINE o == Outer(dq[w])
           b == clo[dq[w]].frame
           p == clo[dq[w]].spawn_parent
           f == cur[w]
           s == shadow[w]
<1>1. f \in Frames \ Roots /\ s \in Seq(Frames)
  BY DEF AtWork
<1>2. BaseOf(o, b, p)
  BY DEF AtWork
<1>3. FitsStack(o, b, p, stolen, f, s)
  BY DEF AtWork
<1> HIDE DEF o, b, p, f, s
<1>4. /\ Detached(f) /\ s = <<>> => p # 0 /\ CallParent(f) = o /\ (b # 0 => b = f)
      /\ ~Detached(f) /\ f \in stolen => p = 0 /\ b = f /\ s = <<>>
  BY <1>1, <1>2, <1>3, StackBottom
<1> QED BY <1>4 DEF o, b, p, f, s

\* A child whose parent was stolen begins to return.
LEMMA LeaveStolenKeeps ==
  ASSUME SchedulerInv, NEW w \in Workers, LeaveStolen(w)
  PROVE  SchedulerInv'
<1> DEFINE f == cur[w]
           t == dq[w]
           q == [clo[t] EXCEPT !.status = "RETURNING", !.user_exn = IF inflight[f] = 0 THEN @ ELSE inflight[f]]
<1>1. TypeOK /\ HoldsOne(w) /\ clo \in Trees
  BY DEF SchedulerInv, Owners, TypeOK, Trees
<1>2. /\ Leaving(w) /\ Detached(f) /\ shadow[w] = <<>> /\ wst[w] = "run"
      /\ clo' = Upd(clo, t, q) /\ inflight' = [inflight EXCEPT ![f] = 0] /\ cur' = Set(cur, w, CallParent(f))
      /\ on' = Set(on, w, 0) /\ wst' = Set(wst, w, "back")
      /\ UNCHANGED <<cl, shadow, dq, rmap, ftf, at, caught, stolen, unsynced, pending, sp, mutex, fibers, exiting>>
  BY DEF LeaveStolen, Leaving, Unwound, Unwinding, Running, deque, flags
<1>3. AtWork(w)
  BY <1>2, RunFacts
<1>4. t \in Closures /\ t # 0 /\ t \in Live /\ clo[t].status = "RUNNING" /\ f \in Frames /\ cl[w] = 0
      /\ BaseOf(Outer(t), clo[t].frame, clo[t].spawn_parent) /\ shadow[w] \in Seq(Frames)
      /\ FitsStack(Outer(t), clo[t].frame, clo[t].spawn_parent, stolen, f, shadow[w])
  BY <1>3 DEF AtWork
<1>5. f \in Frames \ Roots /\ CallParent(f) \in Frames
  BY <1>2, DetachedBelow, CallParentIs
<1>6. clo[t].spawn_parent # 0 /\ (clo[t].frame # 0 => clo[t].frame = f)
  BY <1>2, <1>3, <1>5, WorkBottom
<1>7. clo[t].join_counter = 0
  BY <1>2, <1>3, <1>6, LeavingChildless
<1>8. clo[t] \in Closure /\ inflight[f] \in Nat
  BY <1>1, <1>4 DEF Trees, TypeOK
<1>9. q \in Closure /\ Restated(clo[t], q) /\ q.status = "RETURNING"
  BY <1>8 DEF Closure, Restated, Status
<1> HIDE DEF q
<1>10. /\ clo' \in Trees /\ SameFrames /\ SameLists
       /\ \A c \in Closures : clo'[c] = IF c = t THEN q ELSE clo[c]
       /\ \A c \in Closures : clo'[c].join_counter = clo[c].join_counter
  BY <1>1, <1>2, <1>4, <1>9, RestatedSame
<1>11. wst'[w] = "back" /\ OthersSame(w) /\ wst' \in [Workers -> WorkerState] /\ cur' \in [Workers -> Ptr(Frames)]
       /\ on' \in [Workers -> Ptr(Fibers)] /\ inflight' \in [Frames -> Nat]
  <2>1. 0 \in Ptr(Fibers) /\ CallParent(f) \in Ptr(Frames)
    BY <1>5 DEF Ptr
  <2> QED BY <1>1, <1>2, <2>1 DEF TypeOK, Set, OthersSame, Same, WorkerState
<1>12. TypeOK'
  BY <1>1, <1>2, <1>10, <1>11 DEF TypeOK, Trees
<1>13. Promoting' = Promoting /\ Finishing' = Finishing
  BY <1>2, <1>11, PromotersSame
<1>14. \A c \in Live : clo[c].has_cilk_callee => clo'[c].status = "SUSPENDED"
  BY <1>4, <1>10 DEF SchedulerInv, Callees, Live
<1>15. Live' = Live /\ Lists(clo)' /\ Blank' /\ Named' /\ (\A c \in Live : Placed(c))' /\ Callees'
  BY <1>2, <1>10, <1>13, <1>14, RestatedKeeps
<1>16. Owners'
  <2>1. HoldsOne(w)'
    BY <1>2, <1>4, <1>9, <1>10, <1>11 DEF HoldsOne
  <2>2. Holds(w) = t /\ Holds(w)' = t
    BY <1>2, <1>4 DEF Holds
  <2> QED BY <1>10, <1>11, <2>1, <2>2, OwnersKeep
<1>17. NoLostWakeup'
  BY <1>9, <1>10, <1>15 DEF SchedulerInv, NoLostWakeup, HasChildren, SameFrames, Live
<1>18. Unsynched'
  <2>1. \A c \in Live : clo'[c].join_counter = clo[c].join_counter /\ clo'[c].frame = clo[c].frame /\ clo'[c].spawn_parent = clo[c].spawn_parent
    BY <1>10 DEF SameFrames, Live
  <2>2. \A c \in Live : clo'[c].status = "RETURNING" => c = t \/ clo[c].status = "RETURNING"
    BY <1>10 DEF Live
  <2> QED BY <1>2, <1>6, <1>7, <1>13, <1>15, <2>1, <2>2 DEF SchedulerInv, Unsynched
<1>19. Stacks' /\ Unbegun'
  <2>1. ~OnStack(w)'
    BY <1>11 DEF OnStack
  <2>2. \A g \in Frames : Ahead(g)' \subseteq Ahead(g)
    BY <1>2 DEF Ahead
  <2> QED BY <1>2, <1>10, <1>11, <2>1, <2>2, StacksOff
<1> QED BY <1>12, <1>15, <1>16, <1>17, <1>18, <1>19 DEF SchedulerInv

\* Worker w changes the status of the closure it holds, and what it does with it.
Restates(w, t) ==
  /\ t \in Live /\ t = Holds(w) /\ ~clo[t].has_cilk_callee
  /\ OthersSame(w) /\ SameFrames /\ SameLists /\ stolen' = stolen
  /\ \A c \in Closures : c # t => clo'[c].status = clo[c].status
  /\ clo'[t].status = "SUSPENDED" => clo[t].join_counter # 0
  /\ clo'[t].status # "RETURNING"
  /\ Promoting \subseteq Promoting' /\ unsynced' \subseteq stolen
  /\ \A c \in Live : clo[c].join_counter # 0 => clo[c].frame \in unsynced' \/ c \in Finishing'
  /\ \A f \in Frames : Ahead(f)' \subseteq Ahead(f)

\* A step that gives a closure a new status keeps the invariant.
LEMMA RestatesKeeps ==
  ASSUME SchedulerInv, TypeOK', NEW w \in Workers, NEW t, Restates(w, t), HoldsOne(w)', Holds(w)' \in {0, t},
         ~OnStack(w)' \/ (OnStack(w) /\ wst'[w] = wst[w] /\ cl'[w] = cl[w] /\ dq'[w] = dq[w] /\ cur'[w] = cur[w]
                           /\ shadow'[w] = shadow[w])
  PROVE  SchedulerInv'
<1>1. /\ t \in Live /\ t \in Closures /\ t = Holds(w) /\ ~clo[t].has_cilk_callee
      /\ OthersSame(w) /\ SameFrames /\ SameLists /\ stolen' = stolen
      /\ \A f \in Frames : Ahead(f)' \subseteq Ahead(f)
  BY DEF Restates, Live
<1>2. \A c \in Live : c # t => clo'[c].status = clo[c].status
  BY DEF Restates, Live
<1>3. \A c \in Live : clo[c].has_cilk_callee => clo'[c].status = "SUSPENDED"
  BY <1>1, <1>2 DEF SchedulerInv, Callees
<1>4. Live' = Live /\ Lists(clo)' /\ Blank' /\ Named' /\ (\A c \in Live : Placed(c))' /\ Callees'
  BY <1>1, <1>3, RestatedKeeps DEF Restates
<1>5. Owners'
  BY <1>1, OwnersKeep DEF Restates
<1>6. \A c \in Live : /\ clo'[c].join_counter = clo[c].join_counter /\ clo'[c].frame = clo[c].frame
                      /\ clo'[c].spawn_parent = clo[c].spawn_parent /\ clo'[c].has_cilk_callee = clo[c].has_cilk_callee
  BY <1>1 DEF SameFrames, SameLists, SameList, Live
<1>7. NoLostWakeup'
  BY <1>2, <1>4, <1>6 DEF SchedulerInv, NoLostWakeup, HasChildren, Restates
<1>8. Unsynched'
  <2>1. \A c \in Live : clo'[c].status = "RETURNING" => clo[c].status = "RETURNING"
    BY <1>2 DEF Restates
  <2> QED BY <1>1, <1>4, <1>6, <2>1 DEF SchedulerInv, Unsynched, Restates
<1>9. Stacks' /\ Unbegun'
  BY <1>1, StacksOff
<1> QED BY <1>4, <1>5, <1>7, <1>8, <1>9 DEF SchedulerInv

\* The end of a steal of a frame with a closure: it is ready, and unsynched.
LEMMA FinishPromoteKeeps ==
  ASSUME SchedulerInv, NEW w \in Workers, FinishPromote(w)
  PROVE  SchedulerInv'
<1> DEFINE t == cl[w]
           q == [clo[t] EXCEPT !.status = "READY"]
<1>1. TypeOK /\ HoldsOne(w) /\ clo \in Trees
  BY DEF SchedulerInv, Owners, TypeOK, Trees
<1>2. /\ wst[w] = "finish" /\ clo' = Upd(clo, t, q) /\ unsynced' = unsynced \cup {clo[t].frame}
      /\ sp' = Set(sp, clo[t].frame, clo[t].fiber) /\ mutex' = Set(mutex, t, 0) /\ wst' = Set(wst, w, "has")
      /\ UNCHANGED <<cl, cur, shadow, dq, rmap, ftf, on, at, inflight, caught, stolen, pending, fibers, exiting>>
  BY DEF FinishPromote, MakeReady, deque, program
<1>3. t # 0 /\ t \in Closures /\ clo[t].status = "RUNNING" /\ clo[t].frame # 0 /\ dq[w] = 0
  BY <1>1, <1>2, NotNull DEF HoldsOne, TypeOK, Ptr
<1>4. t \in Live /\ clo[t] \in Closure
  BY <1>1, <1>3 DEF Live, Trees
<1>5. clo[t].frame \in Frames /\ clo[t].frame \in stolen /\ clo[t].fiber \in Ptr(Fibers) /\ ~clo[t].has_cilk_callee
  BY <1>3, <1>4 DEF Closure, Ptr, SchedulerInv, Named, Callees
<1>6. q \in Closure /\ Restated(clo[t], q) /\ q.status = "READY"
  BY <1>4 DEF Closure, Restated, Status
<1> HIDE DEF q
<1>7. /\ clo' \in Trees /\ SameFrames /\ SameLists
      /\ \A c \in Closures : clo'[c] = IF c = t THEN q ELSE clo[c]
  BY <1>1, <1>2, <1>4, <1>6, RestatedSame
<1>8. wst'[w] = "has" /\ OthersSame(w) /\ wst' \in [Workers -> WorkerState] /\ sp' \in [Frames -> Ptr(Fibers)]
      /\ mutex' \in [Closures -> Ptr(Workers)] /\ unsynced' \subseteq Frames
  <2>1. 0 \in Ptr(Workers)
    BY DEF Ptr
  <2> QED BY <1>1, <1>2, <1>5, <2>1 DEF TypeOK, Set, OthersSame, Same, WorkerState
<1>9. TypeOK'
  BY <1>1, <1>2, <1>7, <1>8 DEF TypeOK, Trees
<1>10. Promoting \subseteq Promoting'
  BY <1>2, <1>8 DEF Promoting, OthersSame, Same
<1>11. Finishing \subseteq Finishing' \cup {t}
  BY <1>2, <1>8 DEF Finishing, OthersSame, Same
<1>12. \A c \in Live : clo[c].join_counter # 0 => clo[c].frame \in unsynced' \/ c \in Finishing'
  BY <1>2, <1>11 DEF SchedulerInv, Unsynched
<1>13. t = Holds(w) /\ Holds(w)' = t
  BY <1>2, <1>3 DEF Holds
<1>14. Restates(w, t)
  <2>1. \A f \in Frames : Ahead(f)' \subseteq Ahead(f)
    BY <1>2 DEF Ahead
  <2>2. unsynced' \subseteq stolen
    BY <1>2, <1>5 DEF SchedulerInv, Unsynched
  <2> QED BY <1>2, <1>3, <1>4, <1>5, <1>6, <1>7, <1>8, <1>10, <1>12, <1>13, <2>1, <2>2 DEF Restates
<1>15. HoldsOne(w)'
  BY <1>1, <1>2, <1>3, <1>6, <1>7, <1>8 DEF HoldsOne, SameFrames
<1>16. ~OnStack(w)'
  BY <1>8 DEF OnStack
<1> QED BY <1>9, <1>13, <1>14, <1>15, <1>16, RestatesKeeps

\* What worker w knows when it calls Cilk_sync: the frame is that of its closure.
LEMMA WorkUnsynced ==
  ASSUME SchedulerInv, NEW w \in Workers, AtWork(w), cur[w] \in unsynced
  PROVE  clo[dq[w]].frame = cur[w] /\ cur[w] \in stolen
<1> DEFINE o == Outer(dq[w])
           b == clo[dq[w]].frame
           p == clo[dq[w]].spawn_parent
           s == shadow[w]
<1>1. cur[w] \in stolen
  BY DEF SchedulerInv, Unsynched
<1>2. FitsStack(o, b, p, stolen, cur[w], s)
  BY DEF AtWork
<1> HIDE DEF o, b, p, s
<1>3. cur[w] \in stolen \cap Stacklet(o, cur[w]) /\ stolen \cap Stacklet(o, cur[w]) = {b} \ {0}
  BY <1>1, <1>2 DEF FitsStack
<1> QED BY <1>1, <1>3 DEF b

\* Closure t becomes q in tree C, which is like clo.
LEMMA RestatedAlike ==
  ASSUME clo \in Trees, NEW C \in Trees, AllAlike(clo, C), NEW t \in Live, NEW q \in Closure, Restated(C[t], q),
         clo' = Upd(C, t, q)
  PROVE  /\ clo' \in Trees /\ SameFrames /\ SameLists
         /\ \A c \in Closures : c # t => clo'[c].status = clo[c].status
         /\ clo'[t] = q
<1>1. t \in Closures /\ t # 0 /\ ~Dead(clo, t)
  BY NotNull DEF Live, Dead
<1>2. clo' \in Trees /\ \A c \in Closures : clo'[c] = IF c = t THEN q ELSE C[c]
  BY <1>1, UpdIs
<1>3. \A c \in Closures : c # t => Alike(clo[c], clo'[c]) /\ (Dead(clo, c) => clo'[c] = clo[c])
  BY <1>2 DEF AllAlike
<1>4. Alike(clo[t], C[t]) /\ clo'[t] = q
  BY <1>1, <1>2 DEF AllAlike
<1>5. SameFrames
  <2> SUFFICES ASSUME NEW c \in Closures
               PROVE  /\ Dead(clo', c) <=> Dead(clo, c)
                      /\ clo'[c].frame = clo[c].frame /\ clo'[c].spawn_parent = clo[c].spawn_parent
                      /\ clo'[c].call_parent = clo[c].call_parent /\ clo'[c].has_cilk_callee = clo[c].has_cilk_callee
    BY DEF SameFrames
  <2>1. CASE c = t
    BY <1>1, <1>4, <2>1 DEF Alike, Restated, Dead
  <2>2. CASE c # t
    BY <1>3, <2>2 DEF Alike, Dead
  <2> QED BY <2>1, <2>2
<1>6. SameLists
  <2> SUFFICES ASSUME NEW c \in Closures
               PROVE  SamePlace(clo, clo', c) /\ SameList(clo, clo', c) /\ (Dead(clo, c) => clo'[c] = clo[c])
    BY DEF SameLists
  <2>1. CASE c = t
    BY <1>1, <1>4, <2>1 DEF Alike, Restated, SamePlace, SameList
  <2>2. CASE c # t
    BY <1>3, <2>2 DEF Alike, SamePlace, SameList
  <2> QED BY <2>1, <2>2
<1> QED BY <1>2, <1>3, <1>4, <1>5, <1>6 DEF Alike

\* Cilk_sync, of a frame with children or without, keeps the invariant.
LEMMA CilkSyncKeeps ==
  ASSUME SchedulerInv, NEW w \in Workers, wst[w] = "run", cur[w] \in unsynced,
         NEW C \in Trees, AllAlike(clo, C), CilkSync(w, C),
         at' \in [Frames -> Nat \ {0}], inflight' \in [Frames -> Nat],
         \A f \in Frames : Ahead(f)' \subseteq Ahead(f)
  PROVE  SchedulerInv'
<1> DEFINE t == dq[w]
<1>1. TypeOK /\ HoldsOne(w) /\ clo \in Trees /\ AtWork(w)
  BY RunFacts DEF SchedulerInv, Owners, TypeOK, Trees
<1>2. t \in Closures /\ t # 0 /\ t \in Live /\ clo[t].status = "RUNNING" /\ cl[w] = 0 /\ ~clo[t].has_cilk_callee
      /\ cur[w] \in Frames
  BY <1>1 DEF AtWork
<1>3. clo[t].frame = cur[w] /\ cur[w] \in stolen
  BY <1>1, WorkUnsynced
<1>4. C[t] \in Closure /\ Alike(clo[t], C[t])
  BY <1>2 DEF Trees, AllAlike
<1>5. C[t].status = "RUNNING" /\ C[t].join_counter = clo[t].join_counter /\ ~C[t].has_cilk_callee
  BY <1>2, <1>4 DEF Alike
<1>6. /\ CilkSyncSuspend(w, C) \/ CilkSyncReady(w, C)
      /\ fibers' = Freed({ftf[w]}) /\ UNCHANGED <<cl, cur, shadow, stolen, caught, mutex, exiting>>
  BY DEF CilkSync
<1>7. fibers' \subseteq Fibers
  BY <1>1, <1>6 DEF TypeOK, Freed, Ptr
<1>8. Holds(w) = t
  BY <1>2 DEF Holds
<1>9. 0 \in Ptr(Fibers) /\ 0 \in Ptr(Closures) /\ <<>> \in Maps /\ rmap[w] \in Maps
  BY <1>1 DEF Ptr, Maps, TypeOK
<1>10. CASE CilkSyncSuspend(w, C)
  <2> DEFINE q == [C[t] EXCEPT !.status = "SUSPENDED", !.fiber = 0, !.user_rmap = rmap[w],
                               !.saved_throwing_fiber = IF C[t].user_exn = 0 THEN @ ELSE C[t].fiber]
  <2>1. /\ HasChildren(C[t]) /\ clo' = Upd(C, t, q) /\ ftf' = Set(ftf, w, IF C[t].user_exn = 0 THEN C[t].fiber ELSE 0)
        /\ rmap' = Set(rmap, w, <<>>) /\ dq' = Set(dq, w, 0) /\ on' = Set(on, w, 0) /\ wst' = Set(wst, w, "back")
        /\ UNCHANGED <<unsynced, pending, sp>>
    BY <1>10 DEF CilkSyncSuspend
  <2>2. q \in Closure /\ Restated(C[t], q) /\ q.status = "SUSPENDED"
    BY <1>4, <1>9 DEF Closure, Restated, Status
  <2> HIDE DEF q
  <2>3. /\ clo' \in Trees /\ SameFrames /\ SameLists /\ clo'[t] = q
        /\ \A c \in Closures : c # t => clo'[c].status = clo[c].status
    BY <1>1, <1>2, <2>1, <2>2, RestatedAlike
  <2>4. C[t].fiber \in Ptr(Fibers) /\ (IF C[t].user_exn = 0 THEN C[t].fiber ELSE 0) \in Ptr(Fibers)
    BY <1>4, <1>9 DEF Closure
  <2>5. /\ wst'[w] = "back" /\ dq'[w] = 0 /\ OthersSame(w)
        /\ wst' \in [Workers -> WorkerState] /\ dq' \in [Workers -> Ptr(Closures)] /\ on' \in [Workers -> Ptr(Fibers)]
        /\ ftf' \in [Workers -> Ptr(Fibers)] /\ rmap' \in [Workers -> Maps]
    BY <1>1, <1>6, <1>9, <2>1, <2>4 DEF TypeOK, Set, OthersSame, Same, WorkerState
  <2>6. TypeOK'
    BY <1>1, <1>6, <1>7, <2>1, <2>3, <2>5 DEF TypeOK, Trees
  <2>7. Promoting' = Promoting /\ Finishing' = Finishing
    BY <2>5, PromotersSame
  <2>8. clo[t].join_counter # 0
    BY <1>5, <2>1 DEF HasChildren
  <2>9. Restates(w, t)
    <3>1. unsynced' \subseteq stolen /\ \A c \in Live : clo[c].join_counter # 0 => clo[c].frame \in unsynced' \/ c \in Finishing'
      BY <2>1, <2>7 DEF SchedulerInv, Unsynched
    <3> QED BY <1>2, <1>6, <1>8, <2>2, <2>3, <2>5, <2>7, <2>8, <3>1 DEF Restates
  <2>10. HoldsOne(w)' /\ Holds(w)' = 0
    BY <1>2, <1>6, <2>5 DEF HoldsOne, Holds
  <2>11. ~OnStack(w)'
    BY <2>5 DEF OnStack
  <2> QED BY <2>6, <2>9, <2>10, <2>11, RestatesKeeps
<1>11. CASE CilkSyncReady(w, C)
  <2> DEFINE q == [C[t] EXCEPT !.fiber = C[t].fiber_child, !.fiber_child = 0, !.orig_rsp = 0, !.child_exn = 0,
                               !.child_rmap = <<>>, !.user_exn = IF C[t].child_exn = 0 THEN @ ELSE C[t].child_exn]
  <2>1. /\ ~HasChildren(C[t]) /\ clo' = Upd(C, t, q) /\ ftf' = Set(ftf, w, C[t].fiber)
        /\ sp' = Set(sp, cur[w], C[t].orig_rsp) /\ on' = Set(on, w, C[t].orig_rsp)
        /\ pending' = (IF C[t].child_exn = 0 THEN pending ELSE pending \cup {cur[w]})
        /\ rmap' = Set(rmap, w, Merge(C[t].child_rmap, rmap[w])) /\ unsynced' = unsynced \ {cur[w]}
        /\ UNCHANGED <<dq, wst>>
    BY <1>11 DEF CilkSyncReady
  <2>2. q \in Closure /\ Restated(C[t], q) /\ q.status = "RUNNING"
    BY <1>4, <1>5, <1>9 DEF Closure, Restated, Status
  <2> HIDE DEF q
  <2>3. /\ clo' \in Trees /\ SameFrames /\ SameLists /\ clo'[t] = q
        /\ \A c \in Closures : c # t => clo'[c].status = clo[c].status
    BY <1>1, <1>2, <2>1, <2>2, RestatedAlike
  <2>4. C[t].fiber \in Ptr(Fibers) /\ C[t].orig_rsp \in Ptr(Fibers) /\ Merge(C[t].child_rmap, rmap[w]) \in Maps
    BY <1>4, <1>9, MergeType DEF Closure
  <2>5. /\ OthersSame(w) /\ on' \in [Workers -> Ptr(Fibers)] /\ sp' \in [Frames -> Ptr(Fibers)]
        /\ ftf' \in [Workers -> Ptr(Fibers)] /\ rmap' \in [Workers -> Maps]
        /\ pending' \subseteq Frames /\ unsynced' \subseteq Frames
    BY <1>1, <1>2, <1>6, <2>1, <2>4 DEF TypeOK, Set, OthersSame, Same
  <2>6. TypeOK'
    BY <1>1, <1>6, <1>7, <2>1, <2>3, <2>5 DEF TypeOK, Trees
  <2>7. Promoting' = Promoting /\ Finishing' = Finishing
    BY <1>6, <2>1 DEF Promoting, Finishing
  <2>8. clo[t].join_counter = 0
    BY <1>5, <2>1 DEF HasChildren
  <2>9. Restates(w, t)
    <3>1. unsynced' \subseteq stolen
      BY <2>1 DEF SchedulerInv, Unsynched
    <3>2. ASSUME NEW c \in Live, clo[c].join_counter # 0 PROVE clo[c].frame \in unsynced' \/ c \in Finishing'
      <4>1. clo[c].frame \in unsynced \/ c \in Finishing
        BY <3>2 DEF SchedulerInv, Unsynched
      <4>2. c # t /\ clo[c].frame # clo[t].frame
        BY <1>2, <1>3, <2>8, <3>2, NotNull DEF SchedulerInv, Named
      <4> QED BY <1>3, <2>1, <2>7, <4>1, <4>2
    <3> QED BY <1>2, <1>6, <1>8, <2>2, <2>3, <2>5, <2>7, <3>1, <3>2 DEF Restates
  <2>10. HoldsOne(w)' /\ Holds(w)' = t
    BY <1>1, <1>2, <1>6, <2>1, <2>2, <2>3 DEF HoldsOne, Holds
  <2>11. OnStack(w) /\ wst'[w] = wst[w] /\ cl'[w] = cl[w] /\ dq'[w] = dq[w] /\ cur'[w] = cur[w] /\ shadow'[w] = shadow[w]
    BY <1>6, <2>1 DEF OnStack
  <2> QED BY <2>6, <2>9, <2>10, <2>11, RestatesKeeps
<1> QED BY <1>6, <1>10, <1>11

\* Both callers of Cilk_sync: compiled code and the personality function.
LEMMA SyncKeeps ==
  ASSUME SchedulerInv, NEW w \in Workers, (Sync(w) /\ cur[w] \in unsynced) \/ UnwindSync(w)
  PROVE  SchedulerInv'
<1>1. TypeOK /\ clo \in Trees
  BY DEF SchedulerInv, TypeOK, Trees
<1>2. CASE Sync(w) /\ cur[w] \in unsynced
  <2>1. wst[w] = "run" /\ CilkSync(w, clo) /\ Advance(w) /\ inflight' = inflight
    BY <1>2 DEF Sync, AtOp, Running
  <2>2. cur[w] \in Frames
    BY <2>1, RunFacts DEF AtWork
  <2>3. at' \in [Frames -> Nat \ {0}] /\ \A f \in Frames : Ahead(f)' \subseteq Ahead(f)
    BY <1>1, <2>1, <2>2, AdvanceType
  <2>4. AllAlike(clo, clo)
    BY DEF AllAlike, Alike
  <2>5. inflight' \in [Frames -> Nat]
    BY <1>1, <2>1 DEF TypeOK
  <2> QED BY <1>1, <1>2, <2>1, <2>3, <2>4, <2>5, CilkSyncKeeps
<1>3. CASE UnwindSync(w)
  <2> DEFINE t == dq[w]
             r == [clo[t] EXCEPT !.user_exn = inflight[cur[w]], !.parent_rsp = clo[t].orig_rsp, !.orig_rsp = on[w]]
  <2>1. wst[w] = "run" /\ cur[w] \in unsynced /\ CilkSync(w, Upd(clo, t, r)) /\ at' = at /\ inflight' = inflight
    BY <1>3 DEF UnwindSync, Unwinding, Running
  <2>2. cur[w] \in Frames /\ t \in Closures /\ t \in Live
    BY <2>1, RunFacts DEF AtWork
  <2>3. clo[t] \in Closure /\ on[w] \in Ptr(Fibers) /\ inflight[cur[w]] \in Nat
    BY <1>1, <2>2 DEF TypeOK
  <2>4. r \in Closure /\ Alike(clo[t], r)
    BY <2>3 DEF Closure, Alike
  <2> HIDE DEF r
  <2>5. Upd(clo, t, r) \in Trees /\ AllAlike(clo, Upd(clo, t, r))
    BY <1>1, <2>2, <2>4, UpdAlike DEF Live, Dead
  <2>6. /\ at' \in [Frames -> Nat \ {0}] /\ inflight' \in [Frames -> Nat]
        /\ \A f \in Frames : Ahead(f)' \subseteq Ahead(f)
    BY <1>1, <2>1 DEF TypeOK, Ahead
  <2> QED BY <2>1, <2>5, <2>6, CilkSyncKeeps
<1> QED BY <1>2, <1>3

-----------------------------------------------------------------------------
(* Steps that change the tree *)

\* The workers outside W keep their stacks.
LEMMA StacksStep ==
  ASSUME SchedulerInv, NEW W \in SUBSET Workers,
         \A v \in Workers \ W : OnStack(v)' => OnStack(v) /\ Stack(v)' = Stack(v) /\ StackFits(v)',
         \A u \in W : OnStack(u)' => StackFits(u)' /\ \A f \in Frames : Ahead(f)' \cap Stack(u)' = {},
         \A u \in W : \A v \in Workers : u # v /\ OnStack(u)' /\ OnStack(v)' => Stack(u)' \cap Stack(v)' = {},
         \A f \in Frames : Ahead(f)' \subseteq Ahead(f) /\ Ahead(f)' \cap stolen' = {}
  PROVE  Stacks' /\ Unbegun'
<1>1. ASSUME NEW v \in Workers, OnStack(v)'
      PROVE  StackFits(v)' /\ \A f \in Frames : Ahead(f)' \cap Stack(v)' = {}
  <2>1. CASE v \in W
    BY <1>1, <2>1
  <2>2. CASE v \notin W
    <3>1. OnStack(v) /\ Stack(v)' = Stack(v) /\ StackFits(v)'
      BY <1>1, <2>2
    <3>2. \A f \in Frames : Ahead(f) \cap Stack(v) = {}
      BY <3>1 DEF SchedulerInv, Unbegun
    <3> QED BY <3>1, <3>2
  <2> QED BY <2>1, <2>2
<1>2. ASSUME NEW v \in Workers, NEW u \in Workers, v # u, OnStack(v)', OnStack(u)'
      PROVE  Stack(v)' \cap Stack(u)' = {}
  <2>1. CASE v \in W \/ u \in W
    BY <1>2, <2>1
  <2>2. CASE v \notin W /\ u \notin W
    <3>1. OnStack(v) /\ Stack(v)' = Stack(v) /\ OnStack(u) /\ Stack(u)' = Stack(u)
      BY <1>2, <2>2
    <3> QED BY <1>2, <3>1 DEF SchedulerInv, Stacks
  <2> QED BY <2>1, <2>2
<1>3. Stacks'
  BY <1>1, <1>2 DEF Stacks
<1>4. Unbegun'
  BY <1>1 DEF Unbegun
<1> QED BY <1>3, <1>4

\* Worker v does not move.
SameAt(v) == wst'[v] = wst[v] /\ cl'[v] = cl[v] /\ dq'[v] = dq[v] /\ cur'[v] = cur[v] /\ shadow'[v] = shadow[v]

\* The closures that a worker's stack depends on are where they were.
SameBelow(v) ==
  LET c == Bottom(v) IN
  /\ clo'[c].frame = clo[c].frame /\ clo'[c].spawn_parent = clo[c].spawn_parent
  /\ wst[v] = "run" \/ (clo'[cl[v]].call_parent = clo[cl[v]].call_parent /\ clo'[cl[v]].frame = clo[cl[v]].frame)
  /\ clo[c].spawn_parent # 0 => clo'[clo[c].spawn_parent].frame = clo[clo[c].spawn_parent].frame

\* The stack of a worker that does not move, if nothing below it does.
LEMMA StackKept ==
  ASSUME SchedulerInv, NEW v \in Workers, OnStack(v), SameAt(v), SameBelow(v),
         stolen \subseteq stolen', stolen' \cap Stack(v) \subseteq stolen
  PROVE  Stack(v)' = Stack(v) /\ StackFits(v)' /\ OnStack(v)' /\ OnStack(v)
<1>1. StackFits(v) /\ OnStack(v)'
  BY DEF SchedulerInv, Stacks, OnStack, SameAt
<1>2. wst'[v] = wst[v] /\ cl'[v] = cl[v] /\ dq'[v] = dq[v] /\ cur'[v] = cur[v] /\ shadow'[v] = shadow[v]
  BY DEF SameAt
<1>3. /\ wst[v] = "run" \/ (clo'[cl[v]].call_parent = clo[cl[v]].call_parent /\ clo'[cl[v]].frame = clo[cl[v]].frame)
      /\ clo'[Bottom(v)].frame = clo[Bottom(v)].frame
      /\ clo'[Bottom(v)].spawn_parent = clo[Bottom(v)].spawn_parent
      /\ clo[Bottom(v)].spawn_parent # 0 =>
           clo'[clo[Bottom(v)].spawn_parent].frame = clo[clo[Bottom(v)].spawn_parent].frame
  BY DEF SameBelow
<1> QED BY <1>1, <1>2, <1>3, KeepStack

\* What the stack of another worker rests on.
LEMMA BelowLive ==
  ASSUME SchedulerInv, NEW v \in Workers, OnStack(v)
  PROVE  /\ Bottom(v) \in Live /\ (wst[v] = "run" \/ (wst[v] = "promote" /\ cl[v] \in Live /\ cl[v] = Holds(v) /\ cl[v] # 0))
         /\ wst[v] = "run" => Bottom(v) = Holds(v) /\ Bottom(v) # 0 /\ clo[Bottom(v)].status = "RUNNING"
         /\ wst[v] = "promote" => /\ clo[Bottom(v)].status = "SUSPENDED" /\ clo[cl[v]].call_parent = Bottom(v)
                                  /\ Bottom(v) # 0 /\ clo[cl[v]].spawn_parent = 0
         /\ clo[Bottom(v)].spawn_parent # 0 => /\ clo[Bottom(v)].spawn_parent \in Live
                                               /\ clo[clo[Bottom(v)].spawn_parent].frame # 0
                                               /\ Bottom(v) \in Kids(clo, clo[Bottom(v)].spawn_parent)
<1>1. CASE wst[v] = "run"
  <2>1. AtWork(v)
    BY <1>1, RunFacts
  <2>2. Bottom(v) = dq[v] /\ dq[v] \in Live /\ dq[v] # 0 /\ cl[v] = 0 /\ clo[dq[v]].status = "RUNNING"
    BY <2>1 DEF AtWork
  <2>3. Placed(dq[v])
    BY SMTT(30), <2>2 DEF SchedulerInv
  <2> QED BY <1>1, <2>2, <2>3 DEF Placed, Holds, Kids, Live
<1>2. CASE wst[v] = "promote"
  <2>1. AtPromote(v)
    BY SMTT(30), <1>2, PromoteFacts
  <2>2. /\ Bottom(v) = clo[cl[v]].call_parent /\ Bottom(v) \in Live /\ Bottom(v) # 0 /\ cl[v] # 0 /\ cl[v] \in Live
        /\ clo[Bottom(v)].status = "SUSPENDED" /\ clo[cl[v]].spawn_parent = 0
    BY <2>1 DEF AtPromote
  <2>3. Placed(Bottom(v))
    BY <2>2 DEF SchedulerInv
  <2> QED BY <1>2, <2>2, <2>3 DEF Placed, Holds, Kids, Live
<1> QED BY <1>1, <1>2 DEF OnStack

\* A stolen frame on a worker's stack is that of the closure the stack rests on.
LEMMA StolenBelow ==
  ASSUME SchedulerInv, NEW v \in Workers, OnStack(v), NEW c \in Live, clo[c].frame # 0, clo[c].frame \in Stack(v)
  PROVE  Bottom(v) = c
<1>1. clo[c].frame \in stolen
  BY DEF SchedulerInv, Named
<1>2. stolen \cap Stack(v) \subseteq {clo[Bottom(v)].frame}
  BY DEF SchedulerInv, Stacks, StackFits, FitsStack, Stack
<1>3. Bottom(v) \in Live
  BY BelowLive
<1> QED BY <1>1, <1>2, <1>3 DEF SchedulerInv, Named

\* Closure x, without children and callee, leaves the tree; its caller's
\* closure has no callee then.
Leaves(x) ==
  LET q == clo[x].call_parent IN
  /\ x \in Live /\ Live' = Live \ {x} /\ stolen' = stolen /\ Promoting \subseteq Promoting' \cup {x}
  /\ \A c \in Live \ {x} :
       /\ clo'[c].frame = clo[c].frame /\ clo'[c].spawn_parent = clo[c].spawn_parent
       /\ clo'[c].call_parent = clo[c].call_parent
       /\ clo[c].spawn_parent # x /\ clo[c].call_parent # x
       /\ clo'[c].has_cilk_callee <=> clo[c].has_cilk_callee /\ c # q
       /\ clo'[c].has_cilk_callee => clo'[c].status = "SUSPENDED"

\* The closures lie as they did when one without children leaves.
LEMMA PlacesShrink ==
  ASSUME SchedulerInv, NEW x, Leaves(x)
  PROVE  Named' /\ (\A c \in Live : Placed(c))' /\ Callees'
<1>1. /\ x \in Live /\ Live' = Live \ {x} /\ stolen' = stolen /\ Promoting \subseteq Promoting' \cup {x}
      /\ \A c \in Live \ {x} :
           /\ clo'[c].frame = clo[c].frame /\ clo'[c].spawn_parent = clo[c].spawn_parent
           /\ clo'[c].call_parent = clo[c].call_parent
           /\ clo[c].spawn_parent # x /\ clo[c].call_parent # x
           /\ clo'[c].has_cilk_callee <=> clo[c].has_cilk_callee /\ c # clo[x].call_parent
           /\ clo'[c].has_cilk_callee => clo'[c].status = "SUSPENDED"
  BY DEF Leaves
<1>2. Named'
  BY <1>1 DEF SchedulerInv, Named
<1>3. ASSUME NEW c \in Live \ {x} PROVE Placed(c)'
  <2> DEFINE b == clo[c].frame
             p == clo[c].spawn_parent
             q == clo[c].call_parent
  <2>1. clo'[c].frame = b /\ clo'[c].spawn_parent = p /\ clo'[c].call_parent = q
    BY <1>1
  <2>2. Placed(c)
    BY DEF SchedulerInv
  <2>3. ASSUME p # 0
        PROVE  /\ p \in Live' /\ p # c /\ clo'[p].frame # 0 /\ q = 0
               /\ b # 0 => Detached(b) /\ CallParent(b) = clo'[p].frame
    <3>1. p \in Live \ {x}
      BY <1>1, <2>2, <2>3 DEF Placed
    <3>2. p \in Live' /\ clo'[p].frame = clo[p].frame
      BY <1>1, <3>1
    <3> QED BY <2>2, <2>3, <3>2 DEF Placed
  <2>4. ASSUME q # 0
        PROVE  /\ q \in Live' /\ q # c /\ clo'[q].has_cilk_callee
               /\ b \in Frames \ Roots /\ ~Detached(b)
               /\ c \in Promoting' \/ clo'[q].frame = CallParent(b)
    <3>1. q \in Live \ {x} /\ clo[q].has_cilk_callee
      BY <1>1, <2>2, <2>4 DEF Placed
    <3>2. q # clo[x].call_parent
      BY <1>1, <2>4 DEF SchedulerInv, Callees
    <3>3. q \in Live' /\ clo'[q].frame = clo[q].frame /\ clo'[q].has_cilk_callee
      BY <1>1, <3>1, <3>2
    <3>4. c \in Promoting => c \in Promoting'
      BY <1>1
    <3> QED BY <2>2, <2>4, <3>3, <3>4 DEF Placed
  <2>5. p = 0 /\ q = 0 => b \in Roots
    BY <2>2 DEF Placed
  <2> HIDE DEF b, p, q
  <2> QED BY <2>1, <2>3, <2>4, <2>5 DEF Placed
<1>4. Callees'
  <2>1. \A c, d \in Live' : clo'[c].call_parent = clo'[d].call_parent /\ clo'[c].call_parent # 0 => c = d
    BY <1>1 DEF SchedulerInv, Callees
  <2>2. ASSUME NEW c \in Live \ {x}, clo'[c].has_cilk_callee
        PROVE  clo'[c].status = "SUSPENDED" /\ \E d \in Live' : clo'[d].call_parent = c
    <3>1. clo[c].has_cilk_callee /\ c # clo[x].call_parent /\ clo'[c].status = "SUSPENDED"
      BY <1>1, <2>2
    <3>2. PICK d \in Live : clo[d].call_parent = c
      BY <3>1 DEF SchedulerInv, Callees
    <3>3. d \in Live' /\ clo'[d].call_parent = c
      BY <1>1, <3>1, <3>2
    <3> QED BY <3>1, <3>3
  <2> QED BY <1>1, <2>1, <2>2 DEF Callees
<1> QED BY <1>1, <1>2, <1>3, <1>4

\* A closure whose join counter is zero has no children.
LEMMA NoKids ==
  ASSUME Lists(clo), NEW x \in Live, clo[x].join_counter = 0
  PROVE  Kids(clo, x) = {} /\ \A c \in Live : clo[c].spawn_parent # x
<1>1. PICK s : Linked(clo, x, s)
  BY DEF Lists, Live
<1>2. Kids(clo, x) = {}
  BY <1>1 DEF Linked
<1> QED BY <1>2 DEF Kids, Live

\* Tree D is C without closure x, which has no parent and no children.
LEMMA ListsOrphan ==
  ASSUME NEW C, NEW D, NEW x \in Closures, Lists(C), Dead(D, x), C[x].spawn_parent = 0,
         \A c \in Closures \ {x} : /\ Dead(D, c) <=> Dead(C, c)
                                   /\ SamePlace(C, D, c) /\ SameList(C, D, c)
  PROVE  Lists(D)
<1> SUFFICES ASSUME NEW p \in Closures, D[p].status # "FREE"
             PROVE  \E s \in [1 .. D[p].join_counter -> Kids(D, p)] : Linked(D, p, s)
  BY DEF Lists
<1>1. p # x /\ C[p].status # "FREE" /\ SameList(C, D, p) /\ p # 0
  BY NotNull DEF Dead
<1>2. Kids(D, p) = Kids(C, p) /\ x \notin Kids(C, p)
  BY <1>1 DEF Kids, Dead, SamePlace
<1>3. PICK s \in [1 .. C[p].join_counter -> Kids(C, p)] : Linked(C, p, s)
  BY <1>1 DEF Lists
<1>4. D[p].join_counter = C[p].join_counter /\ D[p].right_most_child = C[p].right_most_child
  BY <1>1 DEF SameList
<1>5. \A i \in 1 .. C[p].join_counter : D[s[i]].left_sib = C[s[i]].left_sib /\ D[s[i]].right_sib = C[s[i]].right_sib
  BY <1>2, <1>3 DEF Kids, SamePlace
<1>6. Linked(D, p, s)
  BY <1>2, <1>3, <1>4, <1>5 DEF Linked
<1> QED BY <1>2, <1>3, <1>4, <1>6

\* FreshClosure is a closure.
LEMMA FreshType == FreshClosure \in Closure /\ Dead([c \in Closures |-> FreshClosure], RootClosure)
<1>1. 0 \in Ptr(Closures) /\ 0 \in Ptr(Frames) /\ 0 \in Ptr(Fibers) /\ <<>> \in Maps /\ "FREE" \in Status
  BY DEF Ptr, Maps, Status
<1>2. RootClosure \in Closures
  BY SchedulerAssumption DEF RootClosure, Closures
<1> QED BY <1>1, <1>2 DEF FreshClosure, Closure, Dead

\* What holds when a called frame with a closure returns to its caller's.
AtSetReturn(w, t, q, f) ==
  /\ t \in Closures /\ t # 0 /\ t \in Live /\ clo[t].status = "RUNNING" /\ Holds(w) = t /\ cl[w] = 0 /\ wst[w] = "run"
  /\ f \in Frames \ Roots /\ CallParent(f) \in Frames /\ CallParent(f) # 0 /\ clo[t].frame = f
  /\ clo[t].spawn_parent = 0 /\ shadow[w] = <<>>
  /\ \A c \in Live : clo[c].spawn_parent # t /\ clo[c].call_parent # t
  /\ q \in Closures /\ q # 0 /\ q # t /\ q \in Live /\ clo[q].status = "SUSPENDED" /\ clo[q].has_cilk_callee
  /\ clo[q].frame = CallParent(f)
  /\ \A v \in Workers : Holds(v) # q

\* A called frame that returns to its caller's closure.
LEMMA SetReturnFacts ==
  ASSUME SchedulerInv, NEW w \in Workers, SetReturn(w)
  PROVE  AtSetReturn(w, dq[w], clo[dq[w]].call_parent, cur[w])
<1> DEFINE f == cur[w]
           t == dq[w]
           q == clo[t].call_parent
<1>1. Leaving(w) /\ wst[w] = "run" /\ f \notin Roots /\ ~Detached(f) /\ f \in stolen
  BY DEF SetReturn, Leaving, Unwound, Unwinding, Running
<1>2. AtWork(w)
  BY <1>1, RunFacts
<1>3. t \in Closures /\ t # 0 /\ t \in Live /\ clo[t].status = "RUNNING" /\ cl[w] = 0 /\ ~clo[t].has_cilk_callee
      /\ f \in Frames \ Roots
  BY <1>1, <1>2 DEF AtWork
<1>4. clo[t].spawn_parent = 0 /\ clo[t].frame = f /\ shadow[w] = <<>>
  BY <1>1, <1>2, WorkBottom
<1>5. CallParent(f) \in Frames /\ CallParent(f) # 0
  BY <1>3, CallParentIs, FramesPositive
<1>6. clo[t].join_counter = 0
  BY <1>1, <1>2, <1>4, LeavingChildless
<1>7. \A c \in Live : clo[c].spawn_parent # t
  BY <1>3, <1>6, NoKids DEF SchedulerInv
<1>8. \A c \in Live : clo[c].call_parent # t
  BY <1>3 DEF SchedulerInv, Placed
<1>9. Holds(w) = t
  BY <1>3 DEF Holds
<1>10. t \notin Promoting
  <2> SUFFICES ASSUME NEW v \in Workers, wst[v] = "promote", cl[v] = t PROVE FALSE
    BY DEF Promoting
  <2>1. v # w /\ Holds(v) = t
    BY <1>1, <1>3 DEF Holds
  <2> QED BY <1>3, <1>9, <2>1 DEF SchedulerInv, Owners
<1>11. q # 0 /\ q \in Live /\ q # t /\ clo[q].has_cilk_callee /\ clo[q].frame = CallParent(f)
  <2>1. Placed(t)
    BY <1>3 DEF SchedulerInv
  <2> QED BY <1>1, <1>4, <1>10, <2>1 DEF Placed
<1>12. clo[q].status = "SUSPENDED" /\ q \in Closures
  BY <1>11 DEF SchedulerInv, Callees, Live
<1>13. \A v \in Workers : Holds(v) # q
  BY <1>11, <1>12, HeldLive
<1> QED BY <1>1, <1>3, <1>4, <1>5, <1>7, <1>8, <1>9, <1>11, <1>12, <1>13 DEF AtSetReturn

\* The callee's closure goes and its caller's runs: the invariant is kept.
LEMMA SetReturnKeeps ==
  ASSUME SchedulerInv, NEW w \in Workers, SetReturn(w)
  PROVE  SchedulerInv'
<1> DEFINE f == cur[w]
           t == dq[w]
           q == clo[t].call_parent
           r == [clo[q] EXCEPT !.status = "RUNNING", !.callee = 0, !.has_cilk_callee = FALSE]
<1>1. TypeOK /\ clo \in Trees /\ AtSetReturn(w, t, q, f) /\ HoldsOne(w)
  BY SetReturnFacts DEF SchedulerInv, TypeOK, Trees, Owners
<1>2. /\ clo' = Upd(Destroy(clo, t), q, r) /\ dq' = Set(dq, w, q) /\ cur' = Set(cur, w, CallParent(f)) /\ PassExn(f)
      /\ UNCHANGED <<wst, cl, shadow, rmap, ftf, on, at, caught, stolen, unsynced, pending, sp, mutex, fibers, exiting>>
  BY DEF SetReturn, worker, flags
<1>3. t \in Closures /\ t # 0 /\ t \in Live /\ clo[t].status = "RUNNING" /\ Holds(w) = t /\ cl[w] = 0 /\ wst[w] = "run"
  BY <1>1 DEF AtSetReturn
<1>4. f \in Frames \ Roots /\ CallParent(f) \in Frames /\ CallParent(f) # 0 /\ clo[t].frame = f
      /\ clo[t].spawn_parent = 0 /\ shadow[w] = <<>>
  BY <1>1 DEF AtSetReturn
<1>5. \A c \in Live : clo[c].spawn_parent # t /\ clo[c].call_parent # t
  BY <1>1 DEF AtSetReturn
<1>6. q \in Closures /\ q # 0 /\ q # t /\ q \in Live /\ clo[q].status = "SUSPENDED" /\ clo[q].has_cilk_callee
      /\ clo[q].frame = CallParent(f) /\ \A v \in Workers : Holds(v) # q
  BY <1>1 DEF AtSetReturn
<1> HIDE DEF q
<1>7. clo[q] \in Closure /\ 0 \in Ptr(Closures)
  BY <1>1, <1>6 DEF Trees, Ptr
<1>8. r \in Closure /\ r.status = "RUNNING" /\ r.frame = clo[q].frame /\ r.join_counter = clo[q].join_counter
      /\ r.call_parent = clo[q].call_parent /\ r.spawn_parent = clo[q].spawn_parent
      /\ r.left_sib = clo[q].left_sib /\ r.right_sib = clo[q].right_sib
      /\ r.right_most_child = clo[q].right_most_child
  BY <1>7 DEF Closure, Status
<1>9. ~r.has_cilk_callee
  BY <1>7 DEF Closure
<1> HIDE DEF r
<1>10. Destroy(clo, t) \in Trees /\ \A c \in Closures : Destroy(clo, t)[c] = IF c = t THEN FreshClosure ELSE clo[c]
  BY <1>1, <1>3, FreshType DEF Trees, Destroy
<1>11. clo' \in Trees /\ \A c \in Closures : clo'[c] = IF c = q THEN r ELSE IF c = t THEN FreshClosure ELSE clo[c]
  BY <1>2, <1>6, <1>8, <1>10, UpdIs
<1>12. clo'[q] = r /\ clo'[t] = FreshClosure /\ \A c \in Closures \ {q, t} : clo'[c] = clo[c]
  BY <1>3, <1>6, <1>11
<1>13. FreshClosure.status = "FREE"
  BY DEF FreshClosure
<1>14. Live' = Live \ {t}
  BY <1>3, <1>6, <1>8, <1>12, <1>13 DEF Live
<1>15. dq'[w] = q /\ cur'[w] = CallParent(f) /\ (\A v \in Workers \ {w} : SameAt(v))
       /\ dq' \in [Workers -> Ptr(Closures)] /\ cur' \in [Workers -> Ptr(Frames)]
  <2>1. q \in Ptr(Closures) /\ CallParent(f) \in Ptr(Frames)
    BY <1>4, <1>6 DEF Ptr
  <2> QED BY <1>1, <1>2, <2>1 DEF TypeOK, Set, SameAt
<1>16. inflight' \in [Frames -> Nat]
  BY <1>1, <1>2, <1>4, PassType DEF TypeOK
<1>17. TypeOK'
  BY <1>1, <1>2, <1>11, <1>15, <1>16 DEF TypeOK, Trees
<1>18. Promoting' = Promoting /\ Finishing' = Finishing
  BY <1>2 DEF Promoting, Finishing
<1>19. \A c \in Live \ {t} : /\ clo'[c].frame = clo[c].frame /\ clo'[c].spawn_parent = clo[c].spawn_parent
                             /\ clo'[c].call_parent = clo[c].call_parent /\ clo'[c].join_counter = clo[c].join_counter
                             /\ clo'[c].left_sib = clo[c].left_sib /\ clo'[c].right_sib = clo[c].right_sib
                             /\ clo'[c].right_most_child = clo[c].right_most_child
  <2> TAKE c \in Live \ {t}
  <2>1. CASE c = q
    BY <1>8, <1>12, <2>1
  <2>2. CASE c # q
    BY <1>12, <2>2 DEF Live
  <2> QED BY <2>1, <2>2
<1>20. Named' /\ (\A c \in Live : Placed(c))' /\ Callees'
  <2>1. \A c \in Live \ {t} : /\ clo'[c].has_cilk_callee <=> clo[c].has_cilk_callee /\ c # q
                              /\ clo'[c].has_cilk_callee => clo'[c].status = "SUSPENDED"
    <3> TAKE c \in Live \ {t}
    <3>1. CASE c = q
      BY <1>9, <1>12, <3>1
    <3>2. CASE c # q
      BY SMTT(30), <1>12, <3>2 DEF Live, SchedulerInv, Callees
    <3> QED BY <3>1, <3>2
  <2>2. Leaves(t)
    BY <1>2, <1>3, <1>5, <1>14, <1>18, <1>19, <2>1 DEF Leaves, q
  <2> QED BY <2>2, PlacesShrink
<1>21. Blank'
  <2> SUFFICES ASSUME NEW c \in Closures \ Live' PROVE clo'[c] = FreshClosure
    BY DEF Blank
  <2>1. c = t \/ (c \notin {q, t} /\ c \notin Live)
    BY <1>6, <1>14
  <2> QED BY <1>12, <2>1 DEF SchedulerInv, Blank
<1>22. Lists(clo)'
  <2>1. Dead(clo', t) /\ Lists(clo)
    BY <1>12, <1>13 DEF Dead, SchedulerInv
  <2>2. ASSUME NEW c \in Closures \ {t}
        PROVE  (Dead(clo', c) <=> Dead(clo, c)) /\ SamePlace(clo, clo', c) /\ SameList(clo, clo', c)
    <3>1. CASE c = q
      BY <1>6, <1>8, <1>12, <3>1 DEF Dead, SamePlace, SameList
    <3>2. CASE c # q
      BY <1>12, <3>2 DEF Dead, SamePlace, SameList
    <3> QED BY <3>1, <3>2
  <2> QED BY <1>3, <1>4, <2>1, <2>2, ListsOrphan
<1>23. NoLostWakeup'
  <2>1. \A c \in Live' : c # q => clo'[c] = clo[c]
    BY <1>12, <1>14 DEF Live
  <2> QED BY <1>8, <1>12, <1>14, <2>1 DEF SchedulerInv, NoLostWakeup, HasChildren
<1>24. Unsynched'
  <2>1. \A c \in Live' : clo'[c].status = "RETURNING" => clo[c].status = "RETURNING"
    BY <1>8, <1>12, <1>14 DEF Live
  <2> QED BY <1>2, <1>14, <1>18, <1>19, <2>1 DEF SchedulerInv, Unsynched
<1>25. Owners'
  <2>1. HoldsOne(w)'
    BY <1>2, <1>3, <1>4, <1>6, <1>8, <1>12, <1>15 DEF HoldsOne
  <2>2. Holds(w)' = q
    BY <1>2, <1>3, <1>15 DEF Holds
  <2>3. \A v \in Workers \ {w} : Holds(v)' = Holds(v)
    BY <1>15 DEF SameAt, Holds
  <2>4. ASSUME NEW v \in Workers \ {w}, Holds(v) # 0 PROVE clo'[Holds(v)] = clo[Holds(v)]
    <3>1. Holds(v) \in Live /\ Holds(v) # q /\ Holds(v) # t
      BY <1>3, <1>6, <2>4, HeldLive DEF SchedulerInv, Owners
    <3> QED BY <1>12, <3>1 DEF Live
  <2>5. SameBut(wst, {w}) /\ SameBut(cl, {w}) /\ SameBut(dq, {w}) /\ SameBut(cur, {w})
    BY <1>15 DEF SameBut, SameAt
  <2> HIDE DEF Owners, Holds
  <2> QED BY <1>6, <2>1, <2>2, <2>3, <2>4, <2>5, OwnersStep
<1>26. ASSUME NEW v \in Workers \ {w}, OnStack(v)
       PROVE  Stack(v)' = Stack(v) /\ StackFits(v)' /\ CallParent(f) \notin Stack(v)
  <2> DEFINE c == Bottom(v)
             p == clo[c].spawn_parent
  <2>1. c \in Live /\ c # t
    <3>1. Holds(v) # t \/ Holds(v) = 0
      BY <1>3 DEF SchedulerInv, Owners
    <3> QED BY <1>3, <1>26, <3>1, BelowLive DEF OnStack
  <2>2. wst[v] = "run" \/ (cl[v] \in Live \ {t})
    <3>1. Holds(v) # t \/ Holds(v) = 0
      BY <1>3 DEF SchedulerInv, Owners
    <3> QED BY <1>26, <3>1, BelowLive
  <2>3. p # 0 => p \in Live \ {t}
    BY <1>5, <1>26, <2>1, BelowLive
  <2>4. SameBelow(v)
    BY <1>19, <2>1, <2>2, <2>3 DEF SameBelow
  <2>5. Stack(v)' = Stack(v) /\ StackFits(v)'
    <3>1. SameAt(v) /\ stolen \subseteq stolen' /\ stolen' \cap Stack(v) \subseteq stolen
      BY <1>2, <1>15
    <3> QED BY <1>26, <2>4, <3>1, StackKept
  <2>6. ASSUME CallParent(f) \in Stack(v) PROVE FALSE
    <3>1. c = q
      BY <1>4, <1>6, <1>26, <2>6, StolenBelow
    <3>2. wst[v] = "promote" /\ cl[v] \in Live /\ clo[cl[v]].call_parent = q /\ Holds(v) = cl[v]
      BY <1>6, <1>26, <3>1, BelowLive DEF OnStack
    <3>3. cl[v] = t
      BY <1>3, <1>6, <3>2 DEF SchedulerInv, Callees, q
    <3> QED BY <1>3, <3>2, <3>3 DEF SchedulerInv, Owners
  <2> QED BY <2>5, <2>6
<1>27. StackFits(w)' /\ Stack(w)' = {CallParent(f)}
  <2> DEFINE b == CallParent(f)
             o == Outer(q)
             p == clo[q].spawn_parent
  <2>1. Bottom(w)' = q /\ Tip(w)' = b /\ Shadow(w)' = <<>>
    BY <1>2, <1>3, <1>4, <1>15 DEF Bottom, Tip, Shadow
  <2>2. BaseOf(o, b, p) /\ b \in stolen
    BY <1>1, <1>4, <1>6, PlacedBase DEF SchedulerInv, Trees, Named
  <2>3. clo'[q].frame = b /\ clo'[q].spawn_parent = p
    BY <1>6, <1>8, <1>12
  <2>4. p # 0 => clo'[p].frame = clo[p].frame
    BY <1>5, <1>6, <1>19 DEF SchedulerInv, Placed
  <2>5. Outer(Bottom(w))' = o
    BY <1>6, <2>1, <2>3, <2>4 DEF Outer
  <2> HIDE DEF b, o, p
  <2>6. Stacklet(o, b) = {b} /\ FitsStack(o, b, p, stolen, b, <<>>)
    BY <1>4, <2>2, StackStart DEF b
  <2>8. StackFits(w)'
    BY <1>2, <2>1, <2>3, <2>5, <2>6 DEF StackFits
  <2>9. Stack(w)' = {b}
    BY <2>1, <2>5, <2>6 DEF Stack
  <2> QED BY <2>8, <2>9 DEF b
<1>28. \A g \in Frames : Ahead(g)' = Ahead(g) /\ Ahead(g) \cap stolen = {} /\ CallParent(f) \notin Ahead(g)
  <2>1. CallParent(f) \in stolen
    BY <1>4, <1>6 DEF SchedulerInv, Named
  <2> QED BY <1>2, <2>1 DEF SchedulerInv, Unbegun, Ahead
<1>29. Stacks' /\ Unbegun'
  <2>1. \A v \in Workers \ {w} : OnStack(v)' => OnStack(v)
    BY <1>2 DEF OnStack
  <2> DEFINE W == {w}
  <2>6. W \in SUBSET Workers
    OBVIOUS
  <2>2. \A v \in Workers \ W : OnStack(v)' => OnStack(v) /\ Stack(v)' = Stack(v) /\ StackFits(v)'
    BY <1>26, <2>1
  <2>3. \A u \in W : \A v \in Workers : u # v /\ OnStack(u)' /\ OnStack(v)' => Stack(u)' \cap Stack(v)' = {}
    BY <1>26, <1>27, <2>1
  <2>4. \A u \in W : OnStack(u)' => StackFits(u)' /\ \A g \in Frames : Ahead(g)' \cap Stack(u)' = {}
    BY <1>27, <1>28
  <2>5. \A g \in Frames : Ahead(g)' \subseteq Ahead(g) /\ Ahead(g)' \cap stolen' = {}
    BY <1>2, <1>28
  <2> HIDE DEF W
  <2> QED BY <2>2, <2>3, <2>4, <2>5, <2>6, StacksStep
<1> QED BY <1>17, <1>20, <1>21, <1>22, <1>23, <1>24, <1>25, <1>29 DEF SchedulerInv

-----------------------------------------------------------------------------
(* The end of Closure_return *)

\* Tree D is C with child c of p unlinked from its siblings l and r.
Unlinked(C, D, p, c, l, r) ==
  \A k \in Closures :
    /\ D[k].status = C[k].status /\ D[k].frame = C[k].frame /\ D[k].join_counter = C[k].join_counter
    /\ D[k].has_cilk_callee = C[k].has_cilk_callee /\ D[k].call_parent = C[k].call_parent
    /\ D[k].spawn_parent = C[k].spawn_parent
    /\ D[k].left_sib = (IF k = r THEN l ELSE C[k].left_sib)
    /\ D[k].right_sib = (IF k = l THEN r ELSE C[k].right_sib)
    /\ D[k].right_most_child = (IF k = p /\ C[p].right_most_child = c THEN l ELSE C[k].right_most_child)
    /\ k \notin {l, r, p} => D[k] = C[k]

\* What Remove_child computes.
LEMMA RemoveIs ==
  ASSUME NEW C \in Trees, NEW p \in Closures, NEW c \in Closures, NEW l \in Closures \cup {0}, NEW r \in Closures \cup {0},
         l = C[c].left_sib, r = C[c].right_sib, l # p, r # p, l = 0 \/ r = 0 \/ l # r
  PROVE  Remove_child(C, p, c) \in Trees /\ Unlinked(C, Remove_child(C, p, c), p, c, l, r)
<1> DEFINE a == [C[l] EXCEPT !.right_sib = r]
           D == Upd(C, l, a)
           b == [D[r] EXCEPT !.left_sib = l]
           E == Upd(D, r, b)
           d == [E[p] EXCEPT !.right_most_child = IF @ = c THEN l ELSE @]
           F == Upd(E, p, d)
<1>1. Remove_child(C, p, c) = F
  BY DEF Remove_child
<1>2. 0 \notin Closures /\ l \in Ptr(Closures) /\ r \in Ptr(Closures)
  BY NotNull DEF Ptr
<1>3. \A k \in Closures : C[k] \in Closure
  BY DEF Trees
<1>4. l # 0 => a \in Closure /\ a.right_sib = r
               /\ a.left_sib = C[l].left_sib /\ a.right_most_child = C[l].right_most_child
               /\ a.status = C[l].status /\ a.frame = C[l].frame /\ a.join_counter = C[l].join_counter
               /\ a.has_cilk_callee = C[l].has_cilk_callee /\ a.call_parent = C[l].call_parent
               /\ a.spawn_parent = C[l].spawn_parent
  BY <1>2, <1>3 DEF Closure, Alike
<1> HIDE DEF a
<1>5. D \in Trees /\ \A k \in Closures : D[k] = IF k = l THEN a ELSE C[k]
  <2>1. l # 0 => a \in Closure
    BY <1>4
  <2> HIDE DEF b, d, E, F
  <2> QED BY <2>1, UpdIs
<1> HIDE DEF D
<1>6. r # 0 => D[r] = C[r] /\ C[r] \in Closure
  BY <1>3, <1>5
<1>7. r # 0 => b \in Closure /\ b.left_sib = l
               /\ b.right_sib = C[r].right_sib /\ b.right_most_child = C[r].right_most_child
               /\ b.status = C[r].status /\ b.frame = C[r].frame /\ b.join_counter = C[r].join_counter
               /\ b.has_cilk_callee = C[r].has_cilk_callee /\ b.call_parent = C[r].call_parent
               /\ b.spawn_parent = C[r].spawn_parent
  BY <1>2, <1>6 DEF Closure
<1> HIDE DEF b
<1>8. E \in Trees /\ \A k \in Closures : E[k] = IF k = r THEN b ELSE D[k]
  <2>1. D \in Trees /\ (r # 0 => b \in Closure)
    BY <1>5, <1>7
  <2> HIDE DEF d, F
  <2> QED BY SMTT(30), <2>1, UpdIs
<1> HIDE DEF E
<1>9. E[p] = C[p] /\ C[p] \in Closure
  BY <1>3, <1>5, <1>8
<1>10. d \in Closure /\ d.right_most_child = (IF C[p].right_most_child = c THEN l ELSE C[p].right_most_child)
               /\ d.left_sib = C[p].left_sib /\ d.right_sib = C[p].right_sib
               /\ d.status = C[p].status /\ d.frame = C[p].frame /\ d.join_counter = C[p].join_counter
               /\ d.has_cilk_callee = C[p].has_cilk_callee /\ d.call_parent = C[p].call_parent
               /\ d.spawn_parent = C[p].spawn_parent
  BY <1>2, <1>9 DEF Closure
<1> HIDE DEF d
<1>11. F \in Trees /\ \A k \in Closures : F[k] = IF k = p THEN d ELSE E[k]
  <2>1. E \in Trees /\ d \in Closure
    BY <1>8, <1>10
  <2> QED BY <2>1, UpdIs
<1> HIDE DEF F
<1>12. Unlinked(C, F, p, c, l, r)
  <2> SUFFICES ASSUME NEW k \in Closures
               PROVE  /\ F[k].status = C[k].status /\ F[k].frame = C[k].frame /\ F[k].join_counter = C[k].join_counter
                      /\ F[k].has_cilk_callee = C[k].has_cilk_callee /\ F[k].call_parent = C[k].call_parent
                      /\ F[k].spawn_parent = C[k].spawn_parent
                      /\ F[k].left_sib = (IF k = r THEN l ELSE C[k].left_sib)
                      /\ F[k].right_sib = (IF k = l THEN r ELSE C[k].right_sib)
                      /\ F[k].right_most_child = (IF k = p /\ C[p].right_most_child = c THEN l ELSE C[k].right_most_child)
                      /\ k \notin {l, r, p} => F[k] = C[k]
    BY DEF Unlinked
  <2>1. CASE k = p
    BY <1>10, <1>11, <2>1
  <2>2. CASE k = l
    BY <1>2, <1>4, <1>5, <1>8, <1>11, <2>2
  <2>3. CASE k = r
    BY <1>2, <1>7, <1>8, <1>11, <2>3
  <2>4. CASE k \notin {l, r, p}
    BY <1>5, <1>8, <1>11, <2>4
  <2> QED BY <2>1, <2>2, <2>3, <2>4
<1> QED BY <1>1, <1>11, <1>12

\* Tree R is clo without the child c of p.
Gone(R, p, c) ==
  /\ R \in Trees /\ R[c] = FreshClosure /\ Unchained(clo, R, p, c)
  /\ \A k \in Closures \ {c} :
       /\ R[k].status = clo[k].status /\ R[k].frame = clo[k].frame
       /\ R[k].has_cilk_callee = clo[k].has_cilk_callee /\ R[k].call_parent = clo[k].call_parent
       /\ Dead(clo, k) => R[k] = clo[k]

\* What Returned computes.
LEMMA ReturnedIs ==
  ASSUME SchedulerInv, NEW w \in Workers, AtReturn(w), NEW x \in Maps
  PROVE  Gone(Returned(cl[w], x), clo[cl[w]].spawn_parent, cl[w])
<1> DEFINE c == cl[w]
           p == clo[c].spawn_parent
           l == clo[c].left_sib
           r == clo[c].right_sib
           B == PutLeft(clo, c, "right_rmap", "child_rmap", x)
           C == Remove_child(B, p, c)
           D == Destroy(C, c)
           n == clo[p].join_counter
           q == [C[p] EXCEPT !.join_counter = @ - 1, !.fiber_child = IF KeepsFiber(c) THEN clo[c].fiber ELSE @]
           R == Upd(D, p, q)
<1>1. Returned(c, x) = R
  BY DEF Returned
<1>2. c \in Closures /\ c \in Live /\ p \in Closures /\ p \in Live /\ p # c /\ p # 0 /\ clo \in Trees /\ clo[c] \in Closure
      /\ LeftOf(c) \in Live /\ LeftOf(c) # c
  BY DEF AtReturn
<1>3. l \in Closures \cup {0} /\ r \in Closures \cup {0} /\ clo[c].fiber \in Ptr(Fibers)
  BY <1>2 DEF Closure, Ptr
<1>4. /\ l # 0 => l \in Kids(clo, p) /\ l # c
      /\ r # 0 => r \in Kids(clo, p) /\ r # c
      /\ (l = 0 \/ r = 0 \/ l # r) /\ n \in Nat \ {0}
  BY <1>2, SiblingsLive DEF SchedulerInv
<1>5. l # p /\ r # p /\ (l # 0 => ~Dead(clo, l)) /\ (r # 0 => ~Dead(clo, r)) /\ ~Dead(clo, p) /\ ~Dead(clo, c)
  <2>1. \A k \in Kids(clo, p) : k # p /\ ~Dead(clo, k)
    <3> TAKE k \in Kids(clo, p)
    <3>1. k \in Live /\ clo[k].spawn_parent = p
      BY DEF Kids, Live
    <3>2. Placed(k)
      BY <3>1 DEF SchedulerInv
    <3> QED BY <1>2, <3>1, <3>2 DEF Placed, Live, Dead
  <2> HIDE DEF l, r
  <2> QED BY <1>2, <1>4, <2>1, NotNull DEF Live, Dead
<1>6. B \in Trees /\ AllAlike(clo, B) /\ B[c] = clo[c]
  BY <1>2, PutLeftIs
<1> HIDE DEF B
<1>7. C \in Trees /\ Unlinked(B, C, p, c, l, r)
  <2>1. l = B[c].left_sib /\ r = B[c].right_sib
    BY <1>6
  <2> HIDE DEF l, r, p, c
  <2> QED BY <1>2, <1>3, <1>4, <1>5, <1>6, <2>1, RemoveIs
<1> HIDE DEF C
<1>8. C[p] \in Closure /\ C[p].join_counter = n
  BY <1>2, <1>6, <1>7 DEF Trees, Unlinked, AllAlike, Alike
<1>9. n - 1 \in Nat /\ (IF KeepsFiber(c) THEN clo[c].fiber ELSE C[p].fiber_child) \in Ptr(Fibers)
  BY SMTT(30), <1>3, <1>4, <1>8 DEF Closure
<1>10. q \in Closure /\ q.join_counter = n - 1 /\ q.left_sib = C[p].left_sib /\ q.right_sib = C[p].right_sib
       /\ q.right_most_child = C[p].right_most_child
               /\ q.status = C[p].status /\ q.frame = C[p].frame
               /\ q.has_cilk_callee = C[p].has_cilk_callee /\ q.call_parent = C[p].call_parent
               /\ q.spawn_parent = C[p].spawn_parent
  BY <1>8, <1>9 DEF Closure
<1> HIDE DEF q, n
<1>11. D \in Trees /\ \A k \in Closures : D[k] = IF k = c THEN FreshClosure ELSE C[k]
  BY <1>2, <1>7, FreshType DEF Trees, Destroy
<1> HIDE DEF D
<1>12. R \in Trees /\ \A k \in Closures : R[k] = IF k = p THEN q ELSE D[k]
  <2>1. p \in Closures \cup {0} /\ (p # 0 => q \in Closure)
    BY <1>2, <1>10
  <2> HIDE DEF p, c
  <2> QED BY <1>2, <1>11, <2>1, UpdIs
<1> HIDE DEF R
<1>13. R[c] = FreshClosure /\ R[p] = q /\ \A k \in Closures \ {c, p} : R[k] = C[k]
  BY <1>2, <1>11, <1>12
<1>14. \A k \in Closures : Alike(clo[k], B[k]) /\ (Dead(clo, k) => B[k] = clo[k])
  BY <1>6 DEF AllAlike
<1>15. B[p].right_most_child = clo[p].right_most_child
  BY <1>2, <1>14 DEF Alike
<1>16. ASSUME NEW k \in Closures \ {c}
       PROVE  /\ R[k].status = clo[k].status /\ R[k].frame = clo[k].frame
              /\ R[k].has_cilk_callee = clo[k].has_cilk_callee /\ R[k].call_parent = clo[k].call_parent
              /\ R[k].spawn_parent = clo[k].spawn_parent
              /\ R[k].left_sib = (IF k = r THEN l ELSE clo[k].left_sib)
              /\ R[k].right_sib = (IF k = l THEN r ELSE clo[k].right_sib)
              /\ R[k].right_most_child = (IF k = p /\ clo[p].right_most_child = c THEN l ELSE clo[k].right_most_child)
              /\ R[k].join_counter = (IF k = p THEN n - 1 ELSE clo[k].join_counter)
              /\ Dead(clo, k) => R[k] = clo[k]
  <2> DEFINE lk == IF k = r THEN l ELSE clo[k].left_sib
             rk == IF k = l THEN r ELSE clo[k].right_sib
             mk == IF k = p /\ clo[p].right_most_child = c THEN l ELSE clo[k].right_most_child
  <2>1. /\ C[k].status = clo[k].status /\ C[k].frame = clo[k].frame /\ C[k].join_counter = clo[k].join_counter
        /\ C[k].has_cilk_callee = clo[k].has_cilk_callee /\ C[k].call_parent = clo[k].call_parent
        /\ C[k].spawn_parent = clo[k].spawn_parent
        /\ C[k].left_sib = lk /\ C[k].right_sib = rk /\ C[k].right_most_child = mk
        /\ k \notin {l, r, p} => C[k] = B[k]
    <3> HIDE DEF l, r, p, c
    <3>1. Alike(clo[k], B[k])
      BY SMTT(30), <1>14
    <3> QED BY <1>7, <1>15, <3>1 DEF Unlinked, Alike
  <2> HIDE DEF lk, rk, mk
  <2>2. CASE k = p
    BY <1>5, <1>10, <1>13, <2>1, <2>2 DEF lk, rk, mk
  <2>3. CASE k # p
    <3>1. R[k] = C[k]
      BY <1>13, <2>3
    <3>2. Dead(clo, k) => k \notin {l, r, p} /\ B[k] = clo[k]
      BY <1>5, <1>14, NotNull
    <3> QED BY <2>1, <2>3, <3>1, <3>2 DEF lk, rk, mk
  <2> QED BY <2>2, <2>3
<1>17. Dead(R, c)
  BY <1>13 DEF Dead, FreshClosure
<1>18. Unchained(clo, R, p, c)
  <2> DEFINE P(k) == /\ Dead(R, k) <=> Dead(clo, k)
                     /\ R[k].spawn_parent = clo[k].spawn_parent
                     /\ R[k].left_sib = IF k = clo[c].right_sib THEN clo[c].left_sib ELSE clo[k].left_sib
                     /\ R[k].right_sib = IF k = clo[c].left_sib THEN clo[c].right_sib ELSE clo[k].right_sib
                     /\ k # p => SameList(clo, R, k)
  <2>1. \A k \in Closures \ {c} : P(k)
    BY <1>16 DEF Dead, SameList
  <2>2. R[p].join_counter = n - 1 /\ R[p].right_most_child = IF clo[p].right_most_child = c THEN l ELSE clo[p].right_most_child
    BY <1>2, <1>16
  <2> QED BY <1>2, <1>5, <1>17, <2>1, <2>2 DEF Unchained, n
<1> QED BY <1>1, <1>12, <1>13, <1>16, <1>18 DEF Gone

\* The status of the parent of a returned child may change.
LEMMA GoneRestated ==
  ASSUME clo \in Trees, NEW R, NEW p, NEW c, Gone(R, p, c), NEW q \in Closure, Restated(R[p], q), ~Dead(R, p)
  PROVE  /\ Upd(R, p, q) \in Trees /\ Upd(R, p, q)[c] = FreshClosure /\ Unchained(clo, Upd(R, p, q), p, c)
         /\ Upd(R, p, q)[p] = q /\ \A k \in Closures \ {c, p} : Upd(R, p, q)[k] = R[k]
<1>1. R \in Trees /\ R[c] = FreshClosure /\ Unchained(clo, R, p, c)
  BY DEF Gone
<1>2. p \in Closures /\ c \in Closures /\ p # c /\ p # 0
  BY <1>1, NotNull DEF Unchained
<1> DEFINE D == Upd(R, p, q)
<1>3. D \in Trees /\ \A k \in Closures : D[k] = IF k = p THEN q ELSE R[k]
  BY <1>1, <1>2, UpdIs
<1> HIDE DEF D
<1>4. D[c] = FreshClosure /\ D[p] = q /\ \A k \in Closures \ {c, p} : D[k] = R[k]
  BY <1>1, <1>2, <1>3
<1>5. Unchained(clo, D, p, c)
  <2>1. /\ q.spawn_parent = R[p].spawn_parent /\ q.left_sib = R[p].left_sib /\ q.right_sib = R[p].right_sib
        /\ q.join_counter = R[p].join_counter /\ q.right_most_child = R[p].right_most_child /\ q.status # "FREE"
    BY DEF Restated
  <2>2. ASSUME NEW k \in Closures \ {c}
        PROVE  /\ Dead(D, k) <=> Dead(R, k)
               /\ D[k].spawn_parent = R[k].spawn_parent /\ D[k].left_sib = R[k].left_sib /\ D[k].right_sib = R[k].right_sib
               /\ SameList(clo, R, k) => SameList(clo, D, k)
    <3>1. CASE k = p
      BY <1>4, <2>1, <3>1 DEF Dead, SameList
    <3>2. CASE k # p
      BY <1>4, <3>2 DEF Dead, SameList
    <3> QED BY <3>1, <3>2
  <2>3. D[p].join_counter = R[p].join_counter /\ D[p].right_most_child = R[p].right_most_child
    BY <1>4, <2>1
  <2>4. Dead(D, c)
    BY <1>1, <1>4 DEF Unchained, Dead
  <2> QED BY <1>1, <2>2, <2>3, <2>4 DEF Unchained
<1> QED BY <1>3, <1>4, <1>5 DEF D

\* Closure c returns to p, which worker w resumes or not.
Returns(w, p, c) ==
  /\ clo' \in Trees /\ clo'[c] = FreshClosure /\ Unchained(clo, clo', p, c)
  /\ \A k \in Closures \ {c} :
       /\ k # p => clo'[k].status = clo[k].status
       /\ clo'[k].frame = clo[k].frame
       /\ clo'[k].has_cilk_callee = clo[k].has_cilk_callee /\ clo'[k].call_parent = clo[k].call_parent
       /\ Dead(clo, k) => clo'[k] = clo[k]
  /\ \/ /\ clo[p].status = "SUSPENDED" /\ ~clo[p].has_cilk_callee
        /\ clo'[p].status = "READY" /\ clo'[p].join_counter = 0 /\ unsynced' = unsynced \ {clo[p].frame}
        /\ cl'[w] = p /\ wst'[w] = "has"
     \/ /\ clo'[p].status = clo[p].status /\ unsynced' = unsynced
        /\ clo[p].status = "SUSPENDED" => HasChildren(clo'[p])
        /\ cl'[w] = 0 /\ wst'[w] = "idle"
  /\ UNCHANGED <<cur, shadow, dq, at, stolen>> /\ Same(wst, w) /\ Same(cl, w)

\* A return, with the parent resumed or not.
LEMMA ReturnIs ==
  ASSUME SchedulerInv, NEW w \in Workers, Return(w), AtReturn(w)
  PROVE  Returns(w, clo[cl[w]].spawn_parent, cl[w]) /\ TypeOK'
<1> DEFINE c == cl[w]
           p == clo[c].spawn_parent
           R == Returned(c, rmap[w])
           P == R[p]
<1>1. TypeOK /\ clo \in Trees /\ p = Parent(w) /\ c \in Closures /\ p \in Closures /\ p # c /\ p # 0
      /\ clo[c] \in Closure /\ p \in Live /\ clo[p].frame # 0
  BY DEF AtReturn
<1>2. Gone(R, p, c)
  <2>1. rmap[w] \in Maps
    BY SMTT(30), <1>1 DEF TypeOK
  <2> QED BY <2>1, ReturnedIs
<1> DEFINE q == [P EXCEPT !.status = "READY", !.fiber = P.fiber_child,
                          !.fiber_child = 0, !.orig_rsp = 0, !.child_rmap = <<>>,
                          !.user_rmap = <<>>, !.child_exn = 0,
                          !.user_exn = IF P.child_exn = 0 THEN @ ELSE P.child_exn]
           A == /\ Resumable(P) /\ clo' = Upd(R, p, q) /\ ftf' = Set(ftf, w, P.fiber)
                /\ pending' = (IF P.child_exn = 0 THEN pending ELSE pending \cup {P.frame})
                /\ unsynced' = unsynced \ {P.frame} /\ sp' = Set(sp, P.frame, P.orig_rsp)
                /\ rmap' = Set(rmap, w, Merge(P.child_rmap, P.user_rmap)) /\ cl' = Set(cl, w, p)
                /\ wst' = Set(wst, w, "has")
           B == /\ ~Resumable(P) /\ clo' = R /\ rmap' = Set(rmap, w, <<>>) /\ cl' = Set(cl, w, 0)
                /\ wst' = Set(wst, w, "idle") /\ UNCHANGED <<ftf, pending, unsynced, sp>>
<1>3. /\ A \/ B
      /\ fibers' = (IF KeepsFiber(c) THEN fibers ELSE Freed({clo[c].fiber})) /\ Unlock2(w)
      /\ UNCHANGED <<cur, shadow, dq, on, at, inflight, caught, stolen, exiting>>
  BY <1>1 DEF Return, deque, program
<1> HIDE DEF R, A, B
<1>4. mutex' \in [Closures -> Ptr(Workers)] /\ fibers' \subseteq Fibers
  <2>1. mutex' \in [Closures -> Ptr(Workers)]
    BY <1>1, <1>3, LocksType DEF TypeOK
  <2>2. clo[c].fiber \in Ptr(Fibers)
    BY <1>1 DEF Closure
  <2> QED BY <1>1, <1>3, <2>1, <2>2 DEF TypeOK, Freed, Ptr
<1>5. R \in Trees /\ R[c] = FreshClosure /\ Unchained(clo, R, p, c) /\ P \in Closure
  BY <1>1, <1>2 DEF Gone, Trees
<1>6. \A k \in Closures \ {c} : /\ R[k].status = clo[k].status /\ R[k].frame = clo[k].frame
                                /\ R[k].has_cilk_callee = clo[k].has_cilk_callee /\ R[k].call_parent = clo[k].call_parent
                                /\ Dead(clo, k) => R[k] = clo[k]
  BY <1>2 DEF Gone
<1>7. P.status = clo[p].status /\ P.frame = clo[p].frame /\ P.has_cilk_callee = clo[p].has_cilk_callee
      /\ P.call_parent = clo[p].call_parent /\ ~Dead(R, p) /\ ~Dead(clo, p)
  BY <1>1, <1>6 DEF Live, Dead
<1>8. 0 \in Ptr(Fibers) /\ 0 \in Ptr(Closures) /\ <<>> \in Maps /\ p \in Ptr(Closures)
  BY <1>1 DEF Ptr, Maps
<1>9. CASE A
  <2>1. /\ Resumable(P) /\ clo' = Upd(R, p, q) /\ ftf' = Set(ftf, w, P.fiber)
        /\ pending' = (IF P.child_exn = 0 THEN pending ELSE pending \cup {P.frame})
        /\ unsynced' = unsynced \ {P.frame} /\ sp' = Set(sp, P.frame, P.orig_rsp)
        /\ rmap' = Set(rmap, w, Merge(P.child_rmap, P.user_rmap)) /\ cl' = Set(cl, w, p)
        /\ wst' = Set(wst, w, "has")
    BY ZenonT(40), <1>9 DEF A
  <2>2. q \in Closure /\ Restated(P, q) /\ q.status = "READY"
    BY ZenonT(40), <1>5, <1>8 DEF Closure, Restated, Status
  <2> HIDE DEF q
  <2>3. /\ clo' \in Trees /\ clo'[c] = FreshClosure /\ Unchained(clo, clo', p, c)
        /\ clo'[p] = q /\ \A k \in Closures \ {c, p} : clo'[k] = R[k]
    <3> HIDE DEF p, c
    <3> QED BY <1>1, <1>2, <1>7, <2>1, <2>2, GoneRestated
  <2>4. P.frame \in Frames /\ P.orig_rsp \in Ptr(Fibers) /\ P.fiber \in Ptr(Fibers)
    BY <1>1, <1>5, <1>7 DEF Closure, Ptr
  <2>5. Merge(P.child_rmap, P.user_rmap) \in Maps
    BY <1>5, MergeType DEF Closure
  <2>6. /\ wst' \in [Workers -> WorkerState] /\ cl' \in [Workers -> Ptr(Closures)] /\ ftf' \in [Workers -> Ptr(Fibers)]
        /\ rmap' \in [Workers -> Maps] /\ sp' \in [Frames -> Ptr(Fibers)]
        /\ pending' \subseteq Frames /\ unsynced' \subseteq Frames
        /\ cl'[w] = p /\ wst'[w] = "has" /\ Same(wst, w) /\ Same(cl, w)
    BY <1>1, <1>8, <2>1, <2>4, <2>5 DEF TypeOK, Set, WorkerState, Same
  <2>7. TypeOK'
    BY ZenonT(40), <1>1, <1>3, <1>4, <2>3, <2>6 DEF TypeOK, Trees
  <2>8. clo[p].status = "SUSPENDED" /\ ~clo[p].has_cilk_callee /\ P.join_counter = 0
    BY ZenonT(40), <1>7, <2>1 DEF Resumable, HasChildren
  <2>9. /\ q.status = "READY" /\ q.join_counter = 0 /\ q.frame = clo[p].frame /\ q.has_cilk_callee = clo[p].has_cilk_callee
        /\ q.call_parent = clo[p].call_parent
    BY <1>7, <2>2, <2>8 DEF Restated
  <2>10. ASSUME NEW k \in Closures \ {c}
         PROVE  /\ k # p => clo'[k].status = clo[k].status
                /\ clo'[k].frame = clo[k].frame
                /\ clo'[k].has_cilk_callee = clo[k].has_cilk_callee /\ clo'[k].call_parent = clo[k].call_parent
                /\ Dead(clo, k) => clo'[k] = clo[k]
    <3>1. CASE k = p
      BY <1>7, <2>3, <2>9, <3>1
    <3>2. CASE k # p
      BY SMTT(30), <1>6, <2>3, <3>2
    <3> QED BY <3>1, <3>2
  <2> QED BY ZenonT(40), <1>3, <1>7, <2>1, <2>3, <2>6, <2>7, <2>8, <2>9, <2>10 DEF Returns
<1>10. CASE B
  <2>1. /\ ~Resumable(P) /\ clo' = R /\ rmap' = Set(rmap, w, <<>>) /\ cl' = Set(cl, w, 0)
        /\ wst' = Set(wst, w, "idle") /\ UNCHANGED <<ftf, pending, unsynced, sp>>
    BY <1>10 DEF B
  <2>2. /\ wst' \in [Workers -> WorkerState] /\ cl' \in [Workers -> Ptr(Closures)] /\ rmap' \in [Workers -> Maps]
        /\ cl'[w] = 0 /\ wst'[w] = "idle" /\ Same(wst, w) /\ Same(cl, w)
    BY <1>1, <1>8, <2>1 DEF TypeOK, Set, WorkerState, Same
  <2>3. TypeOK'
    BY <1>1, <1>3, <1>4, <1>5, <2>1, <2>2 DEF TypeOK, Trees
  <2>4. clo[p].status = "SUSPENDED" => HasChildren(clo'[p])
    BY <1>7, <2>1 DEF Resumable
  <2> QED BY <1>3, <1>5, <1>6, <1>7, <2>1, <2>2, <2>3, <2>4 DEF Returns
<1> QED BY <1>3, <1>9, <1>10

\* A child that returns, and resumes its parent if it is the last one.
LEMMA ReturnKeeps ==
  ASSUME SchedulerInv, NEW w \in Workers, Return(w)
  PROVE  SchedulerInv'
<1> DEFINE c == cl[w]
           p == clo[c].spawn_parent
<1>1. TypeOK /\ HoldsOne(w) /\ wst[w] = "red"
  BY DEF SchedulerInv, Owners, Return
<1>2. clo[c].status = "RETURNING"
  BY <1>1 DEF HoldsOne
<1>3. AtReturn(w)
  BY <1>1, <1>2, ReturnFacts
<1>4. Returns(w, p, c) /\ TypeOK'
  BY <1>3, ReturnIs
<1>5. dq[w] = 0 /\ c \in Closures /\ c # 0 /\ c \in Live /\ clo[c].join_counter = 0 /\ ~clo[c].has_cilk_callee
      /\ p # 0 /\ p \in Closures /\ p \in Live /\ p # c /\ clo[p].frame # 0 /\ clo[p] \in Closure
  BY SMTT(30), <1>3 DEF AtReturn, Trees
<1>6. /\ clo'[c] = FreshClosure /\ Unchained(clo, clo', p, c)
      /\ UNCHANGED <<cur, shadow, dq, at, stolen>> /\ Same(wst, w) /\ Same(cl, w)
  BY SMTT(30), <1>4 DEF Returns
<1>7. \A k \in Closures \ {c} :
         /\ k # p => clo'[k].status = clo[k].status
         /\ clo'[k].frame = clo[k].frame
         /\ clo'[k].has_cilk_callee = clo[k].has_cilk_callee /\ clo'[k].call_parent = clo[k].call_parent
         /\ Dead(clo, k) => clo'[k] = clo[k]
  BY SMTT(30), <1>4 DEF Returns
<1> DEFINE A == /\ clo[p].status = "SUSPENDED" /\ ~clo[p].has_cilk_callee
                /\ clo'[p].status = "READY" /\ clo'[p].join_counter = 0 /\ unsynced' = unsynced \ {clo[p].frame}
                /\ cl'[w] = p /\ wst'[w] = "has"
           B == /\ clo'[p].status = clo[p].status /\ unsynced' = unsynced
                /\ clo[p].status = "SUSPENDED" => HasChildren(clo'[p])
                /\ cl'[w] = 0 /\ wst'[w] = "idle"
<1>8. A \/ B
  BY <1>4 DEF Returns
<1> HIDE DEF p, c
<1>9. Lists(clo)' /\ clo[p].join_counter # 0
  <2>1. Lists(clo) /\ clo[p].join_counter \in Nat
    BY <1>5 DEF SchedulerInv, Closure
  <2>2. Lists(clo') /\ clo[p].join_counter # 0
    BY <1>6, <2>1, ListsRemoved
  <2> QED BY <2>2 DEF Lists, Kids, Linked
<1>10. /\ \A k \in Closures \ {c} : (Dead(clo', k) <=> Dead(clo, k)) /\ clo'[k].spawn_parent = clo[k].spawn_parent
       /\ \A k \in Closures \ {c, p} : clo'[k].join_counter = clo[k].join_counter
       /\ Dead(clo', c) /\ clo[c].spawn_parent = p
  BY <1>6 DEF Unchained, SameList
<1>11. Live' = Live \ {c}
  BY <1>5, <1>10 DEF Live, Dead
<1>12. \A k \in Live : clo[k].spawn_parent # c /\ clo[k].call_parent # c
  BY <1>5, NoKids DEF SchedulerInv, Placed
<1>13. clo[c].call_parent = 0
  BY <1>5, <1>10 DEF SchedulerInv, Placed
<1>14. OthersSame(w)
  BY <1>6 DEF OthersSame, Same
<1>15. Promoting' = Promoting /\ Finishing' = Finishing
  <2>1. wst'[w] \in {"has", "idle"}
    BY <1>8
  <2> QED BY <1>1, <1>14, <2>1, PromotersSame
<1>16. Named' /\ (\A k \in Live : Placed(k))' /\ Callees'
  <2>1. ASSUME NEW k \in Live \ {c}
        PROVE  /\ clo'[k].frame = clo[k].frame /\ clo'[k].spawn_parent = clo[k].spawn_parent
               /\ clo'[k].call_parent = clo[k].call_parent
               /\ clo[k].spawn_parent # c /\ clo[k].call_parent # c
               /\ clo'[k].has_cilk_callee <=> clo[k].has_cilk_callee /\ k # 0
               /\ clo'[k].has_cilk_callee => clo'[k].status = "SUSPENDED"
    <3>1. k \in Closures \ {c} /\ k # 0
      BY NotNull DEF Live
    <3>2. clo[k].has_cilk_callee => clo[k].status = "SUSPENDED"
      BY DEF SchedulerInv, Callees
    <3>3. clo[k].has_cilk_callee => clo'[k].status = "SUSPENDED"
      BY <1>7, <1>8, <3>1, <3>2
    <3> QED BY <1>7, <1>10, <1>12, <3>1, <3>3
  <2>2. Leaves(c)
    BY <1>5, <1>6, <1>11, <1>13, <1>15, <2>1 DEF Leaves
  <2> QED BY <2>2, PlacesShrink
<1>17. Blank'
  <2> SUFFICES ASSUME NEW k \in Closures \ Live' PROVE clo'[k] = FreshClosure
    BY DEF Blank
  <2>1. CASE k = c
    BY <1>6, <2>1
  <2>2. CASE k # c
    <3>1. k \notin Live /\ Dead(clo, k)
      BY <1>11, <2>2 DEF Live, Dead
    <3> QED BY <1>7, <2>2, <3>1 DEF SchedulerInv, Blank
  <2> QED BY <2>1, <2>2
<1>18. NoLostWakeup'
  <2> SUFFICES ASSUME NEW k \in Live', clo'[k].status = "SUSPENDED" PROVE HasChildren(clo'[k])
    BY DEF NoLostWakeup
  <2>1. k \in Closures \ {c} /\ k \in Live
    BY <1>11 DEF Live
  <2>2. CASE k = p
    BY <1>8, <2>2
  <2>3. CASE k # p
    <3>1. HasChildren(clo[k])
      BY <1>7, <2>1, <2>3 DEF SchedulerInv, NoLostWakeup
    <3> QED BY <1>7, <1>10, <2>1, <2>3, <3>1 DEF HasChildren
  <2> QED BY <2>2, <2>3
<1>19. Unsynched'
  <2>1. unsynced' \subseteq stolen'
    BY <1>6, <1>8 DEF SchedulerInv, Unsynched
  <2>2. ASSUME NEW k \in Live', clo'[k].join_counter # 0
        PROVE  clo'[k].frame \in unsynced' \/ k \in Finishing'
    <3>1. k \in Live /\ k \in Closures \ {c} /\ clo'[k].frame = clo[k].frame
      BY <1>7, <1>11 DEF Live
    <3>2. clo[k].join_counter # 0
      BY <1>9, <1>10, <2>2, <3>1
    <3>3. clo[k].frame \in unsynced \/ k \in Finishing
      BY <3>1, <3>2 DEF SchedulerInv, Unsynched
    <3>4. CASE A
      <4>1. k # p
        BY <2>2, <3>4
      <4>2. clo[k].frame # clo[p].frame
        BY <1>5, <3>1, <4>1 DEF SchedulerInv, Named
      <4> QED BY <1>15, <3>1, <3>3, <3>4, <4>2
    <3>5. CASE B
      BY <1>15, <3>1, <3>3, <3>5
    <3> QED BY <1>8, <3>4, <3>5
  <2>3. ASSUME NEW k \in Live', clo'[k].status = "RETURNING"
        PROVE  clo'[k].join_counter = 0 /\ clo'[k].spawn_parent # 0
    <3>1. k \in Live /\ k \in Closures \ {c}
      BY <1>11 DEF Live
    <3>2. clo[k].status = "RETURNING"
      BY <1>7, <1>8, <2>3, <3>1
    <3>3. clo[k].join_counter = 0 /\ clo[k].spawn_parent # 0
      BY <3>1, <3>2 DEF SchedulerInv, Unsynched
    <3>4. k # p
      BY <1>9, <3>3
    <3> QED BY <1>10, <3>1, <3>3, <3>4
  <2> QED BY <2>1, <2>2, <2>3 DEF Unsynched
<1>20. Owners'
  <2>1. HoldsOne(w)'
    <3>1. CASE A
      BY <1>5, <1>6, <1>7, <3>1 DEF HoldsOne
    <3>2. CASE B
      BY <1>5, <1>6, <3>2 DEF HoldsOne
    <3> QED BY <1>8, <3>1, <3>2
  <2>2. Holds(w)' = 0 \/ (Holds(w)' = p /\ clo[p].status = "SUSPENDED")
    BY <1>5, <1>6, <1>8 DEF Holds
  <2>3. \A v \in Workers \ {w} : Holds(v)' = Holds(v)
    BY <1>6 DEF Same, Holds
  <2>4. Holds(w) = c
    BY <1>5 DEF Holds, c
  <2>5. ASSUME NEW v \in Workers \ {w}, Holds(v) # 0
        PROVE  /\ clo'[Holds(v)].status = clo[Holds(v)].status /\ clo'[Holds(v)].frame = clo[Holds(v)].frame
               /\ clo'[Holds(v)].call_parent = clo[Holds(v)].call_parent
    <3>1. Holds(v) \in Live /\ clo[Holds(v)].status # "SUSPENDED" /\ Holds(v) # c
      BY <2>4, <2>5, HeldLive DEF SchedulerInv, Owners
    <3>2. Holds(v) = p => clo'[p].status = clo[p].status
      BY <1>8, <3>1
    <3> HIDE DEF Holds
    <3> QED BY <1>7, <3>1, <3>2 DEF Live
  <2>6. \A v \in Workers : w # v /\ Holds(w)' # 0 => Holds(w)' # Holds(v)'
    BY <2>2, <2>3, HeldLive
  <2>7. SameBut(wst, {w}) /\ SameBut(cl, {w}) /\ SameBut(dq, {w}) /\ SameBut(cur, {w})
    BY <1>6 DEF SameBut, Same
  <2> HIDE DEF Owners, Holds
  <2> QED BY <2>1, <2>5, <2>6, <2>7, OwnersStep
<1>21. Stacks' /\ Unbegun'
  <2> DEFINE W == {w}
  <2>1. W \in SUBSET Workers
    OBVIOUS
  <2>2. ~OnStack(w)' /\ Holds(w) = c
    BY <1>5, <1>8 DEF OnStack, Holds, c
  <2>3. ASSUME NEW v \in Workers \ W, OnStack(v)' PROVE OnStack(v) /\ Stack(v)' = Stack(v) /\ StackFits(v)'
    <3>1. OnStack(v) /\ SameAt(v)
      BY <1>6, <2>3 DEF OnStack, SameAt, Same
    <3>2. Holds(v) # c
      BY <1>5, <2>2 DEF SchedulerInv, Owners
    <3>3. Bottom(v) \in Live \ {c} /\ (wst[v] = "run" \/ cl[v] \in Live \ {c})
      BY <1>2, <3>1, <3>2, BelowLive DEF OnStack, c
    <3>4. clo[Bottom(v)].spawn_parent # 0 => clo[Bottom(v)].spawn_parent \in Live \ {c}
      BY <1>12, <3>1, <3>3, BelowLive
    <3>5. \A k \in Live \ {c} : clo'[k].frame = clo[k].frame /\ clo'[k].spawn_parent = clo[k].spawn_parent
                                  /\ clo'[k].call_parent = clo[k].call_parent
      BY <1>7, <1>10 DEF Live
    <3>6. SameBelow(v)
      BY <3>3, <3>4, <3>5 DEF SameBelow
    <3>7. stolen \subseteq stolen' /\ stolen' \cap Stack(v) \subseteq stolen
      BY <1>6
    <3> QED BY <3>1, <3>6, <3>7, StackKept
  <2>4. \A u \in W : ~OnStack(u)'
    BY <2>2
  <2>5. \A f \in Frames : Ahead(f)' \subseteq Ahead(f) /\ Ahead(f)' \cap stolen' = {}
    BY <1>6 DEF SchedulerInv, Unbegun, Ahead
  <2> HIDE DEF W
  <2> QED BY <2>1, <2>3, <2>4, <2>5, StacksStep
<1> QED BY <1>4, <1>9, <1>16, <1>17, <1>18, <1>19, <1>20, <1>21 DEF SchedulerInv

-----------------------------------------------------------------------------
(* Steals *)

\* A victim is in user code, and the closures and the fiber to create are free.
AtSteal(w, v) ==
  /\ w # v /\ AtWork(v) /\ Holds(v) = dq[v] /\ shadow[v] # <<>>
  /\ wst[w] = "idle" /\ cl[w] = 0 /\ dq[w] = 0
  /\ Created \in Closures /\ clo[Created] = FreshClosure /\ Created # 0 /\ Created \notin Live
  /\ CreatedNext \in Closures /\ clo[CreatedNext] = FreshClosure /\ CreatedNext # 0 /\ CreatedNext \notin Live
  /\ Created # CreatedNext /\ Smallest(fibers) \in fibers

\* A thief that can steal.
LEMMA StealFacts ==
  ASSUME SchedulerInv, NEW w \in Workers, NEW v \in Workers, Stealable(w, v)
  PROVE  AtSteal(w, v)
<1>1. /\ wst[w] = "idle" /\ v # w /\ dq[v] # 0 /\ clo[dq[v]].status = "RUNNING" /\ shadow[v] # <<>>
      /\ Cardinality(FreeClosures) > 1 /\ fibers # {}
  BY DEF Stealable
<1>2. HoldsOne(v) /\ HoldsOne(w) /\ TypeOK /\ Blank
  BY DEF SchedulerInv, Owners
<1>3. AtWork(v) /\ cl[v] = 0
  BY <1>1, <1>2, RunFacts DEF HoldsOne, AtWork
<1>4. cl[w] = 0 /\ dq[w] = 0
  BY <1>1, <1>2 DEF HoldsOne
<1>5. FreeClosures \in SUBSET Nat /\ FreeClosures \subseteq Closures /\ \A c \in FreeClosures : c \notin Live /\ c # 0
  BY NotNull DEF FreeClosures, Closures, Live
<1>6. FreeClosures # {}
  <2> SUFFICES ASSUME FreeClosures = {} PROVE FALSE
    OBVIOUS
  <2>1. Cardinality({}) = 0
    BY FS_EmptySet
  <2> QED BY <1>1, <2>1
<1>7. Created \in FreeClosures
  BY <1>5, <1>6, SmallestIs DEF Created
<1>8. FreeClosures \ {Created} # {}
  <2> SUFFICES ASSUME FreeClosures = {Created} PROVE FALSE
    BY <1>7
  <2>1. Cardinality({Created}) = 1
    BY FS_Singleton
  <2> QED BY <1>1, <2>1
<1>9. CreatedNext \in FreeClosures \ {Created}
  <2>1. FreeClosures \ {Created} \in SUBSET Nat
    BY <1>5
  <2> QED BY <1>8, <2>1, SmallestIs DEF CreatedNext
<1>10. Smallest(fibers) \in fibers
  <2>1. fibers \in SUBSET Nat
    BY <1>2 DEF TypeOK, Fibers
  <2> QED BY <1>1, <2>1, SmallestIs
<1>11. clo[Created] = FreshClosure /\ clo[CreatedNext] = FreshClosure
  BY <1>2, <1>5, <1>7, <1>9 DEF Blank
<1> QED BY <1>1, <1>3, <1>4, <1>5, <1>7, <1>9, <1>10, <1>11 DEF AtSteal, Holds

\* Tree D is C with c linked behind the last child r of p.
LinkedIn(C, D, p, c, r) ==
  \A k \in Closures :
    /\ D[k].status = C[k].status /\ D[k].frame = C[k].frame
    /\ D[k].has_cilk_callee = C[k].has_cilk_callee /\ D[k].call_parent = C[k].call_parent
    /\ D[k].spawn_parent = (IF k = c THEN p ELSE C[k].spawn_parent)
    /\ D[k].left_sib = (IF k = c THEN r ELSE C[k].left_sib)
    /\ D[k].right_sib = (IF k = r THEN c ELSE C[k].right_sib)
    /\ D[k].right_most_child = (IF k = p THEN c ELSE C[k].right_most_child)
    /\ D[k].join_counter = (IF k = p THEN C[k].join_counter + 1 ELSE C[k].join_counter)
    /\ k \notin {r, p, c} => D[k] = C[k]

\* What Add_child computes.
LEMMA AddIs ==
  ASSUME NEW C \in Trees, NEW p \in Closures, NEW c \in Closures, p # c, NEW r \in Closures \cup {0},
         r = C[p].right_most_child, r # p, r # c
  PROVE  Add_child(C, p, c) \in Trees /\ LinkedIn(C, Add_child(C, p, c), p, c, r)
<1> DEFINE a == [C[r] EXCEPT !.right_sib = c]
           D == Upd(C, r, a)
           b == [D[c] EXCEPT !.left_sib = r, !.spawn_parent = p]
           E == Upd(D, c, b)
           d == [E[p] EXCEPT !.right_most_child = c, !.join_counter = @ + 1]
           F == Upd(E, p, d)
<1>1. Add_child(C, p, c) = F
  BY DEF Add_child
<1>2. 0 \notin Closures /\ r \in Ptr(Closures) /\ c \in Ptr(Closures) /\ p \in Ptr(Closures) /\ c # 0 /\ p # 0
  BY NotNull DEF Ptr
<1>3. \A k \in Closures : C[k] \in Closure
  BY DEF Trees
<1>4. r # 0 => a \in Closure /\ a.right_sib = c
               /\ a.left_sib = C[r].left_sib /\ a.right_most_child = C[r].right_most_child
               /\ a.status = C[r].status /\ a.frame = C[r].frame /\ a.join_counter = C[r].join_counter
               /\ a.has_cilk_callee = C[r].has_cilk_callee /\ a.call_parent = C[r].call_parent
               /\ a.spawn_parent = C[r].spawn_parent
  BY <1>2, <1>3 DEF Closure
<1> HIDE DEF a
<1>5. D \in Trees /\ \A k \in Closures : D[k] = IF k = r THEN a ELSE C[k]
  <2>1. r # 0 => a \in Closure
    BY <1>4
  <2> HIDE DEF b, d, E, F
  <2> QED BY SMTT(30), <2>1, UpdIs
<1> HIDE DEF D
<1>6. D[c] = C[c] /\ C[c] \in Closure
  BY <1>3, <1>5
<1>7. b \in Closure /\ b.left_sib = r /\ b.spawn_parent = p
               /\ b.right_sib = C[c].right_sib /\ b.right_most_child = C[c].right_most_child
               /\ b.status = C[c].status /\ b.frame = C[c].frame /\ b.join_counter = C[c].join_counter
               /\ b.has_cilk_callee = C[c].has_cilk_callee /\ b.call_parent = C[c].call_parent
  BY ZenonT(40), <1>2, <1>6 DEF Closure
<1> HIDE DEF b
<1>8. E \in Trees /\ \A k \in Closures : E[k] = IF k = c THEN b ELSE D[k]
  <2>1. D \in Trees /\ b \in Closure
    BY <1>5, <1>7
  <2> HIDE DEF d, F
  <2> QED BY <2>1, UpdIs
<1> HIDE DEF E
<1> DEFINE m == C[p].join_counter + 1
<1>9. E[p] = C[p] /\ C[p] \in Closure /\ m \in Nat /\ d = [C[p] EXCEPT !.right_most_child = c, !.join_counter = m]
  <2>1. C[p] \in Closure
    BY <1>3
  <2>2. C[p].join_counter \in Nat
    BY <2>1 DEF Closure
  <2>3. E[p] = C[p]
    BY <1>5, <1>8
  <2>4. m \in Nat
    BY <2>2
  <2>5. d = [C[p] EXCEPT !.right_most_child = c, !.join_counter = m]
    BY <2>3, Zenon
  <2> QED BY <2>1, <2>3, <2>4, <2>5
<1> HIDE DEF m, d
<1>10. d \in Closure /\ d.right_most_child = c /\ d.join_counter = m
               /\ d.left_sib = C[p].left_sib /\ d.right_sib = C[p].right_sib
               /\ d.status = C[p].status /\ d.frame = C[p].frame
               /\ d.has_cilk_callee = C[p].has_cilk_callee /\ d.call_parent = C[p].call_parent
               /\ d.spawn_parent = C[p].spawn_parent
  BY <1>2, <1>9 DEF Closure
<1>11. F \in Trees /\ \A k \in Closures : F[k] = IF k = p THEN d ELSE E[k]
  <2>1. E \in Trees /\ d \in Closure
    BY <1>8, <1>10
  <2> QED BY <2>1, UpdIs
<1> HIDE DEF F
<1>12. LinkedIn(C, F, p, c, r)
  <2> SUFFICES ASSUME NEW k \in Closures
               PROVE  /\ F[k].status = C[k].status /\ F[k].frame = C[k].frame
                      /\ F[k].has_cilk_callee = C[k].has_cilk_callee /\ F[k].call_parent = C[k].call_parent
                      /\ F[k].spawn_parent = (IF k = c THEN p ELSE C[k].spawn_parent)
                      /\ F[k].left_sib = (IF k = c THEN r ELSE C[k].left_sib)
                      /\ F[k].right_sib = (IF k = r THEN c ELSE C[k].right_sib)
                      /\ F[k].right_most_child = (IF k = p THEN c ELSE C[k].right_most_child)
                      /\ F[k].join_counter = (IF k = p THEN C[k].join_counter + 1 ELSE C[k].join_counter)
                      /\ k \notin {r, p, c} => F[k] = C[k]
    BY DEF LinkedIn
  <2>1. CASE k = p
    BY <1>10, <1>11, <2>1 DEF m
  <2>2. CASE k = c
    BY <1>2, <1>7, <1>8, <1>11, <2>2
  <2>3. CASE k = r
    BY <1>2, <1>4, <1>5, <1>8, <1>11, <2>3
  <2>4. CASE k \notin {r, p, c}
    BY <1>5, <1>8, <1>11, <2>4
  <2> QED BY <2>1, <2>2, <2>3, <2>4
<1> QED BY <1>1, <1>11, <1>12

\* What a steal does besides the closures: thief w has closure p, of the
\* stolen frame h, and victim v continues in the new child n.
Takes(w, v, p, n, x, h) ==
  /\ wst'[w] = x /\ cl'[w] = p /\ dq'[w] = dq[w] /\ shadow'[v] = Tail(shadow[v]) /\ dq'[v] = n
  /\ wst'[v] = wst[v] /\ cl'[v] = cl[v] /\ cur' = cur /\ at' = at /\ unsynced' = unsynced
  /\ stolen' = stolen \cup {h} /\ \A u \in Workers \ {w, v} : SameAt(u)

\* Tree D is C with the new running closure c as the last child of p.
Adopted(C, D, p, c) ==
  /\ D \in Trees /\ Appended(C, D, p, c)
  /\ D[c].status = "RUNNING" /\ D[c].frame = 0 /\ ~D[c].has_cilk_callee /\ D[c].call_parent = 0
  /\ \A k \in Closures \ {c} :
       /\ D[k].status = C[k].status /\ D[k].frame = C[k].frame
       /\ D[k].has_cilk_callee = C[k].has_cilk_callee /\ D[k].call_parent = C[k].call_parent
       /\ Dead(C, k) => D[k] = C[k]

\* C is a tree that c, which is free, can be added to as a child of p.
Adopts(C, p, c) ==
  /\ C \in Trees /\ p \in Closures /\ c \in Closures /\ p # c /\ C[c] = FreshClosure /\ ~Dead(C, p)
  /\ C[p].right_most_child \notin {p, c}
  /\ C[p].right_most_child # 0 => ~Dead(C, C[p].right_most_child)
  /\ \A k \in Closures : ~Dead(C, k) => C[k].spawn_parent # c

\* What the end of both steals computes.
LEMMA ExtractIs ==
  ASSUME SchedulerInv, NEW w \in Workers, NEW v \in Workers, AtSteal(w, v), NEW C, NEW p, NEW n, Adopts(C, p, n),
         Extract(w, v, C, p, n), NEW x \in WorkerState, wst' = Set(wst, w, x)
  PROVE  TypeOK' /\ Adopted(C, clo', p, n) /\ Takes(w, v, p, n, x, Head(shadow[v]))
<1> DEFINE old == clo[dq[v]].fiber
           new == Smallest(fibers)
           r == C[p].right_most_child
           D == Add_child(C, p, n)
           a == [D[n] EXCEPT !.status = "RUNNING", !.fiber = old]
           E == Upd(D, n, a)
           b == [E[p] EXCEPT !.fiber = new, !.orig_rsp = IF @ = 0 THEN old ELSE @]
<1>1. TypeOK /\ w # v /\ dq[v] \in Closures /\ shadow[v] \in Seq(Frames) /\ shadow[v] # <<>> /\ new \in fibers
  BY DEF SchedulerInv, AtSteal, AtWork
<1>2. /\ C \in Trees /\ p \in Closures /\ n \in Closures /\ p # n /\ C[n] = FreshClosure /\ ~Dead(C, p)
      /\ r \notin {p, n} /\ (r # 0 => ~Dead(C, r))
      /\ \A k \in Closures : ~Dead(C, k) => C[k].spawn_parent # n
  BY DEF Adopts
<1>3. /\ clo' = Upd(E, p, b) /\ fibers' = fibers \ {new} /\ stolen' = stolen \cup {Head(shadow[v])}
      /\ shadow' = Set(shadow, v, Tail(shadow[v])) /\ dq' = Set(dq, v, n) /\ cl' = Set(cl, w, p)
      /\ mutex' = Set(mutex, p, w)
      /\ UNCHANGED <<cur, rmap, ftf, on, at, inflight, caught, unsynced, pending, sp, exiting>>
  BY DEF Extract, program
<1>4. old \in Ptr(Fibers) /\ new \in Ptr(Fibers)
  BY <1>1 DEF TypeOK, Closure, Ptr
<1>5. C[p] \in Closure /\ C[n] \in Closure /\ r \in Closures \cup {0}
  <2>1. C[p] \in Closure /\ C[n] \in Closure
    BY <1>2 DEF Trees
  <2> QED BY <2>1 DEF Closure, Ptr
<1>6. D \in Trees /\ LinkedIn(C, D, p, n, r)
  BY <1>2, <1>5, AddIs
<1> HIDE DEF D, r, old, new
<1>7. D[n] \in Closure /\ D[p] \in Closure
  BY <1>2, <1>6 DEF Trees
<1>8. a \in Closure /\ a.status = "RUNNING" /\ a.frame = D[n].frame /\ a.join_counter = D[n].join_counter
      /\ a.has_cilk_callee = D[n].has_cilk_callee /\ a.call_parent = D[n].call_parent /\ a.spawn_parent = D[n].spawn_parent
      /\ a.left_sib = D[n].left_sib /\ a.right_sib = D[n].right_sib /\ a.right_most_child = D[n].right_most_child
  BY <1>4, <1>7 DEF Closure, Status
<1> HIDE DEF a
<1>9. E \in Trees /\ \A k \in Closures : E[k] = IF k = n THEN a ELSE D[k]
  BY <1>2, <1>6, <1>8, UpdIs
<1> HIDE DEF E
<1>10. E[p] = D[p]
  BY <1>2, <1>9
<1>11. b \in Closure /\ b.status = D[p].status /\ b.frame = D[p].frame /\ b.join_counter = D[p].join_counter
      /\ b.has_cilk_callee = D[p].has_cilk_callee /\ b.call_parent = D[p].call_parent /\ b.spawn_parent = D[p].spawn_parent
      /\ b.left_sib = D[p].left_sib /\ b.right_sib = D[p].right_sib /\ b.right_most_child = D[p].right_most_child
  BY <1>4, <1>7, <1>10 DEF Closure
<1> HIDE DEF b
<1>12. clo' \in Trees /\ \A k \in Closures : clo'[k] = IF k = p THEN b ELSE E[k]
  BY <1>2, <1>3, <1>9, <1>11, UpdIs
<1>13. clo'[p] = b /\ clo'[n] = a /\ \A k \in Closures \ {p, n} : clo'[k] = D[k]
  BY <1>2, <1>9, <1>12
<1>14. /\ C[n].status = "FREE" /\ C[n].frame = 0 /\ C[n].join_counter = 0 /\ ~C[n].has_cilk_callee
       /\ C[n].call_parent = 0 /\ C[n].spawn_parent = 0 /\ C[n].right_sib = 0 /\ C[n].right_most_child = 0
  BY <1>2 DEF FreshClosure
<1>15. \A k \in Closures :
         /\ D[k].status = C[k].status /\ D[k].frame = C[k].frame
         /\ D[k].has_cilk_callee = C[k].has_cilk_callee /\ D[k].call_parent = C[k].call_parent
         /\ D[k].spawn_parent = (IF k = n THEN p ELSE C[k].spawn_parent)
         /\ D[k].left_sib = (IF k = n THEN r ELSE C[k].left_sib)
         /\ D[k].right_sib = (IF k = r THEN n ELSE C[k].right_sib)
         /\ D[k].right_most_child = (IF k = p THEN n ELSE C[k].right_most_child)
         /\ D[k].join_counter = (IF k = p THEN C[k].join_counter + 1 ELSE C[k].join_counter)
         /\ k \notin {r, p, n} => D[k] = C[k]
  BY <1>6 DEF LinkedIn
<1>16. /\ clo'[n].status = "RUNNING" /\ clo'[n].frame = 0 /\ ~clo'[n].has_cilk_callee /\ clo'[n].call_parent = 0
       /\ clo'[n].spawn_parent = p /\ clo'[n].left_sib = r /\ clo'[n].right_sib = 0
       /\ clo'[n].join_counter = 0 /\ clo'[n].right_most_child = 0
  BY <1>2, <1>8, <1>13, <1>14, <1>15
<1>17. ASSUME NEW k \in Closures \ {n}
       PROVE  /\ clo'[k].status = C[k].status /\ clo'[k].frame = C[k].frame
              /\ clo'[k].has_cilk_callee = C[k].has_cilk_callee /\ clo'[k].call_parent = C[k].call_parent
              /\ clo'[k].spawn_parent = C[k].spawn_parent /\ clo'[k].left_sib = C[k].left_sib
              /\ clo'[k].right_sib = (IF k = r THEN n ELSE C[k].right_sib)
              /\ k # p => clo'[k].right_most_child = C[k].right_most_child /\ clo'[k].join_counter = C[k].join_counter
              /\ Dead(C, k) => clo'[k] = C[k]
  <2>1. CASE k = p
    BY <1>2, <1>11, <1>13, <1>15, <2>1
  <2>2. CASE k # p
    <3>1. clo'[k] = D[k]
      BY <1>13, <2>2
    <3>2. Dead(C, k) => k # r
      BY <1>2, NotNull
    <3> QED BY <1>15, <2>2, <3>1, <3>2
  <2> QED BY <2>1, <2>2
<1>18. clo'[p].right_most_child = n /\ clo'[p].join_counter = C[p].join_counter + 1
  BY <1>2, <1>11, <1>13, <1>15
<1>19. Appended(C, clo', p, n)
  <2>1. ASSUME NEW k \in Closures \ {n}
        PROVE  /\ Dead(clo', k) <=> Dead(C, k)
               /\ clo'[k].spawn_parent = C[k].spawn_parent /\ clo'[k].left_sib = C[k].left_sib
               /\ clo'[k].right_sib = IF k = C[p].right_most_child THEN n ELSE C[k].right_sib
               /\ k # p => SameList(C, clo', k)
    BY <1>17 DEF Dead, SameList, r
  <2>2. Dead(C, n) /\ ~Dead(clo', n)
    BY <1>14, <1>16 DEF Dead
  <2> QED BY <1>2, <1>16, <1>18, <2>1, <2>2 DEF Appended, r
<1>20. Adopted(C, clo', p, n)
  BY <1>12, <1>16, <1>17, <1>19 DEF Adopted
<1>21. Head(shadow[v]) \in Frames /\ Tail(shadow[v]) \in Seq(Frames)
  BY <1>1
<1>22. p \in Ptr(Closures) /\ n \in Ptr(Closures) /\ w \in Ptr(Workers)
  BY <1>2 DEF Ptr
<1>23. /\ shadow' \in [Workers -> Seq(Frames)] /\ dq' \in [Workers -> Ptr(Closures)] /\ cl' \in [Workers -> Ptr(Closures)]
       /\ mutex' \in [Closures -> Ptr(Workers)] /\ wst' \in [Workers -> WorkerState]
       /\ stolen' \subseteq Frames /\ fibers' \subseteq Fibers
  <2> HIDE DEF Ptr
  <2>1. shadow' \in [Workers -> Seq(Frames)]
    BY <1>1, <1>3, <1>21 DEF TypeOK, Set
  <2>2. /\ dq' \in [Workers -> Ptr(Closures)] /\ cl' \in [Workers -> Ptr(Closures)]
        /\ mutex' \in [Closures -> Ptr(Workers)] /\ wst' \in [Workers -> WorkerState]
    BY <1>1, <1>3, <1>22 DEF TypeOK, Set
  <2> QED BY <1>1, <1>3, <1>21, <2>1, <2>2 DEF TypeOK
<1>24. TypeOK'
  BY <1>1, <1>3, <1>12, <1>23 DEF TypeOK, Trees
<1>25. Takes(w, v, p, n, x, Head(shadow[v]))
  BY <1>1, <1>3 DEF Takes, TypeOK, Set, SameAt
<1> QED BY <1>20, <1>24, <1>25

\* The stack of the victim after the steal.
LEMMA VictimStack ==
  ASSUME SchedulerInv, NEW w \in Workers, NEW v \in Workers, AtSteal(w, v), NEW p, NEW n, NEW x, NEW h,
         h = Head(shadow[v]), Takes(w, v, p, n, x, h), p # 0,
         clo'[n].spawn_parent = p, clo'[n].frame = 0, clo'[p].frame = h
  PROVE  /\ OnStack(v)' /\ StackFits(v)' /\ Stack(v)' \subseteq Stack(v) /\ Stack(v)' = Stacklet(h, cur[v])
         /\ h \in Frames /\ h # 0 /\ h \in Stack(v) /\ OnStack(v) /\ h \notin Stack(v)'
<1> DEFINE c == dq[v]
           o == Outer(c)
           b == clo[c].frame
           q == clo[c].spawn_parent
           f == cur[v]
           s == shadow[v]
<1>1. f \in Frames /\ s \in Seq(Frames) /\ s # <<>> /\ Stack(v) = Stacklet(o, f) /\ wst[v] = "run" /\ OnStack(v)
  BY DEF AtSteal, AtWork, OnStack
<1>2. BaseOf(o, b, q)
  BY DEF AtSteal, AtWork
<1>3. FitsStack(o, b, q, stolen, f, s)
  BY DEF AtSteal, AtWork
<1>4. Bottom(v)' = n /\ Tip(v)' = f /\ Shadow(v)' = Tail(s) /\ OnStack(v)' /\ stolen' = stolen \cup {h}
  BY <1>1 DEF Takes, Bottom, Tip, Shadow, OnStack
<1>5. Outer(Bottom(v))' = h
  BY <1>4 DEF Outer
<1> HIDE DEF o, b, q, f, s, c
<1>6. HeadOf(o, b, f, s, h)
  BY <1>1, <1>2, <1>3, StackHead DEF s
<1>7. FitsStack(h, 0, p, stolen \cup {h}, f, Tail(s)) /\ Stacklet(h, f) \subseteq Stacklet(o, f) /\ h \notin Stacklet(h, f)
  <2>1. h = Head(s)
    BY DEF s
  <2>2. Continues(o, p, stolen, f, s, h)
    BY <1>1, <1>2, <1>3, <2>1, StackStolen
  <2> QED BY <2>2 DEF Continues
<1>8. StackFits(v)'
  BY <1>4, <1>5, <1>7 DEF StackFits
<1>9. Stack(v)' = Stacklet(h, f)
  BY <1>4, <1>5 DEF Stack
<1>10. h \in Frames /\ h \in Stacklet(o, f) /\ h # 0
  BY <1>6, FramesPositive DEF HeadOf
<1> QED BY <1>1, <1>4, <1>7, <1>8, <1>9, <1>10 DEF f

\* The last child of a closure, and that no closure has a free one as parent or caller.
LEMMA LastKid ==
  ASSUME SchedulerInv, NEW c \in Live
  PROVE  clo[c].right_most_child # 0 => clo[c].right_most_child \in Live /\ clo[c].right_most_child # c
<1> DEFINE n == clo[c].join_counter
<1>1. c \in Closures /\ clo[c].status # "FREE" /\ n \in Nat
  BY DEF Live, SchedulerInv, TypeOK, Closure
<1>2. PICK s \in [1 .. n -> Kids(clo, c)] : Linked(clo, c, s)
  BY <1>1 DEF SchedulerInv, Lists
<1>3. clo[c].right_most_child # 0 => n # 0 /\ clo[c].right_most_child = s[n]
  BY <1>2 DEF Linked
<1>4. clo[c].right_most_child # 0 => clo[c].right_most_child \in Kids(clo, c)
  BY <1>1, <1>2, <1>3
<1>5. \A k \in Kids(clo, c) : k \in Live /\ k # c
  <2> TAKE k \in Kids(clo, c)
  <2>1. k \in Live /\ clo[k].spawn_parent = c /\ c # 0
    BY <1>1, NotNull DEF Kids, Live
  <2>2. Placed(k)
    BY <2>1 DEF SchedulerInv
  <2> QED BY <2>1, <2>2 DEF Placed
<1> QED BY <1>4, <1>5

\* Nothing points to a free closure.
LEMMA FreeUnused ==
  ASSUME SchedulerInv, NEW n, n \notin Live, n # 0
  PROVE  \A k \in Live : clo[k].spawn_parent # n /\ clo[k].call_parent # n
BY DEF SchedulerInv, Placed

\* StealFull: the closure of victim v becomes that of frame h, with the new child n.
FullSteal(w, v, c, n, h) ==
  /\ TypeOK' /\ Takes(w, v, c, n, "finish", h)
  /\ Lists(clo') /\ clo' \in Trees
  /\ clo'[n].status = "RUNNING" /\ clo'[n].frame = 0 /\ ~clo'[n].has_cilk_callee /\ clo'[n].call_parent = 0
  /\ clo'[n].spawn_parent = c /\ clo'[n].join_counter = 0
  /\ clo'[c].frame = h
  /\ \A k \in Closures \ {n} :
       /\ clo'[k].status = clo[k].status /\ clo'[k].spawn_parent = clo[k].spawn_parent
       /\ clo'[k].has_cilk_callee = clo[k].has_cilk_callee /\ clo'[k].call_parent = clo[k].call_parent
       /\ k # c => clo'[k].frame = clo[k].frame /\ clo'[k].join_counter = clo[k].join_counter
       /\ clo[k].join_counter # 0 => clo'[k].join_counter # 0
       /\ Dead(clo, k) => clo'[k] = clo[k]

\* StealFull, field by field.
LEMMA StealFullIs ==
  ASSUME SchedulerInv, NEW w \in Workers, NEW v \in Workers, AtSteal(w, v), StealFull(w, v)
  PROVE  FullSteal(w, v, dq[v], Created, Head(shadow[v]))
<1> DEFINE c == dq[v]
           n == Created
           h == Head(shadow[v])
           a == [clo[c] EXCEPT !.frame = h]
           C == Upd(clo, c, a)
<1>1. Extract(w, v, C, c, n) /\ wst' = Set(wst, w, "finish")
  BY DEF StealFull
<1>2. TypeOK /\ clo \in Trees /\ Lists(clo)
  BY DEF SchedulerInv, TypeOK, Trees
<1>3. c \in Closures /\ c \in Live /\ c # 0 /\ n \in Closures /\ n \notin Live /\ n # 0 /\ clo[n] = FreshClosure /\ n # c
      /\ shadow[v] \in Seq(Frames) /\ shadow[v] # <<>>
  BY DEF AtSteal, AtWork
<1>4. h \in Ptr(Frames) /\ clo[c] \in Closure
  BY <1>2, <1>3 DEF Trees, Ptr
<1> HIDE DEF n, h
<1>5. a \in Closure /\ a.frame = h /\ a.status = clo[c].status /\ a.join_counter = clo[c].join_counter
      /\ a.has_cilk_callee = clo[c].has_cilk_callee /\ a.call_parent = clo[c].call_parent
      /\ a.spawn_parent = clo[c].spawn_parent /\ a.left_sib = clo[c].left_sib /\ a.right_sib = clo[c].right_sib
      /\ a.right_most_child = clo[c].right_most_child /\ a.join_counter \in Nat
  BY <1>4 DEF Closure
<1> HIDE DEF a
<1>6. C \in Trees /\ \A k \in Closures : C[k] = IF k = c THEN a ELSE clo[k]
  BY <1>2, <1>3, <1>5, UpdIs
<1> HIDE DEF C
<1>7. C[c] = a /\ \A k \in Closures \ {c} : C[k] = clo[k]
  BY <1>3, <1>6
<1>8. \A k \in Closures : /\ C[k].status = clo[k].status /\ C[k].join_counter = clo[k].join_counter
                          /\ C[k].has_cilk_callee = clo[k].has_cilk_callee /\ C[k].call_parent = clo[k].call_parent
                          /\ C[k].spawn_parent = clo[k].spawn_parent /\ C[k].left_sib = clo[k].left_sib
                          /\ C[k].right_sib = clo[k].right_sib /\ C[k].right_most_child = clo[k].right_most_child
  <2> TAKE k \in Closures
  <2>1. CASE k = c
    BY <1>5, <1>7, <2>1
  <2>2. CASE k # c
    BY <1>7, <2>2
  <2> QED BY <2>1, <2>2
<1>9. Adopts(C, c, n)
  <2>1. C[c].right_most_child \notin {c, n} /\ (C[c].right_most_child # 0 => ~Dead(C, C[c].right_most_child))
    <3>1. clo[c].right_most_child # 0 => clo[c].right_most_child \in Live /\ clo[c].right_most_child # c
      BY <1>3, LastKid
    <3> QED BY <1>3, <1>8, <3>1 DEF Live, Dead
  <2>2. \A k \in Closures : ~Dead(C, k) => C[k].spawn_parent # n
    BY <1>3, <1>8, FreeUnused DEF Live, Dead
  <2> QED BY <1>3, <1>6, <1>7, <1>8, <2>1, <2>2 DEF Adopts, Live, Dead
<1>10. TypeOK' /\ Adopted(C, clo', c, n) /\ Takes(w, v, c, n, "finish", h)
  <2>1. "finish" \in WorkerState
    BY DEF WorkerState
  <2> QED BY <1>1, <1>9, <2>1, ExtractIs DEF h
<1>11. clo' \in Trees /\ Appended(C, clo', c, n)
       /\ clo'[n].status = "RUNNING" /\ clo'[n].frame = 0 /\ ~clo'[n].has_cilk_callee /\ clo'[n].call_parent = 0
  BY <1>10 DEF Adopted
<1>12. \A k \in Closures \ {n} :
       /\ clo'[k].status = C[k].status /\ clo'[k].frame = C[k].frame
       /\ clo'[k].has_cilk_callee = C[k].has_cilk_callee /\ clo'[k].call_parent = C[k].call_parent
       /\ Dead(C, k) => clo'[k] = C[k]
  BY <1>10 DEF Adopted
<1>13. Lists(clo')
  <2>1. Extends(clo, C)
    BY <1>8 DEF Extends, Dead, SamePlace, SameList
  <2>2. Lists(C) /\ C[c].join_counter \in Nat
    BY <1>2, <1>5, <1>7, <2>1, ListsExtends
  <2> QED BY <1>11, <2>2, ListsAppended
<1>14. clo'[n].spawn_parent = c /\ clo'[n].join_counter = 0 /\ clo'[c].join_counter = clo[c].join_counter + 1
       /\ \A k \in Closures \ {n} : /\ clo'[k].spawn_parent = clo[k].spawn_parent
                                    /\ k # c => clo'[k].join_counter = clo[k].join_counter
  BY <1>3, <1>8, <1>11 DEF Appended, SameList
<1>15. clo'[c].join_counter # 0
  BY <1>5, <1>14
<1>16. ASSUME NEW k \in Closures \ {n}
       PROVE  /\ clo'[k].status = clo[k].status /\ clo'[k].spawn_parent = clo[k].spawn_parent
              /\ clo'[k].has_cilk_callee = clo[k].has_cilk_callee /\ clo'[k].call_parent = clo[k].call_parent
              /\ k # c => clo'[k].frame = clo[k].frame /\ clo'[k].join_counter = clo[k].join_counter
              /\ clo[k].join_counter # 0 => clo'[k].join_counter # 0
              /\ Dead(clo, k) => clo'[k] = clo[k]
  <2>1. CASE k = c
    BY <1>3, <1>8, <1>12, <1>14, <1>15, <2>1 DEF Live, Dead
  <2>2. CASE k # c
    BY <1>7, <1>8, <1>12, <1>14, <2>2 DEF Dead
  <2> QED BY <2>1, <2>2
<1>17. clo'[c].frame = h
  BY <1>3, <1>5, <1>7, <1>12
<1> QED BY <1>10, <1>11, <1>13, <1>14, <1>16, <1>17 DEF FullSteal, n, h

\* Where the closure of the victim is when its oldest frame is stolen.
FullBase(v, c, h) ==
  /\ h \in Frames /\ h # 0 /\ h \in Stack(v) /\ (clo[c].frame = 0 \/ clo[c].frame = h)
  /\ clo[c].frame = 0 => h \notin stolen
  /\ clo[c].spawn_parent # 0 => Detached(h) /\ CallParent(h) = clo[clo[c].spawn_parent].frame

\* The stolen frame is the one the victim's closure stands for.
LEMMA StealFullBase ==
  ASSUME SchedulerInv, NEW w \in Workers, NEW v \in Workers, AtSteal(w, v), StealFull(w, v)
  PROVE  FullBase(v, dq[v], Head(shadow[v]))
<1> DEFINE c == dq[v]
           o == Outer(c)
           b == clo[c].frame
           p == clo[c].spawn_parent
           f == cur[v]
           s == shadow[v]
           h == Head(s)
<1>1. f \in Frames /\ s \in Seq(Frames) /\ s # <<>> /\ Stack(v) = Stacklet(o, f)
  BY DEF AtSteal, AtWork
<1>2. BaseOf(o, b, p)
  BY DEF AtSteal, AtWork
<1>3. FitsStack(o, b, p, stolen, f, s)
  BY DEF AtSteal, AtWork
<1>4. b = h \/ Detached(h)
  BY DEF StealFull
<1>5. p # 0 => o = clo[p].frame
  BY DEF Outer
<1> HIDE DEF o, b, p, f, s, c, h
<1>6. h = Head(s)
  BY DEF h
<1>7. HeadOf(o, b, f, s, h)
  BY <1>1, <1>2, <1>3, <1>6, StackHead
<1>8. BaseOf(o, h, p) /\ (b = 0 \/ b = h)
  BY <1>1, <1>2, <1>3, <1>4, <1>6, StackFull
<1>9. h \in Frames /\ h # 0 /\ h \in Stacklet(o, f)
  BY <1>7, FramesPositive DEF HeadOf
<1>10. stolen \cap Stacklet(o, f) = {b} \ {0}
  BY <1>3 DEF FitsStack
<1>11. b = 0 => h \notin stolen
  BY <1>9, <1>10
<1>12. p # 0 => Detached(h) /\ CallParent(h) = clo[p].frame
  BY <1>5, <1>8, <1>9 DEF BaseOf
<1> QED BY <1>1, <1>8, <1>9, <1>11, <1>12 DEF FullBase, b, p, c, h, s

\* A thief takes a frame that has, or gets, the closure of its victim.
LEMMA StealFullKeeps ==
  ASSUME SchedulerInv, NEW w \in Workers, NEW v \in Workers, StealFull(w, v)
  PROVE  SchedulerInv'
<1> DEFINE c == dq[v]
           n == Created
           h == Head(shadow[v])
<1>1. AtSteal(w, v)
  BY StealFacts DEF StealFull
<1>2. FullSteal(w, v, c, n, h) /\ FullBase(v, c, h)
  BY <1>1, StealFullIs, StealFullBase
<1>3. w # v /\ wst[v] = "run" /\ wst[w] = "idle" /\ cl[w] = 0 /\ dq[w] = 0 /\ cl[v] = 0 /\ cur[v] # 0 /\ Holds(v) = c
      /\ c \in Closures /\ c \in Live /\ c # 0 /\ clo[c].status = "RUNNING" /\ ~clo[c].has_cilk_callee
      /\ n \in Closures /\ n \notin Live /\ n # 0 /\ n # c /\ OnStack(v) /\ Bottom(v) = c
  BY <1>1, NotNull DEF AtSteal, AtWork, OnStack
<1>4. /\ h \in Frames /\ h # 0 /\ h \in Stack(v) /\ (clo[c].frame = 0 \/ clo[c].frame = h)
      /\ clo[c].frame = 0 => h \notin stolen
      /\ clo[c].spawn_parent # 0 => Detached(h) /\ CallParent(h) = clo[clo[c].spawn_parent].frame
  BY <1>2 DEF FullBase
<1>5. /\ TypeOK' /\ Takes(w, v, c, n, "finish", h) /\ Lists(clo')
      /\ clo'[n].status = "RUNNING" /\ clo'[n].frame = 0 /\ ~clo'[n].has_cilk_callee /\ clo'[n].call_parent = 0
      /\ clo'[n].spawn_parent = c /\ clo'[n].join_counter = 0 /\ clo'[c].frame = h
  BY <1>2 DEF FullSteal
<1>6. \A k \in Closures \ {n} :
        /\ clo'[k].status = clo[k].status /\ clo'[k].spawn_parent = clo[k].spawn_parent
        /\ clo'[k].has_cilk_callee = clo[k].has_cilk_callee /\ clo'[k].call_parent = clo[k].call_parent
        /\ k # c => clo'[k].frame = clo[k].frame /\ clo'[k].join_counter = clo[k].join_counter
        /\ clo[k].join_counter # 0 => clo'[k].join_counter # 0
        /\ Dead(clo, k) => clo'[k] = clo[k]
  BY <1>2 DEF FullSteal
<1>7. /\ wst'[w] = "finish" /\ cl'[w] = c /\ dq'[w] = 0 /\ dq'[v] = n /\ wst'[v] = "run" /\ cl'[v] = 0
      /\ cur' = cur /\ at' = at /\ unsynced' = unsynced /\ stolen' = stolen \cup {h}
      /\ \A u \in Workers \ {w, v} : SameAt(u)
  BY <1>3, <1>5 DEF Takes
<1> HIDE DEF c, n, h
<1>8. Live' = Live \cup {n}
  BY <1>3, <1>5, <1>6 DEF Live
<1>9. \A k \in Live : /\ k \in Closures \ {n} /\ k # n
                      /\ clo[k].frame # 0 => clo'[k].frame = clo[k].frame
  BY <1>3, <1>4, <1>5, <1>6 DEF Live
<1>10. \A k \in Live : clo[k].spawn_parent # n /\ clo[k].call_parent # n /\ clo[k].call_parent # c
  BY <1>3, FreeUnused DEF SchedulerInv, Placed
<1>11. Promoting \subseteq Promoting' /\ Finishing \subseteq Finishing' /\ c \in Finishing'
  <2>1. \A u \in Workers : wst[u] \in {"promote", "finish"} => wst'[u] = wst[u] /\ cl'[u] = cl[u]
    BY <1>3, <1>7 DEF SameAt
  <2> QED BY <1>7, <2>1 DEF Promoting, Finishing
<1>12. Lists(clo)'
  BY <1>5 DEF Lists, Kids, Linked
<1>13. Blank'
  <2> SUFFICES ASSUME NEW k \in Closures \ Live' PROVE clo'[k] = FreshClosure
    BY DEF Blank
  <2>1. k \in Closures \ {n} /\ k \notin Live /\ Dead(clo, k)
    BY <1>8 DEF Live, Dead
  <2> QED BY <1>6, <2>1 DEF SchedulerInv, Blank
<1>14. Named'
  <2>1. \A k \in Live : clo'[k].frame = clo[k].frame \/ k = c
    BY <1>6, <1>9
  <2>2. ASSUME NEW k \in Live, k # c PROVE clo'[k].frame # h
    <3>1. clo'[k].frame = clo[k].frame
      BY <2>1, <2>2
    <3>2. clo[k].frame # h
      BY <1>3, <1>4, <2>2 DEF SchedulerInv, Named
    <3> QED BY <3>1, <3>2
  <2>3. \A k \in Live' : clo'[k].frame # 0 => clo'[k].frame \in stolen'
    BY <1>5, <1>7, <1>8, <2>1 DEF SchedulerInv, Named
  <2>4. \A j, k \in Live' : clo'[j].frame = clo'[k].frame /\ clo'[j].frame # 0 => j = k
    BY <1>5, <1>8, <2>1, <2>2 DEF SchedulerInv, Named
  <2> QED BY <2>3, <2>4 DEF Named
<1>15. (\A k \in Live : Placed(k))'
  <2>1. ASSUME NEW k, k = n PROVE Placed(k)'
    BY <1>3, <1>4, <1>5, <1>8, <2>1 DEF Placed
  <2>2. ASSUME NEW k \in Live PROVE Placed(k)'
    <3> DEFINE p == clo[k].spawn_parent
               q == clo[k].call_parent
    <3>1. clo'[k].spawn_parent = p /\ clo'[k].call_parent = q /\ Placed(k)
      BY <1>6, <1>9 DEF SchedulerInv
    <3>2. ASSUME p # 0
          PROVE  /\ p \in Live' /\ p # k /\ clo'[p].frame # 0 /\ q = 0 /\ clo'[p].frame = clo[p].frame
                 /\ clo'[k].frame # 0 => Detached(clo'[k].frame) /\ CallParent(clo'[k].frame) = clo[p].frame
      <4>1. /\ p \in Live /\ p # k /\ clo[p].frame # 0 /\ q = 0
            /\ clo[k].frame # 0 => Detached(clo[k].frame) /\ CallParent(clo[k].frame) = clo[p].frame
        BY <3>1, <3>2 DEF Placed
      <4>2. clo'[p].frame = clo[p].frame
        BY <1>9, <4>1
      <4>3. CASE k = c
        BY <1>4, <1>5, <1>8, <3>2, <4>1, <4>2, <4>3
      <4>4. CASE k # c
        BY <1>6, <1>8, <1>9, <4>1, <4>2, <4>4
      <4> QED BY <4>3, <4>4
    <3>3. ASSUME q # 0
          PROVE  /\ q \in Live' /\ q # k /\ clo'[q].has_cilk_callee
                 /\ clo'[k].frame \in Frames \ Roots /\ ~Detached(clo'[k].frame)
                 /\ k \in Promoting' \/ clo'[q].frame = CallParent(clo'[k].frame)
      <4>1. /\ q \in Live /\ q # k /\ clo[q].has_cilk_callee /\ clo[k].frame \in Frames \ Roots /\ ~Detached(clo[k].frame)
            /\ k \in Promoting \/ clo[q].frame = CallParent(clo[k].frame)
        BY <3>1, <3>3 DEF Placed
      <4>2. clo[k].frame # 0 /\ clo'[k].frame = clo[k].frame
        BY <1>9, <4>1, FramesPositive
      <4>3. q # c /\ clo'[q].frame = clo[q].frame /\ clo'[q].has_cilk_callee
        BY <1>6, <1>9, <1>10, <4>1
      <4> QED BY <1>8, <1>11, <4>1, <4>2, <4>3
    <3>4. p = 0 /\ q = 0 => clo'[k].frame \in Roots
      BY <1>9, <3>1, FramesPositive DEF Placed
    <3> HIDE DEF p, q
    <3> QED BY <3>1, <3>2, <3>3, <3>4 DEF Placed
  <2> QED BY <1>8, <2>1, <2>2
<1>16. Callees'
  <2>1. \A k \in Live : clo'[k].call_parent = clo[k].call_parent /\ clo'[k].status = clo[k].status
                          /\ clo'[k].has_cilk_callee = clo[k].has_cilk_callee
    BY <1>6, <1>9
  <2>2. \A j, k \in Live' : clo'[j].call_parent = clo'[k].call_parent /\ clo'[j].call_parent # 0 => j = k
    BY <1>5, <1>8, <2>1 DEF SchedulerInv, Callees
  <2>3. ASSUME NEW k \in Live', clo'[k].has_cilk_callee
        PROVE  clo'[k].status = "SUSPENDED" /\ \E d \in Live' : clo'[d].call_parent = k
    <3>1. k \in Live /\ clo[k].has_cilk_callee
      BY <1>5, <1>8, <2>1, <2>3
    <3>2. PICK d \in Live : clo[d].call_parent = k
      BY <3>1 DEF SchedulerInv, Callees
    <3>3. d \in Live' /\ clo'[d].call_parent = k
      BY <1>8, <2>1, <3>2
    <3> QED BY <2>1, <3>1, <3>3 DEF SchedulerInv, Callees
  <2> QED BY <2>2, <2>3 DEF Callees
<1>17. NoLostWakeup'
  <2> SUFFICES ASSUME NEW k \in Live', clo'[k].status = "SUSPENDED" PROVE HasChildren(clo'[k])
    BY DEF NoLostWakeup
  <2>1. k \in Live /\ k \in Closures \ {n}
    BY <1>5, <1>8, <1>9
  <2>2. HasChildren(clo[k])
    BY <1>6, <2>1 DEF SchedulerInv, NoLostWakeup
  <2> QED BY <1>6, <2>1, <2>2 DEF HasChildren
<1>18. Unsynched'
  <2>1. unsynced' \subseteq stolen'
    BY <1>7 DEF SchedulerInv, Unsynched
  <2>2. ASSUME NEW k \in Live', clo'[k].join_counter # 0 PROVE clo'[k].frame \in unsynced' \/ k \in Finishing'
    <3>1. k \in Live /\ k \in Closures \ {n}
      BY <1>5, <1>8, <1>9, <2>2
    <3>2. CASE k = c
      BY <1>11, <3>2
    <3>3. CASE k # c
      BY <1>6, <1>7, <1>11, <2>2, <3>1, <3>3 DEF SchedulerInv, Unsynched
    <3> QED BY <3>2, <3>3
  <2>3. ASSUME NEW k \in Live', clo'[k].status = "RETURNING" PROVE clo'[k].join_counter = 0 /\ clo'[k].spawn_parent # 0
    <3>1. k \in Live /\ k \in Closures \ {n} /\ clo[k].status = "RETURNING" /\ k # c
      BY <1>3, <1>5, <1>6, <1>8, <1>9, <2>3
    <3> QED BY <1>6, <3>1 DEF SchedulerInv, Unsynched
  <2> QED BY <2>1, <2>2, <2>3 DEF Unsynched
<1>19. Owners'
  <2> DEFINE W == {w, v}
  <2>1. W \in SUBSET Workers
    OBVIOUS
  <2>2. SameBut(wst, W) /\ SameBut(cl, W) /\ SameBut(dq, W) /\ SameBut(cur, W)
    BY <1>7 DEF SameBut, SameAt
  <2>3. \A u \in Workers \ W : Holds(u)' = Holds(u) /\ Holds(u) # c /\ Holds(u) # n
    <3> TAKE u \in Workers \ W
    <3>1. Holds(u)' = Holds(u)
      BY <1>7 DEF SameAt, Holds
    <3>2. Holds(u) # c
      BY <1>3 DEF SchedulerInv, Owners
    <3>3. Holds(u) # n
      BY <1>3, HeldLive
    <3> QED BY <3>1, <3>2, <3>3
  <2>4. ASSUME NEW u \in Workers \ W, Holds(u) # 0
        PROVE  /\ clo'[Holds(u)].status = clo[Holds(u)].status /\ clo'[Holds(u)].frame = clo[Holds(u)].frame
               /\ clo'[Holds(u)].call_parent = clo[Holds(u)].call_parent
    <3>1. Holds(u) \in Live /\ Holds(u) # c
      BY <2>3, <2>4, HeldLive
    <3> HIDE DEF Holds
    <3> QED BY <1>6, <1>9, <3>1
  <2>5. clo'[c].status = "RUNNING"
    BY <1>3, <1>6
  <2>6. HoldsOne(w)'
    BY <1>3, <1>4, <1>5, <1>7, <2>5 DEF HoldsOne
  <2>7. HoldsOne(v)'
    BY <1>3, <1>5, <1>7 DEF HoldsOne
  <2>8. Holds(w)' = c /\ Holds(v)' = n
    BY <1>3, <1>7 DEF Holds
  <2>9. \A u \in W : HoldsOne(u)'
    BY <2>6, <2>7
  <2>10. \A u \in W : \A x \in Workers : u # x /\ Holds(u)' # 0 => Holds(u)' # Holds(x)'
    <3> HIDE DEF Holds
    <3> QED BY <1>3, <2>3, <2>8
  <2> HIDE DEF W, Owners, Holds
  <2> QED BY <2>1, <2>2, <2>4, <2>9, <2>10, OwnersStep
<1>20. /\ OnStack(v)' /\ StackFits(v)' /\ Stack(v)' \subseteq Stack(v)
  <2>1. c # 0 /\ h = Head(shadow[v])
    BY <1>3 DEF h
  <2> QED BY <1>1, <1>5, <2>1, VictimStack
<1>21. ASSUME NEW u \in Workers \ {w, v}, OnStack(u) PROVE Stack(u)' = Stack(u) /\ StackFits(u)' /\ OnStack(u)'
  <2>1. SameAt(u) /\ stolen \subseteq stolen'
    BY <1>7
  <2>2. Stack(u) \cap Stack(v) = {}
    BY <1>3, <1>21 DEF SchedulerInv, Stacks
  <2>3. stolen' \cap Stack(u) \subseteq stolen
    BY <1>4, <1>7, <2>2
  <2>4. Bottom(u) \in Live /\ Bottom(u) # c
    BY <1>3, <1>21, BottomsDiffer
  <2>5. wst[u] = "run" \/ (cl[u] \in Live /\ cl[u] # c)
    <3>1. Holds(u) # c
      BY <1>3 DEF SchedulerInv, Owners
    <3> QED BY <1>21, <3>1, BelowLive
  <2>6. clo[Bottom(u)].spawn_parent # 0 =>
          clo[Bottom(u)].spawn_parent \in Live /\ clo[clo[Bottom(u)].spawn_parent].frame # 0
    BY <1>21, BelowLive
  <2>7. SameBelow(u)
    BY <1>6, <1>9, <2>4, <2>5, <2>6 DEF SameBelow
  <2> QED BY <1>21, <2>1, <2>3, <2>7, StackKept
<1>22. Stacks' /\ Unbegun'
  <2> DEFINE W == {w, v}
  <2>1. W \in SUBSET Workers /\ ~OnStack(w)' /\ \A u \in Workers \ W : OnStack(u)' => OnStack(u)
    BY <1>7 DEF OnStack, SameAt
  <2>2. \A u \in Workers \ W : OnStack(u)' => OnStack(u) /\ Stack(u)' = Stack(u) /\ StackFits(u)'
    BY <1>21, <2>1
  <2>3. \A f \in Frames : Ahead(f)' = Ahead(f) /\ Ahead(f) \cap stolen = {} /\ Ahead(f) \cap Stack(v) = {}
    BY <1>3, <1>7 DEF SchedulerInv, Unbegun, Ahead
  <2>4. \A f \in Frames : Ahead(f)' \subseteq Ahead(f) /\ Ahead(f)' \cap stolen' = {}
    BY <1>4, <1>7, <2>3
  <2>5. \A u \in W : OnStack(u)' => StackFits(u)' /\ \A f \in Frames : Ahead(f)' \cap Stack(u)' = {}
    BY <1>20, <2>1, <2>3
  <2>6. \A u \in Workers \ W : OnStack(u)' => Stack(v)' \cap Stack(u)' = {}
    BY <1>3, <1>20, <2>2 DEF SchedulerInv, Stacks
  <2>7. \A u \in W : \A x \in Workers : u # x /\ OnStack(u)' /\ OnStack(x)' => Stack(u)' \cap Stack(x)' = {}
    BY <2>1, <2>6
  <2> HIDE DEF W
  <2> QED BY <2>1, <2>2, <2>4, <2>5, <2>7, StacksStep
<1> QED BY <1>5, <1>12, <1>13, <1>14, <1>15, <1>16, <1>17, <1>18, <1>19, <1>22 DEF SchedulerInv

\* StealStacklet: frame h gets closure m, called by the victim's closure c,
\* which waits, and m has the new child n.
StackletSteal(w, v, c, m, n, h) ==
  /\ TypeOK' /\ Takes(w, v, m, n, "promote", h) /\ Lists(clo')
  /\ clo'[n].status = "RUNNING" /\ clo'[n].frame = 0 /\ ~clo'[n].has_cilk_callee /\ clo'[n].call_parent = 0
  /\ clo'[n].spawn_parent = m /\ clo'[n].join_counter = 0
  /\ clo'[m].status = "RUNNING" /\ clo'[m].frame = h /\ ~clo'[m].has_cilk_callee /\ clo'[m].call_parent = c
  /\ clo'[m].spawn_parent = 0
  /\ clo'[c].status = "SUSPENDED" /\ clo'[c].has_cilk_callee
  /\ \A k \in Closures \ {m, n} :
       /\ clo'[k].frame = clo[k].frame /\ clo'[k].spawn_parent = clo[k].spawn_parent
       /\ clo'[k].call_parent = clo[k].call_parent /\ clo'[k].join_counter = clo[k].join_counter
       /\ k # c => clo'[k].status = clo[k].status /\ clo'[k].has_cilk_callee = clo[k].has_cilk_callee
       /\ Dead(clo, k) => clo'[k] = clo[k]

\* StealStacklet, field by field.
LEMMA StealStackletIs ==
  ASSUME SchedulerInv, NEW w \in Workers, NEW v \in Workers, AtSteal(w, v), StealStacklet(w, v)
  PROVE  StackletSteal(w, v, dq[v], Created, CreatedNext, Head(shadow[v]))
<1> DEFINE c == dq[v]
           m == Created
           n == CreatedNext
           h == Head(shadow[v])
           a == [clo[m] EXCEPT !.status = "RUNNING", !.frame = h, !.call_parent = c]
           A == Upd(clo, m, a)
           b == [clo[c] EXCEPT !.status = "SUSPENDED", !.has_cilk_callee = TRUE]
           C == Upd(A, c, b)
<1>1. Extract(w, v, C, m, n) /\ wst' = Set(wst, w, "promote")
  BY DEF StealStacklet
<1>2. TypeOK /\ clo \in Trees /\ Lists(clo)
  BY DEF SchedulerInv, TypeOK, Trees
<1>3. c \in Closures /\ c \in Live /\ c # 0 /\ n \in Closures /\ n \notin Live /\ n # 0 /\ clo[n] = FreshClosure /\ n # c
      /\ m \in Closures /\ m \notin Live /\ m # 0 /\ clo[m] = FreshClosure /\ m # c /\ m # n
      /\ shadow[v] \in Seq(Frames) /\ shadow[v] # <<>>
  BY DEF AtSteal, AtWork
<1>4. h \in Ptr(Frames) /\ c \in Ptr(Closures) /\ clo[c] \in Closure /\ clo[m] \in Closure
  BY <1>2, <1>3 DEF Trees, Ptr
<1>5. /\ clo[m].join_counter = 0 /\ ~clo[m].has_cilk_callee /\ clo[m].spawn_parent = 0
      /\ clo[m].right_most_child = 0 /\ clo[m].status = "FREE"
  BY <1>3 DEF FreshClosure
<1> HIDE DEF n, h, m
<1>6. a \in Closure /\ a.frame = h /\ a.status = "RUNNING" /\ a.join_counter = clo[m].join_counter
      /\ a.has_cilk_callee = clo[m].has_cilk_callee /\ a.call_parent = c
      /\ a.spawn_parent = clo[m].spawn_parent /\ a.left_sib = clo[m].left_sib /\ a.right_sib = clo[m].right_sib
      /\ a.right_most_child = clo[m].right_most_child
  BY <1>4 DEF Closure, Status
<1>7. b \in Closure /\ b.frame = clo[c].frame /\ b.status = "SUSPENDED" /\ b.join_counter = clo[c].join_counter
      /\ b.has_cilk_callee = TRUE /\ b.call_parent = clo[c].call_parent
      /\ b.spawn_parent = clo[c].spawn_parent /\ b.left_sib = clo[c].left_sib /\ b.right_sib = clo[c].right_sib
      /\ b.right_most_child = clo[c].right_most_child
  BY <1>4 DEF Closure, Status
<1> HIDE DEF a, b
<1>8. A \in Trees /\ \A k \in Closures : A[k] = IF k = m THEN a ELSE clo[k]
  BY <1>2, <1>3, <1>6, UpdIs
<1> HIDE DEF A
<1>9. C \in Trees /\ \A k \in Closures : C[k] = IF k = c THEN b ELSE A[k]
  BY <1>3, <1>7, <1>8, UpdIs
<1> HIDE DEF C
<1>10. C[c] = b /\ C[m] = a /\ \A k \in Closures \ {c, m} : C[k] = clo[k]
  BY <1>3, <1>8, <1>9
<1>11. \A k \in Closures \ {m} :
         /\ C[k].frame = clo[k].frame /\ C[k].join_counter = clo[k].join_counter
         /\ C[k].call_parent = clo[k].call_parent /\ C[k].spawn_parent = clo[k].spawn_parent
         /\ C[k].left_sib = clo[k].left_sib /\ C[k].right_sib = clo[k].right_sib
         /\ C[k].right_most_child = clo[k].right_most_child /\ (Dead(C, k) <=> Dead(clo, k))
         /\ k # c => C[k] = clo[k]
  <2> TAKE k \in Closures \ {m}
  <2>1. CASE k = c
    BY <1>3, <1>7, <1>10, <2>1 DEF Live, Dead
  <2>2. CASE k # c
    BY <1>10, <2>2 DEF Dead
  <2> QED BY <2>1, <2>2
<1>12. \A k \in Live : clo[k].spawn_parent # n /\ clo[k].spawn_parent # m
  BY <1>3, FreeUnused
<1>13. ~Dead(C, m) /\ C[m].right_most_child = 0 /\ C[m].join_counter = 0 /\ C[m].spawn_parent = 0 /\ Dead(clo, m)
  BY <1>5, <1>6, <1>10 DEF Dead
<1>14. Adopts(C, m, n)
  <2>1. ASSUME NEW k \in Closures, ~Dead(C, k) PROVE C[k].spawn_parent # n
    <3>1. CASE k = m
      BY <1>3, <1>13, <3>1
    <3>2. CASE k # m
      BY <1>11, <1>12, <2>1, <3>2 DEF Live, Dead
    <3> QED BY <3>1, <3>2
  <2> QED BY <1>3, <1>9, <1>10, <1>13, <2>1 DEF Adopts
<1>15. TypeOK' /\ Adopted(C, clo', m, n) /\ Takes(w, v, m, n, "promote", h)
  <2>1. "promote" \in WorkerState
    BY DEF WorkerState
  <2> QED BY <1>1, <1>14, <2>1, ExtractIs DEF h
<1>16. clo' \in Trees /\ Appended(C, clo', m, n)
       /\ clo'[n].status = "RUNNING" /\ clo'[n].frame = 0 /\ ~clo'[n].has_cilk_callee /\ clo'[n].call_parent = 0
  BY <1>15 DEF Adopted
<1>17. \A k \in Closures \ {n} :
         /\ clo'[k].status = C[k].status /\ clo'[k].frame = C[k].frame
         /\ clo'[k].has_cilk_callee = C[k].has_cilk_callee /\ clo'[k].call_parent = C[k].call_parent
         /\ Dead(C, k) => clo'[k] = C[k]
  BY <1>15 DEF Adopted
<1>18. Lists(clo')
  <2>1. Extends(clo, C)
    <3>1. \A k \in Closures : ~Dead(clo, k) => ~Dead(C, k) /\ SamePlace(clo, C, k) /\ SameList(clo, C, k)
      BY <1>11, <1>13 DEF SamePlace, SameList
    <3>2. \A k \in Closures : Dead(clo, k) /\ ~Dead(C, k) => k = m
      BY <1>11
    <3>3. \A k \in Closures : ~Dead(clo, k) => clo[k].spawn_parent # m
      BY <1>12 DEF Live, Dead
    <3> QED BY <1>13, <3>1, <3>2, <3>3 DEF Extends
  <2>2. Lists(C) /\ C[m].join_counter \in Nat
    BY <1>2, <1>13, <2>1, ListsExtends
  <2> QED BY <1>16, <2>2, ListsAppended
<1>19. clo'[n].spawn_parent = m /\ clo'[n].join_counter = 0
       /\ \A k \in Closures \ {n} : /\ clo'[k].spawn_parent = C[k].spawn_parent
                                    /\ k # m => clo'[k].join_counter = C[k].join_counter
  BY <1>3, <1>16 DEF Appended, SameList
<1>20. ASSUME NEW k \in Closures \ {m, n}
       PROVE  /\ clo'[k].frame = clo[k].frame /\ clo'[k].spawn_parent = clo[k].spawn_parent
              /\ clo'[k].call_parent = clo[k].call_parent /\ clo'[k].join_counter = clo[k].join_counter
              /\ k # c => clo'[k].status = clo[k].status /\ clo'[k].has_cilk_callee = clo[k].has_cilk_callee
              /\ Dead(clo, k) => clo'[k] = clo[k]
  <2>1. Dead(clo, k) => k # c
    BY <1>3 DEF Live, Dead
  <2> QED BY <1>11, <1>17, <1>19, <2>1
<1>21. /\ clo'[m].status = "RUNNING" /\ clo'[m].frame = h /\ ~clo'[m].has_cilk_callee /\ clo'[m].call_parent = c
       /\ clo'[m].spawn_parent = 0
  BY <1>3, <1>5, <1>6, <1>10, <1>17, <1>19
<1>22. clo'[c].status = "SUSPENDED" /\ clo'[c].has_cilk_callee
  BY <1>3, <1>7, <1>10, <1>17
<1> QED BY <1>15, <1>16, <1>18, <1>19, <1>20, <1>21, <1>22 DEF StackletSteal, m, n, h

\* What is left of the victim's stack above the stolen frame.
StackletBase(v, c, h) ==
  LET o == Outer(c)
      U == Stacklet(o, CallParent(h)) IN
  /\ h \in Frames \ Roots /\ h # 0 /\ h \notin stolen /\ h \in Stack(v) /\ ~Detached(h)
  /\ FitsStack(o, clo[c].frame, clo[c].spawn_parent, stolen \cup {h}, CallParent(h), <<>>)
  /\ U \subseteq Stack(v) /\ U \cap Stacklet(h, cur[v]) = {}

\* The stolen frame lies below the one the victim's closure stands for.
LEMMA StealStackletBase ==
  ASSUME SchedulerInv, NEW w \in Workers, NEW v \in Workers, AtSteal(w, v), StealStacklet(w, v)
  PROVE  StackletBase(v, dq[v], Head(shadow[v]))
<1> DEFINE c == dq[v]
           o == Outer(c)
           b == clo[c].frame
           p == clo[c].spawn_parent
           f == cur[v]
           s == shadow[v]
           h == Head(s)
<1>1. f \in Frames /\ s \in Seq(Frames) /\ s # <<>> /\ Stack(v) = Stacklet(o, f)
  BY DEF AtSteal, AtWork
<1>2. BaseOf(o, b, p)
  BY DEF AtSteal, AtWork
<1>3. FitsStack(o, b, p, stolen, f, s)
  BY DEF AtSteal, AtWork
<1>4. h # b /\ ~Detached(h)
  BY DEF StealStacklet
<1> HIDE DEF o, b, p, f, s, c, h
<1>5. h = Head(s)
  BY DEF h
<1>6. Splits(o, b, p, stolen, f, h)
  BY <1>1, <1>2, <1>3, <1>4, <1>5, StackSplit
<1>7. h # 0
  BY <1>6, FramesPositive DEF Splits
<1> QED BY <1>1, <1>4, <1>6, <1>7 DEF Splits, StackletBase, o, b, p, f, s, c, h

\* A thief takes a called frame: the frame gets a closure of its own, and the
\* closure of the victim waits for it.
LEMMA StealStackletKeeps ==
  ASSUME SchedulerInv, NEW w \in Workers, NEW v \in Workers, StealStacklet(w, v)
  PROVE  SchedulerInv'
<1> DEFINE c == dq[v]
           m == Created
           n == CreatedNext
           h == Head(shadow[v])
<1>1. AtSteal(w, v)
  BY StealFacts DEF StealStacklet
<1>2. StackletSteal(w, v, c, m, n, h) /\ StackletBase(v, c, h)
  BY <1>1, StealStackletIs, StealStackletBase
<1>3. w # v /\ wst[v] = "run" /\ wst[w] = "idle" /\ cl[w] = 0 /\ dq[w] = 0 /\ cl[v] = 0 /\ cur[v] # 0 /\ Holds(v) = c
      /\ c \in Closures /\ c \in Live /\ c # 0 /\ clo[c].status = "RUNNING" /\ ~clo[c].has_cilk_callee
      /\ n \in Closures /\ n \notin Live /\ n # 0 /\ n # c /\ OnStack(v) /\ Bottom(v) = c
      /\ m \in Closures /\ m \notin Live /\ m # 0 /\ m # c /\ m # n
  BY <1>1, NotNull DEF AtSteal, AtWork, OnStack
<1>4. h \in Frames \ Roots /\ h # 0 /\ h \notin stolen /\ h \in Stack(v) /\ ~Detached(h)
  BY <1>2 DEF StackletBase
<1>5. /\ TypeOK' /\ Takes(w, v, m, n, "promote", h) /\ Lists(clo')
      /\ clo'[n].status = "RUNNING" /\ clo'[n].frame = 0 /\ ~clo'[n].has_cilk_callee /\ clo'[n].call_parent = 0
      /\ clo'[n].spawn_parent = m /\ clo'[n].join_counter = 0
      /\ clo'[m].status = "RUNNING" /\ clo'[m].frame = h /\ ~clo'[m].has_cilk_callee /\ clo'[m].call_parent = c
      /\ clo'[m].spawn_parent = 0
      /\ clo'[c].status = "SUSPENDED" /\ clo'[c].has_cilk_callee
  BY <1>2 DEF StackletSteal
<1>6. \A k \in Closures \ {m, n} :
        /\ clo'[k].frame = clo[k].frame /\ clo'[k].spawn_parent = clo[k].spawn_parent
        /\ clo'[k].call_parent = clo[k].call_parent /\ clo'[k].join_counter = clo[k].join_counter
        /\ k # c => clo'[k].status = clo[k].status /\ clo'[k].has_cilk_callee = clo[k].has_cilk_callee
        /\ Dead(clo, k) => clo'[k] = clo[k]
  BY <1>2 DEF StackletSteal
<1>7. /\ wst'[w] = "promote" /\ cl'[w] = m /\ dq'[w] = 0 /\ dq'[v] = n /\ wst'[v] = "run" /\ cl'[v] = 0
      /\ cur' = cur /\ at' = at /\ unsynced' = unsynced /\ stolen' = stolen \cup {h}
      /\ \A u \in Workers \ {w, v} : SameAt(u)
  BY <1>3, <1>5 DEF Takes
<1>8. /\ FitsStack(Outer(c), clo[c].frame, clo[c].spawn_parent, stolen \cup {h}, CallParent(h), <<>>)
      /\ Stacklet(Outer(c), CallParent(h)) \subseteq Stack(v)
      /\ Stacklet(Outer(c), CallParent(h)) \cap Stacklet(h, cur[v]) = {}
  BY <1>2 DEF StackletBase
<1> HIDE DEF c, n, h, m
<1>9. Live' = Live \cup {m, n}
  BY <1>3, <1>5, <1>6 DEF Live
<1>10. \A k \in Live : k \in Closures \ {m, n} /\ k # n /\ k # m
  BY <1>3 DEF Live
<1>11. \A k \in Live : /\ clo[k].spawn_parent # n /\ clo[k].call_parent # n /\ clo[k].call_parent # c
                       /\ clo[k].spawn_parent # m /\ clo[k].call_parent # m
  BY <1>3, FreeUnused DEF SchedulerInv, Placed
<1>12. Promoting \subseteq Promoting' /\ Finishing \subseteq Finishing' /\ m \in Finishing' /\ m \in Promoting'
  <2>1. \A u \in Workers : wst[u] \in {"promote", "finish"} => wst'[u] = wst[u] /\ cl'[u] = cl[u]
    BY <1>3, <1>7 DEF SameAt
  <2> QED BY <1>7, <2>1 DEF Promoting, Finishing
<1>13. Lists(clo)'
  BY <1>5 DEF Lists, Kids, Linked
<1>14. Blank'
  <2> SUFFICES ASSUME NEW k \in Closures \ Live' PROVE clo'[k] = FreshClosure
    BY DEF Blank
  <2>1. k \in Closures \ {m, n} /\ k \notin Live /\ Dead(clo, k)
    BY <1>9 DEF Live, Dead
  <2> QED BY <1>6, <2>1 DEF SchedulerInv, Blank
<1>15. Named'
  <2>1. \A k \in Live : clo'[k].frame = clo[k].frame /\ clo[k].frame # h
    BY <1>4, <1>6, <1>10 DEF SchedulerInv, Named
  <2>2. \A k \in Live' : clo'[k].frame # 0 => clo'[k].frame \in stolen'
    BY <1>5, <1>7, <1>9, <2>1 DEF SchedulerInv, Named
  <2>3. \A j, k \in Live' : clo'[j].frame = clo'[k].frame /\ clo'[j].frame # 0 => j = k
    BY <1>5, <1>9, <2>1 DEF SchedulerInv, Named
  <2> QED BY <2>2, <2>3 DEF Named
<1>16. (\A k \in Live : Placed(k))'
  <2>1. ASSUME NEW k, k = n PROVE Placed(k)'
    BY <1>3, <1>4, <1>5, <1>9, <2>1 DEF Placed
  <2>2. ASSUME NEW k, k = m PROVE Placed(k)'
    BY <1>3, <1>4, <1>5, <1>9, <1>12, <2>2 DEF Placed
  <2>3. ASSUME NEW k \in Live PROVE Placed(k)'
    <3> DEFINE p == clo[k].spawn_parent
               q == clo[k].call_parent
               b == clo[k].frame
    <3>1. clo'[k].spawn_parent = p /\ clo'[k].call_parent = q /\ clo'[k].frame = b /\ Placed(k)
      BY <1>6, <1>10 DEF SchedulerInv
    <3>2. ASSUME p # 0
          PROVE  /\ p \in Live' /\ p # k /\ clo'[p].frame # 0 /\ q = 0
                 /\ b # 0 => Detached(b) /\ CallParent(b) = clo'[p].frame
      <4>1. /\ p \in Live /\ p # k /\ clo[p].frame # 0 /\ q = 0
            /\ b # 0 => Detached(b) /\ CallParent(b) = clo[p].frame
        BY <3>1, <3>2 DEF Placed
      <4> QED BY <1>6, <1>9, <1>10, <4>1
    <3>3. ASSUME q # 0
          PROVE  /\ q \in Live' /\ q # k /\ clo'[q].has_cilk_callee /\ b \in Frames \ Roots /\ ~Detached(b)
                 /\ k \in Promoting' \/ clo'[q].frame = CallParent(b)
      <4>1. /\ q \in Live /\ q # k /\ clo[q].has_cilk_callee /\ b \in Frames \ Roots /\ ~Detached(b)
            /\ k \in Promoting \/ clo[q].frame = CallParent(b)
        BY <3>1, <3>3 DEF Placed
      <4>2. q # c /\ clo'[q].frame = clo[q].frame /\ clo'[q].has_cilk_callee
        BY <1>6, <1>10, <1>11, <4>1
      <4> QED BY <1>9, <1>12, <4>1, <4>2
    <3>4. p = 0 /\ q = 0 => b \in Roots
      BY <3>1 DEF Placed
    <3> HIDE DEF p, q, b
    <3> QED BY <3>1, <3>2, <3>3, <3>4 DEF Placed
  <2> QED BY <1>9, <2>1, <2>2, <2>3
<1>17. Callees'
  <2>1. \A k \in Live : clo'[k].call_parent = clo[k].call_parent /\ clo[k].call_parent # c
    BY <1>6, <1>10, <1>11
  <2>2. \A j, k \in Live' : clo'[j].call_parent = clo'[k].call_parent /\ clo'[j].call_parent # 0 => j = k
    BY <1>5, <1>9, <2>1 DEF SchedulerInv, Callees
  <2>3. ASSUME NEW k \in Live', clo'[k].has_cilk_callee
        PROVE  clo'[k].status = "SUSPENDED" /\ \E d \in Live' : clo'[d].call_parent = k
    <3>1. CASE k = c
      BY <1>5, <1>9, <3>1
    <3>2. CASE k # c
      <4>1. k \in Live /\ clo[k].has_cilk_callee /\ clo'[k].status = clo[k].status
        BY <1>5, <1>6, <1>9, <1>10, <2>3, <3>2
      <4>2. PICK d \in Live : clo[d].call_parent = k
        BY <4>1 DEF SchedulerInv, Callees
      <4>3. d \in Live' /\ clo'[d].call_parent = k
        BY <1>9, <2>1, <4>2
      <4> QED BY <4>1, <4>3 DEF SchedulerInv, Callees
    <3> QED BY <3>1, <3>2
  <2> QED BY <2>2, <2>3 DEF Callees
<1>18. NoLostWakeup'
  <2> SUFFICES ASSUME NEW k \in Live', clo'[k].status = "SUSPENDED" PROVE HasChildren(clo'[k])
    BY DEF NoLostWakeup
  <2>1. CASE k = c
    BY <1>5, <2>1 DEF HasChildren
  <2>2. CASE k # c
    <3>1. k \in Live /\ clo[k].status = "SUSPENDED" /\ clo'[k].has_cilk_callee = clo[k].has_cilk_callee
          /\ clo'[k].join_counter = clo[k].join_counter
      BY <1>5, <1>6, <1>9, <1>10, <2>2
    <3>2. HasChildren(clo[k])
      BY <3>1 DEF SchedulerInv, NoLostWakeup
    <3> QED BY <3>1, <3>2 DEF HasChildren
  <2> QED BY <2>1, <2>2
<1>19. Unsynched'
  <2>1. unsynced' \subseteq stolen'
    BY <1>7 DEF SchedulerInv, Unsynched
  <2>2. ASSUME NEW k \in Live', clo'[k].join_counter # 0 PROVE clo'[k].frame \in unsynced' \/ k \in Finishing'
    <3>1. CASE k = m
      BY <1>12, <3>1
    <3>2. CASE k # m
      BY <1>5, <1>6, <1>7, <1>9, <1>10, <1>12, <2>2, <3>2 DEF SchedulerInv, Unsynched
    <3> QED BY <3>1, <3>2
  <2>3. ASSUME NEW k \in Live', clo'[k].status = "RETURNING" PROVE clo'[k].join_counter = 0 /\ clo'[k].spawn_parent # 0
    <3>1. k \in Live /\ k \in Closures \ {m, n} /\ clo[k].status = "RETURNING" /\ k # c
      BY <1>5, <1>6, <1>9, <1>10, <2>3
    <3> QED BY <1>6, <3>1 DEF SchedulerInv, Unsynched
  <2> QED BY <2>1, <2>2, <2>3 DEF Unsynched
<1>20. Owners'
  <2> DEFINE W == {w, v}
  <2>1. W \in SUBSET Workers
    OBVIOUS
  <2>2. SameBut(wst, W) /\ SameBut(cl, W) /\ SameBut(dq, W) /\ SameBut(cur, W)
    BY <1>7 DEF SameBut, SameAt
  <2>3. \A u \in Workers \ W : Holds(u)' = Holds(u) /\ Holds(u) # c /\ Holds(u) # n /\ Holds(u) # m
    <3> TAKE u \in Workers \ W
    <3>1. Holds(u)' = Holds(u)
      BY <1>7 DEF SameAt, Holds
    <3>2. Holds(u) # c
      BY <1>3 DEF SchedulerInv, Owners
    <3>3. Holds(u) # n /\ Holds(u) # m
      BY <1>3, HeldLive
    <3> QED BY <3>1, <3>2, <3>3
  <2>4. ASSUME NEW u \in Workers \ W, Holds(u) # 0
        PROVE  /\ clo'[Holds(u)].status = clo[Holds(u)].status /\ clo'[Holds(u)].frame = clo[Holds(u)].frame
               /\ clo'[Holds(u)].call_parent = clo[Holds(u)].call_parent
    <3>1. Holds(u) \in Live /\ Holds(u) # c
      BY <2>3, <2>4, HeldLive
    <3> HIDE DEF Holds
    <3> QED BY <1>6, <1>10, <3>1
  <2>5. HoldsOne(w)'
    BY <1>3, <1>4, <1>5, <1>7 DEF HoldsOne
  <2>6. HoldsOne(v)'
    BY <1>3, <1>5, <1>7 DEF HoldsOne
  <2>7. Holds(w)' = m /\ Holds(v)' = n
    BY <1>3, <1>7 DEF Holds
  <2>8. \A u \in W : HoldsOne(u)'
    BY <2>5, <2>6
  <2>9. \A u \in W : \A x \in Workers : u # x /\ Holds(u)' # 0 => Holds(u)' # Holds(x)'
    <3> HIDE DEF Holds
    <3> QED BY <1>3, <2>3, <2>7
  <2> HIDE DEF W, Owners, Holds
  <2> QED BY <2>1, <2>2, <2>4, <2>8, <2>9, OwnersStep
<1>21. /\ OnStack(v)' /\ StackFits(v)' /\ Stack(v)' \subseteq Stack(v) /\ Stack(v)' = Stacklet(h, cur[v])
  <2>1. m # 0 /\ h = Head(shadow[v])
    BY <1>3 DEF h
  <2> QED BY <1>1, <1>5, <2>1, VictimStack
<1>22. /\ OnStack(w)' /\ StackFits(w)' /\ Stack(w)' \subseteq Stack(v) /\ Stack(w)' \cap Stack(v)' = {}
  <2>1. /\ OnStack(w)' /\ Bottom(w)' = c /\ Tip(w)' = CallParent(h) /\ Shadow(w)' = <<>>
    BY <1>5, <1>7 DEF OnStack, Bottom, Tip, Shadow
  <2>2. clo'[c].frame = clo[c].frame /\ clo'[c].spawn_parent = clo[c].spawn_parent
    BY <1>3, <1>6
  <2>3. clo[c].spawn_parent # 0 => clo'[clo[c].spawn_parent].frame = clo[clo[c].spawn_parent].frame
    <3>1. clo[c].spawn_parent # 0 => clo[c].spawn_parent \in Live
      BY <1>3 DEF SchedulerInv, Placed
    <3> QED BY <1>6, <1>10, <3>1
  <2>4. Outer(Bottom(w))' = Outer(c)
    BY <2>1, <2>2, <2>3 DEF Outer
  <2>5. Stack(w)' = Stacklet(Outer(c), CallParent(h))
    BY <2>1, <2>4 DEF Stack
  <2>6. StackFits(w)'
    BY <1>7, <1>8, <2>1, <2>2, <2>4 DEF StackFits
  <2> QED BY <1>8, <1>21, <2>1, <2>5, <2>6
<1>23. ASSUME NEW u \in Workers \ {w, v}, OnStack(u) PROVE Stack(u)' = Stack(u) /\ StackFits(u)' /\ OnStack(u)'
  <2>1. SameAt(u) /\ stolen \subseteq stolen'
    BY <1>7
  <2>2. Stack(u) \cap Stack(v) = {}
    BY <1>3, <1>23 DEF SchedulerInv, Stacks
  <2>3. stolen' \cap Stack(u) \subseteq stolen
    BY <1>4, <1>7, <2>2
  <2>4. Bottom(u) \in Live /\ (wst[u] = "run" \/ cl[u] \in Live)
        /\ (clo[Bottom(u)].spawn_parent # 0 => clo[Bottom(u)].spawn_parent \in Live)
    BY <1>23, BelowLive
  <2>5. SameBelow(u)
    BY <1>6, <1>10, <2>4 DEF SameBelow
  <2> QED BY <1>23, <2>1, <2>3, <2>5, StackKept
<1>24. Stacks' /\ Unbegun'
  <2> DEFINE W == {w, v}
  <2>1. W \in SUBSET Workers /\ \A u \in Workers \ W : OnStack(u)' => OnStack(u)
    BY <1>7 DEF OnStack, SameAt
  <2>2. \A u \in Workers \ W : OnStack(u)' => OnStack(u) /\ Stack(u)' = Stack(u) /\ StackFits(u)'
    BY <1>23, <2>1
  <2>3. \A f \in Frames : Ahead(f)' = Ahead(f) /\ Ahead(f) \cap stolen = {} /\ Ahead(f) \cap Stack(v) = {}
    BY <1>3, <1>7 DEF SchedulerInv, Unbegun, Ahead
  <2>4. \A f \in Frames : Ahead(f)' \subseteq Ahead(f) /\ Ahead(f)' \cap stolen' = {}
    BY <1>4, <1>7, <2>3
  <2>5. \A u \in W : OnStack(u)' => StackFits(u)' /\ \A f \in Frames : Ahead(f)' \cap Stack(u)' = {}
    BY <1>21, <1>22, <2>1, <2>3
  <2>6. \A u \in Workers \ W : OnStack(u)' => Stack(v)' \cap Stack(u)' = {} /\ Stack(w)' \cap Stack(u)' = {}
    BY <1>3, <1>21, <1>22, <2>2 DEF SchedulerInv, Stacks
  <2>7. \A u \in W : \A x \in Workers : u # x /\ OnStack(u)' /\ OnStack(x)' => Stack(u)' \cap Stack(x)' = {}
    BY <1>22, <2>1, <2>6
  <2> HIDE DEF W
  <2> QED BY <2>1, <2>2, <2>4, <2>5, <2>7, StacksStep
<1> QED BY <1>5, <1>13, <1>14, <1>15, <1>16, <1>17, <1>18, <1>19, <1>20, <1>24 DEF SchedulerInv

-----------------------------------------------------------------------------
(* The closures of a promoted stacklet *)

\* The closure that frame g of a promoted stacklet has.
Assigned(r, q, f, top, a, g) == IF g = f THEN r ELSE IF g = top THEN q ELSE a[g]

\* Tree D has the views of C or fewer.
Shrinks(C, D) == \A k \in Closures : /\ D[k].child_rmap \in {C[k].child_rmap, <<>>}
                                     /\ D[k].user_rmap \in {C[k].user_rmap, <<>>}

\* PromoteStacklet: the stolen frame f of closure r, the frame top of the
\* victim's closure q and the frames B between them, which get closures a.
Promotes(w, r, q, f, top, B, a) ==
  /\ TypeOK' /\ Lists(clo') /\ Shrinks(clo, clo') /\ ftf' = ftf
  /\ wst'[w] = "has" /\ (\A u \in Workers \ {w} : wst'[u] = wst[u])
  /\ cl' = cl /\ dq' = dq /\ cur' = cur /\ shadow' = shadow /\ at' = at
  /\ unsynced' = unsynced \cup {f} /\ stolen' = stolen \cup B \cup {top}
  /\ \A g \in B :
       /\ a[g] \in Closures \ Live /\ clo'[a[g]].status = "SUSPENDED" /\ clo'[a[g]].frame = g
       /\ clo'[a[g]].join_counter = 0 /\ clo'[a[g]].has_cilk_callee /\ clo'[a[g]].spawn_parent = 0
       /\ clo'[a[g]].call_parent = Assigned(r, q, f, top, a, CallParent(g))
  /\ \A g, h \in B : a[g] = a[h] => g = h
  /\ clo'[q].frame = top /\ clo'[q].call_parent = clo[q].call_parent
  /\ clo'[q].has_cilk_callee /\ clo'[q].status = "SUSPENDED"
  /\ clo'[r].frame = f /\ clo'[r].status = "READY" /\ ~clo'[r].has_cilk_callee
  /\ clo'[r].call_parent = Assigned(r, q, f, top, a, CallParent(f))
  /\ \A k \in Live : clo'[k].spawn_parent = clo[k].spawn_parent /\ clo'[k].join_counter = clo[k].join_counter
  /\ \A k \in Closures : k = r \/ k = q \/ (\E g \in B : a[g] = k) \/ clo'[k] = clo[k]

\* A suspended closure for frame g, called by closure x.
Waits(s, g, x) ==
  /\ s \in Closure /\ s.status = "SUSPENDED" /\ s.frame = g /\ s.has_cilk_callee /\ s.call_parent = x
  /\ s.spawn_parent = 0 /\ s.join_counter = 0 /\ s.right_most_child = 0
  /\ s.child_rmap = <<>> /\ s.user_rmap = <<>>

\* The closure of a frame in the middle of a promoted stacklet.
LEMMA SuspendedIs ==
  ASSUME NEW g \in Ptr(Frames), NEW e \in Ptr(Fibers), NEW x \in Ptr(Closures), NEW y \in Ptr(Closures)
  PROVE  Waits([FreshClosure EXCEPT !.status = "SUSPENDED", !.frame = g, !.fiber = e, !.has_cilk_callee = TRUE,
                                    !.call_parent = x, !.callee = y], g, x)
<1>1. FreshClosure \in Closure
  BY FreshType
<1>2. /\ FreshClosure.spawn_parent = 0 /\ FreshClosure.join_counter = 0 /\ FreshClosure.right_most_child = 0
      /\ FreshClosure.child_rmap = <<>> /\ FreshClosure.user_rmap = <<>>
  BY DEF FreshClosure
<1> HIDE DEF FreshClosure
<1> QED BY <1>1, <1>2 DEF Waits, Closure, Status

\* The promoted stacklet, from the code of setup_closures_in_stacklet.
LEMMA PromoteIs ==
  ASSUME SchedulerInv, NEW w \in Workers, PromoteStacklet(w), AtPromote(w)
  PROVE  LET r == cl[w]
             q == clo[r].call_parent
             f == clo[r].frame IN
         \E top, B, a : /\ SplitAt(Outer(q), clo[q].frame, clo[q].spawn_parent, stolen, f, top, B)
                        /\ Promotes(w, r, q, f, top, B, a)
<1> DEFINE r == cl[w]
           f == clo[r].frame
           q == clo[r].call_parent
           top == IF clo[q].frame = 0 THEN Helper(f) ELSE clo[q].frame
           B == {g \in Above[f] : top \in Above[g]} \ {f, top}
           a == CHOOSE x \in Injection(B, FreeClosures) : TRUE
           Of(g) == IF g = f THEN r ELSE IF g = top THEN q ELSE a[g]
           CalleeOf(g) == CHOOSE h \in B \cup {f} : CallParent(h) = g
           Susp(g) == [FreshClosure EXCEPT !.status = "SUSPENDED", !.frame = g,
                            !.fiber = clo[q].fiber, !.has_cilk_callee = TRUE,
                            !.call_parent = Of(CallParent(g)),
                            !.callee = Of(CalleeOf(g))]
           C == [c \in Closures |-> IF \E g \in B : a[g] = c THEN Susp(CHOOSE g \in B : a[g] = c) ELSE clo[c]]
           y == [C[q] EXCEPT !.frame = top, !.has_cilk_callee = TRUE, !.callee = Of(CalleeOf(top))]
           D == Upd(C, q, y)
           x == [D[r] EXCEPT !.call_parent = Of(CallParent(f))]
           E == Upd(D, r, x)
           z == [E[r] EXCEPT !.status = "READY"]
           o == Outer(q)
           b == clo[q].frame
           p == clo[q].spawn_parent
<1>1. MakeReady(w, E) /\ stolen' = stolen \cup B \cup {top} /\ Injection(B, FreeClosures) # {} /\ wst[w] = "promote"
  BY ZenonT(40) DEF PromoteStacklet
<1>2. a \in Injection(B, FreeClosures)
  BY ZenonT(40), <1>1
<1>3. top = IF b = 0 THEN Helper(f) ELSE b
  OBVIOUS
<1>4. B = {g \in Above[f] : top \in Above[g]} \ {f, top}
  OBVIOUS
<1>5. /\ clo' = Upd(E, r, z) /\ unsynced' = unsynced \cup {f} /\ sp' = Set(sp, f, clo[r].fiber)
      /\ mutex' = Set(mutex, r, 0) /\ wst' = Set(wst, w, "has")
      /\ UNCHANGED <<cl, cur, shadow, dq, rmap, ftf, on, at, inflight, caught, pending, fibers, exiting>>
  BY ZenonT(40), <1>1 DEF MakeReady, deque, program
<1>6. /\ r \in Closures /\ r # 0 /\ r \in Live /\ clo[r].spawn_parent = 0 /\ ~clo[r].has_cilk_callee
      /\ f \in Frames \ Roots /\ ~Detached(f) /\ f \in stolen
      /\ q \in Closures /\ q # 0 /\ q # r /\ q \in Live /\ clo[q].status = "SUSPENDED"
  BY SMTT(30) DEF AtPromote
<1>7. BaseOf(o, b, p) /\ FitsStack(o, b, p, stolen, CallParent(f), <<>>)
  BY DEF AtPromote
<1>8. TypeOK /\ clo \in Trees /\ Lists(clo) /\ Blank
  BY DEF SchedulerInv, TypeOK, Trees
<1> HIDE DEF o, b, p, a, top, B, f, q, r
<1>9. SplitAt(o, b, p, stolen, f, top, B)
  BY <1>3, <1>4, <1>6, <1>7, StackPromote
<1>10. /\ top \in Frames /\ top \notin B /\ f \notin B /\ f # top /\ B \subseteq Frames
       /\ \A g \in B \cup {f} : CallParent(g) \in B \cup {top}
       /\ \A g \in B \cup {top} : \E h \in B \cup {f} : CallParent(h) = g
  BY <1>9 DEF SplitAt
<1>11. (\A g \in B : a[g] \in Closures \ Live) /\ (\A g, h \in B : a[g] = a[h] => g = h)
  BY <1>2 DEF Injection, IsInjective, FreeClosures, Live
<1>12. \A g : Of(g) = Assigned(r, q, f, top, a, g)
  BY DEF Assigned
<1>13. \A g \in B \cup {f, top} : Of(g) \in Ptr(Closures)
  BY <1>6, <1>11 DEF Ptr
<1>14. \A g \in B \cup {top} : CalleeOf(g) \in B \cup {f}
  BY <1>10
<1> HIDE DEF Of, CalleeOf
<1>15. ASSUME NEW g \in B PROVE Waits(Susp(g), g, Assigned(r, q, f, top, a, CallParent(g)))
  <2>1. /\ g \in Ptr(Frames) /\ clo[q].fiber \in Ptr(Fibers)
        /\ Of(CallParent(g)) \in Ptr(Closures) /\ Of(CalleeOf(g)) \in Ptr(Closures)
    <3>1. clo[q] \in Closure
      BY <1>6, <1>8 DEF Trees
    <3>2. clo[q].fiber \in Ptr(Fibers)
      BY <3>1 DEF Closure
    <3> QED BY <1>10, <1>13, <1>14, <3>2 DEF Ptr
  <2>2. Waits(Susp(g), g, Of(CallParent(g)))
    BY <2>1, SuspendedIs
  <2> QED BY <1>12, <2>2
<1> HIDE DEF Susp
<1>16. C \in Trees /\ (\A g \in B : C[a[g]] = Susp(g)) /\ \A k \in Closures : (\E g \in B : a[g] = k) \/ C[k] = clo[k]
  <2>1. ASSUME NEW k \in Closures, NEW g \in B, a[g] = k PROVE C[k] = Susp(g)
    <3>1. (CHOOSE h \in B : a[h] = k) = g
      BY <1>11, <2>1
    <3> QED BY <2>1, <3>1
  <2>2. \A k \in Closures : (\E g \in B : a[g] = k) \/ C[k] = clo[k]
    OBVIOUS
  <2>3. \A k \in Closures : C[k] \in Closure
    <3> TAKE k \in Closures
    <3>1. CASE \E g \in B : a[g] = k
      BY <1>15, <2>1, <3>1 DEF Waits
    <3>2. CASE ~\E g \in B : a[g] = k
      BY <1>8, <2>2, <3>2 DEF Trees
    <3> QED BY <3>1, <3>2
  <2>4. C = [c \in Closures |-> C[c]]
    OBVIOUS
  <2> HIDE DEF C
  <2> QED BY <1>11, <2>1, <2>2, <2>3, <2>4 DEF Trees
<1> HIDE DEF C
<1>17. C[q] = clo[q] /\ C[r] = clo[r] /\ (\A g \in B : a[g] # q /\ a[g] # r)
  BY <1>6, <1>11, <1>16
<1>18. clo[q] \in Closure /\ clo[r] \in Closure /\ Of(CalleeOf(top)) \in Ptr(Closures) /\ Of(CallParent(f)) \in Ptr(Closures)
       /\ top \in Ptr(Frames)
  BY <1>6, <1>8, <1>10, <1>13, <1>14 DEF Trees, Ptr
<1>19. y \in Closure /\ y.frame = top /\ y.has_cilk_callee /\ y.status = clo[q].status /\ y.join_counter = clo[q].join_counter
       /\ y.call_parent = clo[q].call_parent /\ y.spawn_parent = clo[q].spawn_parent /\ y.left_sib = clo[q].left_sib
       /\ y.right_sib = clo[q].right_sib /\ y.right_most_child = clo[q].right_most_child
       /\ y.child_rmap = clo[q].child_rmap /\ y.user_rmap = clo[q].user_rmap
  BY <1>17, <1>18 DEF Closure
<1> HIDE DEF y
<1>20. D \in Trees /\ \A k \in Closures : D[k] = IF k = q THEN y ELSE C[k]
  BY <1>6, <1>16, <1>19, UpdIs
<1> HIDE DEF D
<1>21. D[r] = clo[r]
  BY <1>6, <1>17, <1>20
<1>22. x \in Closure /\ x.frame = f /\ x.has_cilk_callee = clo[r].has_cilk_callee /\ x.join_counter = clo[r].join_counter
       /\ x.call_parent = Of(CallParent(f)) /\ x.spawn_parent = clo[r].spawn_parent /\ x.left_sib = clo[r].left_sib
       /\ x.right_sib = clo[r].right_sib /\ x.right_most_child = clo[r].right_most_child
       /\ x.child_rmap = clo[r].child_rmap /\ x.user_rmap = clo[r].user_rmap
  BY <1>18, <1>21 DEF Closure, f
<1> HIDE DEF x
<1>23. E \in Trees /\ \A k \in Closures : E[k] = IF k = r THEN x ELSE D[k]
  BY <1>6, <1>20, <1>22, UpdIs
<1> HIDE DEF E
<1>24. E[r] = x
  BY <1>6, <1>23
<1>25. z \in Closure /\ z.frame = f /\ z.has_cilk_callee = clo[r].has_cilk_callee /\ z.join_counter = clo[r].join_counter
       /\ z.call_parent = Of(CallParent(f)) /\ z.spawn_parent = clo[r].spawn_parent /\ z.left_sib = clo[r].left_sib
       /\ z.right_sib = clo[r].right_sib /\ z.right_most_child = clo[r].right_most_child /\ z.status = "READY"
       /\ z.child_rmap = clo[r].child_rmap /\ z.user_rmap = clo[r].user_rmap
  BY <1>22, <1>24 DEF Closure, Status
<1> HIDE DEF z
<1>26. clo' \in Trees /\ \A k \in Closures : clo'[k] = IF k = r THEN z ELSE E[k]
  BY <1>5, <1>6, <1>23, <1>25, UpdIs
<1>27. clo'[r] = z /\ clo'[q] = y /\ \A k \in Closures \ {r, q} : clo'[k] = C[k]
  BY <1>6, <1>20, <1>23, <1>26
<1>28. \A g \in B : clo'[a[g]] = Susp(g)
  BY <1>11, <1>16, <1>17, <1>27
<1>29. \A k \in Closures : k = r \/ k = q \/ (\E g \in B : a[g] = k) \/ clo'[k] = clo[k]
  BY <1>16, <1>27
<1>30. Extends(clo, clo')
  <2>1. ASSUME NEW k \in Closures, ~Dead(clo, k) PROVE ~Dead(clo', k) /\ SamePlace(clo, clo', k) /\ SameList(clo, clo', k)
    <3>1. CASE k = r
      BY <1>25, <1>27, <3>1 DEF Dead, SamePlace, SameList
    <3>2. CASE k = q
      BY <1>6, <1>19, <1>27, <3>2 DEF Dead, SamePlace, SameList
    <3>3. CASE k # r /\ k # q
      <4>1. ~\E g \in B : a[g] = k
        BY <1>11, <2>1 DEF Live, Dead
      <4> QED BY <1>29, <2>1, <3>3, <4>1 DEF Dead, SamePlace, SameList
    <3> QED BY <3>1, <3>2, <3>3
  <2>2. ASSUME NEW k \in Closures, Dead(clo, k), ~Dead(clo', k)
        PROVE  /\ clo'[k].spawn_parent = 0 /\ clo'[k].join_counter = 0 /\ clo'[k].right_most_child = 0
               /\ \A c \in Closures : ~Dead(clo, c) => clo[c].spawn_parent # k
    <3>1. k # r /\ k # q /\ k # 0 /\ k \notin Live
      BY <1>6, <2>2, NotNull DEF Live, Dead
    <3>2. PICK g \in B : a[g] = k
      BY <1>29, <2>2, <3>1 DEF Dead
    <3>3. clo'[k].spawn_parent = 0 /\ clo'[k].join_counter = 0 /\ clo'[k].right_most_child = 0
      BY <1>15, <1>28, <3>2 DEF Waits
    <3>4. \A c \in Closures : ~Dead(clo, c) => clo[c].spawn_parent # k
      BY <3>1, FreeUnused DEF Live, Dead
    <3> QED BY <3>3, <3>4
  <2> QED BY <2>1, <2>2 DEF Extends
<1>31. Lists(clo')
  BY <1>8, <1>30, ListsExtends
<1>32. TypeOK'
  <2>1. 0 \in Ptr(Workers) /\ clo[r].fiber \in Ptr(Fibers) /\ f \in Frames
    BY <1>6, <1>18 DEF Ptr, Closure
  <2>2. wst' \in [Workers -> WorkerState] /\ sp' \in [Frames -> Ptr(Fibers)] /\ mutex' \in [Closures -> Ptr(Workers)]
        /\ unsynced' \subseteq Frames /\ stolen' \subseteq Frames
    BY <1>1, <1>5, <1>8, <1>10, <2>1 DEF TypeOK, Set, WorkerState
  <2> QED BY <1>5, <1>8, <1>26, <2>2 DEF TypeOK, Trees
<1>33. wst'[w] = "has" /\ (\A u \in Workers \ {w} : wst'[u] = wst[u])
  BY <1>5, <1>8 DEF TypeOK, Set
<1>34. \A g \in B :
         /\ a[g] \in Closures \ Live /\ clo'[a[g]].status = "SUSPENDED" /\ clo'[a[g]].frame = g
         /\ clo'[a[g]].join_counter = 0 /\ clo'[a[g]].has_cilk_callee /\ clo'[a[g]].spawn_parent = 0
         /\ clo'[a[g]].call_parent = Assigned(r, q, f, top, a, CallParent(g))
  BY <1>11, <1>15, <1>28 DEF Waits
<1>35. \A k \in Live : clo'[k].spawn_parent = clo[k].spawn_parent /\ clo'[k].join_counter = clo[k].join_counter
  BY <1>30 DEF Extends, SamePlace, SameList, Live, Dead
<1>36. /\ clo'[q].frame = top /\ clo'[q].call_parent = clo[q].call_parent
       /\ clo'[q].has_cilk_callee /\ clo'[q].status = "SUSPENDED"
       /\ clo'[r].frame = f /\ clo'[r].status = "READY" /\ ~clo'[r].has_cilk_callee
       /\ clo'[r].call_parent = Assigned(r, q, f, top, a, CallParent(f))
  BY <1>6, <1>12, <1>19, <1>25, <1>27
<1>37. Shrinks(clo, clo')
  <2> SUFFICES ASSUME NEW k \in Closures
               PROVE  clo'[k].child_rmap \in {clo[k].child_rmap, <<>>} /\ clo'[k].user_rmap \in {clo[k].user_rmap, <<>>}
    BY DEF Shrinks
  <2>1. CASE k = r
    BY <1>25, <1>27, <2>1
  <2>2. CASE k = q
    BY <1>19, <1>27, <2>2
  <2>3. CASE \E g \in B : a[g] = k
    BY <1>15, <1>28, <2>3 DEF Waits
  <2> QED BY <1>29, <2>1, <2>2, <2>3
<1>38. Promotes(w, r, q, f, top, B, a)
  BY <1>1, <1>5, <1>11, <1>29, <1>31, <1>32, <1>33, <1>34, <1>35, <1>36, <1>37 DEF Promotes
<1> QED BY <1>9, <1>38 DEF o, b, p, q, r, f

\* The thief promotes what is left of its victim's stacklet.
LEMMA PromoteStackletKeeps ==
  ASSUME SchedulerInv, NEW w \in Workers, PromoteStacklet(w)
  PROVE  SchedulerInv'
<1> DEFINE r == cl[w]
           q == clo[r].call_parent
           f == clo[r].frame
           o == Outer(q)
           b == clo[q].frame
           p == clo[q].spawn_parent
<1>1. AtPromote(w) /\ wst[w] = "promote"
  <2>1. wst[w] = "promote"
    BY ZenonT(40) DEF PromoteStacklet
  <2> QED BY SMTT(30), <2>1, PromoteFacts
<1>2. PICK top, B, a : SplitAt(o, b, p, stolen, f, top, B) /\ Promotes(w, r, q, f, top, B, a)
  BY SMTT(30), <1>1, PromoteIs
<1>3. /\ r \in Closures /\ r # 0 /\ r \in Live /\ clo[r].spawn_parent = 0 /\ ~clo[r].has_cilk_callee
      /\ f \in Frames \ Roots /\ ~Detached(f) /\ f \in stolen /\ dq[w] = 0
      /\ q \in Closures /\ q # 0 /\ q # r /\ q \in Live /\ clo[q].status = "SUSPENDED" /\ clo[q].has_cilk_callee
      /\ OnStack(w) /\ Bottom(w) = q /\ Stack(w) = Stacklet(o, CallParent(f)) /\ clo[r].status = "RUNNING" /\ f # 0
  BY <1>1, FramesPositive DEF AtPromote, OnStack
<1>4. Holds(w) = r /\ clo[r].call_parent = q /\ clo[r].frame = f /\ cl[w] = r
  BY <1>3 DEF Holds
<1>5. p # 0 => o = clo[p].frame
  BY DEF Outer
<1>6. Placed(q) /\ b = clo[q].frame /\ p = clo[q].spawn_parent
  BY <1>3 DEF SchedulerInv
<1> DEFINE Of(g) == Assigned(r, q, f, top, a, g)
<1> HIDE DEF r, q, f, o, b, p
<1>7. /\ top \in Frames /\ BaseOf(o, top, p) /\ (b # 0 => top = b)
      /\ B \cup {top} = Stack(w) /\ top \notin B /\ f \notin B /\ f # top
      /\ B \subseteq Frames \ Roots
      /\ \A g \in B \cup {f} : ~Detached(g) /\ CallParent(g) \in B \cup {top}
      /\ \A g \in B \cup {top} : \E h \in B \cup {f} : CallParent(h) = g
      /\ \A g, h \in B \cup {f} : CallParent(g) = CallParent(h) => g = h
      /\ stolen \cap (B \cup {top}) = {b} \ {0}
  BY <1>2, <1>3 DEF SplitAt
<1>8. /\ TypeOK' /\ Lists(clo')
      /\ wst'[w] = "has" /\ (\A u \in Workers \ {w} : wst'[u] = wst[u])
      /\ cl' = cl /\ dq' = dq /\ cur' = cur /\ shadow' = shadow /\ at' = at
      /\ unsynced' = unsynced \cup {f} /\ stolen' = stolen \cup B \cup {top}
  BY <1>2 DEF Promotes
<1>9. \A g \in B :
        /\ a[g] \in Closures \ Live /\ clo'[a[g]].status = "SUSPENDED" /\ clo'[a[g]].frame = g
        /\ clo'[a[g]].join_counter = 0 /\ clo'[a[g]].has_cilk_callee /\ clo'[a[g]].spawn_parent = 0
        /\ clo'[a[g]].call_parent = Of(CallParent(g))
  BY <1>2 DEF Promotes
<1>10. /\ clo'[q].frame = top /\ clo'[q].call_parent = clo[q].call_parent
       /\ clo'[q].has_cilk_callee /\ clo'[q].status = "SUSPENDED"
       /\ clo'[r].frame = f /\ clo'[r].status = "READY" /\ ~clo'[r].has_cilk_callee
       /\ clo'[r].call_parent = Of(CallParent(f))
  BY <1>2 DEF Promotes
<1>11. /\ \A k \in Live : clo'[k].spawn_parent = clo[k].spawn_parent /\ clo'[k].join_counter = clo[k].join_counter
       /\ \A k \in Closures : k = r \/ k = q \/ (\E g \in B : a[g] = k) \/ clo'[k] = clo[k]
       /\ \A g, h \in B : a[g] = a[h] => g = h
  BY <1>2 DEF Promotes
<1>12. /\ Of(f) = r /\ Of(top) = q /\ \A g \in B : Of(g) = a[g]
  BY <1>7 DEF Assigned
<1> HIDE DEF Of
<1> DEFINE New == {a[g] : g \in B}
<1>13. Live' = Live \cup New
  BY <1>3, <1>9, <1>10, <1>11 DEF Live
<1>14. \A k \in Live : /\ k \in Closures /\ k \notin New /\ k # 0
                       /\ clo'[k].spawn_parent = clo[k].spawn_parent /\ clo'[k].join_counter = clo[k].join_counter
                       /\ clo[k].has_cilk_callee => clo'[k].has_cilk_callee
                       /\ clo'[k].has_cilk_callee => clo[k].has_cilk_callee
                       /\ clo[k].frame # 0 => clo'[k].frame = clo[k].frame
                       /\ k # r => clo'[k].call_parent = clo[k].call_parent /\ clo'[k].status = clo[k].status
                       /\ k # q => clo'[k].frame = clo[k].frame
  <2> TAKE k \in Live
  <2>1. k \in Closures /\ k \notin New /\ k # 0
    BY <1>9, NotNull DEF Live
  <2>2. clo'[k].spawn_parent = clo[k].spawn_parent /\ clo'[k].join_counter = clo[k].join_counter
    BY <1>11
  <2>3. CASE k = r
    BY <1>3, <1>4, <1>10, <2>1, <2>2, <2>3
  <2>4. CASE k = q
    BY <1>3, <1>6, <1>7, <1>10, <2>1, <2>2, <2>4
  <2>5. CASE k # r /\ k # q
    <3>1. clo'[k] = clo[k]
      BY <1>11, <2>1, <2>5
    <3> QED BY <2>1, <2>5, <3>1
  <2> QED BY <2>3, <2>4, <2>5
<1>15. \A g \in B \cup {top} : /\ Of(g) \in Live' /\ Of(g) # 0 /\ Of(g) # r
                               /\ clo'[Of(g)].frame = g /\ clo'[Of(g)].has_cilk_callee
                               /\ Of(g) = q \/ Of(g) \in New
  BY <1>3, <1>9, <1>10, <1>12, <1>13, NotNull
<1>16. \A g, h \in B \cup {top} : Of(g) = Of(h) => g = h
  BY <1>15
<1>17. \A g \in B \cup {f} : Of(g) \in Live' /\ clo'[Of(g)].call_parent = Of(CallParent(g)) /\ clo'[Of(g)].frame = g
  BY <1>3, <1>9, <1>10, <1>12, <1>13
<1>18. \A k \in Live : /\ clo[k].spawn_parent \notin New /\ clo[k].call_parent \notin New
                       /\ k # r => clo[k].call_parent # q
  <2>1. \A k \in Live : clo[k].spawn_parent \notin New /\ clo[k].call_parent \notin New
    BY <1>9, FreeUnused, NotNull DEF Live
  <2>2. \A k \in Live : k # r => clo[k].call_parent # q
    BY <1>3, <1>4 DEF SchedulerInv, Callees
  <2> QED BY <2>1, <2>2
<1>19. \A k \in Live : k # r => /\ k \in Promoting => k \in Promoting'
                                /\ k \in Finishing => k \in Finishing'
  <2>1. \A u \in Workers : cl[u] # r => u # w /\ wst'[u] = wst[u] /\ cl'[u] = cl[u]
    BY <1>4, <1>8
  <2> QED BY <1>4, <2>1 DEF Promoting, Finishing
<1>20. Lists(clo)'
  BY <1>8 DEF Lists, Kids, Linked
<1>21. Blank'
  <2> SUFFICES ASSUME NEW k \in Closures \ Live' PROVE clo'[k] = FreshClosure
    BY DEF Blank
  <2>1. k \notin Live /\ k \notin New /\ k # r /\ k # q
    BY <1>3, <1>13
  <2>2. clo'[k] = clo[k]
    BY <1>11, <2>1
  <2> QED BY <2>1, <2>2 DEF SchedulerInv, Blank
<1>22. Named'
  <2>1. \A k \in New : clo'[k].frame \in B /\ k = a[clo'[k].frame]
    BY <1>9
  <2>2. \A g \in B : g \notin stolen
    BY <1>7
  <2>3. ASSUME NEW k \in Live PROVE clo'[k].frame \notin B /\ (clo'[k].frame = top => k = q) /\ (clo'[k].frame # 0 => clo'[k].frame \in stolen')
    <3>1. CASE k = q
      BY <1>7, <1>8, <1>10, <3>1
    <3>2. CASE k # q
      <4>1. clo'[k].frame = clo[k].frame
        BY <1>14, <3>2
      <4>2. clo[k].frame # 0 => clo[k].frame \in stolen
        BY DEF SchedulerInv, Named
      <4>3. clo[k].frame = top => top = b /\ b # 0
        BY <1>7, <4>2, FramesPositive
      <4>4. clo[k].frame # top
        BY <1>3, <1>6, <3>2, <4>3 DEF SchedulerInv, Named
      <4> QED BY <1>7, <1>8, <2>2, <4>1, <4>2, <4>4, FramesPositive
    <3> QED BY <3>1, <3>2
  <2>4. \A k \in Live' : clo'[k].frame # 0 => clo'[k].frame \in stolen'
    BY <1>8, <1>13, <2>1, <2>3
  <2>5. ASSUME NEW j \in Live', NEW k \in Live', clo'[j].frame = clo'[k].frame, clo'[j].frame # 0 PROVE j = k
    <3>1. CASE j \in New
      BY <1>13, <2>1, <2>3, <2>5, <3>1
    <3>2. CASE k \in New
      BY <1>13, <2>1, <2>3, <2>5, <3>2
    <3>3. CASE j \in Live /\ k \in Live
      <4>1. CASE j = q
        BY <1>10, <2>3, <2>5, <3>3, <4>1
      <4>2. CASE k = q
        BY <1>10, <2>3, <2>5, <3>3, <4>2
      <4>3. CASE j # q /\ k # q
        BY <1>14, <2>5, <3>3, <4>3 DEF SchedulerInv, Named
      <4> QED BY <4>1, <4>2, <4>3
    <3> QED BY <1>13, <3>1, <3>2, <3>3
  <2> QED BY <2>4, <2>5 DEF Named
<1>23. (\A k \in Live : Placed(k))'
  <2>1. ASSUME NEW k, NEW g \in B \cup {f}, k = Of(g) PROVE Placed(k)'
    <3>1. clo'[k].frame = g /\ clo'[k].call_parent = Of(CallParent(g)) /\ clo'[k].spawn_parent = 0
      BY <1>3, <1>9, <1>11, <1>12, <1>17, <2>1
    <3>2. g \in Frames \ Roots /\ ~Detached(g) /\ CallParent(g) \in B \cup {top} /\ CallParent(g) # g
      BY <1>3, <1>7, AboveCaller, AboveSelf, CallParentIs
    <3>3. Of(CallParent(g)) # k
      BY <1>12, <1>15, <1>16, <2>1, <3>2
    <3> QED BY <1>15, <3>1, <3>2, <3>3 DEF Placed
  <2>2. ASSUME NEW k, k = q PROVE Placed(k)'
    <3>1. clo'[q].spawn_parent = p /\ clo'[q].call_parent = clo[q].call_parent /\ clo'[q].frame = top
      BY <1>3, <1>6, <1>10, <1>14
    <3>2. ASSUME p # 0
          PROVE p \in Live' /\ p # q /\ clo'[p].frame # 0 /\ clo[q].call_parent = 0
                /\ Detached(top) /\ CallParent(top) = clo'[p].frame
      <4>1. p \in Live /\ p # q /\ clo[p].frame # 0 /\ clo[q].call_parent = 0
        BY <1>6, <3>2 DEF Placed
      <4>2. clo'[p].frame = o
        BY <1>5, <1>14, <3>2, <4>1
      <4>3. Detached(top) /\ CallParent(top) = o
        BY <1>7, <3>2, FramesPositive DEF BaseOf
      <4> QED BY <1>5, <1>13, <3>2, <4>1, <4>2, <4>3
    <3>3. ASSUME clo[q].call_parent # 0, NEW d, d = clo[q].call_parent
          PROVE  /\ d \in Live' /\ d # q /\ clo'[d].has_cilk_callee /\ top \in Frames \ Roots /\ ~Detached(top)
                 /\ q \in Promoting' \/ clo'[d].frame = CallParent(top)
      <4>1. /\ d \in Live /\ d # q /\ clo[d].has_cilk_callee /\ b \in Frames \ Roots /\ ~Detached(b)
            /\ q \in Promoting \/ clo[d].frame = CallParent(b)
        BY <1>6, <3>3 DEF Placed
      <4>2. top = b
        BY <1>7, <4>1, FramesPositive
      <4>3. clo'[d].frame = clo[d].frame /\ clo'[d].has_cilk_callee
        BY <1>14, <4>1
      <4> QED BY <1>3, <1>13, <1>19, <4>1, <4>2, <4>3
    <3>4. p = 0 /\ clo[q].call_parent = 0 => top \in Roots
      BY <1>6, <1>7, FramesPositive DEF Placed
    <3> QED BY <2>2, <3>1, <3>2, <3>3, <3>4 DEF Placed
  <2>3. ASSUME NEW k \in Live, k # q, k # r PROVE Placed(k)'
    <3> DEFINE e == clo[k].spawn_parent
               d == clo[k].call_parent
               g == clo[k].frame
    <3>1. clo'[k].spawn_parent = e /\ clo'[k].call_parent = d /\ clo'[k].frame = g /\ Placed(k)
      BY <1>14, <2>3 DEF SchedulerInv
    <3>2. ASSUME e # 0
          PROVE  /\ e \in Live' /\ e # k /\ clo'[e].frame # 0 /\ d = 0
                 /\ g # 0 => Detached(g) /\ CallParent(g) = clo'[e].frame
      <4>1. /\ e \in Live /\ e # k /\ clo[e].frame # 0 /\ d = 0
            /\ g # 0 => Detached(g) /\ CallParent(g) = clo[e].frame
        BY <3>1, <3>2 DEF Placed
      <4> QED BY <1>13, <1>14, <4>1
    <3>3. ASSUME d # 0
          PROVE  /\ d \in Live' /\ d # k /\ clo'[d].has_cilk_callee /\ g \in Frames \ Roots /\ ~Detached(g)
                 /\ k \in Promoting' \/ clo'[d].frame = CallParent(g)
      <4>1. /\ d \in Live /\ d # k /\ clo[d].has_cilk_callee /\ g \in Frames \ Roots /\ ~Detached(g)
            /\ k \in Promoting \/ clo[d].frame = CallParent(g)
        BY <3>1, <3>3 DEF Placed
      <4>2. d # q /\ clo'[d].frame = clo[d].frame /\ clo'[d].has_cilk_callee
        BY <1>14, <1>18, <2>3, <4>1
      <4> QED BY <1>13, <1>19, <2>3, <4>1, <4>2
    <3>4. e = 0 /\ d = 0 => g \in Roots
      BY <3>1 DEF Placed
    <3> HIDE DEF e, d, g
    <3> QED BY <3>1, <3>2, <3>3, <3>4 DEF Placed
  <2>4. ASSUME NEW k \in Live' PROVE Placed(k)'
    <3>1. k = q \/ (k \in Live /\ k # q /\ k # r) \/ \E g \in B \cup {f} : k = Of(g)
      BY <1>12, <1>13
    <3> QED BY <2>1, <2>2, <2>3, <3>1
  <2> QED BY <2>4
<1>24. Callees'
  <2>1. ASSUME NEW k \in Live'
        PROVE  \/ \E g \in B \cup {f} : k = Of(g)
               \/ /\ k \in Live /\ k # r /\ clo'[k].call_parent = clo[k].call_parent
                  /\ clo[k].call_parent \notin New /\ clo[k].call_parent # q
    BY <1>12, <1>13, <1>14, <1>18
  <2>2. \A g \in B \cup {f} : clo'[Of(g)].call_parent = q \/ clo'[Of(g)].call_parent \in New
    BY <1>7, <1>15, <1>17
  <2>3. ASSUME NEW g \in B \cup {f}, NEW h \in B \cup {f}, clo'[Of(g)].call_parent = clo'[Of(h)].call_parent PROVE Of(g) = Of(h)
    <3>1. Of(CallParent(g)) = Of(CallParent(h))
      BY <1>17, <2>3
    <3>2. CallParent(g) = CallParent(h)
      BY <1>7, <1>16, <3>1
    <3>3. g = h
      BY <1>7, <3>2
    <3> QED BY <3>3
  <2>4. ASSUME NEW j \in Live', NEW k \in Live', clo'[j].call_parent = clo'[k].call_parent, clo'[j].call_parent # 0
        PROVE  j = k
    <3>1. CASE \E g \in B \cup {f} : j = Of(g)
      BY <2>1, <2>2, <2>3, <2>4, <3>1
    <3>2. CASE \E g \in B \cup {f} : k = Of(g)
      BY <2>1, <2>2, <2>3, <2>4, <3>2
    <3>3. CASE j \in Live /\ k \in Live /\ clo'[j].call_parent = clo[j].call_parent /\ clo'[k].call_parent = clo[k].call_parent
      BY ZenonT(40), <2>4, <3>3 DEF SchedulerInv, Callees
    <3> QED BY <2>1, <3>1, <3>2, <3>3
  <2>5. ASSUME NEW k \in Live', clo'[k].has_cilk_callee
        PROVE  clo'[k].status = "SUSPENDED" /\ \E d \in Live' : clo'[d].call_parent = k
    <3>1. CASE \E g \in B \cup {top} : k = Of(g)
      <4>1. PICK g \in B \cup {top} : k = Of(g)
        BY <3>1
      <4>2. PICK h \in B \cup {f} : CallParent(h) = g
        BY <1>7
      <4>3. Of(h) \in Live' /\ clo'[Of(h)].call_parent = k
        BY <1>17, <4>1, <4>2
      <4>4. clo'[k].status = "SUSPENDED"
        BY <1>9, <1>10, <1>12, <4>1
      <4> QED BY <4>3, <4>4
    <3>2. CASE ~\E g \in B \cup {top} : k = Of(g)
      <4>1. k \in Live /\ k # q /\ k # r
        BY <1>10, <1>12, <1>13, <2>5, <3>2
      <4>2. clo[k].has_cilk_callee /\ clo'[k].status = clo[k].status
        BY <1>14, <2>5, <4>1
      <4>3. PICK d \in Live : clo[d].call_parent = k
        BY <4>1, <4>2 DEF SchedulerInv, Callees
      <4>4. d # r /\ d \in Live' /\ clo'[d].call_parent = k
        BY <1>4, <1>13, <1>14, <4>1, <4>3
      <4> QED BY <4>1, <4>2, <4>4 DEF SchedulerInv, Callees
    <3> QED BY <3>1, <3>2
  <2> QED BY <2>4, <2>5 DEF Callees
<1>25. NoLostWakeup'
  <2> SUFFICES ASSUME NEW k \in Live', clo'[k].status = "SUSPENDED" PROVE HasChildren(clo'[k])
    BY DEF NoLostWakeup
  <2>1. CASE k \in New \/ k = q
    BY <1>9, <1>10, <2>1 DEF HasChildren
  <2>2. CASE k \notin New /\ k # q
    <3>1. k \in Live /\ k # r
      BY <1>10, <1>13, <2>2
    <3>2. HasChildren(clo[k])
      BY <1>14, <3>1 DEF SchedulerInv, NoLostWakeup
    <3> QED BY <1>14, <3>1, <3>2 DEF HasChildren
  <2> QED BY <2>1, <2>2
<1>26. Unsynched'
  <2>1. unsynced' \subseteq stolen'
    BY <1>3, <1>8 DEF SchedulerInv, Unsynched
  <2>2. ASSUME NEW k \in Live', clo'[k].join_counter # 0 PROVE clo'[k].frame \in unsynced' \/ k \in Finishing'
    <3>1. CASE k = r
      BY <1>8, <1>10, <3>1
    <3>2. CASE k # r
      <4>1. k \in Live /\ clo[k].join_counter # 0
        BY <1>9, <1>13, <1>14, <2>2
      <4>2. clo[k].frame \in unsynced \/ k \in Finishing
        BY <4>1 DEF SchedulerInv, Unsynched
      <4>3. CASE k \in Finishing
        BY <1>19, <3>2, <4>1, <4>3
      <4>4. CASE clo[k].frame \in unsynced
        <5>1. clo[k].frame # 0
          BY <4>4, FramesPositive DEF SchedulerInv, TypeOK
        <5> QED BY <1>8, <1>14, <4>1, <4>4, <5>1
      <4> QED BY <4>2, <4>3, <4>4
    <3> QED BY <3>1, <3>2
  <2>3. ASSUME NEW k \in Live', clo'[k].status = "RETURNING" PROVE clo'[k].join_counter = 0 /\ clo'[k].spawn_parent # 0
    <3>1. k \in Live /\ k # r
      BY <1>9, <1>10, <1>13, <2>3
    <3>2. clo[k].status = "RETURNING"
      BY <1>14, <2>3, <3>1
    <3> QED BY <1>14, <3>1, <3>2 DEF SchedulerInv, Unsynched
  <2> QED BY <2>1, <2>2, <2>3 DEF Unsynched
<1>27. Owners'
  <2> DEFINE W == {w}
  <2>1. W \in SUBSET Workers
    OBVIOUS
  <2>2. SameBut(wst, W) /\ SameBut(cl, W) /\ SameBut(dq, W) /\ SameBut(cur, W)
    BY <1>8 DEF SameBut
  <2>3. \A u \in Workers : Holds(u)' = Holds(u) /\ (u # w => Holds(u) # r)
    <3>1. \A u \in Workers : Holds(u)' = Holds(u)
      BY <1>8 DEF Holds
    <3>2. \A u \in Workers : u # w => Holds(u) # r
      BY <1>3, <1>4 DEF SchedulerInv, Owners
    <3> QED BY <3>1, <3>2
  <2>4. ASSUME NEW u \in Workers \ W, Holds(u) # 0
        PROVE  /\ clo'[Holds(u)].status = clo[Holds(u)].status /\ clo'[Holds(u)].frame = clo[Holds(u)].frame
               /\ clo'[Holds(u)].call_parent = clo[Holds(u)].call_parent
    <3>1. Holds(u) \in Live /\ Holds(u) # q
      BY <1>3, <2>4, HeldLive
    <3>2. Holds(u) # r
      BY <2>3
    <3> HIDE DEF Holds
    <3> QED BY <1>14, <3>1, <3>2
  <2>5. HoldsOne(w)'
    BY <1>3, <1>4, <1>8, <1>10 DEF HoldsOne
  <2>6. \A u \in W : HoldsOne(u)'
    BY <2>5
  <2>7. \A u \in W : \A x \in Workers : u # x /\ Holds(u)' # 0 => Holds(u)' # Holds(x)'
    <3> HIDE DEF Holds
    <3> QED BY <1>4, <2>3
  <2> HIDE DEF W, Owners, Holds
  <2> QED BY <2>1, <2>2, <2>4, <2>6, <2>7, OwnersStep
<1>28. ASSUME NEW u \in Workers \ {w}, OnStack(u) PROVE Stack(u)' = Stack(u) /\ StackFits(u)' /\ OnStack(u)'
  <2>1. SameAt(u) /\ stolen \subseteq stolen'
    BY <1>8 DEF SameAt
  <2>2. Stack(u) \cap Stack(w) = {}
    BY <1>3, <1>28 DEF SchedulerInv, Stacks
  <2>3. stolen' \cap Stack(u) \subseteq stolen
    BY <1>7, <1>8, <2>2
  <2>4. Bottom(u) \in Live /\ Bottom(u) # q
    BY <1>3, <1>28, BottomsDiffer
  <2>5. wst[u] = "run" \/ (cl[u] \in Live /\ cl[u] # q /\ cl[u] # r)
    <3>1. CASE wst[u] = "promote"
      <4>1. cl[u] \in Live /\ cl[u] = Holds(u) /\ cl[u] # 0
        BY <1>28, <3>1, BelowLive
      <4>2. Holds(u) # r
        BY <1>3, <1>4 DEF SchedulerInv, Owners
      <4>3. clo[Holds(u)].status # "SUSPENDED"
        BY <4>1, HeldLive
      <4> HIDE DEF Holds
      <4> QED BY <1>3, <4>1, <4>2, <4>3
    <3> QED BY <1>28, <3>1 DEF OnStack
  <2>6. clo[Bottom(u)].spawn_parent # 0 =>
          clo[Bottom(u)].spawn_parent \in Live /\ clo[clo[Bottom(u)].spawn_parent].frame # 0
    BY <1>28, BelowLive
  <2>7. SameBelow(u)
    BY <1>14, <2>4, <2>5, <2>6 DEF SameBelow
  <2> QED BY <1>28, <2>1, <2>3, <2>7, StackKept
<1>29. Stacks' /\ Unbegun'
  <2> DEFINE W == {w}
  <2>1. W \in SUBSET Workers /\ ~OnStack(w)' /\ \A u \in Workers \ W : OnStack(u)' => OnStack(u)
    BY <1>8 DEF OnStack
  <2>2. \A u \in Workers \ W : OnStack(u)' => OnStack(u) /\ Stack(u)' = Stack(u) /\ StackFits(u)'
    BY <1>28, <2>1
  <2>3. \A g \in Frames : Ahead(g)' = Ahead(g) /\ Ahead(g) \cap stolen = {} /\ Ahead(g) \cap Stack(w) = {}
    BY <1>3, <1>8 DEF SchedulerInv, Unbegun, Ahead
  <2>4. \A g \in Frames : Ahead(g)' \subseteq Ahead(g) /\ Ahead(g)' \cap stolen' = {}
    BY <1>7, <1>8, <2>3
  <2>5. \A u \in W : OnStack(u)' => StackFits(u)' /\ \A g \in Frames : Ahead(g)' \cap Stack(u)' = {}
    BY <2>1
  <2>6. \A u \in W : \A x \in Workers : u # x /\ OnStack(u)' /\ OnStack(x)' => Stack(u)' \cap Stack(x)' = {}
    BY <2>1
  <2> HIDE DEF W
  <2> QED BY <2>1, <2>2, <2>4, <2>5, <2>6, StacksStep
<1> QED BY <1>8, <1>20, <1>21, <1>22, <1>23, <1>24, <1>25, <1>26, <1>27, <1>29 DEF SchedulerInv

-----------------------------------------------------------------------------
(* The specification *)

\* The root closure alone, ready and held by the worker that starts the region.
LEMMA InitInv == Init => SchedulerInv
<1> SUFFICES ASSUME Init PROVE SchedulerInv
  OBVIOUS
<1>1. PICK r \in Roots :
        /\ stolen = {r} /\ sp = [f \in Frames |-> IF f = r THEN RootFiber ELSE 0]
        /\ clo = [c \in Closures |->
                     IF c = RootClosure
                     THEN [FreshClosure EXCEPT !.status = "READY", !.frame = r, !.fiber = RootFiber]
                     ELSE FreshClosure]
  BY DEF Init
<1> DEFINE R == [FreshClosure EXCEPT !.status = "READY", !.frame = r, !.fiber = RootFiber]
<1>2. RootClosure \in Closures /\ RootClosure # 0 /\ RootFiber \in Fibers /\ r \in Frames /\ r # 0 /\ Boss \in Workers
  BY SchedulerAssumption, FramesPositive DEF RootClosure, RootFiber, Closures, Fibers
<1>3. FreshClosure.status = "FREE" /\ FreshClosure.spawn_parent = 0 /\ FreshClosure.join_counter = 0
      /\ FreshClosure.right_most_child = 0 /\ FreshClosure.call_parent = 0 /\ FreshClosure.has_cilk_callee = FALSE
  BY DEF FreshClosure
<1>4. R \in Closure /\ R.status = "READY" /\ R.frame = r /\ R.spawn_parent = 0 /\ R.join_counter = 0
      /\ R.right_most_child = 0 /\ R.call_parent = 0 /\ R.has_cilk_callee = FALSE
  <2>1. r \in Ptr(Frames) /\ RootFiber \in Ptr(Fibers) /\ FreshClosure \in Closure
    BY <1>2, FreshType DEF Ptr
  <2> HIDE DEF FreshClosure
  <2> QED BY <1>3, <2>1 DEF Closure, Status
<1> HIDE DEF R
<1>5. clo = [c \in Closures |-> IF c = RootClosure THEN R ELSE FreshClosure]
  BY <1>1 DEF R
<1>6. clo \in [Closures -> Closure] /\ clo[RootClosure] = R /\ \A c \in Closures : c # RootClosure => clo[c] = FreshClosure
  BY <1>2, <1>4, <1>5, FreshType
<1>7. Live = {RootClosure}
  BY <1>2, <1>3, <1>4, <1>6 DEF Live
<1>8. TypeOK
  <2>1. 0 \in Ptr(Closures) /\ RootClosure \in Ptr(Closures) /\ 0 \in Ptr(Frames) /\ 0 \in Ptr(Fibers) /\ RootFiber \in Ptr(Fibers)
        /\ 0 \in Ptr(Workers) /\ <<>> \in Maps /\ <<>> \in Seq(Frames)
    BY <1>2 DEF Ptr, Maps
  <2>2. wst \in [Workers -> WorkerState] /\ cl \in [Workers -> Ptr(Closures)]
    BY <2>1 DEF Init, WorkerState
  <2>3. dq \in [Workers -> Ptr(Closures)] /\ cur \in [Workers -> Ptr(Frames)] /\ shadow \in [Workers -> Seq(Frames)]
        /\ rmap \in [Workers -> Maps] /\ ftf \in [Workers -> Ptr(Fibers)] /\ on \in [Workers -> Ptr(Fibers)]
    BY <2>1 DEF Init
  <2>4. at \in [Frames -> Nat \ {0}] /\ inflight \in [Frames -> Nat] /\ unsynced = {} /\ pending = {} /\ caught = {}
        /\ mutex \in [Closures -> Ptr(Workers)] /\ fibers \subseteq Fibers /\ exiting \in Ptr(Workers)
    BY <2>1 DEF Init
  <2>5. stolen \subseteq Frames /\ sp \in [Frames -> Ptr(Fibers)]
    BY <1>1, <1>2, <2>1
  <2> QED BY <1>6, <2>2, <2>3, <2>4, <2>5 DEF TypeOK
<1>9. Owners
  <2>1. /\ \A w \in Workers : wst[w] = (IF w = Boss THEN "has" ELSE "idle") /\ cl[w] = (IF w = Boss THEN RootClosure ELSE 0)
                              /\ dq[w] = 0
    BY DEF Init
  <2>2. \A w \in Workers : HoldsOne(w)
    BY <1>2, <1>4, <1>6, <2>1 DEF HoldsOne
  <2>3. \A w \in Workers : Holds(w) # 0 => w = Boss
    BY <2>1 DEF Holds
  <2> QED BY <2>2, <2>3 DEF Owners
<1>10. Blank
  BY <1>6, <1>7 DEF Blank
<1>11. Lists(clo)
  <2> DEFINE C == [c \in Closures |-> FreshClosure]
  <2>1. \A c \in Closures : Dead(C, c)
    BY <1>3 DEF Dead
  <2>2. Lists(C)
    BY <2>1 DEF Lists, Dead
  <2>3. \A c \in Closures : ~Dead(clo, c) => c = RootClosure
    BY <1>3, <1>6 DEF Dead
  <2> HIDE DEF C
  <2>4. Extends(C, clo)
    BY <1>4, <1>6, <2>1, <2>3 DEF Extends
  <2> QED BY <2>2, <2>4, ListsExtends
<1>12. Named
  BY <1>1, <1>4, <1>6, <1>7 DEF Named
<1>13. \A c \in Live : Placed(c)
  BY <1>4, <1>6, <1>7 DEF Placed
<1>14. Callees /\ NoLostWakeup
  BY <1>4, <1>6, <1>7 DEF Callees, NoLostWakeup
<1>15. Unsynched
  BY <1>4, <1>6, <1>7 DEF Unsynched, Init
<1>16. \A w \in Workers : ~OnStack(w)
  BY DEF Init, OnStack
<1>17. Stacks
  BY <1>16 DEF Stacks
<1>18. Unbegun
  <2>1. \A f \in Frames : r \notin Ahead(f)
    BY SchedulerAssumption DEF Ahead
  <2> QED BY <1>1, <1>16, <2>1 DEF Unbegun
<1> QED BY <1>8, <1>9, <1>10, <1>11, <1>12, <1>13, <1>14, <1>15, <1>17, <1>18 DEF SchedulerInv

\* Whatever a worker does apart from stealing keeps the invariant.
LEMMA WorkKeeps ==
  ASSUME SchedulerInv, NEW w \in Workers, Work(w)
  PROVE  SchedulerInv'
<1>1. CASE ExecuteReady(w)
  BY <1>1, ExecuteReadyKeeps
<1>2. CASE BackInRuntime(w) \/ ExitRoot(w)
  BY <1>2, BackKeeps
<1>3. CASE Spawn(w) \/ Call(w)
  BY <1>3, SpawnCallType, SpawnCallKeep
<1>4. CASE LeaveCalled(w) \/ LeavePop(w)
  BY <1>4, LeaveType, LeaveKeep
<1>5. CASE \/ ExecuteReturning(w) \/ Relock(w) \/ ReduceExn(w) \/ DepositExn(w) \/ ReduceMaps(w)
  <2>1. Quiet(w) /\ TypeOK'
    BY <1>5, StartQuiet, ReduceExnQuiet, DepositQuiet, ReduceMapsQuiet
  <2> QED BY <2>1, QuietKeeps
<1>6. CASE \/ Update(w) \/ Throw(w) \/ EndTry(w) \/ (Sync(w) /\ cur[w] \notin unsynced)
           \/ CheckException(w) \/ Reraise(w) \/ Catch(w)
  <2>1. Quiet(w) /\ TypeOK'
    BY <1>6, UserQuiet, RaiseQuiet, CatchQuiet
  <2> QED BY <2>1, QuietKeeps
<1>7. CASE (Sync(w) /\ cur[w] \in unsynced) \/ UnwindSync(w)
  BY <1>7, SyncKeeps
<1>8. CASE LeaveStolen(w)
  BY <1>8, LeaveStolenKeeps
<1>9. CASE SetReturn(w)
  BY <1>9, SetReturnKeeps
<1>10. CASE FinishPromote(w)
  BY <1>10, FinishPromoteKeeps
<1>11. CASE PromoteStacklet(w)
  BY <1>11, PromoteStackletKeeps
<1>12. CASE Return(w)
  BY <1>12, ReturnKeeps
<1> QED BY <1>1, <1>2, <1>3, <1>4, <1>5, <1>6, <1>7, <1>8, <1>9, <1>10, <1>11, <1>12 DEF Work

\* Every step of the specification keeps the invariant.
LEMMA NextKeeps == SchedulerInv /\ [Next]_vars => SchedulerInv'
<1> SUFFICES ASSUME SchedulerInv, [Next]_vars PROVE SchedulerInv'
  OBVIOUS
<1>1. ASSUME NEW w \in Workers, Work(w) PROVE SchedulerInv'
  BY <1>1, WorkKeeps
<1>2. ASSUME NEW w \in Workers, NEW v \in Workers, StealFull(w, v) \/ StealStacklet(w, v) PROVE SchedulerInv'
  BY <1>2, StealFullKeeps, StealStackletKeeps
<1>3. CASE UNCHANGED vars
  <2>1. Boss \in Workers
    BY SchedulerAssumption
  <2>2. TypeOK'
    BY <1>3 DEF vars, SchedulerInv, TypeOK
  <2>3. Quiet(Boss)
    BY <1>3 DEF vars, Quiet, Same, SameFrames, SameLists, SamePlace, SameList, Dead, Ahead
  <2> QED BY <2>1, <2>2, <2>3, QuietKeeps
<1> QED BY <1>1, <1>2, <1>3 DEF Next, Finished

\* The inductive invariant: types, the closure tree, who holds which closure
\* and what is on which stack, whatever the order of steals and returns.
THEOREM SchedulerInvariant == Spec => []SchedulerInv
<1>1. Init => SchedulerInv
  BY InitInv
<1>2. SchedulerInv /\ [Next]_vars => SchedulerInv'
  BY NextKeeps
<1> QED BY <1>1, <1>2, PTL DEF Spec

\* A fair worker, and a thief that tries in vain, take no other steps.
LEMMA FairIsSpec == FairSpec => Spec
<1>1. [Next \/ \E w \in Workers : FailedSteal(w)]_vars => [Next]_vars
  BY DEF FailedSteal
<1> QED BY <1>1, PTL DEF Spec, FairSpec

\* Concurrent steals and returns keep the closure tree: the join counter of a
\* closure counts its unreturned children, which form one doubly linked list.
THEOREM TreeConsistentAlways == Spec => []TreeConsistent
<1>1. SchedulerInv => TreeConsistent
  <2> SUFFICES ASSUME SchedulerInv PROVE TreeConsistent
    OBVIOUS
  <2>1. Lists(clo) /\ \A c \in Closures : clo[c].join_counter \in Nat
    BY DEF SchedulerInv, TypeOK, Closure
  <2> QED BY <2>1, ListsTree
<1> QED BY <1>1, SchedulerInvariant, PTL

\* A closure that waits has a child or a callee that will resume it.
THEOREM NoLostWakeupAlways == Spec => []NoLostWakeup
<1>1. SchedulerInv => NoLostWakeup
  BY DEF SchedulerInv
<1> QED BY <1>1, SchedulerInvariant, PTL

-----------------------------------------------------------------------------
(* One owner *)

\* A worker that is not in user code has nothing to steal.
EmptyShadow == \A v \in Workers : wst[v] # "run" => shadow[v] = <<>>

\* A root on a stack is the frame of the stack's closure.
LEMMA RootBase ==
  ASSUME NEW o, NEW b, NEW p, NEW T, NEW f \in Frames, NEW s, BaseOf(o, b, p), FitsStack(o, b, p, T, f, s), f \in Roots
  PROVE  f = b
<1>1. f \in Stacklet(o, f) /\ (o # 0 => o \in Above[f]) /\ (o = 0 => b \in Stacklet(o, f))
  BY DEF FitsStack
<1>2. o \in Frames \cup {0}
  BY CallParentIs, FramesPositive DEF BaseOf
<1>3. o = 0
  BY <1>1, <1>2, Outermost
<1>4. Above[f] = {f} /\ Stacklet(o, f) = Above[f]
  BY <1>2, <1>3, AboveCaller, StackletIs
<1> QED BY <1>1, <1>3, <1>4

\* The stacklet of a closure's own frame has nothing to steal.
LEMMA BaseShadow ==
  ASSUME NEW o, NEW b \in Frames, NEW p, NEW T, NEW s \in Seq(Frames), BaseOf(o, b, p), FitsStack(o, b, p, T, b, s)
  PROVE  s = <<>>
<1> DEFINE S == Stacklet(o, b)
<1>1. ShadowOf(S, s)
  BY DEF FitsStack
<1>2. b # 0
  BY FramesPositive
<1>3. \A g \in S : g \in Frames /\ (g \in Roots => g = b)
                   /\ (g \notin Roots /\ CallParent(g) \notin S => CallParent(g) = o /\ (b # 0 => g = b))
  BY BaseIn
<1>4. S = {b}
  <2>1. CASE o = 0
    <3>1. b \in Roots
      BY <2>1, CallParentIs, FramesPositive DEF BaseOf
    <3>2. Above[b] = {b}
      BY <3>1, AboveSelf, AboveProper
    <3> QED BY <2>1, <3>2, StackletIs
  <2>2. CASE o # 0
    <3>1. b \in Frames \ Roots /\ CallParent(b) = o
      BY <1>2, <2>2 DEF BaseOf
    <3>2. Above[b] = {b} \cup Above[o] /\ b \notin Above[o] /\ o \in Frames
      BY <3>1, AboveCaller, CallParentIs
    <3> QED BY <2>2, <3>2, StackletIs
  <2> QED BY <2>1, <2>2
<1>5. \A g \in S \ Roots : CallParent(g) # g
  BY <1>3, AboveCaller, AboveSelf, CallParentIs
<1>6. \A i \in DOMAIN s : FALSE
  BY <1>1, <1>4, <1>5 DEF ShadowOf
<1>7. DOMAIN s = 1 .. Len(s) /\ Len(s) \in Nat
  OBVIOUS
<1>8. 1 \notin 1 .. Len(s)
  BY <1>6, <1>7
<1>9. Len(s) = 0
  BY <1>7, <1>8
<1> QED BY <1>9

\* A worker leaves user code with an empty shadow stack.
LEMMA ShadowKept ==
  ASSUME SchedulerInv, EmptyShadow, [Next]_vars
  PROVE  EmptyShadow'
<1>0. TypeOK
  BY DEF SchedulerInv
<1>1. ASSUME NEW w \in Workers, wst'[w] # "run", wst[w] = "run", Work(w) PROVE shadow'[w] = <<>>
  <2>1. AtWork(w)
    BY <1>1, RunFacts
  <2> DEFINE o == Outer(dq[w])
             b == clo[dq[w]].frame
             p == clo[dq[w]].spawn_parent
             f == cur[w]
             s == shadow[w]
  <2>2. /\ f \in Frames /\ s \in Seq(Frames) /\ BaseOf(o, b, p) /\ FitsStack(o, b, p, stolen, f, s)
    BY SMTT(30), <2>1 DEF AtWork
  <2>3. (LeaveStolen(w) /\ s = <<>>) \/ ((Sync(w) \/ UnwindSync(w)) /\ f \in unsynced) \/ (ExitRoot(w) /\ f \in Roots)
    BY <1>0, <1>1 DEF Work, ExecuteReady, ExecuteReturning, BackInRuntime, Spawn, Call, Update, Throw, EndTry,
         Sync, CheckException, UnwindSync, Reraise, RaiseUserExn, Catch, LeaveCalled, LeavePop, LeaveStolen, SetReturn,
         ExitRoot, FinishPromote, PromoteStacklet, ReduceExn, DepositExn, ReduceMaps, Relock, Return, worker
  <2>4. shadow' = shadow
    BY <2>3 DEF LeaveStolen, Sync, UnwindSync, ExitRoot, CilkSync, deque
  <2> HIDE DEF o, b, p, f, s
  <2>5. f \in unsynced => f = b
    BY <2>1, WorkUnsynced DEF f, b
  <2>6. f \in Roots => f = b
    BY <2>2, RootBase
  <2>7. f = b => s = <<>>
    BY <2>2, BaseShadow
  <2> QED BY <2>3, <2>4, <2>5, <2>6, <2>7 DEF s
<1>2. ASSUME NEW w \in Workers, Work(w)
      PROVE  /\ \A u \in Workers \ {w} : wst'[u] = wst[u] /\ shadow'[u] = shadow[u]
             /\ wst[w] # "run" /\ wst'[w] # "run" => shadow'[w] = shadow[w]
  <2>1. CASE ExecuteReady(w)
    BY <1>0, <2>1 DEF ExecuteReady, Set, TypeOK
  <2>2. CASE Spawn(w) \/ LeavePop(w)
    BY SMTT(30), <1>0, <2>2 DEF Spawn, LeavePop, AtOp, Leaving, Unwound, Unwinding, Running, Set, TypeOK, worker
  <2>3. CASE ExecuteReturning(w) \/ BackInRuntime(w) \/ FinishPromote(w) \/ PromoteStacklet(w)
             \/ ReduceExn(w) \/ DepositExn(w) \/ ReduceMaps(w) \/ Relock(w)
    BY ZenonT(40), <1>0, <2>3 DEF ExecuteReturning, BackInRuntime, FinishPromote, PromoteStacklet, MakeReady, ReduceExn, DepositExn,
                      ReduceMaps, Relock, Set, TypeOK, worker, deque
  <2>4. CASE Return(w)
    BY <1>0, <2>4 DEF Return, Set, TypeOK, deque
  <2>5. CASE Call(w) \/ Update(w) \/ Throw(w) \/ EndTry(w) \/ CheckException(w) \/ Reraise(w) \/ Catch(w) \/ LeaveCalled(w)
    BY SMTT(30), <2>5 DEF Call, Update, Throw, EndTry, CheckException, Reraise, RaiseUserExn, Catch, LeaveCalled, worker, deque
  <2>6. CASE Sync(w) \/ UnwindSync(w)
    BY <1>0, <2>6 DEF Sync, UnwindSync, CilkSync, CilkSyncSuspend, CilkSyncReady, Set, TypeOK, worker, deque
  <2>7. CASE LeaveStolen(w) \/ SetReturn(w) \/ ExitRoot(w)
    BY <1>0, <2>7 DEF LeaveStolen, SetReturn, ExitRoot, Set, TypeOK, worker, deque
  <2> QED BY <1>2, <2>1, <2>2, <2>3, <2>4, <2>5, <2>6, <2>7 DEF Work
<1>3. ASSUME NEW w \in Workers, NEW v \in Workers, StealFull(w, v) \/ StealStacklet(w, v)
      PROVE  EmptyShadow'
  <2>1. Stealable(w, v)
    BY <1>3 DEF StealFull, StealStacklet
  <2>2. w # v /\ wst[v] = "run" /\ wst[w] # "run"
    BY SMTT(30), <2>1, StealFacts DEF AtSteal, AtWork
  <2>3. shadow' = Set(shadow, v, Tail(shadow[v])) /\ (wst' = Set(wst, w, "finish") \/ wst' = Set(wst, w, "promote"))
    BY <1>3 DEF StealFull, StealStacklet, Extract
  <2>4. wst'[v] = "run" /\ \A u \in Workers \ {v} : shadow'[u] = shadow[u] /\ (wst'[u] = wst[u] \/ u = w)
    BY <1>0, <2>2, <2>3 DEF Set, TypeOK
  <2> QED BY <2>2, <2>4 DEF EmptyShadow
<1>4. ASSUME NEW w \in Workers, Work(w) PROVE EmptyShadow'
  BY <1>1, <1>2, <1>4 DEF EmptyShadow
<1>5. CASE UNCHANGED vars
  BY <1>5 DEF vars, EmptyShadow
<1> QED BY <1>3, <1>4, <1>5 DEF Next, Finished

\* A continuation runs once: no frame is executed by two workers, or executed
\* and stealable, or on two shadow stacks, and no closure is in two deques.
THEOREM OneOwnerAlways == Spec => []OneOwner
<1>1. Init => EmptyShadow
  BY DEF Init, EmptyShadow
<1>2. SchedulerInv /\ EmptyShadow /\ [Next]_vars => EmptyShadow'
  BY ShadowKept
<1>3. SchedulerInv /\ EmptyShadow => OneOwner
  <2> SUFFICES ASSUME SchedulerInv, EmptyShadow PROVE OneOwner
    OBVIOUS
  <2>1. ASSUME NEW w \in Workers, Running(w)
        PROVE  /\ cur[w] \in Stack(w) /\ ToSet(shadow[w]) \subseteq Stack(w) /\ OnStack(w)
               /\ cur[w] \notin ToSet(shadow[w]) /\ Holds(w) = dq[w] /\ dq[w] # 0
    <3> DEFINE o == Outer(dq[w])
               b == clo[dq[w]].frame
               p == clo[dq[w]].spawn_parent
               f == cur[w]
               s == shadow[w]
    <3>1. AtWork(w)
      BY <2>1, RunFacts DEF Running
    <3>2. /\ f \in Frames /\ s \in Seq(Frames) /\ BaseOf(o, b, p) /\ FitsStack(o, b, p, stolen, f, s)
          /\ Stack(w) = Stacklet(o, f) /\ OnStack(w) /\ Holds(w) = dq[w] /\ dq[w] # 0
      BY <3>1 DEF AtWork, OnStack, Holds
    <3> HIDE DEF o, b, p, f, s
    <3>3. f \in Stacklet(o, f) /\ ShadowOf(Stacklet(o, f), s)
      BY <3>2 DEF FitsStack
    <3>4. \A i \in DOMAIN s : s[i] \in Stacklet(o, f) /\ s[i] # f
      <4> TAKE i \in DOMAIN s
      <4>1. PICK g \in Stacklet(o, f) \ Roots : CallParent(g) \in Stacklet(o, f) /\ s[i] = CallParent(g)
        BY <3>3 DEF ShadowOf
      <4>2. g \in Above[f] /\ g \in Frames
        BY <3>2, <4>1, BaseIn
      <4>3. CallParent(g) # f
        BY <3>2, <4>1, <4>2, AboveCaller, AboveTransitive, AboveProper, AboveSelf
      <4> QED BY <4>1, <4>3
    <3>5. \A x \in ToSet(s) : x \in Stacklet(o, f) /\ x # f
      BY <3>4 DEF ToSet
    <3> QED BY <3>2, <3>3, <3>5 DEF f, s
  <2>2. \A w, v \in Workers : w # v /\ Running(w) /\ Running(v) => Stack(w) \cap Stack(v) = {} /\ dq[w] # dq[v]
    BY <2>1 DEF SchedulerInv, Stacks, Owners
  <2>3. \A v \in Workers : ~Running(v) => ToSet(shadow[v]) = {}
    BY DEF EmptyShadow, Running, ToSet
  <2> QED BY <2>1, <2>2, <2>3 DEF OneOwner
<1> QED BY <1>1, <1>2, <1>3, SchedulerInvariant, PTL DEF Spec

-----------------------------------------------------------------------------
(* What a return hands over *)

\* Only an unsynched frame has views of its children, and only a closure that
\* waits at a sync has saved views.
MapsOf(c) ==
  /\ clo[c].child_rmap # <<>> => clo[c].frame \in unsynced \/ c \in Finishing
  /\ clo[c].user_rmap # <<>> => clo[c].status = "SUSPENDED" /\ ~clo[c].has_cilk_callee
  /\ clo[c].status = "RETURNING" => clo[c].child_rmap = <<>>

\* All closures have their views where they belong.
MapsInPlace == \A c \in Closures : MapsOf(c)

\* Worker v brings back the closure of a child.
Brings(v) == Holds(v) # 0 /\ clo[Holds(v)].status = "RETURNING"

\* A worker that brings a closure back is at the frame of its parent, and has
\* freed the fiber that it left.
ComesBack ==
  \A v \in Workers : Brings(v) => /\ cur[v] = clo[clo[Holds(v)].spawn_parent].frame
                                  /\ wst[v] # "back" => ftf[v] = 0

\* A step that keeps the views where they belong.
MapsKept ==
  /\ Shrinks(clo, clo')
  /\ \A k \in Closures : clo[k].child_rmap # <<>> /\ (clo[k].frame \in unsynced \/ k \in Finishing) =>
       clo'[k].child_rmap = <<>> \/ clo'[k].frame \in unsynced' \/ k \in Finishing'
  /\ \A k \in Closures : clo[k].status = "SUSPENDED" /\ ~clo[k].has_cilk_callee =>
       clo'[k].user_rmap = <<>> \/ (clo'[k].status = "SUSPENDED" /\ ~clo'[k].has_cilk_callee)
  /\ \A k \in Closures : clo'[k].status = "RETURNING" => clo[k].status = "RETURNING"

\* A step after which worker v brings back only what it brought back before.
BringsSame(v) ==
  Brings(v)' =>
    LET h == Holds(v)
        p == clo[h].spawn_parent IN
    /\ Brings(v) /\ Holds(v)' = h /\ cur'[v] = cur[v] /\ clo'[h].spawn_parent = p /\ clo'[p].frame = clo[p].frame
    /\ wst'[v] # "back" => ftf'[v] = 0 \/ (ftf'[v] = ftf[v] /\ wst[v] # "back")

\* Steps that keep both parts keep the invariant.
LEMMA HandoverKept ==
  ASSUME MapsInPlace, ComesBack
  PROVE  /\ MapsKept => MapsInPlace'
         /\ (\A v \in Workers : BringsSame(v)) => ComesBack'
<1>1. ASSUME MapsKept PROVE MapsInPlace'
  <2> SUFFICES ASSUME NEW c \in Closures PROVE MapsOf(c)'
    BY DEF MapsInPlace
  <2>1. MapsOf(c)
    BY DEF MapsInPlace
  <2> QED BY <1>1, <2>1 DEF MapsOf, MapsKept, Shrinks
<1>2. ASSUME \A v \in Workers : BringsSame(v) PROVE ComesBack'
  <2> SUFFICES ASSUME NEW v \in Workers, Brings(v)'
               PROVE  /\ cur'[v] = clo'[clo'[Holds(v)'].spawn_parent].frame
                      /\ wst'[v] # "back" => ftf'[v] = 0
    BY DEF ComesBack
  <2>1. BringsSame(v)
    BY <1>2
  <2> QED BY <2>1 DEF BringsSame, ComesBack
<1> QED BY <1>1, <1>2

\* Workers other than w, and w unless it begins to bring a closure back.
LEMMA BringersSame ==
  ASSUME SchedulerInv, SameFrames, NEW w \in Workers, OthersSame(w), Same(ftf, w),
         \A c \in Closures : c # Holds(w) \/ Holds(w)' = 0
            => (clo'[c].status = "RETURNING" => clo[c].status = "RETURNING"),
         Brings(w)' => /\ Brings(w) /\ Holds(w)' = Holds(w) /\ cur'[w] = cur[w]
                       /\ wst'[w] # "back" => ftf'[w] = 0 \/ (ftf'[w] = ftf[w] /\ wst[w] # "back")
  PROVE  \A v \in Workers : BringsSame(v)
<1>1. ASSUME NEW h \in Closures, clo[h].status = "RETURNING"
      PROVE  clo[h].spawn_parent \in Closures
  <2>1. h \in Live
    BY <1>1 DEF Live
  <2>2. clo[h].spawn_parent # 0 /\ Placed(h)
    BY <1>1, <2>1 DEF SchedulerInv, Unsynched
  <2> QED BY <2>2 DEF Placed, Live
<1>2. ASSUME NEW v \in Workers, Brings(v)', Brings(v), Holds(v)' = Holds(v)
      PROVE  LET h == Holds(v)
                 p == clo[h].spawn_parent IN
             clo'[h].spawn_parent = p /\ clo'[p].frame = clo[p].frame
  <2>1. Holds(v) \in Closures /\ clo[Holds(v)].status = "RETURNING"
    BY <1>2, HeldLive DEF Brings, Live
  <2>2. clo[Holds(v)].spawn_parent \in Closures
    BY <1>1, <2>1
  <2> QED BY <2>1, <2>2 DEF SameFrames
<1>3. ASSUME NEW v \in Workers, v # w, Brings(v)'
      PROVE  Brings(v) /\ Holds(v)' = Holds(v) /\ cur'[v] = cur[v] /\ wst'[v] = wst[v] /\ ftf'[v] = ftf[v]
  <2>1. wst'[v] = wst[v] /\ cl'[v] = cl[v] /\ dq'[v] = dq[v] /\ cur'[v] = cur[v] /\ ftf'[v] = ftf[v]
    BY <1>3 DEF OthersSame, Same
  <2>2. Holds(v)' = Holds(v)
    BY <2>1 DEF Holds
  <2>3. Holds(v) \in Closures /\ (Holds(w) # 0 => Holds(v) # Holds(w))
    BY <1>3, <2>2, HeldLive DEF Brings, Live, SchedulerInv, Owners
  <2>4. 0 \notin Closures
    BY NotNull
  <2>5. clo[Holds(v)].status = "RETURNING"
    BY <1>3, <2>2, <2>3, <2>4 DEF Brings
  <2> QED BY <1>3, <2>1, <2>2, <2>5 DEF Brings
<1> QED BY <1>2, <1>3 DEF BringsSame

\* Views when a closure is updated.
LEMMA UpdShrinks ==
  ASSUME NEW C \in Trees, NEW c \in Closures \cup {0}, NEW r,
         c # 0 => r \in Closure /\ r.child_rmap \in {C[c].child_rmap, <<>>} /\ r.user_rmap \in {C[c].user_rmap, <<>>}
  PROVE  Upd(C, c, r) \in Trees /\ Shrinks(C, Upd(C, c, r))
<1>1. Upd(C, c, r) \in Trees /\ \A k \in Closures : Upd(C, c, r)[k] = IF k = c THEN r ELSE C[k]
  BY UpdIs
<1>2. \A k \in Closures : k = c => c # 0
  BY NotNull
<1> QED BY <1>1, <1>2 DEF Shrinks

\* Updates one after the other.
LEMMA ShrinksTwice ==
  ASSUME NEW C, NEW D, NEW E, Shrinks(C, D), Shrinks(D, E)
  PROVE  Shrinks(C, E)
BY DEF Shrinks

\* A quiet step.
LEMMA QuietHandover ==
  ASSUME SchedulerInv, NEW w \in Workers, Quiet(w), Shrinks(clo, clo'), ftf' = ftf
  PROVE  MapsKept /\ \A v \in Workers : BringsSame(v)
<1>1. /\ cl' = cl /\ dq' = dq /\ cur' = cur /\ unsynced' = unsynced /\ SameFrames
      /\ \A c \in Closures : clo'[c].status = clo[c].status
      /\ \A v \in Workers : wst'[v] = wst[v] \/ (v = w /\ Returning(wst[v]) /\ Returning(wst'[v]))
      /\ OthersSame(w)
  BY DEF Quiet, Same, OthersSame
<1>2. \A v \in Workers : wst[v] \in {"promote", "finish"} => wst'[v] = wst[v]
  BY <1>1 DEF Returning
<1>3. Finishing \subseteq Finishing'
  BY <1>1, <1>2 DEF Finishing
<1>4. MapsKept
  BY <1>1, <1>3 DEF MapsKept, SameFrames
<1>5. Holds(w)' = Holds(w) /\ (Holds(w) # 0 => Holds(w) \in Closures)
  BY <1>1, HeldLive DEF Holds, Live
<1>6. wst'[w] # "back" => wst[w] # "back"
  BY <1>1 DEF Returning
<1>7. Brings(w)' => Brings(w)
  BY <1>1, <1>5 DEF Brings
<1>8. Same(ftf, w)
  BY DEF Same
<1> QED BY <1>1, <1>4, <1>5, <1>6, <1>7, <1>8, BringersSame

\* The quiet steps drop views at most.
LEMMA QuietShrinks ==
  ASSUME SchedulerInv, NEW w \in Workers,
         \/ Update(w) \/ Throw(w) \/ EndTry(w) \/ (Sync(w) /\ cur[w] \notin unsynced)
         \/ CheckException(w) \/ Reraise(w) \/ Catch(w)
         \/ ExecuteReturning(w) \/ Relock(w) \/ ReduceExn(w) \/ DepositExn(w) \/ ReduceMaps(w)
  PROVE  Shrinks(clo, clo') /\ ftf' = ftf
<1>1. clo \in Trees /\ TypeOK
  BY DEF SchedulerInv, TypeOK, Trees
<1>2. Shrinks(clo, clo)
  BY DEF Shrinks
<1>3. CASE \/ Update(w) \/ Throw(w) \/ EndTry(w) \/ (Sync(w) /\ cur[w] \notin unsynced)
           \/ ExecuteReturning(w) \/ Relock(w)
  <2>1. clo' = clo /\ ftf' = ftf
    BY <1>3 DEF Update, Throw, EndTry, Sync, ExecuteReturning, Relock
  <2> QED BY <1>2, <2>1
<1>4. CASE CheckException(w) \/ Reraise(w) \/ Catch(w)
  <2>1. wst[w] = "run"
    BY <1>4 DEF CheckException, Reraise, Catch, Unwound, Unwinding, Running
  <2>2. dq[w] \in Closures /\ clo[dq[w]] \in Closure
    BY <1>1, <2>1, RunFacts DEF AtWork, Trees
  <2> DEFINE r == [clo[dq[w]] EXCEPT !.user_exn = 0]
             s == [clo[dq[w]] EXCEPT !.parent_rsp = 0, !.saved_throwing_fiber = 0]
  <2>3. (clo' = clo \/ clo' = Upd(clo, dq[w], r) \/ clo' = Upd(clo, dq[w], s)) /\ ftf' = ftf
    BY <1>4 DEF CheckException, Reraise, RaiseUserExn, Catch
  <2>4. 0 \in Ptr(Fibers) /\ 0 \in Nat
    BY DEF Ptr
  <2>5. r \in Closure /\ r.child_rmap = clo[dq[w]].child_rmap /\ r.user_rmap = clo[dq[w]].user_rmap
    BY <2>2, <2>4 DEF Closure
  <2>6. s \in Closure /\ s.child_rmap = clo[dq[w]].child_rmap /\ s.user_rmap = clo[dq[w]].user_rmap
    BY <2>2, <2>4 DEF Closure
  <2> HIDE DEF r, s
  <2> QED BY <1>1, <1>2, <2>2, <2>3, <2>5, <2>6, UpdShrinks
<1>5. CASE ReduceExn(w) \/ DepositExn(w) \/ ReduceMaps(w)
  <2> DEFINE c == cl[w]
             l == LeftOf(c)
  <2>1. AtReturn(w)
    BY <1>5, ReturnFacts DEF ReduceExn, DepositExn, ReduceMaps, SchedulerInv, Owners, HoldsOne
  <2>2. c \in Closures /\ clo[c] \in Closure /\ l \in Closures /\ clo[l] \in Closure /\ l # c
    BY <2>1 DEF AtReturn
  <2>3. <<>> \in Maps /\ 0 \in Nat
    BY DEF Maps
  <2>4. CASE ReduceExn(w) \/ DepositExn(w)
    <3> DEFINE f == LeftField(c, "right_exn", "child_exn")
    <3>1. PICK x \in Nat : clo' = PutLeft(clo, c, "right_exn", "child_exn", x) \/
            \E y \in Nat : clo' = Upd(PutLeft(clo, c, "right_exn", "child_exn", x), c, [clo[c] EXCEPT !.right_exn = 0, !.user_exn = y])
      <4>1. clo[c].user_exn \in Nat /\ clo[c].right_exn \in Nat
        BY <2>2 DEF Closure
      <4>2. Left(c, "right_exn", "child_exn") \in Nat
        BY <2>2 DEF Left, LeftField, Closure
      <4> QED BY <2>4, <4>1, <4>2 DEF ReduceExn, DepositExn
    <3>2. f \in {"right_exn", "child_exn"}
      BY DEF LeftField
    <3> DEFINE q == [clo[l] EXCEPT ![f] = x]
               D == Upd(clo, l, q)
    <3>3. PutLeft(clo, c, "right_exn", "child_exn", x) = D
      BY DEF PutLeft
    <3>4. q \in Closure /\ q.child_rmap = clo[l].child_rmap /\ q.user_rmap = clo[l].user_rmap
      <4>1. CASE f = "right_exn"
        BY <2>2, <4>1 DEF Closure
      <4>2. CASE f = "child_exn"
        BY <2>2, <4>2 DEF Closure
      <4> QED BY <3>2, <4>1, <4>2
    <3> HIDE DEF q
    <3>5. D \in Trees /\ Shrinks(clo, D) /\ D[c] = clo[c]
      <4> HIDE DEF c, l
      <4>1. D \in Trees /\ Shrinks(clo, D)
        BY <1>1, <2>2, <3>4, UpdShrinks
      <4>2. \A k \in Closures : D[k] = IF k = l THEN q ELSE clo[k]
        BY <1>1, <2>2, <3>4, UpdIs
      <4> QED BY <2>2, <4>1, <4>2
    <3> HIDE DEF D
    <3>6. ASSUME NEW y \in Nat PROVE Shrinks(D, Upd(D, c, [clo[c] EXCEPT !.right_exn = 0, !.user_exn = y]))
      <4> DEFINE r == [clo[c] EXCEPT !.right_exn = 0, !.user_exn = y]
      <4>1. r \in Closure /\ r.child_rmap = clo[c].child_rmap /\ r.user_rmap = clo[c].user_rmap
        BY <2>2 DEF Closure
      <4> HIDE DEF r
      <4>2. Shrinks(D, Upd(D, c, r))
        BY <2>2, <3>5, <4>1, UpdShrinks
      <4> QED BY <4>2 DEF r
    <3>7. Shrinks(clo, clo')
      BY <3>1, <3>3, <3>5, <3>6, ShrinksTwice
    <3> QED BY <2>4, <3>7 DEF ReduceExn, DepositExn
  <2>5. CASE ReduceMaps(w)
    <3> DEFINE f == LeftField(c, "right_rmap", "child_rmap")
               q == [clo[l] EXCEPT ![f] = <<>>]
               D == Upd(clo, l, q)
               r == [clo[c] EXCEPT !.right_rmap = <<>>]
    <3>1. clo' = Upd(D, c, r)
      BY <2>5 DEF ReduceMaps, PutLeft
    <3>2. f \in {"right_rmap", "child_rmap"}
      BY DEF LeftField
    <3>3. q \in Closure /\ q.child_rmap \in {clo[l].child_rmap, <<>>} /\ q.user_rmap = clo[l].user_rmap
      <4>1. CASE f = "right_rmap"
        BY <2>2, <2>3, <4>1 DEF Closure
      <4>2. CASE f = "child_rmap"
        BY <2>2, <2>3, <4>2 DEF Closure
      <4> QED BY <3>2, <4>1, <4>2
    <3>4. r \in Closure /\ r.child_rmap = clo[c].child_rmap /\ r.user_rmap = clo[c].user_rmap
      BY <2>2, <2>3 DEF Closure
    <3> HIDE DEF q, r
    <3>5. D \in Trees /\ Shrinks(clo, D) /\ D[c] = clo[c]
      <4> HIDE DEF c, l
      <4>1. D \in Trees /\ Shrinks(clo, D)
        BY <1>1, <2>2, <3>3, UpdShrinks
      <4>2. \A k \in Closures : D[k] = IF k = l THEN q ELSE clo[k]
        BY <1>1, <2>2, <3>3, UpdIs
      <4> QED BY <2>2, <4>1, <4>2
    <3> HIDE DEF D
    <3>6. Shrinks(D, Upd(D, c, r))
      BY <2>2, <3>4, <3>5, UpdShrinks
    <3> QED BY <2>5, <3>1, <3>5, <3>6, ShrinksTwice DEF ReduceMaps
  <2> QED BY <1>5, <2>4, <2>5
<1> QED BY <1>3, <1>4, <1>5

\* A closure that worker w holds gets a new status in its place.
LEMMA RestatedHandover ==
  ASSUME SchedulerInv, NEW w \in Workers, OthersSame(w), Same(ftf, w),
         NEW t \in Live, t = Holds(w), NEW q \in Closure, Restated(clo[t], q), clo' = Upd(clo, t, q),
         q.child_rmap \in {clo[t].child_rmap, <<>>}, q.user_rmap \in {clo[t].user_rmap, <<>>},
         clo[t].status = "SUSPENDED" => q.user_rmap = <<>>, q.status # "RETURNING",
         \A k \in Closures : clo[k].frame \in unsynced \/ k \in Finishing =>
           clo'[k].child_rmap = <<>> \/ clo[k].frame \in unsynced' \/ k \in Finishing',
         Holds(w)' \in {0, t}
  PROVE  MapsKept /\ \A v \in Workers : BringsSame(v)
<1>1. clo \in Trees /\ t \in Closures /\ t # 0
  BY NotNull DEF SchedulerInv, TypeOK, Trees, Live
<1>2. SameFrames /\ \A c \in Closures : clo'[c] = IF c = t THEN q ELSE clo[c]
  BY <1>1, RestatedSame
<1>3. Shrinks(clo, clo')
  BY <1>1, UpdShrinks
<1>4. \A c \in Closures : clo'[c].status = "RETURNING" => clo[c].status = "RETURNING"
  BY <1>2
<1>5. MapsKept
  <2>1. \A k \in Closures : clo[k].status = "SUSPENDED" /\ ~clo[k].has_cilk_callee =>
          clo'[k].user_rmap = <<>> \/ (clo'[k].status = "SUSPENDED" /\ ~clo'[k].has_cilk_callee)
    BY <1>2
  <2> QED BY <1>2, <1>3, <1>4, <2>1 DEF MapsKept, SameFrames
<1>6. ~Brings(w)'
  BY <1>1, <1>2 DEF Brings
<1> QED BY <1>2, <1>4, <1>5, <1>6, BringersSame

\* Steps of user code on a shadow stack, and steps back to the runtime.
LEMMA MovesHandover ==
  ASSUME SchedulerInv, NEW w \in Workers,
         Spawn(w) \/ Call(w) \/ LeaveCalled(w) \/ LeavePop(w) \/ BackInRuntime(w) \/ ExitRoot(w)
  PROVE  MapsKept /\ \A v \in Workers : BringsSame(v)
<1>1. TypeOK /\ HoldsOne(w)
  BY DEF SchedulerInv, Owners
<1>2. clo' = clo /\ unsynced' = unsynced /\ wst[w] \in {"run", "back"}
  BY DEF Spawn, Call, LeaveCalled, LeavePop, BackInRuntime, ExitRoot, AtOp, Leaving, Unwound, Unwinding, Running, flags
<1>3. OthersSame(w) /\ Same(ftf, w) /\ wst'[w] \notin {"promote", "finish"}
  <2>1. CASE Spawn(w) \/ LeavePop(w)
    BY <1>1, <1>2, <2>1 DEF Spawn, LeavePop, TypeOK, Set, OthersSame, Same, worker
  <2>2. CASE Call(w) \/ LeaveCalled(w)
    BY <1>1, <1>2, <2>2 DEF Call, LeaveCalled, TypeOK, Set, OthersSame, Same, worker, deque
  <2>3. CASE BackInRuntime(w) \/ ExitRoot(w)
    BY <1>1, <1>2, <2>3 DEF BackInRuntime, ExitRoot, TypeOK, Set, OthersSame, Same
  <2> QED BY <2>1, <2>2, <2>3
<1>4. Finishing' = Finishing
  BY <1>2, <1>3, PromotersSame
<1>5. MapsKept
  BY <1>2, <1>4 DEF MapsKept, Shrinks
<1>6. SameFrames
  BY <1>2 DEF SameFrames
<1>7. Brings(w)' => /\ Brings(w) /\ Holds(w)' = Holds(w) /\ cur'[w] = cur[w] /\ ftf'[w] = 0
  <2>1. CASE Spawn(w) \/ Call(w) \/ LeaveCalled(w) \/ LeavePop(w)
    <3>1. wst[w] = "run" /\ cl' = cl /\ dq' = dq
      BY <2>1 DEF Spawn, Call, LeaveCalled, LeavePop, AtOp, Leaving, Unwound, Unwinding, Running, worker, deque
    <3>2. Holds(w)' = dq[w] /\ clo[dq[w]].status = "RUNNING"
      BY <1>1, <3>1 DEF HoldsOne, Holds
    <3> QED BY <1>2, <3>2 DEF Brings
  <2>2. CASE BackInRuntime(w)
    <3>1. wst[w] = "back" /\ cl'[w] = dq[w] /\ dq'[w] = 0 /\ ftf'[w] = 0 /\ cur' = cur
      BY <1>1, <2>2 DEF BackInRuntime, TypeOK, Set
    <3>2. cl[w] = 0
      BY <1>1, <3>1 DEF HoldsOne
    <3>3. Holds(w) = dq[w] /\ Holds(w)' = dq[w]
      BY <3>1, <3>2 DEF Holds
    <3> QED BY <1>2, <3>1, <3>3 DEF Brings
  <2>3. CASE ExitRoot(w)
    <3>1. wst[w] = "run" /\ cl' = cl /\ dq'[w] = 0
      BY <1>1, <2>3 DEF ExitRoot, Leaving, Unwound, Unwinding, Running, TypeOK, Set
    <3>2. Holds(w)' = 0
      BY <1>1, <3>1 DEF HoldsOne, Holds
    <3> QED BY <3>2 DEF Brings
  <2> QED BY <2>1, <2>2, <2>3
<1> QED BY <1>2, <1>3, <1>5, <1>6, <1>7, BringersSame

\* A closure begins to run, or is ready to.
LEMMA ReadyHandover ==
  ASSUME SchedulerInv, NEW w \in Workers, ExecuteReady(w) \/ FinishPromote(w)
  PROVE  MapsKept /\ \A v \in Workers : BringsSame(v)
<1> DEFINE t == cl[w]
           q == [clo[t] EXCEPT !.status = IF ExecuteReady(w) THEN "RUNNING" ELSE "READY"]
<1>1. TypeOK /\ HoldsOne(w) /\ clo \in Trees
  BY DEF SchedulerInv, Owners, TypeOK, Trees
<1>2. /\ wst[w] \in {"has", "finish"} /\ clo' = Upd(clo, t, q) /\ ftf' = ftf /\ clo[t].status \in {"READY", "RUNNING"}
      /\ unsynced' = unsynced \cup (IF ExecuteReady(w) THEN {} ELSE {clo[t].frame})
  BY <1>1 DEF ExecuteReady, FinishPromote, MakeReady, HoldsOne, flags
<1>3. OthersSame(w) /\ Same(ftf, w) /\ (Holds(w)' = t)
  <2>1. CASE ExecuteReady(w)
    BY <1>1, <2>1 DEF ExecuteReady, TypeOK, Set, OthersSame, Same, Holds
  <2>2. CASE FinishPromote(w)
    <3>1. t # 0
      BY <1>1, <2>2 DEF FinishPromote, HoldsOne
    <3> QED BY <1>1, <2>2, <3>1 DEF FinishPromote, MakeReady, TypeOK, Set, OthersSame, Same, Holds, deque
  <2> QED BY <2>1, <2>2
<1>4. t # 0 /\ t \in Closures /\ t \in Live /\ t = Holds(w) /\ clo[t] \in Closure
  BY <1>1, <1>2 DEF HoldsOne, TypeOK, Live, Ptr, Holds
<1>5. q \in Closure /\ Restated(clo[t], q) /\ q.status # "RETURNING"
      /\ q.child_rmap = clo[t].child_rmap /\ q.user_rmap = clo[t].user_rmap
  BY <1>4 DEF Closure, Restated, Status
<1>6. \A k \in Finishing : k \in Finishing' \/ (k = t /\ ~ExecuteReady(w))
  <2>1. \A v \in Workers : wst[v] \in {"promote", "finish"} =>
          (wst'[v] = wst[v] /\ cl'[v] = cl[v]) \/ (v = w /\ ~ExecuteReady(w))
    BY <1>3 DEF OthersSame, Same, ExecuteReady
  <2> QED BY <2>1 DEF Finishing
<1> HIDE DEF q
<1>7. \A k \in Closures : clo[k].frame \in unsynced \/ k \in Finishing => clo[k].frame \in unsynced' \/ k \in Finishing'
  BY <1>2, <1>6
<1> HIDE DEF t
<1> QED BY <1>2, <1>3, <1>4, <1>5, <1>7, RestatedHandover

\* A spawn helper whose parent was stolen begins to bring its closure back.
LEMMA LeaveStolenHandover ==
  ASSUME SchedulerInv, MapsInPlace, ComesBack, NEW w \in Workers, LeaveStolen(w)
  PROVE  MapsInPlace' /\ ComesBack'
<1> DEFINE f == cur[w]
           t == dq[w]
           p == clo[t].spawn_parent
           q == [clo[t] EXCEPT !.status = "RETURNING", !.user_exn = IF inflight[f] = 0 THEN @ ELSE inflight[f]]
<1>1. TypeOK /\ HoldsOne(w) /\ clo \in Trees
  BY DEF SchedulerInv, Owners, TypeOK, Trees
<1>2. /\ Leaving(w) /\ Detached(f) /\ shadow[w] = <<>> /\ wst[w] = "run"
      /\ clo' = Upd(clo, t, q) /\ cur' = Set(cur, w, CallParent(f)) /\ wst' = Set(wst, w, "back")
      /\ UNCHANGED <<cl, shadow, dq, ftf, stolen, unsynced>>
  BY DEF LeaveStolen, Leaving, Unwound, Unwinding, Running, deque, flags
<1>3. AtWork(w)
  BY <1>2, RunFacts
<1>4. t \in Closures /\ t # 0 /\ t \in Live /\ clo[t].status = "RUNNING" /\ f \in Frames /\ cl[w] = 0
  BY <1>3 DEF AtWork
<1>5. f \in Frames \ Roots
  BY <1>2, DetachedBelow
<1>6. p # 0 /\ CallParent(f) = Outer(t) /\ (clo[t].frame # 0 => clo[t].frame = f)
  BY <1>2, <1>3, <1>5, WorkBottom
<1>7. CallParent(f) = clo[p].frame /\ p \in Closures
  BY <1>4, <1>6 DEF Outer, SchedulerInv, Placed, Live
<1>8. clo[t].frame \notin unsynced /\ t \notin Finishing
  BY <1>2, <1>3, <1>6, LeavingSynched
<1>9. clo[t] \in Closure /\ inflight[f] \in Nat
  BY <1>1, <1>4 DEF Trees, TypeOK
<1>10. q \in Closure /\ Restated(clo[t], q) /\ q.status = "RETURNING"
       /\ q.child_rmap = clo[t].child_rmap /\ q.user_rmap = clo[t].user_rmap
  BY <1>9 DEF Closure, Restated, Status
<1> HIDE DEF q
<1>11. SameFrames /\ \A c \in Closures : clo'[c] = IF c = t THEN q ELSE clo[c]
  BY <1>1, <1>2, <1>4, <1>10, RestatedSame
<1>12. wst'[w] = "back" /\ OthersSame(w) /\ Same(ftf, w) /\ cur'[w] = CallParent(f)
  BY <1>1, <1>2 DEF TypeOK, Set, OthersSame, Same
<1>13. Finishing' = Finishing
  BY <1>2, <1>12, PromotersSame
<1>14. MapsInPlace'
  <2> SUFFICES ASSUME NEW c \in Closures PROVE MapsOf(c)'
    BY DEF MapsInPlace
  <2>1. MapsOf(c)
    BY DEF MapsInPlace
  <2>2. CASE c = t
    BY <1>4, <1>8, <1>10, <1>11, <2>1, <2>2 DEF MapsOf
  <2>3. CASE c # t
    BY <1>2, <1>11, <1>13, <2>1, <2>3 DEF MapsOf
  <2> QED BY <2>2, <2>3
<1>15. ComesBack'
  <2> SUFFICES ASSUME NEW v \in Workers, Brings(v)'
               PROVE  /\ cur'[v] = clo'[clo'[Holds(v)'].spawn_parent].frame
                      /\ wst'[v] # "back" => ftf'[v] = 0
    BY DEF ComesBack
  <2>1. CASE v = w
    <3>1. Holds(w)' = t
      BY <1>2, <1>4 DEF Holds
    <3>2. clo'[t].spawn_parent = p /\ clo'[p].frame = clo[p].frame
      BY <1>4, <1>7, <1>11 DEF SameFrames
    <3> QED BY <1>7, <1>12, <2>1, <3>1, <3>2
  <2>2. CASE v # w
    <3>1. wst'[v] = wst[v] /\ cl'[v] = cl[v] /\ dq'[v] = dq[v] /\ cur'[v] = cur[v] /\ ftf'[v] = ftf[v]
      BY <1>12, <2>2 DEF OthersSame, Same
    <3>2. Holds(v)' = Holds(v) /\ Holds(w) = t
      BY <1>4, <3>1 DEF Holds
    <3>3. Holds(v) \in Closures /\ Holds(v) # t /\ Holds(v) # 0
      BY <1>4, <2>2, <3>2, HeldLive DEF Brings, Live, SchedulerInv, Owners
    <3>4. clo'[Holds(v)] = clo[Holds(v)] /\ Brings(v)
      BY <1>11, <3>2, <3>3 DEF Brings
    <3>5. clo[Holds(v)].spawn_parent \in Closures
      <4>1. Holds(v) \in Live /\ clo[Holds(v)].status = "RETURNING"
        BY <3>3, <3>4 DEF Brings, Live
      <4> QED BY <4>1 DEF SchedulerInv, Unsynched, Placed, Live
    <3> QED BY <1>11, <3>1, <3>2, <3>4, <3>5 DEF ComesBack, SameFrames
  <2> QED BY <2>1, <2>2
<1> QED BY <1>14, <1>15

\* Cilk_sync saves the views of a frame that waits, and takes those of its
\* children if they have all returned.
LEMMA CilkSyncHandover ==
  ASSUME SchedulerInv, MapsInPlace, ComesBack, NEW w \in Workers, wst[w] = "run", cur[w] \in unsynced,
         NEW C \in Trees, AllAlike(clo, C), Shrinks(clo, C), CilkSync(w, C)
  PROVE  MapsInPlace' /\ ComesBack'
<1> DEFINE t == dq[w]
<1>1. TypeOK /\ HoldsOne(w) /\ clo \in Trees /\ AtWork(w)
  BY RunFacts DEF SchedulerInv, Owners, TypeOK, Trees
<1>2. t \in Closures /\ t # 0 /\ t \in Live /\ clo[t].status = "RUNNING" /\ cl[w] = 0 /\ ~clo[t].has_cilk_callee
      /\ cur[w] \in Frames /\ cur[w] # 0
  BY <1>1, NotNull DEF AtWork
<1>3. clo[t].frame = cur[w]
  BY <1>1, WorkUnsynced
<1>4. C[t] \in Closure /\ Alike(clo[t], C[t]) /\ C[t].user_rmap = <<>>
  <2>1. clo[t].user_rmap = <<>>
    BY <1>2 DEF MapsInPlace, MapsOf
  <2> QED BY <1>2, <2>1 DEF Trees, AllAlike, Shrinks
<1>5. C[t].status = "RUNNING" /\ ~C[t].has_cilk_callee
  BY <1>2, <1>4 DEF Alike
<1>6. /\ CilkSyncSuspend(w, C) \/ CilkSyncReady(w, C)
      /\ UNCHANGED <<cl, cur, shadow, stolen>>
  BY DEF CilkSync
<1>7. <<>> \in Maps /\ rmap[w] \in Maps /\ 0 \in Ptr(Fibers)
  BY <1>1 DEF Maps, TypeOK, Ptr
<1>8. ASSUME NEW q \in Closure, clo' = Upd(C, t, q), Restated(C[t], q), OthersSame(w), Same(ftf, w),
             q.status \in {"SUSPENDED", "RUNNING"}, q.user_rmap # <<>> => q.status = "SUSPENDED",
             q.child_rmap = <<>> \/ unsynced' = unsynced, unsynced \subseteq unsynced' \cup {cur[w]},
             Holds(w)' \in {0, t}, Finishing' = Finishing
      PROVE  MapsInPlace' /\ ComesBack'
  <2>1. /\ clo' \in Trees /\ SameFrames /\ SameLists /\ clo'[t] = q
        /\ \A c \in Closures : c # t => clo'[c].status = clo[c].status
    BY <1>1, <1>2, <1>8, RestatedAlike
  <2>2. \A c \in Closures : c # t => clo'[c] = C[c]
    BY <1>2, <1>8, UpdIs
  <2>3. MapsInPlace'
    <3> SUFFICES ASSUME NEW c \in Closures PROVE MapsOf(c)'
      BY DEF MapsInPlace
    <3>1. MapsOf(c) /\ clo'[c].frame = clo[c].frame /\ clo'[c].has_cilk_callee = clo[c].has_cilk_callee
      BY <2>1 DEF MapsInPlace, SameFrames
    <3>2. CASE c = t
      BY <1>2, <1>3, <1>8, <2>1, <3>1, <3>2 DEF MapsOf
    <3>3. CASE c # t
      <4>1. clo'[c].child_rmap \in {clo[c].child_rmap, <<>>} /\ clo'[c].user_rmap \in {clo[c].user_rmap, <<>>}
            /\ clo'[c].status = clo[c].status
        BY <2>1, <2>2, <3>3 DEF Shrinks
      <4>2. CASE c \in Live
        <5>1. clo[c].frame # cur[w]
          BY <1>2, <1>3, <3>3, <4>2 DEF SchedulerInv, Named
        <5> QED BY <1>8, <3>1, <4>1, <5>1 DEF MapsOf
      <4>3. CASE c \notin Live
        <5>1. clo[c].child_rmap = <<>> /\ clo[c].user_rmap = <<>>
          BY <4>3 DEF SchedulerInv, Blank, FreshClosure
        <5> QED BY <3>1, <4>1, <5>1 DEF MapsOf
      <4> QED BY <4>2, <4>3
    <3> QED BY <3>2, <3>3
  <2>4. Holds(w) = t /\ ~Brings(w)'
    BY <1>2, <1>8, <2>1 DEF Holds, Brings
  <2>5. \A c \in Closures : clo'[c].status = "RETURNING" => clo[c].status = "RETURNING"
    BY <1>8, <2>1
  <2>6. \A v \in Workers : BringsSame(v)
    BY <1>8, <2>1, <2>4, <2>5, BringersSame
  <2> QED BY <2>3, <2>6, HandoverKept
<1>9. CASE CilkSyncSuspend(w, C)
  <2> DEFINE q == [C[t] EXCEPT !.status = "SUSPENDED", !.fiber = 0, !.user_rmap = rmap[w],
                               !.saved_throwing_fiber = IF C[t].user_exn = 0 THEN @ ELSE C[t].fiber]
  <2>1. /\ clo' = Upd(C, t, q) /\ ftf' = Set(ftf, w, IF C[t].user_exn = 0 THEN C[t].fiber ELSE 0)
        /\ dq' = Set(dq, w, 0) /\ wst' = Set(wst, w, "back") /\ unsynced' = unsynced
    BY <1>9 DEF CilkSyncSuspend
  <2>2. q \in Closure /\ Restated(C[t], q) /\ q.status = "SUSPENDED"
    BY <1>4, <1>7 DEF Closure, Restated, Status
  <2> HIDE DEF q
  <2>3. wst'[w] = "back" /\ dq'[w] = 0 /\ OthersSame(w) /\ Same(ftf, w)
    BY <1>1, <1>6, <2>1 DEF TypeOK, Set, OthersSame, Same
  <2>4. Finishing' = Finishing
    BY <2>3, PromotersSame
  <2>5. Holds(w)' = 0
    BY <1>2, <1>6, <2>3 DEF Holds
  <2> QED BY <1>8, <2>1, <2>2, <2>3, <2>4, <2>5
<1>10. CASE CilkSyncReady(w, C)
  <2> DEFINE q == [C[t] EXCEPT !.fiber = C[t].fiber_child, !.fiber_child = 0, !.orig_rsp = 0, !.child_exn = 0,
                               !.child_rmap = <<>>, !.user_exn = IF C[t].child_exn = 0 THEN @ ELSE C[t].child_exn]
  <2>1. /\ clo' = Upd(C, t, q) /\ ftf' = Set(ftf, w, C[t].fiber)
        /\ unsynced' = unsynced \ {cur[w]} /\ UNCHANGED <<dq, wst>>
    BY <1>10 DEF CilkSyncReady
  <2>2. q \in Closure /\ Restated(C[t], q) /\ q.status = "RUNNING" /\ q.child_rmap = <<>> /\ q.user_rmap = <<>>
    BY <1>4, <1>5, <1>7 DEF Closure, Restated, Status
  <2> HIDE DEF q
  <2>3. OthersSame(w) /\ Same(ftf, w)
    BY <1>1, <1>6, <2>1 DEF TypeOK, Set, OthersSame, Same
  <2>4. Finishing' = Finishing
    BY <1>6, <2>1 DEF Finishing
  <2>5. Holds(w)' = t
    BY <1>2, <1>6, <2>1 DEF Holds
  <2>6. unsynced \subseteq unsynced' \cup {cur[w]}
    BY <2>1
  <2> QED BY <1>8, <2>1, <2>2, <2>3, <2>4, <2>5, <2>6
<1> QED BY <1>6, <1>9, <1>10

\* Both callers of Cilk_sync.
LEMMA SyncHandover ==
  ASSUME SchedulerInv, MapsInPlace, ComesBack, NEW w \in Workers, (Sync(w) /\ cur[w] \in unsynced) \/ UnwindSync(w)
  PROVE  MapsInPlace' /\ ComesBack'
<1>1. TypeOK /\ clo \in Trees
  BY DEF SchedulerInv, TypeOK, Trees
<1>2. CASE Sync(w) /\ cur[w] \in unsynced
  <2>1. wst[w] = "run" /\ CilkSync(w, clo)
    BY <1>2 DEF Sync, AtOp, Running
  <2>2. AllAlike(clo, clo) /\ Shrinks(clo, clo)
    BY DEF AllAlike, Alike, Shrinks
  <2> QED BY <1>1, <1>2, <2>1, <2>2, CilkSyncHandover
<1>3. CASE UnwindSync(w)
  <2> DEFINE t == dq[w]
             r == [clo[t] EXCEPT !.user_exn = inflight[cur[w]], !.parent_rsp = clo[t].orig_rsp, !.orig_rsp = on[w]]
  <2>1. wst[w] = "run" /\ cur[w] \in unsynced /\ CilkSync(w, Upd(clo, t, r))
    BY <1>3 DEF UnwindSync, Unwinding, Running
  <2>2. cur[w] \in Frames /\ t \in Closures /\ t \in Live
    BY <2>1, RunFacts DEF AtWork
  <2>3. clo[t] \in Closure /\ on[w] \in Ptr(Fibers) /\ inflight[cur[w]] \in Nat
    BY <1>1, <2>2 DEF TypeOK
  <2>4. r \in Closure /\ Alike(clo[t], r) /\ r.child_rmap = clo[t].child_rmap /\ r.user_rmap = clo[t].user_rmap
    BY <2>3 DEF Closure, Alike
  <2> HIDE DEF r
  <2>5. Upd(clo, t, r) \in Trees /\ AllAlike(clo, Upd(clo, t, r))
    BY <1>1, <2>2, <2>4, UpdAlike DEF Live, Dead
  <2>6. Shrinks(clo, Upd(clo, t, r))
    BY <1>1, <2>2, <2>4, UpdShrinks
  <2> QED BY <2>1, <2>5, <2>6, CilkSyncHandover
<1> QED BY <1>2, <1>3

\* A worker that the step does not concern.
LEMMA BringsOutside ==
  ASSUME SchedulerInv, NEW v \in Workers, wst'[v] = wst[v], cl'[v] = cl[v], dq'[v] = dq[v], cur'[v] = cur[v],
         ftf'[v] = ftf[v],
         \A h \in Live : h = Holds(v) /\ clo'[h].status = "RETURNING" =>
           /\ clo[h].status = "RETURNING" /\ clo'[h].spawn_parent = clo[h].spawn_parent
           /\ clo[h].spawn_parent \in Live => clo'[clo[h].spawn_parent].frame = clo[clo[h].spawn_parent].frame
  PROVE  BringsSame(v)
<1> DEFINE h == Holds(v)
<1>1. Holds(v)' = h
  BY DEF Holds
<1> SUFFICES ASSUME Brings(v)'
             PROVE  /\ Brings(v) /\ clo'[h].spawn_parent = clo[h].spawn_parent
                    /\ clo'[clo[h].spawn_parent].frame = clo[clo[h].spawn_parent].frame
  BY <1>1 DEF BringsSame
<1>2. h # 0 /\ clo'[h].status = "RETURNING"
  BY <1>1 DEF Brings
<1>3. h \in Live
  BY <1>2, HeldLive
<1>4. clo[h].status = "RETURNING"
  BY <1>2, <1>3
<1>5. clo[h].spawn_parent \in Live
  BY <1>3, <1>4 DEF SchedulerInv, Unsynched, Placed
<1> QED BY <1>2, <1>3, <1>4, <1>5 DEF Brings

\* The closure that a callee returns to has no saved views: it did not sync.
LEMMA SetReturnHandover ==
  ASSUME SchedulerInv, MapsInPlace, ComesBack, NEW w \in Workers, SetReturn(w)
  PROVE  MapsInPlace' /\ ComesBack'
<1> DEFINE f == cur[w]
           t == dq[w]
           q == clo[t].call_parent
           r == [clo[q] EXCEPT !.status = "RUNNING", !.callee = 0, !.has_cilk_callee = FALSE]
<1>1. TypeOK /\ clo \in Trees /\ AtSetReturn(w, t, q, f) /\ HoldsOne(w)
  BY SetReturnFacts DEF SchedulerInv, TypeOK, Trees, Owners
<1>2. /\ clo' = Upd(Destroy(clo, t), q, r) /\ dq' = Set(dq, w, q) /\ cur' = Set(cur, w, CallParent(f))
      /\ UNCHANGED <<wst, cl, ftf, unsynced>>
  BY DEF SetReturn, worker, flags
<1>3. t \in Closures /\ t \in Live /\ Holds(w) = t /\ t # 0 /\ cl[w] = 0
      /\ \A c \in Live : clo[c].spawn_parent # t
  BY <1>1 DEF AtSetReturn
<1>4. q \in Closures /\ q # 0 /\ q # t /\ q \in Live /\ clo[q].has_cilk_callee
  BY <1>1 DEF AtSetReturn
<1> HIDE DEF q
<1>5. clo[q] \in Closure /\ 0 \in Ptr(Closures)
  BY <1>1, <1>4 DEF Trees, Ptr
<1>6. r \in Closure /\ r.status = "RUNNING" /\ r.frame = clo[q].frame
      /\ r.child_rmap = clo[q].child_rmap /\ r.user_rmap = clo[q].user_rmap
  BY <1>5 DEF Closure, Status
<1> HIDE DEF r
<1>7. Destroy(clo, t) \in Trees /\ \A c \in Closures : Destroy(clo, t)[c] = IF c = t THEN FreshClosure ELSE clo[c]
  BY <1>1, <1>3, FreshType DEF Trees, Destroy
<1>8. clo'[q] = r /\ clo'[t] = FreshClosure /\ \A c \in Closures \ {q, t} : clo'[c] = clo[c]
  <2>1. \A c \in Closures : clo'[c] = IF c = q THEN r ELSE IF c = t THEN FreshClosure ELSE clo[c]
    BY <1>2, <1>4, <1>6, <1>7, UpdIs
  <2> QED BY <1>3, <1>4, <2>1
<1>9. Finishing' = Finishing
  BY <1>2 DEF Finishing
<1>10. MapsInPlace'
  <2> SUFFICES ASSUME NEW c \in Closures PROVE MapsOf(c)'
    BY DEF MapsInPlace
  <2>1. MapsOf(c)
    BY DEF MapsInPlace
  <2>2. CASE c = q
    BY <1>2, <1>4, <1>6, <1>8, <1>9, <2>1, <2>2 DEF MapsOf
  <2>3. CASE c = t
    BY <1>8, <2>3 DEF MapsOf, FreshClosure
  <2>4. CASE c \notin {q, t}
    BY <1>2, <1>8, <1>9, <2>1, <2>4 DEF MapsOf
  <2> QED BY <2>2, <2>3, <2>4
<1>11. ASSUME NEW v \in Workers PROVE BringsSame(v)
  <2>1. CASE v = w
    <3>1. Holds(w)' = q
      BY <1>1, <1>2, <1>3 DEF Holds, TypeOK, Set
    <3>2. ~Brings(w)'
      BY <1>6, <1>8, <3>1 DEF Brings
    <3> QED BY <2>1, <3>2 DEF BringsSame
  <2>2. CASE v # w
    <3>1. wst'[v] = wst[v] /\ cl'[v] = cl[v] /\ dq'[v] = dq[v] /\ cur'[v] = cur[v] /\ ftf'[v] = ftf[v]
      BY <1>1, <1>2, <2>2 DEF TypeOK, Set
    <3>2. ASSUME NEW h \in Live, h = Holds(v), clo'[h].status = "RETURNING"
          PROVE  /\ clo[h].status = "RETURNING" /\ clo'[h].spawn_parent = clo[h].spawn_parent
                 /\ clo[h].spawn_parent \in Live => clo'[clo[h].spawn_parent].frame = clo[clo[h].spawn_parent].frame
      <4>1. h \in Closures \ {q, t}
        BY <1>3, <1>6, <1>8, <2>2, <3>2 DEF Live, SchedulerInv, Owners
      <4>2. clo'[h] = clo[h]
        BY <1>8, <4>1
      <4>3. \A p \in Live : p # t => clo'[p].frame = clo[p].frame
        BY <1>6, <1>8 DEF Live
      <4> QED BY <1>3, <3>2, <4>2, <4>3
    <3> QED BY <3>1, <3>2, BringsOutside
  <2> QED BY <2>1, <2>2
<1> QED BY <1>10, <1>11, HandoverKept

\* Unlinking a child changes no views.
LEMMA RemoveShrinks ==
  ASSUME NEW C \in Trees, NEW p \in Closures, NEW c \in Closures, NEW l \in Closures \cup {0}, NEW r \in Closures \cup {0},
         l = C[c].left_sib, r = C[c].right_sib
  PROVE  Remove_child(C, p, c) \in Trees /\ Shrinks(C, Remove_child(C, p, c))
<1> DEFINE a == [C[l] EXCEPT !.right_sib = r]
           D == Upd(C, l, a)
           b == [D[r] EXCEPT !.left_sib = l]
           E == Upd(D, r, b)
           d == [E[p] EXCEPT !.right_most_child = IF @ = c THEN l ELSE @]
           F == Upd(E, p, d)
<1>1. Remove_child(C, p, c) = F
  BY DEF Remove_child
<1>2. l \in Ptr(Closures) /\ r \in Ptr(Closures) /\ p # 0
  BY NotNull DEF Ptr
<1>3. l # 0 => a \in Closure /\ a.child_rmap = C[l].child_rmap /\ a.user_rmap = C[l].user_rmap
  <2>1. l # 0 => C[l] \in Closure
    BY DEF Trees
  <2> QED BY <1>2, <2>1 DEF Closure
<1> HIDE DEF a
<1>4. D \in Trees /\ Shrinks(C, D)
  BY <1>3, UpdShrinks
<1> HIDE DEF D
<1>5. r # 0 => b \in Closure /\ b.child_rmap = D[r].child_rmap /\ b.user_rmap = D[r].user_rmap
  <2>1. r # 0 => D[r] \in Closure
    BY <1>4 DEF Trees
  <2> QED BY <1>2, <2>1 DEF Closure
<1> HIDE DEF b
<1>6. E \in Trees /\ Shrinks(D, E)
  BY <1>4, <1>5, UpdShrinks
<1> HIDE DEF E
<1>7. d \in Closure /\ d.child_rmap = E[p].child_rmap /\ d.user_rmap = E[p].user_rmap
  <2>1. E[p] \in Closure
    BY <1>6 DEF Trees
  <2>2. E[p].right_most_child \in Ptr(Closures)
    BY <2>1 DEF Closure
  <2> DEFINE m == IF E[p].right_most_child = c THEN l ELSE E[p].right_most_child
  <2>3. m \in Ptr(Closures) /\ d = [E[p] EXCEPT !.right_most_child = m]
    BY <1>2, <2>2
  <2> HIDE DEF m, d
  <2> QED BY <2>1, <2>3 DEF Closure
<1> HIDE DEF d
<1>8. F \in Trees /\ Shrinks(E, F)
  BY <1>6, <1>7, UpdShrinks
<1> HIDE DEF F
<1>9. Shrinks(C, E)
  BY <1>4, <1>6, ShrinksTwice
<1> QED BY <1>1, <1>8, <1>9, ShrinksTwice

\* What the parent p and the other closures have when child c has deposited its views.
Deposits(R, p, c) ==
  \A k \in Closures \ {c} : /\ R[k].user_rmap \in {clo[k].user_rmap, <<>>}
                            /\ k # p => R[k].child_rmap \in {clo[k].child_rmap, <<>>}

\* A child deposits its views with its left sibling or its parent.
LEMMA ReturnedMaps ==
  ASSUME SchedulerInv, NEW w \in Workers, AtReturn(w), NEW x \in Maps
  PROVE  Deposits(Returned(cl[w], x), clo[cl[w]].spawn_parent, cl[w])
<1> DEFINE c == cl[w]
           p == clo[c].spawn_parent
           u == LeftOf(c)
           f == LeftField(c, "right_rmap", "child_rmap")
           a == [clo[u] EXCEPT ![f] = x]
           B == PutLeft(clo, c, "right_rmap", "child_rmap", x)
           C == Remove_child(B, p, c)
           D == Destroy(C, c)
           y == IF KeepsFiber(c) THEN clo[c].fiber ELSE C[p].fiber_child
           n == C[p].join_counter - 1
           q == [C[p] EXCEPT !.join_counter = @ - 1, !.fiber_child = IF KeepsFiber(c) THEN clo[c].fiber ELSE @]
           R == Upd(D, p, q)
<1>1. Returned(c, x) = R /\ B = Upd(clo, u, a)
  BY DEF Returned, PutLeft
<1>2. c \in Closures /\ c \in Live /\ p \in Closures /\ p \in Live /\ p # c /\ p # 0 /\ clo \in Trees /\ clo[c] \in Closure
      /\ u \in Closures /\ u \in Live /\ u # c /\ clo[u] \in Closure
  BY DEF AtReturn
<1>3. f = "right_rmap" \/ (f = "child_rmap" /\ u = p)
  BY DEF LeftField, LeftOf
<1>4. a \in Closure /\ a.user_rmap = clo[u].user_rmap /\ (u # p => a.child_rmap = clo[u].child_rmap)
      /\ a.join_counter = clo[u].join_counter
  <2>1. CASE f = "right_rmap"
    BY <1>2, <2>1 DEF Closure
  <2>2. CASE f = "child_rmap" /\ u = p
    BY <1>2, <2>2 DEF Closure
  <2> QED BY <1>3, <2>1, <2>2
<1>5. B \in Trees /\ \A k \in Closures : B[k] = IF k = u THEN a ELSE clo[k]
  <2>1. clo \in Trees /\ u \in Closures /\ a \in Closure
    BY <1>2, <1>4
  <2> HIDE DEF a, u, B
  <2>2. Upd(clo, u, a) \in Trees /\ \A k \in Closures : Upd(clo, u, a)[k] = IF k = u THEN a ELSE clo[k]
    BY <2>1, UpdIs
  <2> QED BY <1>1, <2>2
<1> HIDE DEF B, a
<1>6. \A k \in Closures : B[k].user_rmap = clo[k].user_rmap /\ (k # p => B[k].child_rmap = clo[k].child_rmap)
  BY <1>4, <1>5
<1>7. C \in Trees /\ Shrinks(B, C)
  <2> DEFINE l == B[c].left_sib
             r == B[c].right_sib
  <2>1. l \in Closures \cup {0} /\ r \in Closures \cup {0}
    BY <1>2, <1>5 DEF Trees, Closure, Ptr
  <2> HIDE DEF l, r, c, p
  <2> QED BY <1>2, <1>5, <2>1, RemoveShrinks DEF l, r
<1>8. C[p] \in Closure /\ C[p].join_counter = clo[p].join_counter /\ clo[p].join_counter \in Nat \ {0}
  <2>1. clo[p].join_counter \in Nat \ {0}
    BY <1>2, SiblingsLive DEF SchedulerInv
  <2>2. Gone(Returned(c, x), p, c)
    BY ReturnedIs
  <2>3. Returned(c, x)[p].join_counter = clo[p].join_counter - 1
    BY <2>2 DEF Gone, Unchained
  <2>4. C[p] \in Closure
    BY <1>2, <1>7 DEF Trees
  <2>5. D[p] = C[p]
    BY <1>2, <1>7 DEF Destroy, Trees
  <2>6. C[p].join_counter \in Nat
    BY <2>4 DEF Closure
  <2>7. R[p].join_counter = C[p].join_counter - 1
    <3> HIDE DEF C, p, c
    <3>1. D \in [Closures -> Closure]
      BY <1>2, <1>7, FreshType DEF Destroy, Trees
    <3>2. R[p] = q
      BY <1>2, <3>1 DEF Upd
    <3>3. q.join_counter = C[p].join_counter - 1
      BY SMTT(30), <2>4, <2>6 DEF Closure
    <3> QED BY <3>2, <3>3
  <2>8. R[p].join_counter = clo[p].join_counter - 1
    BY <1>1, <2>3
  <2> HIDE DEF R, C, p
  <2> QED BY <2>1, <2>4, <2>6, <2>7, <2>8
<1> HIDE DEF C
<1>9. y \in Ptr(Fibers) /\ n \in Nat /\ q = [C[p] EXCEPT !.join_counter = n, !.fiber_child = y]
  BY SMTT(30), <1>2, <1>8 DEF Closure
<1> HIDE DEF y, n, q
<1>10. q \in Closure /\ q.child_rmap = C[p].child_rmap /\ q.user_rmap = C[p].user_rmap
  BY <1>8, <1>9 DEF Closure
<1>11. D \in Trees /\ Shrinks(C, D) /\ D[p] = C[p]
  <2>1. D \in Trees /\ \A k \in Closures : D[k] = IF k = c THEN FreshClosure ELSE C[k]
    BY <1>2, <1>7, FreshType DEF Trees, Destroy
  <2>2. FreshClosure.child_rmap = <<>> /\ FreshClosure.user_rmap = <<>>
    BY DEF FreshClosure
  <2> QED BY <1>2, <2>1, <2>2 DEF Shrinks
<1> HIDE DEF D
<1>12. Shrinks(D, R)
  <2> HIDE DEF p, R
  <2> QED BY <1>2, <1>10, <1>11, UpdShrinks DEF R
<1> HIDE DEF R
<1>13. Shrinks(B, R)
  <2>1. Shrinks(B, D)
    BY <1>7, <1>11, ShrinksTwice
  <2> QED BY <1>12, <2>1, ShrinksTwice
<1> QED BY <1>1, <1>6, <1>13 DEF Deposits, Shrinks

\* The views and the parent of a child that has returned.
LEMMA ReturnHandover ==
  ASSUME SchedulerInv, MapsInPlace, ComesBack, NEW w \in Workers, Return(w)
  PROVE  MapsInPlace' /\ ComesBack'
<1> DEFINE c == cl[w]
           p == clo[c].spawn_parent
           R == Returned(c, rmap[w])
           P == R[p]
           q == [P EXCEPT !.status = "READY", !.fiber = P.fiber_child,
                          !.fiber_child = 0, !.orig_rsp = 0, !.child_rmap = <<>>,
                          !.user_rmap = <<>>, !.child_exn = 0,
                          !.user_exn = IF P.child_exn = 0 THEN @ ELSE P.child_exn]
<1>1. TypeOK /\ HoldsOne(w) /\ wst[w] = "red"
  BY DEF SchedulerInv, Owners, Return
<1>2. AtReturn(w)
  BY <1>1, ReturnFacts DEF HoldsOne
<1>3. Returns(w, p, c) /\ Gone(R, p, c) /\ Deposits(R, p, c)
  <2>1. rmap[w] \in Maps
    BY <1>1 DEF TypeOK
  <2> QED BY <1>2, <2>1, ReturnIs, ReturnedIs, ReturnedMaps
<1>4. dq[w] = 0 /\ c \in Closures /\ c # 0 /\ c \in Live /\ clo[c].join_counter = 0 /\ p = Parent(w)
      /\ p # 0 /\ p \in Closures /\ p \in Live /\ p # c /\ clo[p].frame # 0 /\ clo \in Trees
  BY <1>2 DEF AtReturn
<1>5. clo[p].join_counter # 0 /\ clo[p].status # "RETURNING"
  <2>1. clo[p].join_counter \in Nat \ {0}
    BY <1>4, SiblingsLive DEF SchedulerInv
  <2> QED BY <1>4, <2>1 DEF SchedulerInv, Unsynched
<1>6. \/ clo' = Upd(R, p, q) /\ ftf' = Set(ftf, w, P.fiber) /\ wst' = Set(wst, w, "has")
      \/ clo' = R /\ ftf' = ftf /\ wst' = Set(wst, w, "idle") /\ cl' = Set(cl, w, 0) /\ unsynced' = unsynced
  BY <1>4 DEF Return
<1> HIDE DEF R
<1>7. R \in Trees /\ P \in Closure /\ ~Dead(R, p)
  <2>1. R \in Trees /\ R[p].status = clo[p].status
    BY <1>3, <1>4 DEF Gone
  <2> QED BY <1>4, <2>1 DEF Trees, Dead, Live
<1>8. q \in Closure /\ Restated(P, q) /\ q.child_rmap = <<>> /\ q.user_rmap = <<>>
  <2>1. 0 \in Ptr(Fibers) /\ <<>> \in Maps
    BY DEF Ptr, Maps
  <2> QED BY ZenonT(40), <1>7, <2>1 DEF Closure, Restated, Status
<1> HIDE DEF q
<1>9. /\ \A k \in Closures \ {c, p} : clo'[k] = R[k]
      /\ (clo'[p].child_rmap = <<>> /\ clo'[p].user_rmap = <<>>) \/ (clo'[p] = R[p] /\ unsynced' = unsynced /\ cl'[w] = 0)
  <2>1. CASE clo' = Upd(R, p, q)
    <3>1. clo'[p] = q /\ \A k \in Closures \ {c, p} : clo'[k] = R[k]
      <4> HIDE DEF p, c
      <4> QED BY <1>3, <1>4, <1>7, <1>8, <2>1, GoneRestated
    <3> QED BY <1>8, <3>1
  <2>2. CASE clo' = R /\ cl' = Set(cl, w, 0) /\ unsynced' = unsynced
    BY <1>1, <2>2 DEF TypeOK, Set
  <2> QED BY <1>6, <2>1, <2>2
<1>10. \A k \in Closures \ {c} : /\ R[k].user_rmap \in {clo[k].user_rmap, <<>>}
                                 /\ k # p => R[k].child_rmap \in {clo[k].child_rmap, <<>>}
  BY <1>3 DEF Deposits
<1>11. /\ clo'[c] = FreshClosure
       /\ \A k \in Closures \ {c} :
            /\ k # p => clo'[k].status = clo[k].status
            /\ clo'[k].frame = clo[k].frame /\ clo'[k].spawn_parent = clo[k].spawn_parent
       /\ clo'[p].status = clo[p].status \/ clo'[p].status = "READY"
       /\ unsynced \subseteq unsynced' \cup {clo[p].frame}
       /\ cl'[w] \in {0, p} /\ (cl'[w] = p => clo'[p].status = "READY")
       /\ UNCHANGED <<cur, dq>> /\ Same(wst, w) /\ Same(cl, w) /\ wst'[w] \in {"has", "idle"}
  BY <1>3, <1>4 DEF Returns, Unchained
<1>12. \A k \in Closures \ {c} : clo'[k].has_cilk_callee = clo[k].has_cilk_callee
  BY <1>3 DEF Returns
<1>13. Finishing \subseteq Finishing'
  <2>1. \A v \in Workers : wst[v] \in {"promote", "finish"} => wst'[v] = wst[v] /\ cl'[v] = cl[v]
    BY <1>1, <1>11 DEF Same
  <2> QED BY <2>1 DEF Finishing
<1>14. MapsInPlace'
  <2> SUFFICES ASSUME NEW k \in Closures PROVE MapsOf(k)'
    BY DEF MapsInPlace
  <2>1. MapsOf(k)
    BY DEF MapsInPlace
  <2>2. CASE k = c
    BY <1>11, <2>2 DEF MapsOf, FreshClosure
  <2>3. CASE k = p
    <3>1. CASE clo'[p].child_rmap = <<>> /\ clo'[p].user_rmap = <<>>
      BY <2>3, <3>1 DEF MapsOf
    <3>2. CASE clo'[p] = R[p] /\ unsynced' = unsynced /\ cl'[w] = 0
      <4>1. clo[p].frame \in unsynced \/ p \in Finishing
        BY <1>4, <1>5 DEF SchedulerInv, Unsynched
      <4>2. R[p].user_rmap \in {clo[p].user_rmap, <<>>} /\ clo'[p].frame = clo[p].frame
            /\ clo'[p].has_cilk_callee = clo[p].has_cilk_callee /\ clo'[p].status = clo[p].status
        <5>1. R[p].status = clo[p].status
          BY <1>3, <1>4 DEF Gone
        <5>2. R[p].user_rmap \in {clo[p].user_rmap, <<>>}
          BY <1>4, <1>10
        <5>3. clo'[p].frame = clo[p].frame
          BY <1>4, <1>11
        <5>4. clo'[p].has_cilk_callee = clo[p].has_cilk_callee
          BY <1>4, <1>12
        <5> QED BY <3>2, <5>1, <5>2, <5>3, <5>4
      <4> QED BY <1>5, <1>13, <2>1, <2>3, <3>2, <4>1, <4>2 DEF MapsOf
    <3> QED BY <1>9, <3>1, <3>2
  <2>4. CASE k \notin {c, p}
    <3>1. /\ clo'[k].child_rmap \in {clo[k].child_rmap, <<>>} /\ clo'[k].user_rmap \in {clo[k].user_rmap, <<>>}
          /\ clo'[k].status = clo[k].status /\ clo'[k].frame = clo[k].frame
          /\ clo'[k].has_cilk_callee = clo[k].has_cilk_callee
      <4>1. clo'[k].child_rmap \in {clo[k].child_rmap, <<>>} /\ clo'[k].user_rmap \in {clo[k].user_rmap, <<>>}
        BY <1>9, <1>10, <2>4
      <4>2. clo'[k].status = clo[k].status /\ clo'[k].frame = clo[k].frame
        BY <1>11, <2>4
      <4>3. clo'[k].has_cilk_callee = clo[k].has_cilk_callee
        BY <1>12, <2>4
      <4> QED BY <4>1, <4>2, <4>3
    <3>2. CASE k \in Live
      <4>1. clo[k].frame # clo[p].frame
        BY <1>4, <2>4, <3>2 DEF SchedulerInv, Named
      <4>2. clo[k].frame \in unsynced => clo[k].frame \in unsynced'
        BY <1>11, <4>1
      <4> QED BY <1>13, <2>1, <3>1, <4>2 DEF MapsOf
    <3>3. CASE k \notin Live
      <4>1. clo[k].child_rmap = <<>> /\ clo[k].user_rmap = <<>>
        BY <3>3 DEF SchedulerInv, Blank, FreshClosure
      <4> QED BY <2>1, <3>1, <4>1 DEF MapsOf
    <3> QED BY <3>2, <3>3
  <2> QED BY <2>2, <2>3, <2>4
<1>15. ASSUME NEW v \in Workers PROVE BringsSame(v)
  <2>1. CASE v = w
    <3>1. Holds(w)' = cl'[w]
      BY <1>4, <1>11 DEF Holds
    <3>2. ~Brings(w)'
      BY <1>11, <3>1 DEF Brings
    <3> QED BY <2>1, <3>2 DEF BringsSame
  <2>2. CASE v # w
    <3>1. wst'[v] = wst[v] /\ cl'[v] = cl[v] /\ dq'[v] = dq[v] /\ cur'[v] = cur[v] /\ ftf'[v] = ftf[v]
      BY <1>1, <1>6, <1>11, <2>2 DEF TypeOK, Set, Same
    <3>2. ASSUME NEW h \in Live, h = Holds(v), clo'[h].status = "RETURNING"
          PROVE  /\ clo[h].status = "RETURNING" /\ clo'[h].spawn_parent = clo[h].spawn_parent
                 /\ clo[h].spawn_parent \in Live => clo'[clo[h].spawn_parent].frame = clo[clo[h].spawn_parent].frame
      <4>1. Holds(w) = c
        BY <1>4 DEF Holds
      <4>2. h \in Closures \ {c}
        BY <1>4, <2>2, <3>2, <4>1 DEF Live, SchedulerInv, Owners
      <4>3. clo[h].status = "RETURNING" /\ clo'[h].spawn_parent = clo[h].spawn_parent
        BY <1>5, <1>11, <3>2, <4>2
      <4>4. clo[h].spawn_parent # c
        BY <1>4, <3>2, NoKids DEF SchedulerInv
      <4> QED BY <1>11, <4>3, <4>4 DEF Live
    <3> QED BY <3>1, <3>2, BringsOutside
  <2> QED BY <2>1, <2>2
<1> QED BY <1>14, <1>15, HandoverKept

\* Linking a child changes no views.
LEMMA AddShrinks ==
  ASSUME NEW C \in Trees, NEW p \in Closures, NEW c \in Closures, NEW r \in Closures \cup {0},
         r = C[p].right_most_child
  PROVE  Add_child(C, p, c) \in Trees /\ Shrinks(C, Add_child(C, p, c))
<1> DEFINE a == [C[r] EXCEPT !.right_sib = c]
           D == Upd(C, r, a)
           b == [D[c] EXCEPT !.left_sib = r, !.spawn_parent = p]
           E == Upd(D, c, b)
           m == E[p].join_counter + 1
           d == [E[p] EXCEPT !.right_most_child = c, !.join_counter = @ + 1]
           F == Upd(E, p, d)
<1>1. Add_child(C, p, c) = F
  BY DEF Add_child
<1>2. r \in Ptr(Closures) /\ c \in Ptr(Closures) /\ p \in Ptr(Closures) /\ c # 0 /\ p # 0
  BY NotNull DEF Ptr
<1>3. r # 0 => a \in Closure /\ a.child_rmap = C[r].child_rmap /\ a.user_rmap = C[r].user_rmap
  <2>1. r # 0 => C[r] \in Closure
    BY DEF Trees
  <2> QED BY <1>2, <2>1 DEF Closure
<1> HIDE DEF a, F, d, E, b
<1>4. D \in Trees /\ Shrinks(C, D)
  BY <1>3, UpdShrinks
<1> HIDE DEF D
<1>5. b \in Closure /\ b.child_rmap = D[c].child_rmap /\ b.user_rmap = D[c].user_rmap
  <2>1. D[c] \in Closure
    BY <1>4 DEF Trees
  <2> QED BY <1>2, <2>1 DEF Closure, b
<1>6. E \in Trees /\ Shrinks(D, E)
  BY <1>4, <1>5, UpdShrinks DEF E
<1>7. E[p] \in Closure /\ m \in Nat /\ d = [E[p] EXCEPT !.right_most_child = c, !.join_counter = m]
  <2>1. E[p] \in Closure
    BY <1>6 DEF Trees
  <2>2. m \in Nat
    BY <2>1 DEF Closure
  <2>3. d = [E[p] EXCEPT !.right_most_child = c, !.join_counter = m]
    BY Zenon DEF d
  <2> QED BY <2>1, <2>2, <2>3
<1> HIDE DEF m
<1>8. d \in Closure /\ d.child_rmap = E[p].child_rmap /\ d.user_rmap = E[p].user_rmap
  BY <1>2, <1>7 DEF Closure
<1>9. F \in Trees /\ Shrinks(E, F)
  BY <1>6, <1>8, UpdShrinks DEF F
<1>10. Shrinks(C, E)
  BY <1>4, <1>6, ShrinksTwice
<1> QED BY <1>1, <1>9, <1>10, ShrinksTwice

\* A steal moves no views.
LEMMA ExtractShrinks ==
  ASSUME SchedulerInv, NEW w \in Workers, NEW v \in Workers, AtSteal(w, v), NEW C \in Trees,
         NEW p \in Closures, NEW n \in Closures, Extract(w, v, C, p, n)
  PROVE  Shrinks(C, clo') /\ ftf' = ftf
<1> DEFINE old == clo[dq[v]].fiber
           new == Smallest(fibers)
           r == C[p].right_most_child
           D == Add_child(C, p, n)
           a == [D[n] EXCEPT !.status = "RUNNING", !.fiber = old]
           E == Upd(D, n, a)
           b == [E[p] EXCEPT !.fiber = new, !.orig_rsp = IF @ = 0 THEN old ELSE @]
<1>1. TypeOK /\ dq[v] \in Closures /\ new \in fibers
  BY DEF SchedulerInv, AtSteal, AtWork
<1>2. clo' = Upd(E, p, b) /\ ftf' = ftf
  BY DEF Extract
<1>3. old \in Ptr(Fibers) /\ new \in Ptr(Fibers) /\ r \in Closures \cup {0}
  <2>1. clo[dq[v]] \in Closure /\ C[p] \in Closure
    BY <1>1 DEF TypeOK, Trees
  <2> QED BY <1>1, <2>1 DEF TypeOK, Closure, Ptr
<1>4. D \in Trees /\ Shrinks(C, D)
  <2> HIDE DEF D, E, r
  <2> QED BY <1>3, AddShrinks DEF D, r
<1> HIDE DEF D, r, old, new
<1>5. a \in Closure /\ a.child_rmap = D[n].child_rmap /\ a.user_rmap = D[n].user_rmap
  <2>1. D[n] \in Closure
    BY <1>4 DEF Trees
  <2> QED BY <1>3, <2>1 DEF Closure, Status
<1> HIDE DEF a
<1>6. E \in Trees /\ Shrinks(D, E)
  BY <1>4, <1>5, UpdShrinks
<1> HIDE DEF E
<1>7. b \in Closure /\ b.child_rmap = E[p].child_rmap /\ b.user_rmap = E[p].user_rmap
  <2>1. E[p] \in Closure
    BY <1>6 DEF Trees
  <2> QED BY <1>3, <2>1 DEF Closure
<1> HIDE DEF b
<1>8. Shrinks(E, clo')
  BY <1>2, <1>6, <1>7, UpdShrinks
<1>9. Shrinks(C, E)
  BY <1>4, <1>6, ShrinksTwice
<1> QED BY <1>2, <1>8, <1>9, ShrinksTwice

\* Both steals.
LEMMA StealShrinks ==
  ASSUME SchedulerInv, NEW w \in Workers, NEW v \in Workers, AtSteal(w, v), StealFull(w, v) \/ StealStacklet(w, v)
  PROVE  Shrinks(clo, clo') /\ ftf' = ftf
<1> DEFINE c == dq[v]
           m == Created
           n == CreatedNext
           h == Head(shadow[v])
           a == [clo[c] EXCEPT !.frame = h]
           d == [clo[m] EXCEPT !.status = "RUNNING", !.frame = h, !.call_parent = c]
           A == Upd(clo, m, d)
           b == [clo[c] EXCEPT !.status = "SUSPENDED", !.has_cilk_callee = TRUE]
<1>1. Extract(w, v, Upd(clo, c, a), c, m) \/ Extract(w, v, Upd(A, c, b), m, n)
  BY DEF StealFull, StealStacklet
<1>2. c \in Closures /\ m \in Closures /\ n \in Closures /\ m # c /\ shadow[v] \in Seq(Frames) /\ shadow[v] # <<>>
      /\ clo \in Trees /\ clo[c] \in Closure /\ clo[m] \in Closure
  BY DEF AtSteal, AtWork, SchedulerInv, TypeOK, Trees
<1>3. h \in Ptr(Frames) /\ c \in Ptr(Closures)
  BY <1>2 DEF Ptr
<1> HIDE DEF h, m, n
<1>4. a \in Closure /\ a.child_rmap = clo[c].child_rmap /\ a.user_rmap = clo[c].user_rmap
  BY <1>2, <1>3 DEF Closure
<1>5. d \in Closure /\ d.child_rmap = clo[m].child_rmap /\ d.user_rmap = clo[m].user_rmap
  BY <1>2, <1>3 DEF Closure, Status
<1>6. b \in Closure /\ b.child_rmap = clo[c].child_rmap /\ b.user_rmap = clo[c].user_rmap
  BY <1>2 DEF Closure, Status
<1> HIDE DEF a, b, d, c
<1>7. CASE Extract(w, v, Upd(clo, c, a), c, m)
  <2>1. Upd(clo, c, a) \in Trees /\ Shrinks(clo, Upd(clo, c, a))
    BY <1>2, <1>4, UpdShrinks
  <2>2. Shrinks(Upd(clo, c, a), clo') /\ ftf' = ftf
    BY <1>2, <1>7, <2>1, ExtractShrinks
  <2> QED BY <2>1, <2>2, ShrinksTwice
<1>8. CASE Extract(w, v, Upd(A, c, b), m, n)
  <2>1. A \in Trees /\ Shrinks(clo, A)
    BY <1>2, <1>5, UpdShrinks
  <2>2. A[c] = clo[c]
    BY <1>2, <1>5, UpdIs
  <2> HIDE DEF A
  <2>3. Upd(A, c, b) \in Trees /\ Shrinks(A, Upd(A, c, b))
    BY <1>2, <1>6, <2>1, <2>2, UpdShrinks
  <2>4. Shrinks(Upd(A, c, b), clo') /\ ftf' = ftf
    BY <1>2, <1>8, <2>3, ExtractShrinks
  <2>5. Shrinks(clo, Upd(A, c, b))
    BY <2>1, <2>3, ShrinksTwice
  <2> QED BY <2>4, <2>5, ShrinksTwice
<1> QED BY <1>1, <1>7, <1>8

\* The views of a victim's closure stay where they were.
LEMMA StealFullHandover ==
  ASSUME SchedulerInv, NEW w \in Workers, NEW v \in Workers, StealFull(w, v)
  PROVE  MapsKept /\ \A u \in Workers : BringsSame(u)
<1> DEFINE c == dq[v]
           n == Created
           h == Head(shadow[v])
<1>1. AtSteal(w, v)
  BY StealFacts DEF StealFull
<1>2. FullSteal(w, v, c, n, h) /\ FullBase(v, c, h)
  BY <1>1, StealFullIs, StealFullBase
<1>3. w # v /\ wst[v] = "run" /\ wst[w] = "idle" /\ cl[w] = 0 /\ dq[w] = 0 /\ cl[v] = 0
      /\ c \in Closures /\ c \in Live /\ c # 0 /\ clo[c].status = "RUNNING" /\ n # c /\ n # 0
      /\ n \in Closures /\ n \notin Live /\ clo[n] = FreshClosure
  BY <1>1, NotNull DEF AtSteal, AtWork
<1>4. clo[c].frame = 0 \/ clo[c].frame = h
  BY <1>2 DEF FullBase
<1>5. Takes(w, v, c, n, "finish", h) /\ clo'[n].status = "RUNNING" /\ clo'[c].frame = h
      /\ \A k \in Closures \ {n} : /\ clo'[k].status = clo[k].status /\ clo'[k].spawn_parent = clo[k].spawn_parent
                                   /\ k # c => clo'[k].frame = clo[k].frame
  BY <1>2 DEF FullSteal
<1>6. \A k \in Closures \ {n} : clo'[k].has_cilk_callee = clo[k].has_cilk_callee
  BY <1>2 DEF FullSteal
<1>7. /\ wst'[w] = "finish" /\ cl'[w] = c /\ dq'[v] = n /\ wst'[v] = "run" /\ cl'[v] = 0
      /\ cur' = cur /\ unsynced' = unsynced /\ \A u \in Workers \ {w, v} : SameAt(u)
  BY <1>3, <1>5 DEF Takes
<1>8. Shrinks(clo, clo') /\ ftf' = ftf
  BY <1>1, StealShrinks
<1> HIDE DEF c, n, h
<1>9. Finishing \subseteq Finishing' /\ c \in Finishing'
  <2>1. \A u \in Workers : wst[u] \in {"promote", "finish"} => wst'[u] = wst[u] /\ cl'[u] = cl[u]
    BY <1>3, <1>7 DEF SameAt
  <2> QED BY <1>7, <2>1 DEF Finishing
<1>10. clo[n].child_rmap = <<>> /\ clo[n].status = "FREE"
  BY <1>3 DEF FreshClosure
<1>11. MapsKept
  <2>1. \A k \in Closures : clo[k].child_rmap # <<>> /\ (clo[k].frame \in unsynced \/ k \in Finishing) =>
          clo'[k].child_rmap = <<>> \/ clo'[k].frame \in unsynced' \/ k \in Finishing'
    BY <1>5, <1>7, <1>9, <1>10
  <2>2. \A k \in Closures : clo[k].status = "SUSPENDED" /\ ~clo[k].has_cilk_callee =>
          clo'[k].status = "SUSPENDED" /\ ~clo'[k].has_cilk_callee
    BY <1>5, <1>6, <1>10
  <2>3. \A k \in Closures : clo'[k].status = "RETURNING" => clo[k].status = "RETURNING"
    BY <1>5
  <2> QED BY <1>8, <2>1, <2>2, <2>3 DEF MapsKept
<1>12. ASSUME NEW u \in Workers PROVE BringsSame(u)
  <2>1. CASE u = w
    <3>1. Holds(w)' = c /\ clo'[c].status = "RUNNING"
      BY <1>3, <1>5, <1>7 DEF Holds
    <3> QED BY <2>1, <3>1 DEF BringsSame, Brings
  <2>2. CASE u = v
    <3>1. Holds(v)' = n
      BY <1>7 DEF Holds
    <3> QED BY <1>5, <2>2, <3>1 DEF BringsSame, Brings
  <2>3. CASE u \notin {w, v}
    <3>1. wst'[u] = wst[u] /\ cl'[u] = cl[u] /\ dq'[u] = dq[u] /\ cur'[u] = cur[u] /\ ftf'[u] = ftf[u]
      BY <1>7, <1>8, <2>3 DEF SameAt
    <3>2. ASSUME NEW k \in Live, clo'[k].status = "RETURNING"
          PROVE  /\ clo[k].status = "RETURNING" /\ clo'[k].spawn_parent = clo[k].spawn_parent
                 /\ clo[k].spawn_parent \in Live => clo'[clo[k].spawn_parent].frame = clo[clo[k].spawn_parent].frame
      <4>1. k \in Closures \ {n} /\ \A p \in Live : p \in Closures \ {n}
        BY <1>3 DEF Live
      <4>2. clo[k].spawn_parent # 0 => clo[clo[k].spawn_parent].frame # 0
        BY <3>2 DEF SchedulerInv, Placed
      <4>3. \A p \in Live : clo[p].frame # 0 => clo'[p].frame = clo[p].frame
        BY <1>4, <1>5, <4>1
      <4>4. 0 \notin Live
        BY NotNull DEF Live
      <4> QED BY <1>5, <3>2, <4>1, <4>2, <4>3, <4>4
    <3> QED BY <3>1, <3>2, BringsOutside
  <2> QED BY <2>1, <2>2, <2>3
<1> QED BY <1>11, <1>12

\* Nor do those of a closure that waits for the stolen frame.
LEMMA StealStackletHandover ==
  ASSUME SchedulerInv, NEW w \in Workers, NEW v \in Workers, StealStacklet(w, v)
  PROVE  MapsKept /\ \A u \in Workers : BringsSame(u)
<1> DEFINE c == dq[v]
           m == Created
           n == CreatedNext
           h == Head(shadow[v])
<1>1. AtSteal(w, v)
  BY StealFacts DEF StealStacklet
<1>2. StackletSteal(w, v, c, m, n, h)
  BY <1>1, StealStackletIs
<1>3. w # v /\ wst[v] = "run" /\ wst[w] = "idle" /\ cl[w] = 0 /\ dq[w] = 0 /\ cl[v] = 0
      /\ c \in Closures /\ c \in Live /\ c # 0 /\ clo[c].status = "RUNNING" /\ n # c /\ n # 0 /\ m # c /\ m # 0 /\ m # n
      /\ n \in Closures /\ n \notin Live /\ clo[n] = FreshClosure
      /\ m \in Closures /\ m \notin Live /\ clo[m] = FreshClosure
  BY <1>1, NotNull DEF AtSteal, AtWork
<1>4. Takes(w, v, m, n, "promote", h) /\ clo'[n].status = "RUNNING" /\ clo'[m].status = "RUNNING"
      /\ clo'[c].status = "SUSPENDED"
      /\ \A k \in Closures \ {m, n} : /\ clo'[k].frame = clo[k].frame /\ clo'[k].spawn_parent = clo[k].spawn_parent
                                      /\ k # c => clo'[k].status = clo[k].status
  BY <1>2 DEF StackletSteal
<1>5. \A k \in Closures \ {m, n, c} : clo'[k].has_cilk_callee = clo[k].has_cilk_callee
  BY <1>2 DEF StackletSteal
<1>6. /\ wst'[w] = "promote" /\ cl'[w] = m /\ dq'[v] = n /\ wst'[v] = "run" /\ cl'[v] = 0
      /\ cur' = cur /\ unsynced' = unsynced /\ \A u \in Workers \ {w, v} : SameAt(u)
  BY <1>3, <1>4 DEF Takes
<1>7. Shrinks(clo, clo') /\ ftf' = ftf
  BY <1>1, StealShrinks
<1> HIDE DEF c, m, n, h
<1>8. Finishing \subseteq Finishing'
  <2>1. \A u \in Workers : wst[u] \in {"promote", "finish"} => wst'[u] = wst[u] /\ cl'[u] = cl[u]
    BY <1>3, <1>6 DEF SameAt
  <2> QED BY <2>1 DEF Finishing
<1>9. clo[n].child_rmap = <<>> /\ clo[n].status = "FREE" /\ clo[m].child_rmap = <<>> /\ clo[m].status = "FREE"
  BY <1>3 DEF FreshClosure
<1>10. MapsKept
  <2>1. \A k \in Closures : clo[k].child_rmap # <<>> /\ (clo[k].frame \in unsynced \/ k \in Finishing) =>
          clo'[k].child_rmap = <<>> \/ clo'[k].frame \in unsynced' \/ k \in Finishing'
    BY <1>4, <1>6, <1>8, <1>9
  <2>2. \A k \in Closures : clo[k].status = "SUSPENDED" /\ ~clo[k].has_cilk_callee =>
          clo'[k].status = "SUSPENDED" /\ ~clo'[k].has_cilk_callee
    BY <1>3, <1>4, <1>5, <1>9
  <2>3. \A k \in Closures : clo'[k].status = "RETURNING" => clo[k].status = "RETURNING"
    BY <1>3, <1>4
  <2> QED BY <1>7, <2>1, <2>2, <2>3 DEF MapsKept
<1>11. ASSUME NEW u \in Workers PROVE BringsSame(u)
  <2>1. CASE u = w
    <3>1. Holds(w)' = m
      BY <1>3, <1>6 DEF Holds
    <3> QED BY <1>4, <2>1, <3>1 DEF BringsSame, Brings
  <2>2. CASE u = v
    <3>1. Holds(v)' = n
      BY <1>6 DEF Holds
    <3> QED BY <1>4, <2>2, <3>1 DEF BringsSame, Brings
  <2>3. CASE u \notin {w, v}
    <3>1. wst'[u] = wst[u] /\ cl'[u] = cl[u] /\ dq'[u] = dq[u] /\ cur'[u] = cur[u] /\ ftf'[u] = ftf[u]
      BY <1>6, <1>7, <2>3 DEF SameAt
    <3>2. ASSUME NEW k \in Live, clo'[k].status = "RETURNING"
          PROVE  /\ clo[k].status = "RETURNING" /\ clo'[k].spawn_parent = clo[k].spawn_parent
                 /\ clo[k].spawn_parent \in Live => clo'[clo[k].spawn_parent].frame = clo[clo[k].spawn_parent].frame
      <4>1. k \in Closures \ {m, n} /\ \A p \in Live : p \in Closures \ {m, n}
        BY <1>3 DEF Live
      <4> QED BY <1>4, <3>2, <4>1
    <3> QED BY <3>1, <3>2, BringsOutside
  <2> QED BY <2>1, <2>2, <2>3
<1> QED BY <1>10, <1>11

\* The closures of a promoted stacklet have the views they had, or none.
LEMMA PromoteHandover ==
  ASSUME SchedulerInv, NEW w \in Workers, PromoteStacklet(w)
  PROVE  MapsKept /\ \A u \in Workers : BringsSame(u)
<1> DEFINE r == cl[w]
           q == clo[r].call_parent
           f == clo[r].frame
           o == Outer(q)
           b == clo[q].frame
           p == clo[q].spawn_parent
<1>1. AtPromote(w) /\ wst[w] = "promote"
  <2>1. wst[w] = "promote"
    BY DEF PromoteStacklet
  <2> QED BY <2>1, PromoteFacts
<1>2. PICK top, B, a : SplitAt(o, b, p, stolen, f, top, B) /\ Promotes(w, r, q, f, top, B, a)
  BY <1>1, PromoteIs
<1>3. /\ r \in Closures /\ r # 0 /\ r \in Live /\ f \in Frames
      /\ q \in Closures /\ q # 0 /\ q # r /\ q \in Live /\ clo[q].status = "SUSPENDED" /\ clo[q].has_cilk_callee
      /\ clo[r].status = "RUNNING" /\ cl[w] = r /\ clo[r].frame = f /\ b = clo[q].frame
  BY SMTT(30), <1>1 DEF AtPromote
<1>4. b # 0 => top = b
  BY SMTT(30), <1>2 DEF SplitAt
<1>5. /\ Shrinks(clo, clo') /\ ftf' = ftf /\ wst'[w] = "has" /\ (\A u \in Workers \ {w} : wst'[u] = wst[u])
      /\ cl' = cl /\ dq' = dq /\ cur' = cur /\ unsynced' = unsynced \cup {f}
      /\ clo'[q].frame = top /\ clo'[q].status = "SUSPENDED" /\ clo'[r].frame = f /\ clo'[r].status = "READY"
  BY SMTT(30), <1>2 DEF Promotes
<1>6. \A g \in B : a[g] \in Closures \ Live /\ clo'[a[g]].status = "SUSPENDED"
  BY SMTT(30), <1>2 DEF Promotes
<1>7. /\ \A k \in Live : clo'[k].spawn_parent = clo[k].spawn_parent
      /\ \A k \in Closures : k = r \/ k = q \/ (\E g \in B : a[g] = k) \/ clo'[k] = clo[k]
  BY <1>2 DEF Promotes
<1> HIDE DEF r, q, f, o, b, p
<1>8. \A k \in Live : k = r \/ k = q \/ clo'[k] = clo[k]
  BY <1>6, <1>7 DEF Live
<1>9. \A k \in Closures \ Live : clo[k].child_rmap = <<>> /\ clo[k].status = "FREE"
  BY DEF SchedulerInv, Blank, FreshClosure
<1>10. \A k \in Live : clo[k].frame # 0 => clo'[k].frame = clo[k].frame
  BY <1>3, <1>4, <1>5, <1>8
<1>11. q \notin Finishing /\ \A k \in Finishing : k # r => k \in Finishing'
  <2>1. \A u \in Workers : wst[u] \in {"promote", "finish"} => clo[cl[u]].status = "RUNNING"
    BY DEF SchedulerInv, Owners, HoldsOne
  <2>2. q \notin Finishing
    BY <1>3, <2>1 DEF Finishing
  <2>3. \A u \in Workers : u # w => wst'[u] = wst[u]
    BY <1>5
  <2> QED BY <1>3, <1>5, <2>2, <2>3 DEF Finishing
<1>12. MapsKept
  <2>1. ASSUME NEW k \in Closures, clo[k].child_rmap # <<>>, clo[k].frame \in unsynced \/ k \in Finishing
        PROVE  clo'[k].frame \in unsynced' \/ k \in Finishing'
    <3>1. k \in Live
      BY <1>9, <2>1
    <3>2. CASE k = r
      BY <1>5, <3>2
    <3>3. CASE k # r /\ clo[k].frame \in unsynced
      <4>1. clo[k].frame # 0
        BY <3>3, FramesPositive DEF SchedulerInv, TypeOK
      <4> QED BY <1>5, <1>10, <3>1, <3>3, <4>1
    <3>4. CASE k # r /\ k \in Finishing
      BY <1>11, <3>4
    <3> QED BY <2>1, <3>2, <3>3, <3>4
  <2>2. ASSUME NEW k \in Closures, clo[k].status = "SUSPENDED", ~clo[k].has_cilk_callee PROVE clo'[k] = clo[k]
    BY <1>3, <1>6, <1>7, <1>9, <2>2
  <2>3. \A k \in Closures : clo'[k].status = "RETURNING" => clo[k].status = "RETURNING"
    BY <1>5, <1>6, <1>7
  <2> QED BY <1>5, <2>1, <2>2, <2>3 DEF MapsKept
<1>13. ASSUME NEW u \in Workers PROVE BringsSame(u)
  <2>1. CASE u = w
    <3>1. Holds(w)' = r
      BY <1>3, <1>5 DEF Holds
    <3> QED BY <1>5, <2>1, <3>1 DEF BringsSame, Brings
  <2>2. CASE u # w
    <3>1. wst'[u] = wst[u] /\ cl'[u] = cl[u] /\ dq'[u] = dq[u] /\ cur'[u] = cur[u] /\ ftf'[u] = ftf[u]
      BY <1>5, <2>2
    <3>2. ASSUME NEW k \in Live, clo'[k].status = "RETURNING"
          PROVE  /\ clo[k].status = "RETURNING" /\ clo'[k].spawn_parent = clo[k].spawn_parent
                 /\ clo[k].spawn_parent \in Live => clo'[clo[k].spawn_parent].frame = clo[clo[k].spawn_parent].frame
      <4>1. clo[k].spawn_parent # 0 => clo[clo[k].spawn_parent].frame # 0
        BY <3>2 DEF SchedulerInv, Placed
      <4>2. 0 \notin Live
        BY NotNull DEF Live
      <4>3. clo[k].status = "RETURNING"
        BY <1>5, <1>8, <3>2
      <4> QED BY <1>7, <1>10, <3>2, <4>1, <4>2, <4>3
    <3> QED BY <3>1, <3>2, BringsOutside
  <2> QED BY <2>1, <2>2
<1> QED BY SMTT(30), <1>12, <1>13

\* Nothing is handed over before the first step.
LEMMA InitHandover == Init => MapsInPlace /\ ComesBack
<1> SUFFICES ASSUME Init PROVE MapsInPlace /\ ComesBack
  OBVIOUS
<1>1. \A c \in Closures : clo[c].child_rmap = <<>> /\ clo[c].user_rmap = <<>> /\ clo[c].status \in {"READY", "FREE"}
  BY DEF Init, FreshClosure
<1>2. MapsInPlace
  BY <1>1 DEF MapsInPlace, MapsOf
<1>3. \A v \in Workers : ~Brings(v)
  <2>1. SchedulerInv
    BY InitInv
  <2> QED BY <1>1, <2>1, HeldLive DEF Brings, Live
<1> QED BY <1>2, <1>3 DEF ComesBack

\* Every step of the specification keeps the hand-over.
LEMMA NextHandover ==
  ASSUME SchedulerInv, MapsInPlace, ComesBack, [Next]_vars
  PROVE  MapsInPlace' /\ ComesBack'
<1>1. ASSUME MapsKept, \A v \in Workers : BringsSame(v) PROVE MapsInPlace' /\ ComesBack'
  BY <1>1, HandoverKept
<1>2. ASSUME NEW w \in Workers, Work(w) PROVE MapsInPlace' /\ ComesBack'
  <2>1. CASE ExecuteReady(w) \/ FinishPromote(w)
    BY <1>1, <2>1, ReadyHandover
  <2>2. CASE Spawn(w) \/ Call(w) \/ LeaveCalled(w) \/ LeavePop(w) \/ BackInRuntime(w) \/ ExitRoot(w)
    BY <1>1, <2>2, MovesHandover
  <2>3. CASE \/ Update(w) \/ Throw(w) \/ EndTry(w) \/ (Sync(w) /\ cur[w] \notin unsynced)
             \/ CheckException(w) \/ Reraise(w) \/ Catch(w)
             \/ ExecuteReturning(w) \/ Relock(w) \/ ReduceExn(w) \/ DepositExn(w) \/ ReduceMaps(w)
    <3>1. Quiet(w)
      BY <2>3, UserQuiet, RaiseQuiet, CatchQuiet, StartQuiet, ReduceExnQuiet, DepositQuiet, ReduceMapsQuiet
    <3>2. Shrinks(clo, clo') /\ ftf' = ftf
      BY <2>3, QuietShrinks
    <3> QED BY <1>1, <3>1, <3>2, QuietHandover
  <2>4. CASE (Sync(w) /\ cur[w] \in unsynced) \/ UnwindSync(w)
    BY <2>4, SyncHandover
  <2>5. CASE LeaveStolen(w)
    BY <2>5, LeaveStolenHandover
  <2>6. CASE SetReturn(w)
    BY <2>6, SetReturnHandover
  <2>7. CASE PromoteStacklet(w)
    BY <1>1, <2>7, PromoteHandover
  <2>8. CASE Return(w)
    BY <2>8, ReturnHandover
  <2> QED BY <1>2, <2>1, <2>2, <2>3, <2>4, <2>5, <2>6, <2>7, <2>8 DEF Work
<1>3. ASSUME NEW w \in Workers, NEW v \in Workers, StealFull(w, v) \/ StealStacklet(w, v)
      PROVE  MapsInPlace' /\ ComesBack'
  BY <1>1, <1>3, StealFullHandover, StealStackletHandover
<1>4. CASE UNCHANGED vars
  <2>1. Boss \in Workers
    BY SchedulerAssumption
  <2>2. Quiet(Boss)
    BY <1>4 DEF vars, Quiet, Same, SameFrames, SameLists, SamePlace, SameList, Dead, Ahead
  <2>3. Shrinks(clo, clo') /\ ftf' = ftf
    BY <1>4 DEF vars, Shrinks
  <2> QED BY <1>1, <2>1, <2>2, <2>3, QuietHandover
<1> QED BY <1>2, <1>3, <1>4 DEF Next, Finished

\* What Cilk_sync asserts of the frame that syncs and of its closure.
LEMMA SyncAsserted ==
  ASSUME SchedulerInv, MapsInPlace
  PROVE  SyncAsserts
<1> SUFFICES ASSUME NEW w \in Workers, Running(w), cur[w] \in unsynced
             PROVE  LET t == clo[dq[w]] IN
                    /\ cur[w] \in stolen /\ t.status = "RUNNING" /\ t.frame = cur[w]
                    /\ shadow[w] = <<>> /\ ~t.has_cilk_callee /\ t.user_rmap = <<>>
  BY DEF SyncAsserts
<1> DEFINE c == dq[w]
<1>1. AtWork(w)
  BY RunFacts DEF Running
<1>2. clo[c].frame = cur[w] /\ cur[w] \in stolen
  BY <1>1, WorkUnsynced
<1>3. c \in Closures /\ clo[c].status = "RUNNING" /\ ~clo[c].has_cilk_callee
  BY <1>1 DEF AtWork
<1>4. shadow[w] = <<>>
  <2>1. cur[w] \in Frames /\ shadow[w] \in Seq(Frames) /\ BaseOf(Outer(c), cur[w], clo[c].spawn_parent)
        /\ FitsStack(Outer(c), cur[w], clo[c].spawn_parent, stolen, cur[w], shadow[w])
    BY <1>1, <1>2 DEF AtWork
  <2> QED BY <2>1, BaseShadow
<1>5. clo[c].user_rmap = <<>>
  BY <1>3 DEF MapsInPlace, MapsOf
<1> QED BY <1>2, <1>3, <1>4, <1>5

\* What Closure_return asserts of the returning child and of its parent.
LEMMA ReturnAsserted ==
  ASSUME SchedulerInv, MapsInPlace, ComesBack
  PROVE  ReturnAsserts
<1> SUFFICES ASSUME NEW w \in Workers, wst[w] \in {"exn", "red", "relock"}
             PROVE  LET c == clo[cl[w]]
                        p == clo[c.spawn_parent] IN
                    /\ c.status = "RETURNING" /\ ~HasChildren(c)
                    /\ c.child_rmap = <<>> /\ c.user_rmap = <<>>
                    /\ c.spawn_parent # 0 /\ p.frame = cur[w] /\ p.status # "RETURNING"
                    /\ ftf[w] = 0
  BY DEF ReturnAsserts
<1> DEFINE c == cl[w]
           p == clo[c].spawn_parent
<1>1. HoldsOne(w) /\ Lists(clo)
  BY DEF SchedulerInv, Owners
<1>2. AtReturn(w)
  BY <1>1, ReturnFacts DEF HoldsOne
<1>3. c \in Closures /\ c \in Live /\ c # 0 /\ clo[c].status = "RETURNING" /\ clo[c].join_counter = 0
      /\ ~clo[c].has_cilk_callee /\ p # 0 /\ p \in Live /\ clo \in Trees
  BY <1>2 DEF AtReturn
<1>4. clo[c].child_rmap = <<>> /\ clo[c].user_rmap = <<>>
  BY <1>3 DEF MapsInPlace, MapsOf
<1>5. Holds(w) = c /\ Brings(w)
  BY <1>3 DEF Holds, Brings
<1>6. cur[w] = clo[p].frame /\ ftf[w] = 0
  BY <1>5 DEF ComesBack
<1>7. clo[p].status # "RETURNING"
  <2>1. clo[p].join_counter \in Nat \ {0}
    BY <1>1, <1>3, SiblingsLive
  <2> QED BY <1>3, <2>1 DEF SchedulerInv, Unsynched
<1> QED BY <1>3, <1>4, <1>6, <1>7 DEF HasChildren

\* No CILK_ASSERT of a sync, a return or the resumption of a parent fails,
\* whatever the other workers do to the closure tree in between: the frame
\* that syncs is on top of its stack and has no saved views, and a child that
\* returns has synched, brings no views but its own and finds its parent.
THEOREM AssertsAlways == Spec => []Asserts
<1>1. Init => SchedulerInv /\ MapsInPlace /\ ComesBack
  BY InitInv, InitHandover
<1>2. SchedulerInv /\ MapsInPlace /\ ComesBack /\ [Next]_vars => (SchedulerInv /\ MapsInPlace /\ ComesBack)'
  BY NextKeeps, NextHandover
<1>3. SchedulerInv /\ MapsInPlace /\ ComesBack => Asserts
  BY SyncAsserted, ReturnAsserted DEF Asserts
<1> QED BY <1>1, <1>2, <1>3, PTL DEF Spec
=============================================================================
