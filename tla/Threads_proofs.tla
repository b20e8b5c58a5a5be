--------------------------- MODULE Threads_proofs ---------------------------
(***************************************************************************)
(* Proofs about Threads, for every set of CPUs, every configuration and    *)
(* any number of threads and of keys.                                      *)
(***************************************************************************)
EXTENDS Threads, FiniteSetTheorems, SequenceTheorems, TLAPS

\* The loop of cilk_cfg_from_env and that of threads_init.
Parsing == INSTANCE FoldInduction WITH Op <- Entry
Binding == INSTANCE FoldInduction WITH Op <- BindOne

-----------------------------------------------------------------------------
(* Configuration *)

\* The last of the first k entries for cpuset.
LastOf(value, k) ==
    {i \in 1 .. k : /\ value[i].name = "cpuset"
                    /\ \A j \in 1 .. k : value[j].name = "cpuset" => j <= i}
NamedBy(value, k) == UNION {ToSet(value[i].data) : i \in LastOf(value, k)}

\* What cilk_cfg_from_env has read after k entries.
Read(value, k) == [n_workers : Nat, boss_affinity : {NamedBy(value, k)}]

LEMMA NamedStep ==
  ASSUME NEW value, NEW n \in Nat, NEW k \in 1 .. n
  PROVE  NamedBy(value, k) = IF value[k].name = "cpuset" THEN ToSet(value[k].data)
                             ELSE NamedBy(value, k - 1)
<1>1. CASE value[k].name = "cpuset"
  <2>1. LastOf(value, k) = {k}
    BY <1>1 DEF LastOf
  <2> QED BY <1>1, <2>1 DEF NamedBy
<1>2. CASE value[k].name # "cpuset"
  <2>1. \A i \in 1 .. k : i \in 1 .. k - 1 \/ i = k
    OBVIOUS
  <2>2. 1 .. k - 1 \subseteq 1 .. k
    OBVIOUS
  <2>3. LastOf(value, k) = LastOf(value, k - 1)
    BY <1>2, <2>1, <2>2 DEF LastOf
  <2> QED BY <1>2, <2>3 DEF NamedBy
<1> QED BY <1>1, <1>2

\* cilk_cfg_from_env takes the CPUs of the last entry for cpuset, and a
\* number for nworkers.
LEMMA Configured ==
  ASSUME NEW value, value # None, Len(value) \in Nat, DOMAIN value = 1 .. Len(value),
         \A i \in DOMAIN value : value[i].name = "nworkers" => value[i].data \in Nat,
         NEW affinity
  PROVE  /\ cilk_cfg_from_env(value, affinity).n_workers \in Nat
         /\ cilk_cfg_from_env(value, affinity).boss_affinity = Named(value)
<1> DEFINE n == Len(value)
           I == [k \in 0 .. n |-> Read(value, k)]
           base == [n_workers |-> 0, boss_affinity |-> {}]
<1>1. base \in I[0]
  <2>1. NamedBy(value, 0) = {}
    BY DEF NamedBy, LastOf
  <2>2. base \in Read(value, 0)
    BY <2>1 DEF Read
  <2> QED BY <2>2
<1>2. ASSUME NEW k \in 1 .. n, NEW s \in I[k - 1] PROVE Entry(s, value[k]) \in I[k]
  <2>1. I[k] = Read(value, k) /\ I[k - 1] = Read(value, k - 1)
    OBVIOUS
  <2>2. s.n_workers \in Nat /\ s.boss_affinity = NamedBy(value, k - 1)
    BY <2>1 DEF Read
  <2>3. NamedBy(value, k) = IF value[k].name = "cpuset" THEN ToSet(value[k].data)
                            ELSE NamedBy(value, k - 1)
    BY NamedStep
  <2>4. value[k].name = "nworkers" => value[k].data \in Nat
    OBVIOUS
  <2> HIDE DEF I
  <2> QED BY <2>1, <2>2, <2>3, <2>4 DEF Entry, Read
<1>3. Parsing!FoldLeft(Entry, base, value) \in I[n]
  <2> HIDE DEF I
  <2> QED BY <1>1, <1>2, Parsing!FoldInvariant
<1>4. FoldLeft(Entry, base, value) = Parsing!FoldLeft(Entry, base, value)
  BY DEF FoldLeft, Parsing!FoldLeft, MapThenFoldSet, Parsing!MapThenFoldSet, Max, Parsing!Max
<1>5. cilk_cfg_from_env(value, affinity) \in Read(value, n)
  BY <1>3, <1>4 DEF cilk_cfg_from_env
<1>6. NamedBy(value, n) = Named(value)
  BY DEF NamedBy, LastOf, Named
<1> QED BY <1>5, <1>6 DEF Read

-----------------------------------------------------------------------------
(* threads_init *)

\* (w + 1) groups of g CPUs are no more than n of them.
LEMMA Shares ==
  ASSUME NEW n \in Nat, NEW g \in Nat, NEW w \in Nat, w + 1 <= n
  PROVE  (w + 1) * g <= n * g /\ (w + 1) * g = w * g + g
<1>1. (w + 1) * g = w * g + g
  OBVIOUS
<1>2. n * g = (w + 1) * g + (n - (w + 1)) * g
  OBVIOUS
<1>3. (n - (w + 1)) * g >= 0
  OBVIOUS
<1> QED BY <1>1, <1>2, <1>3

LEMMA Quotient ==
  ASSUME NEW m \in Nat, NEW n \in Nat, n >= 1, n <= m
  PROVE  m \div n \in Nat /\ m \div n >= 1 /\ n * (m \div n) <= m
OBVIOUS

\* What threads_init has done for w workers.  All CPUs left are ahead of the
\* search, and no worker took more than its share.
Share(s, P, g, w) ==
    /\ \A c \in s.mask : c >= s.cpu
    /\ Cardinality(s.mask) + w * g >= Cardinality(P)
    /\ Len(s.cpus) = w
    /\ \A v \in 1 .. w : s.cpus[v] # {} /\ s.cpus[v] \cap s.mask = {} /\ Cardinality(s.cpus[v]) <= g
    /\ \A u, v \in 1 .. w : u # v => s.cpus[u] \cap s.cpus[v] = {}
Locals(P, g, in_, out) ==
    [mask : SUBSET P, cpu : Nat, cpus : Seq(SUBSET P),
     group_size : {g}, step_in : {in_}, step_out : {out}]
Bindings(P, g, in_, out, w) == {s \in Locals(P, g, in_, out) : Share(s, P, g, w)}

\* A group is not larger than group_size.
LEMMA GroupSize ==
  ASSUME NEW cpu \in Nat, NEW g \in Nat \ {0}, NEW s, s.group_size = g, s.step_in \in Nat
  PROVE  IsFiniteSet(Group(s, cpu)) /\ Cardinality(Group(s, cpu)) <= g
<1> DEFINE f == [k \in 1 .. g |-> cpu + (k - 1) * s.step_in]
           T == {f[k] : k \in 1 .. g}
<1>1. f \in Surjection(1 .. g, T)
  BY DEF Surjection
<1>2. Cardinality(1 .. g) = g /\ IsFiniteSet(1 .. g)
  BY FS_Interval
<1>3. IsFiniteSet(T) /\ Cardinality(T) <= g
  <2> HIDE DEF f, T
  <2> QED BY <1>1, <1>2, FS_Surjection
<1>4. Group(s, cpu) \subseteq T
  <2>1. cpu \in T
    <3>1. 1 \in 1 .. g /\ f[1] = cpu
      OBVIOUS
    <3> QED BY <3>1
  <2>2. ASSUME NEW off \in 1 .. s.group_size - 1 PROVE cpu + off * s.step_in \in T
    <3>1. off + 1 \in 1 .. g /\ (off + 1) - 1 = off
      OBVIOUS
    <3>2. f[off + 1] = cpu + off * s.step_in
      BY <3>1
    <3> QED BY <3>1, <3>2
  <2> HIDE DEF T
  <2> QED BY <2>1, <2>2 DEF Group
<1>5. IsFiniteSet(Group(s, cpu)) /\ Cardinality(Group(s, cpu)) <= Cardinality(T)
  <2> HIDE DEF T
  <2> QED BY <1>3, <1>4, FS_Subset
<1>6. Cardinality(T) \in Nat /\ Cardinality(Group(s, cpu)) \in Nat
  BY <1>3, <1>5, FS_CardinalityType
<1> HIDE DEF T
<1> QED BY <1>3, <1>5, <1>6

\* One worker more.  There is a CPU for it, since the workers before it took
\* no more than their share; and the search starts behind what it took.
LEMMA BindOneMore ==
  ASSUME NEW P \in SUBSET Nat, IsFiniteSet(P), NEW n \in Nat, NEW g \in Nat \ {0},
         n * g <= Cardinality(P), NEW w \in Nat, w + 1 <= n,
         NEW in_ \in Nat, NEW out \in Nat, (in_ = 1 /\ out = g) \/ out = 1,
         NEW s \in Bindings(P, g, in_, out, w)
  PROVE  BindOne(s, w + 1) \in Bindings(P, g, in_, out, w + 1)
<1> DEFINE cpu == NextCpu(s)
           group == Group(s, cpu)
           rest == s.mask \ group
<1>1. /\ s.mask \in SUBSET P /\ s.cpu \in Nat /\ s.cpus \in Seq(SUBSET P)
      /\ s.group_size = g /\ s.step_in = in_ /\ s.step_out = out
      /\ Share(s, P, g, w)
  BY DEF Bindings, Locals
<1>2. IsFiniteSet(s.mask) /\ Cardinality(s.mask) \in Nat /\ Cardinality(P) \in Nat
  BY <1>1, FS_Subset, FS_CardinalityType
<1>3. s.mask # {}
  <2>1. Cardinality(s.mask) + w * g >= Cardinality(P)
    BY <1>1 DEF Share
  <2>2. w * g + g <= n * g /\ w * g \in Nat
    BY Shares
  <2>3. n * g \in Nat
    OBVIOUS
  <2>4. Cardinality(s.mask) >= g
    BY <1>2, <2>1, <2>2, <2>3
  <2>5. Cardinality(s.mask) # 0
    BY <1>2, <2>4
  <2> QED BY <2>5, FS_EmptySet
<1>4. cpu \in s.mask /\ cpu >= s.cpu /\ \A c \in s.mask : c >= cpu
  <2>1. {c \in s.mask : c >= s.cpu} = s.mask
    BY <1>1 DEF Share
  <2>2. s.mask \in SUBSET Nat
    BY <1>1
  <2>3. cpu = Min(s.mask)
    BY <2>1 DEF NextCpu
  <2>4. cpu \in s.mask /\ \A c \in s.mask : cpu <= c
    BY <1>3, <2>2, <2>3, Parsing!MinOf DEF Min, Parsing!Min
  <2> HIDE DEF cpu
  <2> QED BY <1>1, <2>2, <2>4 DEF Share
<1> HIDE DEF cpu
<1>5. cpu \in Nat /\ cpu \in group /\ group \subseteq s.mask /\ group \subseteq P
  BY <1>1, <1>4 DEF Group
<1>6. IsFiniteSet(group) /\ Cardinality(group) <= g /\ Cardinality(group) \in Nat
  BY <1>1, <1>5, GroupSize, FS_CardinalityType
<1>7. \A c \in rest : c >= cpu + out
  <2> SUFFICES ASSUME NEW c \in s.mask, c \notin group PROVE c >= cpu + out
    OBVIOUS
  <2>1. c \in Nat /\ c >= cpu /\ c # cpu
    BY <1>1, <1>4, <1>5
  <2>2. CASE out = 1
    BY <1>5, <2>1, <2>2
  <2>3. CASE in_ = 1 /\ out = g
    <3> DEFINE off == c - cpu
    <3>1. off \in Nat /\ off >= 1 /\ c = cpu + off * s.step_in
      BY <1>1, <1>5, <2>1, <2>3
    <3>2. off \notin 1 .. g - 1
      <4> HIDE DEF off
      <4> QED BY <1>1, <3>1 DEF Group
    <3>3. off >= g
      BY <3>1, <3>2
    <3> QED BY <1>5, <2>1, <2>3, <3>3
  <2> QED BY <2>2, <2>3
<1>8. Cardinality(rest) + (w + 1) * g >= Cardinality(P)
  <2>1. s.mask \cap group = group
    BY <1>5
  <2>2. Cardinality(rest) = Cardinality(s.mask) - Cardinality(group)
    BY <1>2, <2>1, FS_Difference
  <2>3. (w + 1) * g = w * g + g /\ w * g \in Nat
    BY Shares
  <2>4. Cardinality(s.mask) + w * g >= Cardinality(P)
    BY <1>1 DEF Share
  <2> HIDE DEF rest, group
  <2> QED BY <1>2, <1>6, <2>2, <2>3, <2>4
<1> DEFINE cpus == Append(s.cpus, group)
<1>9. /\ cpus \in Seq(SUBSET P) /\ Len(cpus) = w + 1
      /\ cpus[w + 1] = group /\ \A v \in 1 .. w : cpus[v] = s.cpus[v]
  <2>1. Len(s.cpus) = w /\ group \in SUBSET P
    BY <1>1, <1>5 DEF Share
  <2> HIDE DEF group
  <2> QED BY <1>1, <2>1, AppendProperties
<1> DEFINE t == BindOne(s, w + 1)
<1>10. t = [mask |-> rest, cpu |-> cpu + out, cpus |-> cpus,
            group_size |-> g, step_in |-> in_, step_out |-> out]
  BY <1>1 DEF BindOne, Bound, cpu
<1> HIDE DEF t, cpus
<1>11. t \in Locals(P, g, in_, out)
  <2>1. rest \in SUBSET P /\ cpu + out \in Nat
    BY <1>1, <1>5
  <2> HIDE DEF rest
  <2> QED BY <1>9, <1>10, <2>1 DEF Locals
<1>12. t.mask = rest /\ t.cpu = cpu + out /\ t.cpus = cpus
  BY <1>10
<1>13. ASSUME NEW v \in 1 .. w + 1
       PROVE  cpus[v] # {} /\ cpus[v] \cap rest = {} /\ Cardinality(cpus[v]) <= g
  <2>1. CASE v \in 1 .. w
    BY <1>1, <1>9, <2>1 DEF Share
  <2>2. CASE v = w + 1
    BY <1>5, <1>6, <1>9, <2>2
  <2> QED BY <2>1, <2>2
<1>14. ASSUME NEW u \in 1 .. w + 1, NEW v \in 1 .. w + 1, u # v
       PROVE  cpus[u] \cap cpus[v] = {}
  <2>1. \A x \in 1 .. w : cpus[x] \cap group = {}
    BY <1>1, <1>5, <1>9 DEF Share
  <2>2. CASE u \in 1 .. w /\ v \in 1 .. w
    BY <1>1, <1>9, <1>14, <2>2 DEF Share
  <2>3. CASE u = w + 1
    <3>1. v \in 1 .. w
      BY <1>14, <2>3
    <3> QED BY <1>9, <2>1, <2>3, <3>1
  <2>4. CASE v = w + 1
    <3>1. u \in 1 .. w
      BY <1>14, <2>4
    <3> QED BY <1>9, <2>1, <2>4, <3>1
  <2> QED BY <2>2, <2>3, <2>4
<1>15. Share(t, P, g, w + 1)
  <2> HIDE DEF rest
  <2> QED BY <1>7, <1>8, <1>9, <1>12, <1>13, <1>14 DEF Share
<1> QED BY <1>11, <1>15 DEF Bindings, t

\* What threads_init makes of the CPUs of mask: a share for each worker,
\* also when there is one CPU and a fraction for each, or all of them.
Dealt(cpus, mask, n, pin) ==
    /\ Len(cpus) = n
    /\ \A w \in 1 .. n : cpus[w] # {} /\ cpus[w] \subseteq mask
    /\ pin # 3 /\ n <= Cardinality(mask) =>
         /\ \A w \in 1 .. n : Cardinality(cpus[w]) <= Cardinality(mask) \div n
         /\ \A v, w \in 1 .. n : v # w => cpus[v] \cap cpus[w] = {}

LEMMA ThreadsInit ==
  ASSUME NEW P \in SUBSET Cpus, P # {}, NEW n \in Nat, n >= 1
  PROVE  LET cpus == threads_init(P, n) IN
         cpus \in Seq(SUBSET Cpus) /\ Dealt(cpus, P, n, env.pin)
<1>1. IsFiniteSet(P) /\ P \in SUBSET Nat /\ Cardinality(P) \in Nat
  BY ThreadsAssumption, FS_Subset, FS_CardinalityType
<1>2. CASE env.pin = 3 \/ n > Cardinality(P)
  <2> DEFINE cpus == [w \in 1 .. n |-> P]
  <2>1. threads_init(P, n) = cpus
    BY <1>2 DEF threads_init
  <2>2. cpus \in Seq(SUBSET Cpus) /\ Len(cpus) = n
    OBVIOUS
  <2>3. \A w \in 1 .. n : cpus[w] = P
    OBVIOUS
  <2>4. ~ (env.pin # 3 /\ n <= Cardinality(P))
    BY <1>1, <1>2
  <2> HIDE DEF cpus
  <2> QED BY <2>1, <2>2, <2>3, <2>4 DEF Dealt
<1>3. CASE ~ (env.pin = 3 \/ n > Cardinality(P))
  <2> DEFINE g == Cardinality(P) \div n
             in_ == IF env.pin = 2 THEN 1 ELSE g
             out == IF env.pin = 2 THEN g ELSE 1
             I == [k \in 0 .. n |-> Bindings(P, g, in_, out, k)]
             base == [mask |-> P, cpu |-> 0, cpus |-> <<>>,
                      group_size |-> g, step_in |-> in_, step_out |-> out]
             seq == [w \in 1 .. n |-> w]
  <2>1. n <= Cardinality(P)
    BY <1>1, <1>3
  <2>2. g \in Nat \ {0} /\ n * g <= Cardinality(P)
    BY <1>1, <2>1, Quotient
  <2> HIDE DEF g
  <2>3. in_ \in Nat /\ out \in Nat /\ ((in_ = 1 /\ out = g) \/ out = 1)
    BY <2>2
  <2>4. base = [mask |-> P, cpu |-> 0, cpus |-> <<>>,
                group_size |-> g, step_in |-> in_, step_out |-> out]
    OBVIOUS
  <2>5. threads_init(P, n) = FoldLeft(BindOne, base, seq).cpus
    BY <1>3 DEF threads_init, g
  <2> HIDE DEF in_, out
  <2>6. base \in Bindings(P, g, in_, out, 0)
    <3>1. base \in Locals(P, g, in_, out)
      BY DEF Locals
    <3>2. 0 * g = 0
      BY <2>2
    <3>3. Share(base, P, g, 0)
      BY <1>1, <3>2 DEF Share
    <3> HIDE DEF base
    <3> QED BY <3>1, <3>3 DEF Bindings
  <2> HIDE DEF base
  <2>7. ASSUME NEW k \in 1 .. n, NEW s \in I[k - 1] PROVE BindOne(s, seq[k]) \in I[k]
    <3> DEFINE w == k - 1
    <3>1. w \in Nat /\ w + 1 <= n /\ w + 1 = k /\ seq[k] = w + 1
      OBVIOUS
    <3>2. I[k - 1] = Bindings(P, g, in_, out, w) /\ I[k] = Bindings(P, g, in_, out, w + 1)
      BY <3>1
    <3> HIDE DEF w, I, seq
    <3>3. s \in Bindings(P, g, in_, out, w)
      BY <3>2
    <3>4. BindOne(s, w + 1) \in Bindings(P, g, in_, out, w + 1)
      BY ONLY <1>1, <2>2, <2>3, <3>1, <3>3, BindOneMore, n \in Nat
    <3> QED BY <3>1, <3>2, <3>4
  <2>8. base \in I[0]
    BY <2>6
  <2>9. DOMAIN seq = 1 .. n
    OBVIOUS
  <2>10. I[n] = Bindings(P, g, in_, out, n)
    OBVIOUS
  <2> HIDE DEF I, seq
  <2>11. Binding!FoldLeft(BindOne, base, seq) \in I[n]
    BY <2>7, <2>8, <2>9, Binding!FoldInvariant
  <2>12. FoldLeft(BindOne, base, seq) = Binding!FoldLeft(BindOne, base, seq)
    BY DEF FoldLeft, Binding!FoldLeft, MapThenFoldSet, Binding!MapThenFoldSet, Max, Binding!Max
  <2>13. PICK s \in Bindings(P, g, in_, out, n) : threads_init(P, n) = s.cpus
    BY <2>5, <2>10, <2>11, <2>12
  <2>14. s.cpus \in Seq(SUBSET P) /\ Share(s, P, g, n)
    BY <2>13 DEF Bindings, Locals
  <2>15. s.cpus \in Seq(SUBSET Cpus) /\ \A w \in 1 .. Len(s.cpus) : s.cpus[w] \subseteq P
    BY <2>14
  <2> QED BY <2>13, <2>14, <2>15 DEF Share, Dealt, g
<1> QED BY <1>2, <1>3
-----------------------------------------------------------------------------
(* The invariant *)

\* Pinned, for the CPUs of one runtime.
Bind(cpus, mask, n, pin) ==
    /\ Len(cpus) = n
    /\ \A w \in 1 .. n : cpus[w] # {} /\ cpus[w] \subseteq mask
    /\ pin # 3 /\ (2 * n <= Cardinality(mask) \/ n = Cardinality(mask)) =>
         /\ \A w \in 1 .. n : Cardinality(cpus[w]) <= Cardinality(mask) \div n
         /\ \A v, w \in 1 .. n : v # w => cpus[v] \cap cpus[w] = {}
Pin(r, pin) == r.workers_started => Bind(r.cpus, r.mask, r.nworkers, pin)

LEMMA PinnedIs == Pinned <=> \A t \in Threads : Pin(rt[t], env.pin)
BY DEF Pinned, Pin, Bind, OwnCpus

\* threads_init gives out more than Pinned asks for.
LEMMA DealtBinds ==
  ASSUME NEW cpus, NEW mask, NEW n \in Nat, NEW pin, Cardinality(mask) \in Nat,
         Dealt(cpus, mask, n, pin)
  PROVE  Bind(cpus, mask, n, pin)
<1>1. 2 * n <= Cardinality(mask) \/ n = Cardinality(mask) => n <= Cardinality(mask)
  OBVIOUS
<1> QED BY <1>1 DEF Dealt, Bind

\* A boss is its own runtime's boss.
LEMMA CurrentIs ==
  ASSUME ThreadsInv, NEW t \in Threads
  PROVE  thrd_current(t) = t
BY DEF ThreadsInv, LifeCycle, thrd_current

\* The three states of a runtime.
LEMMA StartedIs ==
  ASSUME NEW b \in Threads \cup {None}, NEW n \in Nat
  PROVE  LET r == Started(b, n) IN
         r \in Runtime /\ r.state = "up" /\ r.boss = b /\ r.nworkers = n /\ ~r.workers_started
<1>1. <<>> \in Seq(SUBSET Cpus) /\ {} \in SUBSET Cpus
  OBVIOUS
<1>2. Started(b, n) \in Runtime
  BY <1>1 DEF Started, Runtime
<1>3. Started(b, n).state = "up" /\ Started(b, n).boss = b /\ Started(b, n).nworkers = n
  BY DEF Started
<1>4. ~Started(b, n).workers_started
  BY Zenon DEF Started
<1> QED BY <1>2, <1>3, <1>4

LEMMA NoRuntimeIs ==
  /\ NoRuntime \in Runtime /\ NoRuntime.state = "none" /\ ~NoRuntime.workers_started
<1> DEFINE r == Started(None, 0)
<1>1. r \in Runtime /\ ~r.workers_started
  BY StartedIs
<1>2. NoRuntime = [r EXCEPT !.state = "none"]
  BY DEF NoRuntime
<1> HIDE DEF r
<1>3. NoRuntime.workers_started = r.workers_started
  BY <1>1, <1>2 DEF Runtime
<1> QED BY <1>1, <1>2, <1>3 DEF Runtime

LEMMA DownIs ==
  LET r == [NoRuntime EXCEPT !.state = "down"] IN
  r \in Runtime /\ r.state = "down" /\ ~r.workers_started
<1>1. NoRuntime \in Runtime /\ ~NoRuntime.workers_started
  BY NoRuntimeIs
<1> DEFINE r == [NoRuntime EXCEPT !.state = "down"]
<1>2. r.workers_started = NoRuntime.workers_started
  BY <1>1 DEF Runtime
<1>3. r \in Runtime /\ r.state = "down"
  BY <1>1 DEF Runtime
<1> QED BY <1>1, <1>2, <1>3

LEMMA ThreadsStart == Init => ThreadsInv
<1> SUFFICES ASSUME Init PROVE ThreadsInv
  OBVIOUS
<1>1. IsFiniteSet(Cpus) /\ Cardinality(Cpus) \in Nat /\ Cardinality(Cpus) >= 1
  BY ThreadsAssumption, FS_CardinalityType, FS_EmptySet
<1>2. parse_rts_environment(0, Cpus) = Cardinality(Cpus)
  BY DEF parse_rts_environment
<1>3. /\ Started(Main, Cardinality(Cpus)) \in Runtime /\ NoRuntime \in Runtime
      /\ Started(Main, Cardinality(Cpus)).state = "up" /\ NoRuntime.state = "none"
      /\ Started(Main, Cardinality(Cpus)).boss = Main
      /\ Started(Main, Cardinality(Cpus)).nworkers = Cardinality(Cpus)
      /\ ~Started(Main, Cardinality(Cpus)).workers_started /\ ~NoRuntime.workers_started
  BY <1>1, ThreadsAssumption, StartedIs, NoRuntimeIs
<1>4. TypeOK
  <2>1. rt \in [Threads -> Runtime]
    BY <1>2, <1>3 DEF Init
  <2>2. [by |-> None, worker |-> FALSE] \in [by : Threads \cup {None}, worker : BOOLEAN]
    OBVIOUS
  <2>3. parent \in [Threads -> [by : Threads \cup {None}, worker : BOOLEAN]]
    BY <2>2 DEF Init
  <2>4. in \in [Threads -> BOOLEAN] /\ key \in [Threads -> BOOLEAN]
    BY DEF Init
  <2>5. aff \in [Threads -> (SUBSET Cpus) \ {{}}]
    BY ThreadsAssumption DEF Init
  <2>6. /\ env \in Environments /\ keys \in 0 .. KeysMax
        /\ pc \in [Threads -> {"none", "wrapper", "affinity", "key", "func", "exiting",
                               "done", "joined"}]
        /\ placing \in [Threads -> SUBSET Threads] /\ joining \in [Threads -> SUBSET Threads]
        /\ setting \in [Threads -> env.settings \cup {None}]
    BY ThreadsAssumption DEF Init
  <2> QED BY <2>1, <2>3, <2>4, <2>5, <2>6 DEF TypeOK
<1>5. LifeCycle
  BY <1>1, <1>2, <1>3, ThreadsAssumption DEF LifeCycle, Init
<1>6. Pinned
  <2>1. \A t \in Threads : ~rt[t].workers_started
    BY <1>2, <1>3 DEF Init
  <2> QED BY <2>1, PinnedIs DEF Pin
<1>7. KeysCounted
  <2>1. IsFiniteSet(Owners)
    BY ThreadsAssumption, FS_Subset DEF Owners
  <2>2. Cardinality(Owners) \in Nat
    BY <2>1, FS_CardinalityType
  <2> QED BY <1>2, <1>3, <2>2 DEF KeysCounted, Init
<1>8. Placed /\ KeptCpus
  BY DEF Placed, KeptCpus, Init
<1> QED BY <1>4, <1>5, <1>6, <1>7, <1>8 DEF ThreadsInv

\* thrd_create and cilk_thrd_create.
LEMMA CreateKeeps ==
  ASSUME ThreadsInv, NEW t \in Threads, NEW u \in Threads, NEW first \in {"func", "wrapper"},
         NEW value \in env.settings \cup {None}, Create(t, u, first, value),
         first = "func" => value = None
  PROVE  ThreadsInv'
<1>1. TypeOK /\ LifeCycle /\ Pinned /\ KeysCounted /\ Placed /\ KeptCpus
  BY DEF ThreadsInv
<1>2. pc[u] = "none" /\ u # Main
  <2>1. u \in Unused
    BY ThreadsAssumption DEF Create, NewThread
  <2> QED BY <1>1, <2>1 DEF Unused, LifeCycle
<1>3. /\ UNCHANGED <<env, in, joining, key, keys, rt>>
      /\ pc' = [pc EXCEPT ![u] = first] /\ setting' = [setting EXCEPT ![u] = value]
      /\ parent' = [parent EXCEPT ![u] = [by |-> t, worker |-> in[t]]]
      /\ placing' = [placing EXCEPT ![t] = IF in[t] THEN placing[t] \cup {u} ELSE placing[t]]
  BY DEF Create
<1>4. PICK mask \in (SUBSET Cpus) \ {{}} : aff' = [aff EXCEPT ![u] = mask]
  <2>1. PICK mask \in CallerAffinities(t) : aff' = [aff EXCEPT ![u] = mask]
    BY DEF Create
  <2>2. CASE ~in[t]
    BY <1>1, <2>1, <2>2 DEF CallerAffinities, TypeOK
  <2>3. CASE in[t]
    <3>1. rt[t].workers_started /\ rt[t].mask \in SUBSET Cpus /\ rt[t].cpus \in Seq(SUBSET Cpus)
      BY <1>1, <2>3 DEF LifeCycle, TypeOK, Runtime
    <3>2. Bind(rt[t].cpus, rt[t].mask, rt[t].nworkers, env.pin)
      BY <1>1, <3>1, PinnedIs DEF Pin
    <3>3. \A w \in DOMAIN rt[t].cpus : rt[t].cpus[w] \in (SUBSET Cpus) \ {{}}
      BY <3>1, <3>2 DEF Bind
    <3>4. mask \in (SUBSET Cpus) \ {{}}
      BY <2>1, <2>3, <3>3 DEF CallerAffinities, ToSet
    <3> QED BY <2>1, <3>4
  <2> QED BY <2>2, <2>3
<1>5. TypeOK'
  BY <1>1, <1>3, <1>4 DEF TypeOK, Runtime
<1>6. LifeCycle'
  BY <1>1, <1>2, <1>3 DEF LifeCycle, TypeOK
<1>7. Pinned'
  BY <1>1, <1>3, PinnedIs DEF Pinned, OwnCpus
<1>8. KeysCounted'
  BY <1>1, <1>2, <1>3 DEF KeysCounted, Owners, LifeCycle, TypeOK
<1>9. Placed'
  BY <1>1, <1>2, <1>3, ThreadsAssumption DEF Placed, TypeOK
<1>10. KeptCpus'
  BY <1>1, <1>2, <1>3, <1>4 DEF KeptCpus, LifeCycle, TypeOK
<1> QED BY <1>5, <1>6, <1>7, <1>8, <1>9, <1>10 DEF ThreadsInv

\* The rest of thrd_create on a worker.
LEMMA PlaceKeeps ==
  ASSUME ThreadsInv, NEW t \in Threads, NEW u \in Threads, PlaceThread(t, u)
  PROVE  ThreadsInv'
<1>1. TypeOK /\ LifeCycle /\ Pinned /\ KeysCounted /\ Placed /\ KeptCpus
  BY DEF ThreadsInv
<1>2. /\ UNCHANGED <<env, pc, in, joining, setting, parent, key, keys, rt>>
      /\ u \in placing[t] /\ placing' = [placing EXCEPT ![t] = placing[t] \ {u}]
      /\ aff' = [aff EXCEPT ![u] = IF pc[u] \in {"done", "joined"} THEN aff[u] ELSE aff[t]]
  BY CurrentIs DEF PlaceThread
<1>3. aff[t] # {}
  BY <1>1 DEF TypeOK
<1>4. TypeOK'
  BY <1>1, <1>2, <1>3 DEF TypeOK, Runtime
<1>5. LifeCycle' /\ Pinned' /\ KeysCounted'
  BY <1>1, <1>2 DEF LifeCycle, Pinned, OwnCpus, KeysCounted, Owners
<1>6. Placed'
  BY <1>1, <1>2 DEF Placed, TypeOK
<1>7. KeptCpus'
  BY <1>1, <1>2, <1>3 DEF KeptCpus, Placed, TypeOK
<1> QED BY <1>4, <1>5, <1>6, <1>7 DEF ThreadsInv

\* A number of workers is at least 1.
LEMMA SomeWorkers ==
  ASSUME TypeOK, NEW u \in Threads
  PROVE  LET n == parse_rts_environment(Config(u).n_workers, aff[u]) IN n \in Nat /\ n >= 1
<1>1. IsFiniteSet(aff[u]) /\ aff[u] # {} /\ IsFiniteSet(Cpus)
  BY ThreadsAssumption, FS_Subset DEF TypeOK
<1>2. Cardinality(aff[u]) \in Nat /\ Cardinality(aff[u]) >= 1 /\ Cardinality(Cpus) \in Nat
  BY <1>1, FS_CardinalityType, FS_EmptySet
<1>3. Config(u).n_workers \in Nat
  <2>1. CASE setting[u] = None
    BY <1>2, <2>1 DEF Config, cilk_cfg_from_env
  <2>2. CASE setting[u] # None
    <3>1. env \in Environments /\ setting[u] \in env.settings \ {None}
      BY <2>2 DEF TypeOK
    <3>2. /\ Len(setting[u]) \in Nat /\ DOMAIN setting[u] = 1 .. Len(setting[u])
          /\ \A i \in DOMAIN setting[u] :
               setting[u][i].name = "nworkers" => setting[u][i].data \in Nat
      BY <3>1, ThreadsAssumption
    <3> QED BY <2>2, <3>2, Configured DEF Config
  <2> QED BY <2>1, <2>2
<1> QED BY <1>2, <1>3 DEF parse_rts_environment

\* __cilkrts_startup.
LEMMA StartRuntimeKeeps ==
  ASSUME ThreadsInv, NEW u \in Threads, StartRuntime(u)
  PROVE  ThreadsInv'
<1> DEFINE n == parse_rts_environment(Config(u).n_workers, aff[u])
           r == Started(u, n)
<1>1. TypeOK /\ LifeCycle /\ Pinned /\ KeysCounted /\ Placed /\ KeptCpus
  BY DEF ThreadsInv
<1>2. r \in Runtime /\ r.state = "up" /\ r.boss = u /\ r.nworkers >= 1 /\ ~r.workers_started
  BY <1>1, SomeWorkers, StartedIs
<1>3. /\ UNCHANGED <<env, in, placing, joining, setting, parent, aff, key, keys>>
      /\ pc[u] = "wrapper" /\ pc' = [pc EXCEPT ![u] = "affinity"]
      /\ rt' = [rt EXCEPT ![u] = r]
  BY CurrentIs DEF StartRuntime
<1>4. u # Main /\ rt[u].state = "none" /\ ~key[u] /\ ~in[u]
  BY <1>1, <1>3 DEF LifeCycle
<1> HIDE DEF r
<1>5. TypeOK'
  BY <1>1, <1>2, <1>3 DEF TypeOK, Runtime
<1>6. LifeCycle'
  BY <1>1, <1>2, <1>3, <1>4 DEF LifeCycle, TypeOK
<1>7. Pinned'
  <2>1. \A t \in Threads : Pin(rt'[t], env.pin)
    BY <1>1, <1>2, <1>3, PinnedIs DEF Pin, TypeOK
  <2> QED BY <1>3, <2>1 DEF Pinned, Pin, Bind, OwnCpus
<1>8. KeysCounted'
  <2>1. Owners' = Owners
    BY <1>1, <1>2, <1>3, <1>4 DEF Owners, TypeOK
  <2> QED BY <1>1, <1>2, <1>3, <1>4, <2>1 DEF KeysCounted, TypeOK
<1>9. Placed'
  BY <1>1, <1>3 DEF Placed, TypeOK
<1>10. KeptCpus'
  BY <1>1, <1>2, <1>3 DEF KeptCpus, TypeOK
<1> QED BY <1>5, <1>6, <1>7, <1>8, <1>9, <1>10 DEF ThreadsInv

\* The affinity a configuration asks for.
LEMMA SetAffinityKeeps ==
  ASSUME ThreadsInv, NEW u \in Threads, SetAffinity(u)
  PROVE  ThreadsInv'
<1> DEFINE mask == Config(u).boss_affinity \cap Cpus
<1>1. TypeOK /\ LifeCycle /\ Pinned /\ KeysCounted /\ Placed /\ KeptCpus
  BY DEF ThreadsInv
<1>2. /\ UNCHANGED <<env, in, placing, joining, setting, parent, key, keys, rt>>
      /\ pc[u] = "affinity" /\ pc' = [pc EXCEPT ![u] = "key"]
      /\ aff' = [aff EXCEPT ![u] = IF mask = {} THEN aff[u] ELSE mask]
  BY DEF SetAffinity
<1>3. u # Main /\ ~in[u] /\ ~key[u] /\ rt[u].state = "up" /\ ~rt[u].workers_started
  BY <1>1, <1>2 DEF LifeCycle
<1>4. setting[u] # None => mask = Named(setting[u]) \cap Cpus
  <2> SUFFICES ASSUME setting[u] # None PROVE Config(u).boss_affinity = Named(setting[u])
    OBVIOUS
  <2>1. env \in Environments /\ setting[u] \in env.settings \ {None}
    BY <1>1 DEF TypeOK
  <2>2. /\ Len(setting[u]) \in Nat /\ DOMAIN setting[u] = 1 .. Len(setting[u])
        /\ \A i \in DOMAIN setting[u] :
             setting[u][i].name = "nworkers" => setting[u][i].data \in Nat
    BY <2>1, ThreadsAssumption
  <2> QED BY <2>2, Configured DEF Config
<1>5. mask \subseteq Cpus
  OBVIOUS
<1> HIDE DEF mask
<1>6. TypeOK'
  BY <1>1, <1>2, <1>5 DEF TypeOK, Runtime
<1>7. LifeCycle'
  BY <1>1, <1>2, <1>3 DEF LifeCycle, TypeOK
<1>8. Pinned'
  BY <1>1, <1>2 DEF Pinned, OwnCpus
<1>9. KeysCounted'
  BY <1>1, <1>2, <1>3 DEF KeysCounted, Owners, TypeOK
<1>10. Placed'
  BY <1>1, <1>2 DEF Placed, TypeOK
<1>11. KeptCpus'
  BY <1>1, <1>2, <1>3, <1>4 DEF KeptCpus, TypeOK
<1> QED BY <1>6, <1>7, <1>8, <1>9, <1>10, <1>11 DEF ThreadsInv

\* The key of the destructor.
LEMMA SetKeyKeeps ==
  ASSUME ThreadsInv, NEW u \in Threads, SetKey(u)
  PROVE  ThreadsInv'
<1>1. TypeOK /\ LifeCycle /\ Pinned /\ KeysCounted /\ Placed /\ KeptCpus
  BY DEF ThreadsInv
<1>2. PICK valid \in BOOLEAN :
        /\ UNCHANGED <<env, in, placing, joining, setting, parent, aff, rt>>
        /\ pc[u] = "key" /\ pc' = [pc EXCEPT ![u] = "func"]
        /\ key' = [key EXCEPT ![u] = valid]
        /\ \/ keys < KeysMax /\ keys' = keys + 1 /\ valid
           \/ keys = KeysMax /\ keys' = keys
  BY DEF SetKey
<1>3. u # Main /\ ~in[u] /\ ~key[u] /\ rt[u].state = "up" /\ ~rt[u].workers_started
  BY <1>1, <1>2 DEF LifeCycle
<1>4. keys \in Nat /\ KeysMax \in Nat
  BY <1>1, ThreadsAssumption DEF TypeOK
<1>5. TypeOK'
  <2>1. key' \in [Threads -> BOOLEAN] /\ keys' \in 0 .. KeysMax
    BY <1>1, <1>2, <1>4 DEF TypeOK
  <2> QED BY <1>1, <1>2, <2>1 DEF TypeOK, Runtime
<1>6. LifeCycle'
  BY <1>1, <1>2, <1>3 DEF LifeCycle, TypeOK
<1>7. Pinned'
  BY <1>1, <1>2 DEF Pinned, OwnCpus
<1>8. KeysCounted'
  <2>1. IsFiniteSet(Owners) /\ u \notin Owners
    BY <1>3, ThreadsAssumption, FS_Subset DEF Owners
  <2>2. Cardinality(Owners) \in Nat
    BY <2>1, FS_CardinalityType
  <2>3. valid => Owners' = Owners \cup {u}
    BY <1>1, <1>2, <1>3 DEF Owners, TypeOK
  <2>4. ~valid => Owners' = Owners
    BY <1>1, <1>2, <1>3 DEF Owners, TypeOK
  <2>5. keys' <= Cardinality(Owners')
    <3>1. CASE valid
      <4>1. Cardinality(Owners') = Cardinality(Owners) + 1
        BY <2>1, <2>3, <3>1, FS_AddElement
      <4> QED BY <1>1, <1>2, <1>4, <2>2, <4>1 DEF KeysCounted
    <3>2. CASE ~valid
      BY <1>1, <1>2, <2>4, <3>2 DEF KeysCounted
    <3> QED BY <3>1, <3>2
  <2>6. ASSUME NEW t \in Threads \ {Main}, rt[t].state = "up", ~key'[t],
               pc'[t] \notin {"affinity", "key"}
        PROVE  keys' = KeysMax
    <3>1. CASE t = u
      BY <1>1, <1>2, <2>6, <3>1 DEF TypeOK
    <3>2. CASE t # u
      <4>1. keys = KeysMax
        BY <1>1, <1>2, <2>6, <3>2 DEF KeysCounted, TypeOK
      <4> QED BY <1>2, <1>4, <4>1
    <3> QED BY <3>1, <3>2
  <2> QED BY <1>2, <2>5, <2>6 DEF KeysCounted
<1>9. Placed'
  BY <1>1, <1>2 DEF Placed, TypeOK
<1>10. KeptCpus'
  BY <1>1, <1>2, <1>3 DEF KeptCpus, TypeOK
<1> QED BY <1>5, <1>6, <1>7, <1>8, <1>9, <1>10 DEF ThreadsInv

\* A tool changes the number of workers before they start.
LEMMA SetNworkersKeeps ==
  ASSUME ThreadsInv, NEW n \in Tools, set_nworkers(n)
  PROVE  ThreadsInv'
<1> DEFINE r == [rt[Main] EXCEPT !.nworkers = n]
<1>1. TypeOK /\ LifeCycle /\ Pinned /\ KeysCounted /\ Placed /\ KeptCpus
  BY DEF ThreadsInv
<1>2. /\ UNCHANGED <<env, pc, in, placing, joining, setting, parent, aff, key, keys>>
      /\ n \in Nat /\ n >= 1 /\ ~in[Main] /\ ~rt[Main].workers_started
      /\ rt' = [rt EXCEPT ![Main] = r] /\ Main \in Threads
  BY <1>1, ThreadsAssumption DEF set_nworkers, TypeOK, Runtime
<1>3. /\ r \in Runtime /\ r.state = rt[Main].state /\ r.boss = rt[Main].boss
      /\ r.nworkers >= 1 /\ ~r.workers_started
  <2>1. rt[Main] \in Runtime
    BY <1>1, <1>2 DEF TypeOK
  <2>2. r.workers_started = rt[Main].workers_started
    BY <2>1 DEF Runtime
  <2>3. r \in Runtime /\ r.state = rt[Main].state /\ r.boss = rt[Main].boss /\ r.nworkers = n
    BY <1>2, <2>1 DEF Runtime
  <2> HIDE DEF r
  <2> QED BY <1>2, <2>2, <2>3
<1> HIDE DEF r
<1>4. TypeOK'
  BY <1>1, <1>2, <1>3 DEF TypeOK, Runtime
<1>5. LifeCycle'
  BY <1>1, <1>2, <1>3 DEF LifeCycle, TypeOK
<1>6. Pinned'
  <2>1. \A t \in Threads : Pin(rt'[t], env.pin)
    BY <1>1, <1>2, <1>3, PinnedIs DEF Pin, TypeOK
  <2> QED BY <1>2, <2>1 DEF Pinned, Pin, Bind, OwnCpus
<1>7. KeysCounted'
  BY <1>1, <1>2, <1>3 DEF KeysCounted, Owners, TypeOK
<1>8. Placed'
  BY <1>1, <1>2 DEF Placed
<1>9. KeptCpus'
  BY <1>1, <1>2, <1>3 DEF KeptCpus, TypeOK
<1> QED BY <1>4, <1>5, <1>6, <1>7, <1>8, <1>9 DEF ThreadsInv

\* cilkify, with the start of the workers the first time.
LEMMA EnterKeeps ==
  ASSUME ThreadsInv, NEW t \in Threads, EnterRegion(t)
  PROVE  ThreadsInv'
<1> DEFINE cpus == threads_init(aff[t], rt[t].nworkers)
           r == [rt[t] EXCEPT !.workers_started = TRUE, !.mask = aff[t], !.cpus = cpus]
<1>1. TypeOK /\ LifeCycle /\ Pinned /\ KeysCounted /\ Placed /\ KeptCpus
  BY DEF ThreadsInv
<1>2. /\ UNCHANGED <<env, pc, placing, joining, setting, parent, aff, key, keys>>
      /\ pc[t] = "func" /\ rt[t].state = "up" /\ in' = [in EXCEPT ![t] = TRUE]
      /\ rt' = [rt EXCEPT ![t] = IF rt[t].workers_started THEN rt[t] ELSE r]
  BY DEF EnterRegion, Running
<1>3. rt[t] \in Runtime /\ rt[t].nworkers \in Nat /\ rt[t].nworkers >= 1
      /\ aff[t] \in SUBSET Cpus /\ aff[t] # {}
  BY <1>1, <1>2 DEF TypeOK, Runtime, LifeCycle
<1>4. cpus \in Seq(SUBSET Cpus) /\ Bind(cpus, aff[t], rt[t].nworkers, env.pin)
  <2>1. cpus \in Seq(SUBSET Cpus) /\ Dealt(cpus, aff[t], rt[t].nworkers, env.pin)
    BY <1>3, ThreadsInit
  <2>2. Cardinality(aff[t]) \in Nat
    BY <1>3, ThreadsAssumption, FS_Subset, FS_CardinalityType
  <2> HIDE DEF cpus
  <2> QED BY <1>3, <2>1, <2>2, DealtBinds
<1> HIDE DEF cpus
<1>5. /\ r \in Runtime /\ r.state = "up" /\ r.boss = rt[t].boss /\ r.nworkers = rt[t].nworkers
      /\ r.workers_started /\ r.mask = aff[t] /\ r.cpus = cpus
  <2>1. r.workers_started = TRUE
    BY <1>3 DEF Runtime
  <2> QED BY <1>2, <1>3, <1>4, <2>1 DEF Runtime
<1> HIDE DEF r
<1>6. PICK q \in Runtime :
        /\ rt' = [rt EXCEPT ![t] = q]
        /\ q.workers_started /\ q.state = "up" /\ q.boss = rt[t].boss /\ q.nworkers = rt[t].nworkers
        /\ (rt[t].workers_started /\ q = rt[t]) \/ (q.mask = aff[t] /\ q.cpus = cpus)
  <2>1. CASE rt[t].workers_started
    BY <1>2, <1>3, <2>1
  <2>2. CASE ~rt[t].workers_started
    BY <1>2, <1>5, <2>2
  <2> QED BY <2>1, <2>2
<1>7. TypeOK'
  BY <1>1, <1>2, <1>6 DEF TypeOK, Runtime
<1>8. LifeCycle'
  <2>1. q.mask # {}
    BY <1>1, <1>3, <1>6 DEF LifeCycle
  <2>2. /\ \A k \in Threads : rt'[k] = IF k = t THEN q ELSE rt[k]
        /\ \A k \in Threads : in'[k] = IF k = t THEN TRUE ELSE in[k]
    BY <1>1, <1>2, <1>6 DEF TypeOK
  <2>3. pc' = pc /\ key' = key
    BY <1>2
  <2>4. rt'[Main].state = rt[Main].state /\ Main \in Threads
    BY <1>2, <1>6, <2>2, ThreadsAssumption
  <2>5. ASSUME NEW k \in Threads, k # t
        PROVE  rt'[k] = rt[k] /\ in'[k] = in[k]
    BY <2>2, <2>5
  <2>6. rt'[t] = q /\ in'[t] = TRUE
    BY <2>2
  <2>7. q.boss = t /\ q.nworkers >= 1
    BY <1>1, <1>2, <1>6 DEF LifeCycle
  <2> QED BY <1>1, <1>2, <1>6, <2>1, <2>3, <2>4, <2>5, <2>6, <2>7 DEF LifeCycle
<1>9. Pinned'
  <2>1. Pin(q, env.pin)
    BY <1>1, <1>4, <1>6, PinnedIs DEF Pin
  <2>2. \A u \in Threads : Pin(rt'[u], env.pin)
    BY <1>1, <1>6, <2>1, PinnedIs DEF TypeOK
  <2> QED BY <1>2, <2>2 DEF Pinned, Pin, Bind, OwnCpus
<1>10. KeysCounted'
  <2>1. Owners' = Owners
    BY <1>1, <1>2, <1>6 DEF Owners, TypeOK
  <2> QED BY <1>1, <1>2, <1>6, <2>1 DEF KeysCounted, TypeOK
<1>11. Placed'
  BY <1>1, <1>2 DEF Placed
<1>12. KeptCpus'
  BY <1>1, <1>2, <1>6 DEF KeptCpus, TypeOK
<1> QED BY <1>7, <1>8, <1>9, <1>10, <1>11, <1>12 DEF ThreadsInv

LEMMA LeaveKeeps ==
  ASSUME ThreadsInv, NEW t \in Threads, LeaveRegion(t)
  PROVE  ThreadsInv'
<1>1. TypeOK /\ LifeCycle /\ Pinned /\ KeysCounted /\ Placed /\ KeptCpus
  BY DEF ThreadsInv
<1>2. /\ UNCHANGED <<env, pc, placing, joining, setting, parent, aff, key, keys, rt>>
      /\ in' = [in EXCEPT ![t] = FALSE]
  BY DEF LeaveRegion
<1>3. TypeOK'
  BY <1>1, <1>2 DEF TypeOK, Runtime
<1>4. LifeCycle'
  BY <1>1, <1>2 DEF LifeCycle, TypeOK
<1>5. Pinned' /\ KeysCounted' /\ Placed' /\ KeptCpus'
  BY <1>1, <1>2 DEF Pinned, OwnCpus, KeysCounted, Owners, Placed, KeptCpus
<1> QED BY <1>3, <1>4, <1>5 DEF ThreadsInv

LEMMA JoinKeeps ==
  ASSUME ThreadsInv, NEW t \in Threads, NEW u \in Threads, thrd_join(t, u)
  PROVE  ThreadsInv'
<1>1. TypeOK /\ LifeCycle /\ Pinned /\ KeysCounted /\ Placed /\ KeptCpus
  BY DEF ThreadsInv
<1>2. /\ UNCHANGED <<env, pc, in, placing, setting, parent, aff, key, keys, rt>>
      /\ joining' = [joining EXCEPT ![t] = joining[t] \cup {u}]
  BY DEF thrd_join
<1>3. TypeOK'
  BY <1>1, <1>2 DEF TypeOK, Runtime
<1>4. LifeCycle' /\ Pinned' /\ KeysCounted' /\ Placed' /\ KeptCpus'
  BY <1>1, <1>2 DEF LifeCycle, Pinned, OwnCpus, KeysCounted, Owners, Placed, KeptCpus
<1> QED BY <1>3, <1>4 DEF ThreadsInv

LEMMA JoinReturnsKeeps ==
  ASSUME ThreadsInv, NEW t \in Threads, NEW u \in Threads, JoinReturns(t, u)
  PROVE  ThreadsInv'
<1>1. TypeOK /\ LifeCycle /\ Pinned /\ KeysCounted /\ Placed /\ KeptCpus
  BY DEF ThreadsInv
<1>2. /\ UNCHANGED <<env, in, placing, setting, parent, aff, key, keys, rt>>
      /\ pc[u] = "done" /\ pc' = [pc EXCEPT ![u] = "joined"]
      /\ joining' = [joining EXCEPT ![t] = joining[t] \ {u}]
  BY DEF JoinReturns
<1>3. u \in Threads
  OBVIOUS
<1>4. TypeOK'
  BY <1>1, <1>2, <1>3 DEF TypeOK, Runtime
<1>5. LifeCycle'
  <2>1. \A k \in Threads : pc'[k] = IF k = u THEN "joined" ELSE pc[k]
    BY <1>1, <1>2, <1>3 DEF TypeOK
  <2>2. pc[u] \notin {"none", "wrapper", "affinity", "key", "func", "exiting"}
    BY <1>2
  <2> QED BY <1>1, <1>2, <1>3, <2>1, <2>2, ThreadsAssumption DEF LifeCycle
<1>6. Pinned'
  BY <1>1, <1>2 DEF Pinned, OwnCpus
<1>7. KeysCounted'
  BY <1>1, <1>2, <1>3 DEF KeysCounted, Owners, TypeOK
<1>8. Placed'
  BY <1>1, <1>2, <1>3 DEF Placed, TypeOK
<1>9. KeptCpus'
  BY <1>1, <1>2, <1>3 DEF KeptCpus, TypeOK
<1> QED BY <1>4, <1>5, <1>6, <1>7, <1>8, <1>9 DEF ThreadsInv

LEMMA ThreadReturnsKeeps ==
  ASSUME ThreadsInv, NEW u \in Threads, ThreadReturns(u)
  PROVE  ThreadsInv'
<1>1. TypeOK /\ LifeCycle /\ Pinned /\ KeysCounted /\ Placed /\ KeptCpus
  BY DEF ThreadsInv
<1>2. /\ UNCHANGED <<env, in, placing, joining, setting, parent, aff, key, keys, rt>>
      /\ pc[u] = "func" /\ ~in[u] /\ u # Main /\ pc' = [pc EXCEPT ![u] = "exiting"]
  BY DEF ThreadReturns, Running
<1>3. TypeOK'
  BY <1>1, <1>2 DEF TypeOK, Runtime
<1>4. LifeCycle'
  <2>1. \A k \in Threads : pc'[k] = IF k = u THEN "exiting" ELSE pc[k]
    BY <1>1, <1>2 DEF TypeOK
  <2> QED BY <1>1, <1>2, <2>1, ThreadsAssumption DEF LifeCycle
<1>5. Pinned'
  BY <1>1, <1>2 DEF Pinned, OwnCpus
<1>6. KeysCounted'
  BY <1>1, <1>2 DEF KeysCounted, Owners, TypeOK
<1>7. Placed'
  BY <1>1, <1>2 DEF Placed, TypeOK
<1>8. KeptCpus'
  BY <1>1, <1>2 DEF KeptCpus, TypeOK
<1> QED BY <1>3, <1>4, <1>5, <1>6, <1>7, <1>8 DEF ThreadsInv

\* thrd_exit without the destructors leaves the runtime as it is.
LEMMA ExitKeeps ==
  ASSUME ThreadsInv, NEW u \in Threads, thrd_exit(u)
  PROVE  ThreadsInv'
<1>1. TypeOK /\ LifeCycle /\ Pinned /\ KeysCounted /\ Placed /\ KeptCpus
  BY DEF ThreadsInv
<1>2. /\ UNCHANGED <<env, in, placing, joining, key, keys, rt>>
      /\ pc[u] = "func" /\ ~in[u] /\ u # Main /\ pc' = [pc EXCEPT ![u] = "done"]
      /\ aff' = [aff EXCEPT ![u] = Cpus] /\ setting' = [setting EXCEPT ![u] = None]
      /\ parent' = [parent EXCEPT ![u] = [parent[u] EXCEPT !.worker = FALSE]]
  BY DEF thrd_exit, Running, Gone
<1>3. TypeOK'
  <2>1. parent' \in [Threads -> [by : Threads \cup {None}, worker : BOOLEAN]]
    <3>1. [parent[u] EXCEPT !.worker = FALSE] \in [by : Threads \cup {None}, worker : BOOLEAN]
      BY <1>1 DEF TypeOK
    <3> QED BY <1>1, <1>2, <3>1 DEF TypeOK
  <2>2. aff' \in [Threads -> (SUBSET Cpus) \ {{}}]
    BY <1>1, <1>2, ThreadsAssumption DEF TypeOK
  <2>3. /\ pc' \in [Threads -> {"none", "wrapper", "affinity", "key", "func", "exiting",
                                "done", "joined"}]
        /\ setting' \in [Threads -> env.settings \cup {None}]
    BY <1>1, <1>2 DEF TypeOK
  <2> QED BY <1>1, <1>2, <2>1, <2>2, <2>3 DEF TypeOK, Runtime
<1>4. LifeCycle'
  <2>1. \A k \in Threads : pc'[k] = IF k = u THEN "done" ELSE pc[k]
    BY <1>1, <1>2 DEF TypeOK
  <2> QED BY <1>1, <1>2, <2>1, ThreadsAssumption DEF LifeCycle
<1>5. Pinned'
  BY <1>1, <1>2 DEF Pinned, OwnCpus
<1>6. KeysCounted'
  BY <1>1, <1>2 DEF KeysCounted, Owners, TypeOK
<1>7. Placed'
  BY <1>1, <1>2 DEF Placed, TypeOK
<1>8. KeptCpus'
  BY <1>1, <1>2 DEF KeptCpus, TypeOK
<1> QED BY <1>3, <1>4, <1>5, <1>6, <1>7, <1>8 DEF ThreadsInv

\* cilk_thrd_shutdown, if the key reaches it.
LEMMA DestructorsKeeps ==
  ASSUME ThreadsInv, NEW u \in Threads, Destructors(u)
  PROVE  ThreadsInv'
<1> DEFINE down == [NoRuntime EXCEPT !.state = "down"]
<1>1. TypeOK /\ LifeCycle /\ Pinned /\ KeysCounted /\ Placed /\ KeptCpus
  BY DEF ThreadsInv
<1>2. /\ UNCHANGED <<env, in, placing, joining, keys>>
      /\ pc[u] = "exiting" /\ pc' = [pc EXCEPT ![u] = "done"]
      /\ rt' = [rt EXCEPT ![u] = IF key[u] THEN down ELSE rt[u]]
      /\ aff' = [aff EXCEPT ![u] = Cpus] /\ key' = [key EXCEPT ![u] = FALSE]
      /\ setting' = [setting EXCEPT ![u] = None]
      /\ parent' = [parent EXCEPT ![u] = [parent[u] EXCEPT !.worker = FALSE]]
  BY DEF Destructors, Gone
<1>3. down \in Runtime /\ down.state = "down" /\ ~down.workers_started
  BY DownIs
<1> HIDE DEF down
<1>4. u # Main /\ ~in[u] /\ (key[u] => rt[u].state = "up") /\ Main \in Threads
  BY <1>1, <1>2, ThreadsAssumption DEF LifeCycle
<1>5. TypeOK'
  <2>1. rt' \in [Threads -> Runtime]
    BY <1>1, <1>2, <1>3 DEF TypeOK
  <2>2. parent' \in [Threads -> [by : Threads \cup {None}, worker : BOOLEAN]]
    <3>1. [parent[u] EXCEPT !.worker = FALSE] \in [by : Threads \cup {None}, worker : BOOLEAN]
      BY <1>1 DEF TypeOK
    <3> QED BY <1>1, <1>2, <3>1 DEF TypeOK
  <2>3. key' \in [Threads -> BOOLEAN] /\ aff' \in [Threads -> (SUBSET Cpus) \ {{}}]
    BY <1>1, <1>2, ThreadsAssumption DEF TypeOK
  <2>4. /\ pc' \in [Threads -> {"none", "wrapper", "affinity", "key", "func", "exiting",
                                "done", "joined"}]
        /\ setting' \in [Threads -> env.settings \cup {None}]
    BY <1>1, <1>2 DEF TypeOK
  <2> QED BY <1>1, <1>2, <2>1, <2>2, <2>3, <2>4 DEF TypeOK, Runtime
<1>6. LifeCycle'
  BY <1>1, <1>2, <1>3, <1>4 DEF LifeCycle, TypeOK
<1>7. Pinned'
  <2>1. \A t \in Threads : Pin(rt'[t], env.pin)
    BY <1>1, <1>2, <1>3, PinnedIs DEF Pin, TypeOK
  <2> QED BY <1>2, <2>1 DEF Pinned, Pin, Bind, OwnCpus
<1>8. KeysCounted'
  <2>1. Owners' = Owners
    BY <1>1, <1>2, <1>3, <1>4 DEF Owners, TypeOK
  <2> QED BY <1>1, <1>2, <1>3, <1>4, <2>1 DEF KeysCounted, TypeOK
<1>9. Placed'
  BY <1>1, <1>2 DEF Placed, TypeOK
<1>10. KeptCpus'
  BY <1>1, <1>2 DEF KeptCpus, TypeOK
<1> QED BY <1>5, <1>6, <1>7, <1>8, <1>9, <1>10 DEF ThreadsInv

\* __default_cilkrts_shutdown.
LEMMA MainReturnsKeeps ==
  ASSUME ThreadsInv, MainReturns
  PROVE  ThreadsInv'
<1> DEFINE down == [NoRuntime EXCEPT !.state = "down"]
<1>1. TypeOK /\ LifeCycle /\ Pinned /\ KeysCounted /\ Placed /\ KeptCpus
  BY DEF ThreadsInv
<1>2. /\ UNCHANGED <<env, in, placing, joining, setting, parent, aff, key, keys>>
      /\ ~in[Main] /\ pc' = [pc EXCEPT ![Main] = "done"] /\ Main \in Threads
      /\ rt' = [rt EXCEPT ![Main] = down]
  BY ThreadsAssumption DEF MainReturns
<1>3. down \in Runtime /\ down.state = "down" /\ ~down.workers_started
  BY DownIs
<1> HIDE DEF down
<1>4. TypeOK'
  BY <1>1, <1>2, <1>3 DEF TypeOK, Runtime
<1>5. LifeCycle'
  BY <1>1, <1>2, <1>3 DEF LifeCycle, TypeOK
<1>6. Pinned'
  <2>1. \A t \in Threads : Pin(rt'[t], env.pin)
    BY <1>1, <1>2, <1>3, PinnedIs DEF Pin, TypeOK
  <2> QED BY <1>2, <2>1 DEF Pinned, Pin, Bind, OwnCpus
<1>7. KeysCounted'
  BY <1>1, <1>2 DEF KeysCounted, Owners, TypeOK
<1>8. Placed'
  BY <1>1, <1>2 DEF Placed, TypeOK
<1>9. KeptCpus'
  <2>1. \A k \in Threads : /\ pc'[k] = IF k = Main THEN "done" ELSE pc[k]
                           /\ rt'[k] = IF k = Main THEN down ELSE rt[k]
    BY <1>1, <1>2 DEF TypeOK
  <2> QED BY <1>1, <1>2, <1>3, <2>1 DEF KeptCpus
<1> QED BY <1>4, <1>5, <1>6, <1>7, <1>8, <1>9 DEF ThreadsInv

\* Runtimes that share a process keep out of each other's way, whatever the
\* number of threads, of keys and of CPUs.
THEOREM ThreadsInvariant == Spec => []ThreadsInv
<1>1. ThreadsInv /\ [Next]_vars => ThreadsInv'
  <2> SUFFICES ASSUME ThreadsInv, [Next]_vars PROVE ThreadsInv'
    OBVIOUS
  <2>1. CASE UNCHANGED vars
    <3>1. UNCHANGED <<env, pc, in, placing, joining, setting, parent, aff, key, keys, rt>>
      BY <2>1 DEF vars
    <3>2. TypeOK'
      BY <3>1 DEF ThreadsInv, TypeOK, Runtime
    <3>3. LifeCycle' /\ Pinned'
      BY <3>1 DEF ThreadsInv, LifeCycle, Pinned, OwnCpus
    <3>4. KeysCounted' /\ Placed' /\ KeptCpus'
      BY <3>1 DEF ThreadsInv, KeysCounted, Owners, Placed, KeptCpus
    <3> QED BY <3>2, <3>3, <3>4 DEF ThreadsInv
  <2>2. ASSUME NEW t \in Threads, NEW u \in Threads,
               \/ thrd_create(t, u) \/ cilk_thrd_create(t, u) \/ thrd_join(t, u)
               \/ CallReturns(t, u)
        PROVE  ThreadsInv'
    <3>1. CASE thrd_create(t, u)
      BY <3>1, CreateKeeps DEF thrd_create
    <3>2. CASE cilk_thrd_create(t, u)
      BY <3>2, CreateKeeps DEF cilk_thrd_create
    <3>3. CASE CallReturns(t, u)
      BY <3>3, PlaceKeeps, JoinReturnsKeeps DEF CallReturns
    <3> QED BY <2>2, <3>1, <3>2, <3>3, JoinKeeps
  <2>3. ASSUME NEW t \in Threads,
               \/ EnterRegion(t) \/ LeaveRegion(t) \/ ThreadReturns(t) \/ thrd_exit(t)
               \/ ThreadStep(t)
        PROVE  ThreadsInv'
    BY <2>3, StartRuntimeKeeps, SetAffinityKeeps, SetKeyKeeps, EnterKeeps, LeaveKeeps,
       ThreadReturnsKeeps, ExitKeeps, DestructorsKeeps DEF ThreadStep
  <2> QED BY <2>1, <2>2, <2>3, SetNworkersKeeps, MainReturnsKeeps DEF Next
<1> QED BY <1>1, ThreadsStart, PTL DEF Spec

\* Every worker that threads_init binds has CPUs of its boss's set; where
\* workers are to have their own, it has a fair share and none in common with
\* another one: the search for the next CPU never runs off the set.
THEOREM PinnedAlways == Spec => []Pinned
<1>1. ThreadsInv => Pinned
  BY DEF ThreadsInv
<1> QED BY <1>1, ThreadsInvariant, PTL

\* A runtime whose thread was created outside of a region keeps to the CPUs
\* its configuration asks for.
THEOREM IsolatedAlways == Spec => []Isolated
<1>1. ThreadsInv => Isolated
  <2> SUFFICES ASSUME ThreadsInv, NEW t \in Threads,
                      setting[t] # None, ~parent[t].worker, rt[t].workers_started,
                      Named(setting[t]) \cap Cpus # {}
               PROVE  UNION ToSet(rt[t].cpus) \subseteq Named(setting[t])
    BY DEF Isolated
  <2>1. rt[t].mask \subseteq Named(setting[t])
    BY DEF ThreadsInv, KeptCpus
  <2>2. rt[t].cpus \in Seq(SUBSET Cpus)
    BY DEF ThreadsInv, TypeOK, Runtime
  <2>3. Bind(rt[t].cpus, rt[t].mask, rt[t].nworkers, env.pin)
    BY PinnedIs DEF ThreadsInv, Pin
  <2>4. \A w \in DOMAIN rt[t].cpus : rt[t].cpus[w] \subseteq rt[t].mask
    BY <2>2, <2>3 DEF Bind
  <2> QED BY <2>1, <2>4 DEF ToSet
<1> QED BY <1>1, ThreadsInvariant, PTL

\* A thread that ends without a value for the destructor, and leaves its
\* runtime running, has found all keys taken by threads with a runtime.
THEOREM OwnRuntimeEndsAlways == Spec => []OwnRuntimeEnds
<1>1. ThreadsInv => OwnRuntimeEnds
  <2> SUFFICES ASSUME ThreadsInv, NEW t \in Leaked PROVE Cardinality(Owners) >= KeysMax
    BY DEF OwnRuntimeEnds
  <2>1. TypeOK /\ LifeCycle /\ KeysCounted
    BY DEF ThreadsInv
  <2>2. keys = KeysMax
    BY <2>1 DEF Leaked, KeysCounted, LifeCycle
  <2>3. Cardinality(Owners) \in Nat
    BY ThreadsAssumption, FS_Subset, FS_CardinalityType DEF Owners
  <2> QED BY <2>1, <2>2, <2>3, ThreadsAssumption DEF KeysCounted
<1> QED BY <1>1, ThreadsInvariant, PTL

=============================================================================
