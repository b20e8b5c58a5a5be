------------------------------ MODULE Threads ------------------------------
(***************************************************************************)
(* Multicilk: several Cilk runtimes in one process, one for each thread    *)
(* that cilk_thrd_create makes (src/runtime/cilk_c11_threads.c, cilk2c.c,  *)
(* init.c, global.c).  A thread has at most one runtime of its own, its    *)
(* thread-local my_cilkrts, and is that runtime's boss: it starts the      *)
(* runtime before the user's function and a destructor of thread-specific  *)
(* data shuts it down when the thread ends.  While the boss waits for a    *)
(* Cilkified region, the user's code runs on a worker, which calls         *)
(* thrd_create and thrd_join in the boss's name.                           *)
(*                                                                         *)
(* What happens inside of a region is in Cilkify and Scheduler; here it    *)
(* begins and ends.  Programs are those that join or detach the threads    *)
(* they create, initialize a runtime once for each thread, exit a thread   *)
(* outside of its regions, and run Cilk code only on threads with a        *)
(* runtime.                                                                *)
(***************************************************************************)
EXTENDS Integers, Sequences, FiniteSets, SequencesExt, FiniteSetsExt

CONSTANTS Threads,   \* the operating system's threads that call the API
          Main,      \* the one that runs main
          Cpus,      \* the CPUs the process may use
          Environments, \* the value of CILK_PIN and those of the variables
                        \* with a configuration, as records pin, settings
          Tools,     \* numbers of workers that a tool may set
          KeysMax,   \* PTHREAD_KEYS_MAX
          None       \* no thread, no runtime, an environment variable not set

ASSUME ThreadsAssumption ==
    /\ Main \in Threads /\ None \notin Threads /\ IsFiniteSet(Threads)
    /\ IsFiniteSet(Cpus) /\ Cpus \subseteq Nat /\ Cpus # {}
    /\ KeysMax \in Nat /\ Tools \subseteq Nat
    /\ \A e \in Environments : e.pin \in 0 .. 3 /\
         \A value \in e.settings \ {None} :
            /\ Len(value) \in Nat /\ DOMAIN value = 1 .. Len(value)
            /\ \A i \in DOMAIN value : value[i].name = "nworkers" => value[i].data \in Nat

VARIABLES
    env,      \* the environment of the process
    pc,       \* where a thread is
    in,       \* the thread waits for a region of its runtime
    placing,  \* the threads that workers are still inside of thrd_create for
    joining,  \* the threads that a thread, or the strands of its region, wait for
    setting,  \* the environment variable a thread was configured from
    parent,   \* creator, and whether it was in a region
    aff,      \* affinity of a thread
    key,      \* the thread has a value for the destructor to see
    keys,     \* number of keys created
    rt        \* the runtime of a thread: my_cilkrts and what it points to

vars == <<env, pc, in, placing, joining, setting, parent, aff, key, keys, rt>>

-----------------------------------------------------------------------------
(* Configuration *)

\* A setting is a sequence of entries "name=data", separated by ";", after
\* unknown characters and the case of letters have been dropped.  data is
\* a number for nworkers and a sequence of CPUs for cpuset.  The last entry
\* with a name counts.
Entry(cfg, e) ==
    [n_workers |-> IF e.name = "nworkers" THEN e.data ELSE cfg.n_workers,
     boss_affinity |-> IF e.name = "cpuset" THEN ToSet(e.data) ELSE cfg.boss_affinity]

\* Without an entry there is no affinity, and 0 workers.
cilk_cfg_from_env(value, affinity) ==
    IF value = None THEN [n_workers |-> Cardinality(affinity), boss_affinity |-> affinity]
    ELSE FoldLeft(Entry, [n_workers |-> 0, boss_affinity |-> {}], value)

\* parse_rts_environment: the number of workers, by default one for each
\* CPU the calling thread may use at that time.
parse_rts_environment(nworkers, affinity) ==
    IF nworkers > 0 THEN nworkers ELSE Cardinality(affinity)

\* A runtime that __cilkrts_startup has made.  nproc is in its options; cpus: the affinities of the
\* workers, once they are started.
Started(boss, nworkers) ==
    [state |-> "up", boss |-> boss, nproc |-> nworkers, nworkers |-> nworkers,
     workers_started |-> FALSE, cpus |-> <<>>, mask |-> {}]
NoRuntime == [Started(None, 0) EXCEPT !.state = "none"]

\* The next worker of threads_init gets cpus.
Bound(s, cpu, cpus, mask) ==
    [mask |-> mask, cpu |-> cpu + s.step_out, cpus |-> Append(s.cpus, cpus),
     group_size |-> s.group_size, step_in |-> s.step_in, step_out |-> s.step_out]

\* The next CPU of process_mask and the others of its group still there.
NextCpu(s) == Min({c \in s.mask : c >= s.cpu})
Group(s, cpu) ==
    {cpu} \cup ({cpu + off * s.step_in : off \in 1 .. s.group_size - 1} \cap s.mask)

\* Variant: the CPUs of a group stay in process_mask.
BindOneKeeps(s, w) ==
    LET cpu == NextCpu(s) IN Bound(s, cpu, Group(s, cpu), s.mask \ {cpu})

\* One worker of threads_init; s holds the local variables.
BindOne(s, w) ==
    LET cpu == NextCpu(s) IN Bound(s, cpu, Group(s, cpu), s.mask \ Group(s, cpu))

\* threads_init: workers inherit the boss's affinity, unless there is at
\* least one CPU for each of them and CILK_PIN does not forbid it.
threads_init(process_mask, n_threads) ==
    LET group_size == Cardinality(process_mask) \div n_threads
        together == env.pin = 2 IN
    IF env.pin = 3 \/ n_threads > Cardinality(process_mask)
    THEN [w \in 1 .. n_threads |-> process_mask]
    ELSE FoldLeft(BindOne,
                  [mask |-> process_mask, cpu |-> 0, cpus |-> <<>>, group_size |-> group_size,
                   step_in |-> IF together THEN 1 ELSE group_size,
                   step_out |-> IF together THEN group_size ELSE 1],
                  [w \in 1 .. n_threads |-> w]).cpus

-----------------------------------------------------------------------------
\* __default_cilkrts_startup has run.
Init ==
    /\ env \in Environments
    /\ pc = [t \in Threads |-> IF t = Main THEN "func" ELSE "none"]
    /\ in = [t \in Threads |-> FALSE]
    /\ placing = [t \in Threads |-> {}] /\ joining = [t \in Threads |-> {}]
    /\ setting = [t \in Threads |-> None]
    /\ parent = [t \in Threads |-> [by |-> None, worker |-> FALSE]]
    /\ aff = [t \in Threads |-> Cpus]
    /\ key = [t \in Threads |-> FALSE] /\ keys = 0
    /\ rt = [t \in Threads |->
                IF t = Main THEN Started(Main, parse_rts_environment(0, Cpus)) ELSE NoRuntime]

\* The calls that the user's code of thread t is inside of.
Calls(t) == Cardinality(placing[t]) + Cardinality(joining[t])

\* That code, on t itself or in a strand on one of its workers that is not
\* inside of a call, can make a step.
Running(t) == pc[t] = "func" /\ Calls(t) < (IF in[t] THEN rt[t].nworkers ELSE 1)

\* thrd_current: on a worker, the boss of its runtime.
thrd_current(t) == IF in[t] THEN rt[t].boss ELSE t

\* The affinities of the threads that may run that code.
CallerAffinities(t) == IF in[t] THEN ToSet(rt[t].cpus) ELSE {aff[t]}

\* The name of the next thread; which one it is makes no difference.
Unused == {u \in Threads : pc[u] = "none"}
NewThread == IF Unused = {} THEN None ELSE CHOOSE u \in Unused : TRUE

\* thrd_create: the new thread inherits the affinity of the thread that
\* creates it.  A worker is not back yet: see PlaceThread.  first: where the
\* new thread begins.
Create(t, u, first, value) ==
    /\ Running(t) /\ u = NewThread
    /\ \E mask \in CallerAffinities(t) : aff' = [aff EXCEPT ![u] = mask]
    /\ pc' = [pc EXCEPT ![u] = first]
    /\ setting' = [setting EXCEPT ![u] = value]
    /\ parent' = [parent EXCEPT ![u] = [by |-> t, worker |-> in[t]]]
    /\ placing' = [placing EXCEPT ![t] = IF in[t] THEN @ \cup {u} ELSE @]
    /\ UNCHANGED <<env, in, joining, key, keys, rt>>

thrd_create(t, u) == Create(t, u, "func", None)

\* cilk_thrd_create, with a configuration from cilk_cfg_from_env.
cilk_thrd_create(t, u) == \E value \in env.settings : Create(t, u, "wrapper", value)

\* The rest of thrd_create on a worker: the new thread, which may have gone
\* a long way, gets the affinity of the boss.
PlaceThread(t, u) ==
    /\ u \in placing[t]
    /\ aff' = [aff EXCEPT ![u] = IF pc[u] \in {"done", "joined"} THEN @ ELSE aff[thrd_current(t)]]
    /\ placing' = [placing EXCEPT ![t] = @ \ {u}]
    /\ UNCHANGED <<env, pc, in, joining, setting, parent, key, keys, rt>>

\* The configurations are read in main, which may use every CPU.
Config(u) == cilk_cfg_from_env(setting[u], Cpus)

\* cilk_thrd_init: __cilkrts_startup, with the affinity the thread has now.
StartRuntime(u) ==
    /\ pc[u] = "wrapper"
    /\ rt' = [rt EXCEPT ![u] =
            Started(thrd_current(u), parse_rts_environment(Config(u).n_workers, aff[u]))]
    /\ pc' = [pc EXCEPT ![u] = "affinity"]
    /\ UNCHANGED <<env, in, placing, joining, setting, parent, aff, key, keys>>

\* Variant: the affinity is not set.
SetAffinityMissing(u) ==
    /\ pc[u] = "affinity"
    /\ pc' = [pc EXCEPT ![u] = "key"]
    /\ UNCHANGED <<env, in, placing, joining, setting, parent, aff, key, keys, rt>>

\* Variant: a mask without a CPU is not refused.
SetAffinityUnchecked(u) ==
    /\ pc[u] = "affinity"
    /\ aff' = [aff EXCEPT ![u] = Config(u).boss_affinity \cap Cpus]
    /\ pc' = [pc EXCEPT ![u] = "key"]
    /\ UNCHANGED <<env, in, placing, joining, setting, parent, key, keys, rt>>

\* pthread_setaffinity_np fails for a mask without a CPU, which is ignored.
SetAffinity(u) ==
    LET mask == Config(u).boss_affinity \cap Cpus IN
    /\ pc[u] = "affinity"
    /\ aff' = [aff EXCEPT ![u] = IF mask = {} THEN @ ELSE mask]
    /\ pc' = [pc EXCEPT ![u] = "key"]
    /\ UNCHANGED <<env, in, placing, joining, setting, parent, key, keys, rt>>

\* Variant: the value is not set.
SetKeyMissing(u) ==
    /\ pc[u] = "key"
    /\ keys' = IF keys < KeysMax THEN keys + 1 ELSE keys
    /\ pc' = [pc EXCEPT ![u] = "func"]
    /\ UNCHANGED <<env, in, placing, joining, setting, parent, aff, key, rt>>

\* A key of its own for every thread, never deleted.  When there is none
\* left, pthread_setspecific gets an uninitialized key, which may be a valid
\* one or not.
SetKey(u) ==
    /\ pc[u] = "key"
    /\ \/ keys < KeysMax /\ keys' = keys + 1 /\ key' = [key EXCEPT ![u] = TRUE]
       \/ /\ keys = KeysMax /\ keys' = keys
          /\ \E valid \in BOOLEAN : key' = [key EXCEPT ![u] = valid]
    /\ pc' = [pc EXCEPT ![u] = "func"]
    /\ UNCHANGED <<env, in, placing, joining, setting, parent, aff, rt>>

-----------------------------------------------------------------------------
\* set_nworkers, for tools, on the default runtime: any number up to that of
\* the options, whatever it was set to before.
set_nworkers(nworkers) ==
    /\ Running(Main) /\ ~in[Main] /\ ~rt[Main].workers_started
    /\ nworkers \in 1 .. rt[Main].nproc
    /\ rt' = [rt EXCEPT ![Main].nworkers = nworkers]
    /\ UNCHANGED <<env, pc, in, placing, joining, setting, parent, aff, key, keys>>

\* __cilkrts_enter_frame outside of a region: cilkify(my_cilkrts) starts the
\* workers with the affinity the boss has now.
EnterRegion(t) ==
    /\ Running(t) /\ ~in[t] /\ rt[t].state = "up"
    /\ in' = [in EXCEPT ![t] = TRUE]
    /\ rt' = [rt EXCEPT ![t] =
            IF rt[t].workers_started THEN rt[t]
            ELSE [rt[t] EXCEPT !.workers_started = TRUE, !.mask = aff[t],
                           !.cpus = threads_init(aff[t], rt[t].nworkers)]]
    /\ UNCHANGED <<env, pc, placing, joining, setting, parent, aff, key, keys>>

\* The last strand of the region leaves it.
LeaveRegion(t) ==
    /\ in[t] /\ Calls(t) = 0
    /\ in' = [in EXCEPT ![t] = FALSE]
    /\ UNCHANGED <<env, pc, placing, joining, setting, parent, aff, key, keys, rt>>

\* Variant: the call is handed on whoever is to be joined.
JoinRefusedNever(t, u) == FALSE

\* The test of thrd_join: a worker does not wait for its own boss.
JoinRefused(t, u) == in[t] /\ u = thrd_current(t)

\* thrd_join, for a thread that t has created and for t itself.
thrd_join(t, u) ==
    /\ Running(t)
    /\ \/ u = t /\ in[t]
       \/ parent[u].by = t /\ pc[u] # "joined" /\ u \notin joining[t]
    /\ ~JoinRefused(t, u)
    /\ joining' = [joining EXCEPT ![t] = @ \cup {u}]
    /\ UNCHANGED <<env, pc, in, placing, setting, parent, aff, key, keys, rt>>

JoinReturns(t, u) ==
    /\ u \in joining[t] /\ pc[u] = "done"
    /\ pc' = [pc EXCEPT ![u] = "joined"]
    /\ joining' = [joining EXCEPT ![t] = @ \ {u}]
    /\ UNCHANGED <<env, in, placing, setting, parent, aff, key, keys, rt>>

\* The user's function returns to cilk_thrd_c11_wrapper, which drops its
\* result, outside of a region; or it calls thrd_exit and the system runs the
\* destructors all the same.  No part of the model depends on exit codes, so
\* they are left out.
ThreadReturns(u) ==
    /\ Running(u) /\ ~in[u] /\ u # Main
    /\ pc' = [pc EXCEPT ![u] = "exiting"]
    /\ UNCHANGED <<env, in, placing, joining, setting, parent, aff, key, keys, rt>>

\* What a thread leaves: its own attributes mean nothing from now on.
Gone(u) ==
    /\ pc' = [pc EXCEPT ![u] = "done"]
    /\ aff' = [aff EXCEPT ![u] = Cpus]
    /\ setting' = [setting EXCEPT ![u] = None]
    /\ parent' = [parent EXCEPT ![u].worker = FALSE]

\* thrd_exit, outside of a region, as its comment warns: it "does not support
\* automatically calling the appropriate destructor on data stored in tss".
\* The runtime of the thread stays as it is.
thrd_exit(u) ==
    /\ Running(u) /\ ~in[u] /\ u # Main
    /\ Gone(u)
    /\ UNCHANGED <<env, in, placing, joining, key, keys, rt>>

\* The destructor of the key, cilk_thrd_shutdown: __cilkrts_shutdown of
\* my_cilkrts, which joins the workers.
Destructors(u) ==
    /\ pc[u] = "exiting"
    /\ Gone(u)
    /\ rt' = [rt EXCEPT ![u] = IF key[u] THEN [NoRuntime EXCEPT !.state = "down"] ELSE @]
    /\ key' = [key EXCEPT ![u] = FALSE]
    /\ UNCHANGED <<env, in, placing, joining, keys>>

\* main returns, when its threads are joined or detached ones have ended:
\* the destructor __default_cilkrts_shutdown.
MainReturns ==
    /\ Running(Main) /\ ~in[Main]
    /\ \A u \in Threads \ {Main} : pc[u] \in {"none", "done", "joined"}
    /\ pc' = [pc EXCEPT ![Main] = "done"]
    /\ rt' = [rt EXCEPT ![Main] = [NoRuntime EXCEPT !.state = "down"]]
    /\ UNCHANGED <<env, in, placing, joining, setting, parent, aff, key, keys>>

\* What the system owes a thread before the user's function and after it.
ThreadStep(t) == StartRuntime(t) \/ SetAffinity(t) \/ SetKey(t) \/ Destructors(t)

\* What it owes a call in the user's code.
CallReturns(t, u) == PlaceThread(t, u) \/ JoinReturns(t, u)

Next ==
    \/ \E t, u \in Threads :
          \/ thrd_create(t, u) \/ cilk_thrd_create(t, u) \/ thrd_join(t, u)
          \/ CallReturns(t, u)
    \/ \E t \in Threads :
          \/ EnterRegion(t) \/ LeaveRegion(t) \/ ThreadReturns(t) \/ thrd_exit(t)
          \/ ThreadStep(t)
    \/ \E n \in Tools : set_nworkers(n)
    \/ MainReturns

\* The system schedules every thread; regions end (RegionEnds of Cilkify),
\* and so do the user's functions once they can, whatever they do first.
Fairness ==
    /\ \A t \in Threads :
         WF_vars(LeaveRegion(t)) /\ WF_vars(\E u \in Threads : CallReturns(t, u))
    /\ \A t \in Threads \ {Main} :
         WF_vars(ThreadStep(t)) /\ SF_vars(ThreadReturns(t) \/ thrd_exit(t))

Spec == Init /\ [][Next]_vars /\ Fairness

-----------------------------------------------------------------------------
(* Properties *)

Runtime == [state : {"none", "up", "down"}, boss : Threads \cup {None}, nproc : Nat,
            nworkers : Nat, workers_started : BOOLEAN, cpus : Seq(SUBSET Cpus), mask : SUBSET Cpus]

TypeOK ==
    /\ env \in Environments
    /\ pc \in [Threads -> {"none", "wrapper", "affinity", "key", "func", "exiting",
                           "done", "joined"}]
    /\ in \in [Threads -> BOOLEAN] /\ key \in [Threads -> BOOLEAN] /\ keys \in 0 .. KeysMax
    /\ placing \in [Threads -> SUBSET Threads] /\ joining \in [Threads -> SUBSET Threads]
    /\ setting \in [Threads -> env.settings \cup {None}]
    /\ parent \in [Threads -> [by : Threads \cup {None}, worker : BOOLEAN]]
    /\ aff \in [Threads -> (SUBSET Cpus) \ {{}}]
    /\ rt \in [Threads -> Runtime]

\* "Three cases": with CILK_PIN not 3, the workers of a runtime are to get
\* groups of CPUs or single CPUs of their own.
OwnCpus(n, mask) == env.pin # 3 /\ (2 * n <= Cardinality(mask) \/ n = Cardinality(mask))

\* "(0, N/2), (1, N/2 + 1)", or "(0, 1), (2, 3)": every worker is bound to
\* CPUs that the boss may use, to at least one of them (the search for the
\* next CPU always finds one); and where workers are to have CPUs of their
\* own, they get no more than their share and no two have one in common.
Pinned ==
    \A t \in Threads :
        LET cpus == rt[t].cpus
            mask == rt[t].mask
            n == rt[t].nworkers IN
        rt[t].workers_started =>
            /\ Len(cpus) = n
            /\ \A w \in 1 .. n : cpus[w] # {} /\ cpus[w] \subseteq mask
            /\ OwnCpus(n, mask) =>
                 /\ \A w \in 1 .. n : Cardinality(cpus[w]) <= Cardinality(mask) \div n
                 /\ \A v, w \in 1 .. n : v # w => cpus[v] \cap cpus[w] = {}

\* The CPUs that a setting names: those of its last entry for cpuset.
Named(value) ==
    UNION {ToSet(value[i].data) :
             i \in {i \in DOMAIN value :
                     /\ value[i].name = "cpuset"
                     /\ \A j \in DOMAIN value : value[j].name = "cpuset" => j <= i}}

\* The user asks for CPUs of its own with "cpuset=".  A runtime whose thread
\* was created outside of a region keeps its workers on these CPUs, so that
\* two runtimes with different sets never compete for a CPU.
Isolated ==
    \A t \in Threads :
        /\ setting[t] # None /\ ~parent[t].worker
        /\ rt[t].workers_started /\ Named(setting[t]) \cap Cpus # {}
        => UNION ToSet(rt[t].cpus) \subseteq Named(setting[t])

\* The threads that have a value of their own for the destructor, or have
\* shut their runtime down.
Owners == {t \in Threads \ {Main} : key[t] \/ rt[t].state = "down"}

\* The threads that have ended without a value for the destructor and left
\* their runtime running.
Leaked == {t \in Threads : pc[t] \in {"done", "joined"} /\ rt[t].state = "up" /\ ~key[t]}

\* "so that its not null and will have destructor called": a thread that has
\* ended has shut its runtime down, unless KeysMax others with a runtime had
\* used up the keys.  thrd_exit, which makes no such promise, may leave a
\* runtime behind that has its value.
OwnRuntimeEnds == Leaked # {} => Cardinality(Owners) >= KeysMax

\* Where a thread is decides what its runtime can be.  A runtime that is up
\* belongs to the thread that boots it, and its destructor is registered last.
LifeCycle ==
    /\ pc[Main] \in {"func", "done", "joined"} /\ ~key[Main]
    /\ pc[Main] = "func" \/ rt[Main].state = "down"
    /\ \A t \in Threads :
         /\ pc[t] \in {"none", "wrapper"} => rt[t].state = "none"
         /\ pc[t] \in {"affinity", "key"} => rt[t].state = "up"
         /\ rt[t].state = "up" => rt[t].boss = t /\ rt[t].nworkers >= 1
         /\ rt[t].state = "down" => pc[t] \in {"done", "joined"}
         /\ rt[t].workers_started => rt[t].state = "up" /\ rt[t].mask # {}
                                     /\ pc[t] \notin {"affinity", "key"}
         /\ in[t] => rt[t].workers_started /\ pc[t] = "func"
         /\ key[t] => rt[t].state = "up" /\ pc[t] \in {"func", "exiting", "done", "joined"}

\* Every key was created for a thread that has its value or has shut its
\* runtime down; a thread without one found all keys taken.
KeysCounted ==
    /\ keys <= Cardinality(Owners)
    /\ \A t \in Threads \ {Main} :
         rt[t].state = "up" /\ ~key[t] /\ pc[t] \notin {"affinity", "key"} => keys = KeysMax

\* Only a thread that a worker created is moved after its creation.
Placed ==
    \A t \in Threads : \A u \in placing[t] :
        pc[u] # "none" /\ (pc[u] \in {"done", "joined"} \/ parent[u].worker)

\* A thread and its workers keep to the CPUs asked for.
KeptCpus ==
    \A t \in Threads :
        setting[t] # None /\ ~parent[t].worker /\ Named(setting[t]) \cap Cpus # {} =>
            /\ pc[t] \in {"key", "func", "exiting"} => aff[t] \subseteq Named(setting[t])
            /\ rt[t].workers_started => rt[t].mask \subseteq Named(setting[t])

\* What every step preserves.  Isolated needs to know who may still move a
\* thread (Placed), OwnRuntimeEnds which threads the keys went to
\* (KeysCounted); Pinned the state a runtime is in when its workers start.
ThreadsInv == TypeOK /\ LifeCycle /\ Pinned /\ KeysCounted /\ Placed /\ KeptCpus

\* A thread or strand that calls thrd_join gets an answer: a worker that asks for its
\* own boss is not left waiting for a region that waits for it.
JoinEnds == \A t \in Threads : joining[t] # {} ~> joining[t] = {}
=============================================================================
