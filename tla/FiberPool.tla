----------------------------- MODULE FiberPool -----------------------------
(***************************************************************************)
(* The runtime's memory from start-up to shutdown: the two-level fiber     *)
(* pools (src/runtime/fiber-pool.c, fiber.c) on top of the internal        *)
(* allocator, and the order in which init.c takes everything down.  A      *)
(* worker takes fibers from its own pool and exchanges batches with the    *)
(* shared pool, under its lock, when the pool is empty or full; what the   *)
(* shared pool cannot give or take comes from or goes to the allocator.    *)
(*                                                                         *)
(* The scheduler is the client: it creates closures, reducer maps and      *)
(* fibers on one worker and gives them back on any other.  A fiber is the  *)
(* address of its descriptor.                                              *)
(***************************************************************************)
EXTENDS InternalMalloc

CONSTANTS FiberPoolCap,     \* options.fiber_pool_cap
          GlobalPoolRatio,  \* GLOBAL_POOL_RATIO
          Size,             \* the size of an object of each tag
          MaxHeld,          \* bound: fibers in use at the same time
          MaxObjects,       \* bound: closures and maps at the same time
          MaxCalls          \* bound: allocations of the running program

ASSUME FiberPoolAssumption ==
    /\ FiberPoolCap \in Nat /\ FiberPoolCap > 1 /\ GlobalPoolRatio \in Nat
    /\ Size \in [Tags -> 1 .. BucketSizes[Len(BucketSizes)]]

BatchFraction == 2
GlobalCap == GlobalPoolRatio * FiberPoolCap

VARIABLES
    mem,      \* the internal allocator
    pool,     \* the private pools: fibers and in_use of each worker's
    gpool,    \* the shared pool
    held,     \* fibers in use
    objects,  \* closures and maps in use: address, tag, owner of a map
    root,     \* the root closure and its fiber
    calls,    \* allocations so far
    phase     \* counts down: Running, the workers still to be terminated, 0:
              \* the shared pool is, and Over

vars == <<mem, pool, gpool, held, objects, root, calls, phase>>

Running == NWorkers + 1
Over == -1

\* cilk_fiber_allocate: a new fiber goes to the end of worker w's pool.
FiberAllocate(s, w) ==
    LET m == Malloc(s.mem, w, Size["fiber"], "fiber") IN
    [s EXCEPT !.mem = m.mem, !.pool[w].fibers = Append(@, m.p)]

\* cilk_fiber_deallocate of the last fiber of worker w's pool.
FiberDeallocate(s, w) ==
    [s EXCEPT !.mem = Free(s.mem, w, Last(s.pool[w].fibers), Size["fiber"], "fiber"),
              !.pool[w].fibers = Front(@)]

FromParent(s, w) ==
    [s EXCEPT !.pool[w].fibers = Append(@, Last(s.gpool.fibers)),
              !.gpool.fibers = Front(@), !.gpool.in_use = @ + 1]

\* Variant: the shared pool's counter is not told.
ToParentUncounted(s, w) ==
    [s EXCEPT !.gpool.fibers = Append(@, Last(s.pool[w].fibers)),
              !.pool[w].fibers = Front(@)]

ToParent(s, w) ==
    [s EXCEPT !.gpool.fibers = Append(@, Last(s.pool[w].fibers)),
              !.gpool.in_use = @ - 1, !.pool[w].fibers = Front(@)]

\* fiber_pool_allocate_batch.  The capacity is large enough: the pool is empty.
PoolAllocateBatch(s, w) ==
    LET batch == FiberPoolCap \div BatchFraction
        n == Min({Len(s.gpool.fibers), batch})
        t == FoldLeft(FromParent, s, Repeat(n, w))
    IN FoldLeft(FiberAllocate, t, Repeat(batch - n, w))

\* Variant: the room in the shared pool is not looked at.
ParentRoomIgnored(s) == GlobalCap

ParentRoom(s) == GlobalCap - Len(s.gpool.fibers)

\* fiber_pool_free_batch.
PoolFreeBatch(s, w) ==
    LET batch == FiberPoolCap \div BatchFraction
        n == Min({batch, ParentRoom(s)})
        t == FoldLeft(ToParent, s, Repeat(n, w))
    IN FoldLeft(FiberDeallocate, t, Repeat(batch - n, w))

State == [mem |-> mem, pool |-> pool, gpool |-> gpool]
Becomes(s) == mem' = s.mem /\ pool' = s.pool /\ gpool' = s.gpool

\* global_state_init, workers_init (cilk_fiber_pool_per_worker_init fills half
\* of each pool) and the root closure and fiber of __cilkrts_startup, which
\* worker 0, here 1, allocates.
Init ==
    LET empty == [mem |-> MallocInit,
                  pool |-> [w \in Workers |-> [fibers |-> <<>>, in_use |-> 0]],
                  gpool |-> [fibers |-> <<>>, in_use |-> 0]]
        s == FoldLeft(PoolAllocateBatch, empty, [w \in Workers |-> w])
        c == Malloc(s.mem, 1, Size["closure"], "closure")
        f == Malloc(c.mem, 1, Size["fiber"], "fiber")
    IN /\ mem = f.mem /\ pool = s.pool /\ gpool = s.gpool
       /\ root = [closure |-> c.p, fiber |-> f.p]
       /\ held = {} /\ objects = {} /\ calls = 0 /\ phase = Running

-----------------------------------------------------------------------------
(* The running program *)

Call(n) == phase = Running /\ calls' = calls + n /\ calls' <= MaxCalls /\ UNCHANGED <<root, phase>>

\* cilk_fiber_allocate_from_pool.
AllocateFromPool(w) ==
    LET s == IF pool[w].fibers = <<>> THEN PoolAllocateBatch(State, w) ELSE State IN
    /\ Call(1) /\ Cardinality(held) < MaxHeld
    /\ held' = held \cup {Last(s.pool[w].fibers)}
    /\ Becomes([s EXCEPT !.pool[w] = [fibers |-> Front(@.fibers), in_use |-> @.in_use + 1]])
    /\ UNCHANGED objects

\* cilk_fiber_deallocate_to_pool: any worker may give back the fiber.
DeallocateToPool(w, f) ==
    LET s == IF Len(pool[w].fibers) = FiberPoolCap THEN PoolFreeBatch(State, w) ELSE State IN
    /\ Call(0) /\ f \in held
    /\ held' = held \ {f}
    /\ Becomes([s EXCEPT !.pool[w] = [fibers |-> Append(@.fibers, f), in_use |-> @.in_use - 1]])
    /\ UNCHANGED objects

\* Closure_create, cilkred_map_make_map.
Create(w, tag) ==
    LET m == Malloc(mem, w, Size[tag], tag) IN
    /\ Call(1) /\ Cardinality(objects) < MaxObjects
    /\ mem' = m.mem /\ objects' = objects \cup {[p |-> m.p, tag |-> tag]}
    /\ UNCHANGED <<pool, gpool, held>>

\* Closure_destroy, cilkred_map_destroy_map.
Destroy(w, o) ==
    /\ Call(0) /\ o \in objects
    /\ mem' = Free(mem, w, o.p, Size[o.tag], o.tag) /\ objects' = objects \ {o}
    /\ UNCHANGED <<pool, gpool, held>>

-----------------------------------------------------------------------------
(* __cilkrts_shutdown, after the workers have stopped *)

\* The root closure and its fiber go to the global lists.  Of the program's
\* objects the reducer map of the worker that exited last may be left.
FreeRoot ==
    /\ phase = Running /\ held = {} /\ Cardinality(objects) < 2
    /\ \A o \in objects : o.tag = "map"
    /\ mem' = FreeGlobal(FreeGlobal(mem, root.fiber, Size["fiber"], "fiber"),
                         root.closure, Size["closure"], "closure")
    /\ phase' = NWorkers
    /\ UNCHANGED <<pool, gpool, held, objects, root, calls>>

\* Variant: a worker's allocator is flushed before its fibers are freed.
WorkerTerminateEarly(w) ==
    LET s == [State EXCEPT !.mem = MallocTerminate(mem, w)] IN
    /\ phase = w
    /\ Becomes(FoldLeft(FiberDeallocate, s, Repeat(Len(pool[w].fibers), w)))
    /\ phase' = w - 1
    /\ UNCHANGED <<held, objects, root, calls>>

\* worker_terminate: the fibers of the pool, the map, then the lists.  The
\* exiting worker may be any of them.
WorkerTerminate(w) ==
    LET s == FoldLeft(FiberDeallocate, State, Repeat(Len(pool[w].fibers), w))
        Freed(o) == Free(s.mem, w, o.p, Size["map"], "map") IN
    /\ phase = w
    /\ \/ /\ objects = {} \/ w > 1
          /\ Becomes([s EXCEPT !.mem = MallocTerminate(@, w)])
          /\ UNCHANGED objects
       \/ \E o \in objects : /\ Becomes([s EXCEPT !.mem = MallocTerminate(Freed(o), w)])
                             /\ objects' = objects \ {o}
    /\ phase' = w - 1
    /\ UNCHANGED <<held, root, calls>>

\* cilk_fiber_deallocate_global.
FiberDeallocateGlobal(m, f) == FreeGlobal(m, f, Size["fiber"], "fiber")

\* global_state_terminate: cilk_fiber_pool_global_terminate.
GlobalTerminate ==
    /\ phase = 0
    /\ mem' = FoldLeft(FiberDeallocateGlobal, mem, gpool.fibers)
    /\ gpool' = [gpool EXCEPT !.fibers = <<>>]
    /\ phase' = Over
    /\ UNCHANGED <<pool, held, objects, root, calls>>

Ended == phase = Over /\ UNCHANGED vars

Next ==
    \/ \E w \in Workers :
          \/ AllocateFromPool(w) \/ \E f \in held : DeallocateToPool(w, f)
          \/ \E tag \in {"closure", "map"} : Create(w, tag)
          \/ \E o \in objects : Destroy(w, o)
          \/ WorkerTerminate(w)
    \/ FreeRoot \/ GlobalTerminate \/ Ended

Spec == Init /\ [][Next]_vars

-----------------------------------------------------------------------------
(* Properties *)

\* Everything that has an address: its place, the size of its bucket.
Entry(place, p, size) == [place |-> place, p |-> p, size |-> size]
Descriptors == [i \in 0 .. NWorkers |-> IF i = 0 THEN mem.g ELSE mem.l[i]]
FreeEntries == UNION {{Entry(<<"list", i, b, k>>, Descriptors[i].free[b][k], BucketSizes[b]) :
                         k \in DOMAIN Descriptors[i].free[b]} : i \in 0 .. NWorkers, b \in Buckets}
Classed(tag) == BucketSizes[SizeToBucket(Size[tag])]
FiberEntries ==
    (UNION {{Entry(<<"pool", w, k>>, pool[w].fibers[k], Classed("fiber")) :
               k \in DOMAIN pool[w].fibers} : w \in Workers})
    \cup {Entry(<<"gpool", k>>, gpool.fibers[k], Classed("fiber")) : k \in DOMAIN gpool.fibers}
    \cup {Entry(<<"held">>, f, Classed("fiber")) : f \in held}
ObjectEntries == {Entry(<<"object">>, o.p, Classed(o.tag)) : o \in objects}
RootEntries == IF phase # Running THEN {}
               ELSE {Entry(<<"root">>, root.fiber, Classed("fiber")),
                     Entry(<<"root">>, root.closure, Classed("closure"))}
Entries == FreeEntries \cup FiberEntries \cup ObjectEntries \cup RootEntries

\* No memory is handed out twice: the blocks in the lists, the fibers in the
\* pools and the objects in use do not overlap, whichever worker frees them.
NoOverlap == \A x, y \in Entries : x # y => x.p + x.size <= y.p \/ y.p + y.size <= x.p

\* No memory is lost: lists, pools, objects and the rest of the current chunk
\* make up all that came from the system.  While the program runs the accounts
\* that internal_malloc_global_check compares agree.  The chunks have no unused
\* ends, because batches of every class fill them evenly.
Accounts ==
    /\ FoldSet(LAMBDA x, n : n + x.size, 0, Entries)
         + (mem.pool.mem_end - mem.pool.mem_begin) = mem.pool.allocated
    /\ phase = Running => GlobalCheck(mem)
    /\ mem.pool.wasted = 0

\* Lists and pools stay within their limits: assert_bucket, and the
\* assertions on size and capacity of fiber_pool_free_batch.
WithinLimits ==
    /\ \A w \in Workers :
         /\ Len(pool[w].fibers) <= FiberPoolCap
         /\ \A b \in Buckets : ~OverLimit(mem.l[w], b)
    /\ Len(gpool.fibers) <= GlobalCap

\* in_use counts fibers "allocated - freed from / into the pool": the private
\* counters add up to the fibers in use, and the shared pool, which starts
\* empty, is owed what it holds.
InUse ==
    phase = Running => /\ SumOf([w \in Workers |-> pool[w].in_use]) = Cardinality(held)
                     /\ gpool.in_use = -Len(gpool.fibers)

\* The order of the shutdown leaves nothing: cilk_fiber_pool_*_destroy,
\* cilk_internal_malloc_per_worker_destroy and global_destroy find the pools
\* and lists empty and no tag with an object left.
NothingLeft ==
    phase = Over =>
        /\ \A w \in Workers : /\ pool[w].fibers = <<>>
                              /\ \A b \in Buckets : mem.l[w].free[b] = <<>>
        /\ gpool.fibers = <<>> /\ objects = {}
        /\ \A t \in Tags : mem.g.num_malloc[t] = 0
=============================================================================
