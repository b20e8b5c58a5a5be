--------------------------- MODULE InternalMalloc ---------------------------
(***************************************************************************)
(* The runtime's internal allocator (src/runtime/internal-malloc.c).  Every *)
(* worker has a free list per size class, from which it allocates without  *)
(* a lock; empty lists are filled, and long ones emptied, by batches       *)
(* exchanged with the global lists, which are cut from chunks obtained     *)
(* from the system.  A block may be freed by another worker than the one   *)
(* that allocated it.                                                      *)
(*                                                                         *)
(* The operators below map allocator states to allocator states: a batch   *)
(* moves under the global lock and everything else is private to a worker, *)
(* so that a whole call is one step.  A block is its address.              *)
(***************************************************************************)
EXTENDS Integers, Sequences, FiniteSets, SequencesExt

CONSTANTS NWorkers,        \* nproc
          BucketSizes,     \* bucket_sizes, increasing
          BucketCapacity,  \* bucket_capacity
          ChunkSize        \* INTERNAL_MALLOC_CHUNK_SIZE

Workers == 1 .. NWorkers
Buckets == 1 .. Len(BucketSizes)
Tags == {"closure", "fiber", "map"}

ASSUME MallocAssumption ==
    /\ NWorkers \in Nat \ {0} /\ ChunkSize \in Nat \ {0}
    /\ BucketSizes \in Seq(Nat) \ {<<>>} /\ BucketCapacity \in Seq(Nat)
    /\ Len(BucketCapacity) = Len(BucketSizes)
    /\ \A b \in Buckets : BucketSizes[b] \in 1 .. ChunkSize /\ BucketCapacity[b] > 1
    /\ \A b, c \in Buckets : b < c => BucketSizes[b] < BucketSizes[c]

\* size_to_bucket, for the sizes that have one; larger requests bypass the
\* allocator and go to the system.
SizeToBucket(size) == CHOOSE b \in Buckets :
    size <= BucketSizes[b] /\ \A c \in Buckets : c < b => BucketSizes[c] < size

BatchSize(b) == BucketCapacity[b] \div 2
Repeat(n, x) == [i \in 1 .. n |-> x]

\* init_im_buckets: a descriptor, one per worker and one for the global lists.
InitBuckets == [free |-> [b \in Buckets |-> <<>>], allocated |-> [b \in Buckets |-> 0],
                wasted |-> [b \in Buckets |-> 0], used |-> 0,
                num_malloc |-> [t \in Tags |-> 0]]

\* cilk_internal_malloc_global_init, per_worker_init.
MallocInit ==
    [l |-> [w \in Workers |-> InitBuckets], g |-> InitBuckets,
     pool |-> [mem_begin |-> 0, mem_end |-> 0, allocated |-> 0, wasted |-> 0]]

AddToFreeList(d, b, p) == [d EXCEPT !.free[b] = <<p>> \o @]

RemoveFromFreeList(d, b) == [d EXCEPT !.free[b] = Tail(@)]

\* extend_global_pool: chunks lie one after the other.
ExtendGlobalPool(s) ==
    [s EXCEPT !.pool = [mem_begin |-> @.allocated, mem_end |-> @.allocated + ChunkSize,
                        allocated |-> @.allocated + ChunkSize,
                        wasted |-> @.wasted + (@.mem_end - @.mem_begin)]]

\* global_im_alloc and add_to_free_list: a block of bucket b moves to worker
\* w's list, from the global list or else from the current chunk.
GlobalImAlloc(s, x) ==
    LET w == x[1]
        b == x[2]
        size == BucketSizes[b]
        t == [s EXCEPT !.g.used = @ + size]
        u == IF t.pool.mem_begin + size > t.pool.mem_end THEN ExtendGlobalPool(t) ELSE t
    IN IF t.g.free[b] # <<>>
       THEN [t EXCEPT !.g = RemoveFromFreeList(@, b),
                      !.l[w] = AddToFreeList(@, b, Head(t.g.free[b]))]
       ELSE [u EXCEPT !.pool.mem_begin = @ + size,
                      !.l[w] = AddToFreeList(@, b, u.pool.mem_begin)]

ImAllocateBatch(s, w, b) ==
    [FoldLeft(GlobalImAlloc, s, Repeat(BatchSize(b), <<w, b>>))
       EXCEPT !.l[w].allocated[b] = @ + BatchSize(b)]

\* Variant: the block stays in the worker's list.
ImFreeBlockKeeps(s, x) ==
    LET w == x[1]
        b == x[2]
        g == AddToFreeList(s.g, b, Head(s.l[w].free[b]))
    IN [s EXCEPT !.l[w].allocated[b] = @ - 1, !.g = [g EXCEPT !.used = @ - BucketSizes[b]]]

\* A block of bucket b goes from worker w's list to the global one.
ImFreeBlock(s, x) ==
    LET w == x[1]
        b == x[2]
        d == RemoveFromFreeList(s.l[w], b)
        g == AddToFreeList(s.g, b, Head(s.l[w].free[b]))
    IN [s EXCEPT !.l[w] = [d EXCEPT !.allocated[b] = @ - 1],
                 !.g = [g EXCEPT !.used = @ - BucketSizes[b]]]

\* Variant: the global counter forgets that the blocks came back.
ImFreeBatchUnaccounted(s, w, b) ==
    LET n == Min({BatchSize(b), Len(s.l[w].free[b])}) IN
    [FoldLeft(ImFreeBlock, s, Repeat(n, <<w, b>>)) EXCEPT !.g.used = s.g.used]

ImFreeBatch(s, w, b) ==
    LET n == Min({BatchSize(b), Len(s.l[w].free[b])}) IN
    FoldLeft(ImFreeBlock, s, Repeat(n, <<w, b>>))

\* cilk_internal_malloc: the new state and the block.
Malloc(s, w, size, tag) ==
    LET b == SizeToBucket(size)
        d == s.l[w]
        t == [s EXCEPT !.l[w] = [d EXCEPT !.used = @ + size, !.num_malloc[tag] = @ + 1,
                                          !.wasted[b] = @ + (BucketSizes[b] - size)]]
        u == IF t.l[w].free[b] = <<>> THEN ImAllocateBatch(t, w, b) ELSE t
    IN [mem |-> [u EXCEPT !.l[w] = RemoveFromFreeList(@, b)], p |-> Head(u.l[w].free[b])]

OverLimit(d, b) == Len(d.free[b]) > BucketCapacity[b]

\* cilk_internal_free.  One batch brings the list below its limit again.
Free(s, w, p, size, tag) ==
    LET b == SizeToBucket(size)
        d == AddToFreeList(s.l[w], b, p)
        t == [s EXCEPT !.l[w] = [d EXCEPT !.used = @ - size, !.num_malloc[tag] = @ - 1,
                                          !.wasted[b] = @ - (BucketSizes[b] - size)]]
    IN IF OverLimit(t.l[w], b) THEN ImFreeBatch(t, w, b) ELSE t

\* cilk_internal_free_global.
FreeGlobal(s, p, size, tag) ==
    LET b == SizeToBucket(size)
        g == AddToFreeList(s.g, b, p)
    IN [s EXCEPT !.g = [g EXCEPT !.num_malloc[tag] = @ - 1, !.used = @ - BucketSizes[b]]]

\* Batches until worker w's list of bucket b is empty.
Flush(s, x) == FoldLeft(ImFreeBlock, s, Repeat(Len(s.l[x[1]].free[x[2]]), x))

\* cilk_internal_malloc_per_worker_terminate.
MallocTerminate(s, w) ==
    LET t == FoldLeft(Flush, s, [b \in Buckets |-> <<w, b>>])
    IN [t EXCEPT !.g.num_malloc = [tag \in Tags |-> @[tag] + s.l[w].num_malloc[tag]],
                 !.l[w].num_malloc = [tag \in Tags |-> 0]]

-----------------------------------------------------------------------------
(* What internal_malloc_global_check computes *)

Plus(x, y) == x + y
SumOf(f) == FoldLeft(Plus, 0, f)
FreeBytes(d) == SumOf([b \in Buckets |-> Len(d.free[b]) * BucketSizes[b]])
WastedBytes(d) == SumOf(d.wasted)

\* workers_used_and_free
WorkersUsedAndFree(s) ==
    SumOf([w \in Workers |-> s.l[w].used + FreeBytes(s.l[w]) + WastedBytes(s.l[w])])

GlobalBalance(s) ==
    s.g.used + FreeBytes(s.g) + (s.pool.mem_end - s.pool.mem_begin) = s.pool.allocated
GlobalCheck(s) == GlobalBalance(s) /\ s.g.used = WorkersUsedAndFree(s)
=============================================================================
