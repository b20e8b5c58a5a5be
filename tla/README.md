# A verification project for multicilk

multicilk is the Cheetah runtime of OpenCilk, changed so that a process can
hold several runtimes, one per thread. This directory holds TLA+ models of the
runtime's concurrent core, TLC configurations that check them on small
instances, and proofs checked by TLAPS. All paths below are relative to
`src/runtime/` unless they start with `src/`.

## 1. Inventory

| Part | State | Operations | What must hold |
|---|---|---|---|
| THE protocol (`scheduler.c`, `cilk2c.c`, `cilk2c_inlined.c`) | `head`, `tail`, `exc`, the shadow stack, the deque lock | detach, leave_frame, Cilk_exception_handler; do_dekker_on, promote_child | each continuation is executed exactly once |
| Ready deque (`readydeque.c`) | `top`, `bottom`, a lock per worker | add, extract, peek at both ends | at most one closure between scheduler steps |
| Closure tree (`closure.c`) | parent, callee and sibling pointers, join counter, status, lock | create, add/remove child, suspend, make ready, destroy | the counter counts the list; a suspended closure has somebody to resume it |
| Scheduler (`scheduler.c`) | per worker: closure, current frame, map, fiber to free | Closure_steal, promotion, Cilk_sync, Closure_return, worker_scheduler | the parallel execution equals the serial one; no deadlock; nothing leaks |
| Exceptions (`personality.c`, `cilk2c.c`) | `user_exn`, `child_exn`, `right_exn`, throwing fiber, reraise CFA | personality routine, check_exception_raise, cleanup_fiber | the leftmost exception is handled, once |
| Reducer maps (`cilkred_map.c`, `reducer_impl.c`) | ID bitmap and hint; per map: views, log, counters, `merging` | create, lookup, destroy, log, unlog, merge | views reduced in serial order, none dropped, IDs not shared |
| Regions (`init.c`, `cilk2c_inlined.c`, `global.c`) | `start`, `done`, `cilkified`, `terminate`, `exiting_worker`, root closure | invoke_cilkified_root, wait, exit, scheduler_thread_proc, stop_workers | the boss continues only after the region; no missed wake-up |
| Fiber pools (`fiber-pool.c`, `fiber.c`) | per worker and shared pool: fibers, capacity, `in_use` | allocate, deallocate, batches, set-up, take-down | a stack in use is not in a pool; limits hold |
| Allocator (`internal-malloc.c`) | free lists per size class, worker and global; chunks; counters | malloc, free, batches, terminate, check | no block handed out twice or lost; accounting balances |
| Threads and configuration (`cilk_c11_threads.c`, `cilk2c.c`, `init.c`) | thread-local `my_cilkrts`, affinities, a key of thread-specific data | cilk_thrd_create, thrd_create, thrd_join, cilk_cfg_from_env, cilk_thrd_init, threads_init | a runtime per thread, on the CPUs it asked for, shut down at the thread's end |
| Reducer library (`src/include/cilk/*.h`) | per reducer: registration, monoid, leftmost view; a view per strand | construct, update, reduce, set, get, move, destroy | the value is the serial one; the leftmost view stays in the object; nothing left behind |
| Other | | statistics, alerts, pedigrees, mutex wrapper, context switch, tests, build files | |

How they interact. User code compiled for Cilk calls `cilk2c*.c`: entering a
Cilk function outside a region starts one (`init.c`), a spawn pushes its
parent's frame on the worker's shadow stack, a return pops it. Thieves reach
into the victim's stack (THE), turn the stolen frames into closures and run the
continuation on a new fiber. From then on the frame is *full*: its sync and its
children's returns go through the closure tree, and with the closures travel
reducer maps, exceptions and fibers. Locks are taken in the order deque, parent
closure, child closure; Closure_return gives closure locks up while user code
reduces views.

What is hard, and so what the properties are for (`hazards` in PROJECT.json
gives each at its line): the unlocked pop against the thief under a relaxed
memory model; the last child against the parent that suspends; the window in
Closure_return in which siblings change under a returning child; a stacklet
promoted while the victim runs on; concurrent exceptions; the stack on which a
worker still runs when it decides to free it; a slow worker of one region that
meets the next one; logs, counters, IDs, lists and pools at their limits;
memory freed by another worker than the one that allocated it; the order of the
shutdown; two threads that set one affinity; constructors that throw.

## 2. Modules

| Module | Models | Composed with |
|---|---|---|
| `WorkDeque` | what a worker's deque promises: atomic push, pop, steal | abstract specification |
| `THE` | the head/tail/exc protocol of one owner and any number of thieves | implements `WorkDeque` (`Deque == INSTANCE`) |
| `THE_proofs` | proofs about `THE`, with its refinement of `WorkDeque` | extends `THE` |
| `Scheduler` | everything inside one region: steals, promotion, sync, return, reducer and exception hand-over, fibers | uses the deque as `WorkDeque` specifies it |
| `Cilkify` | regions, worker life cycle, steal attempts at the region boundary | |
| `Reducers` | one runtime's reducer IDs and the maps of its strands | refines what `Scheduler` calls `Merge` |
| `InternalMalloc` | the allocator, as operators on its state | |
| `FiberPool` | fiber pools on top of it, the scheduler as client, start-up and shutdown | extends `InternalMalloc` |
| `Threads` | several runtimes in one process: creation, configuration, CPUs, joins, shutdown | a region of `Cilkify` is one step |
| `ScalarViews`, `MinMaxViews`, `ContainerViews` | the views of the reducer library | operators |
| `ReducerClasses` | the classes a program can instantiate, as records | |
| `ReducerLibrary` | the life of one reducer of any class over a computation | extends the four above |
| `Scheduler_proofs` | proofs about `Scheduler` | extends `Scheduler` |
| `Cilkify_proofs`, `Reducers_proofs`, `FiberPool_proofs`, `Threads_proofs`, `Library_proofs` | proofs about `Cilkify`, `Reducers`, `FiberPool`, `Threads`, `ReducerLibrary` and its views | each extends its module |
| `FoldInduction` | the loop rule: induction over a `FoldLeft` whose body is the module's parameter; lemmas on `InsertAt`, `RemoveAt`, `Min` | instantiated by `Reducers_proofs`, `FiberPool_proofs`, `Threads_proofs` with the loops of the code |
| `MC*` | instances for TLC: programs, symmetry sets | extend the modules above |

Definitions are named after the functions they model; PROJECT.json maps each to
its lines. Definitions introduced as *Variant* are plausible slips in that code; no
specification uses them. They are what the sensitivity of each property is
tested with.

### THE

The owner's variables are `head`, `tail`, `exc` and the array `stack`. The
unlocked accesses (`Detach`, `LeaveStoreTail`, `LeaveLoadExc`, the thief's
`FastHead`, `FastTail`, `IncrementExc`, `Fence`, `TestTail`) are one action
each. Relaxed and release stores pass through a store buffer: `vtail` is the
tail visible to thieves (`DrainTail`), `sb[t]` says that thief t's store to
`exc` is still buffered (`DrainExc`); sequentially consistent stores, fences
and locks wait for the buffer. A section under the owner's own deque lock is one action.
`Detach` has the assertion `tail + 1 < ltq_limit` as its guard.

### Scheduler

The user program is the constant `Code`. A worker is in one of a few control
states (`wst`) that separate the sections between two lock operations: a section
that holds a deque lock is one action; closure locks are the variable
`mutex` because `Closure_return` (`ReduceExn`, `DepositExn`, `ReduceMaps`,
`Relock`, `Return`) releases and retakes them. `StealFull` steals a frame that
has a closure; `StealStacklet` steals one that only the victim's shadow stack
knows, followed by `PromoteStacklet`, which turns the callees above it into
closures after the locks are released. A reducer map is the
sequence of updates it has absorbed; a stack pointer is the fiber it points
into. `Serial` is the serial elision of `Code`, the reference for results.
`Above[f]` is a frame with its ancestors, said without recursion: what every
set that has f and is closed under callers contains. The assertions of
`Cilk_sync` and `Closure_return` are in `Asserts` (about the tree, the maps and
the current frame, true of every program) and `FiberAsserts` (about stacks, which
the run `freed_stack` shows a program can violate).

### Cilkify

Only the root closure is kept of the computation. The boss's stores in
`invoke_cilkified_root` and the exiting worker's stores in
`exit_cilkified_root` are one action each, since workers run between any two of
them. The waits for `start` and for `cilkified` (`WaitStart`,
`WaitUntilCilkDone`) test the flag and go to sleep in one step, because both happen under
the mutex of the condition variable. Whoever sleeps (`"asleep"`) is woken only by the broadcast of
`SetStart` and `WakeToStop`, by the signal of `WakeBoss`, or for no reason
(`SpuriousWakeup`, to which no fairness applies), and tests again. `SleepInv` and the liveness
properties would show a wake-up that is missing or comes too early.

### Reducers

Strands are kept in serial order; `Fork` is a steal, `MergeStrands(n)` reduces
two neighbours. Maps have their real structure: views by ID, a log that
overflows at half the capacity, a view counter, the `merging` flag. Assertions and
`cilkrts_bug` lead to a final state named by `bug`. A reducer's
value is the sequence of its updates and `reduce_fn` is concatenation: the free
monoid, so that any order or loss shows. A program may destroy a reducer only
when no other strand can reach it, as the comment of `__cilkrts_hyper_destroy`
requires. An instance is a member of `Bounds`, so that one run covers several sizes.

### InternalMalloc and FiberPool

A block is its address; a descriptor has the free lists and counters of
`struct cilk_im_desc`. A whole call is one step, because everything outside of
the global lock is private to the worker. A loop of the code is a `FoldLeft` of
its body (`GlobalImAlloc`, `ImFreeBlock`, `Flush`, ...). `FiberPool` adds the pools and the
clients: `AllocateFromPool` and `DeallocateToPool` are
`cilk_fiber_allocate_from_pool` and `cilk_fiber_deallocate_to_pool`,
`Create` and `Destroy` the closures and maps, any of which another worker may
free. `Init` is the state after start-up, with half-filled pools and the root
closure; `FreeRoot`, `WorkerTerminate` and `GlobalTerminate` are the steps of
`__cilkrts_shutdown`.

### Threads

A thread is in the wrapper, in the steps of `cilk_thrd_init` (`StartRuntime`,
`SetAffinity`, `SetKey`, one action each because a worker may still be inside of
the `thrd_create` that made the thread, see `PlaceThread`), in the user's
function, or at its end. `in[t]` says that thread t waits for a region, so that
its code runs on a worker and `thrd_current` names the boss. `threads_init` is
the binding of workers to CPUs. `set_nworkers` may set any number up to the `nproc` of the
options, several times. Strands that run at the same time in
a region may be inside of `thrd_create` and `thrd_join` together: `placing[t]` and
`joining[t]` are the sets of the threads concerned, as many as the region has workers at most.
A thread ends in one of two ways. `ThreadReturns` leads to `Destructors`, which
shuts the runtime down if the thread has a value for the key. `thrd_exit` ends the thread at once,
as the code's comment warns: it "Does not support automatically calling the
appropriate destructor on data stored in tss" (`cilk_c11_threads.c:70`); the runtime stays.
Whether a C library runs destructors in `thrd_exit` is left open: one that does behaves
like `ThreadReturns`. `OwnRuntimeEnds` is about the threads whose destructors run. Programs join or detach what they create,
initialize once, exit outside of regions, and run Cilk code only on threads
with a runtime.

### Reducer library

A class is a record of its template parameters and of what its interface
offers. `ReducerLibrary` constructs one reducer (`Register`, `ConstructFirst`,
`Construct`, `ConstructThrows`), updates it on strands that `Fork` and `Merge`
split and join, in either direction of the map merge, and reads, moves and destroys it
in serial parts. `done` records what a strand asked for, and `Wanted` says what
the serial program makes of it, independently of the views: sums, intersections,
the first best argument, the concatenation of what the documentation says an update adds
(`Added`; a splice adds the spliced elements, whatever the allocators). The classes in
`OtherAllocator` are also checked with a container whose allocator is not the reducer's.

## 3. Runs

Passing runs:

| Run | Instance | Shows |
|---|---|---|
| `the` | 2 thieves, 4 slots, 4 spawns | `AtMostOnce`, `NoneLost`, the inductive invariant `THEInv`, that THE implements `WorkDeque`, and that an owner waiting for its deque lock gets it (`OwnerNotStarved`) |
| `scheduler` | 4 workers, three regions: 3 children with updates between; spawns below two nested calls; a child that throws, then two children and the continuation that do | the inductive invariant `SchedulerInv`; tree, wake-up, one owner per frame, assertions of sync and return (`Asserts`, `FiberAsserts`), reducer order, stacks, no leak, the serial exception is handled once, and the region ends (`Terminates`) |
| `cilkify` | 3 workers, 2 regions, shutdown | one worker has the root (`OneRoot`); the boss continues only after the region (`RegionOver`); nobody sleeps through a wake-up (`SleepInv`, part of the inductive invariant `CilkifyInv`); regions and shutdown end |
| `reducers` | up to 3 reducers, 2 or 4 IDs, 2 strands, 3 updates | no view dropped, serial order, through overflow and reset of the log; IDs reused by hint and by search, never shared; the table at its limit; the inductive invariant `ReducersInv` |
| `memory` | 2 workers, 2 size classes, pools of 2, shared pool of 2, 5 allocations | `NoOverlap`, `Accounts`, `WithinLimits`, `InUse`, and `NothingLeft` after the shutdown |
| `threads` | main and 2 threads, 4 CPUs with gaps, 2 or 4 workers on main, 1 to 4 on the threads, 3 environments, some with two `cpuset` entries, 1 key | `Pinned`, `Isolated`, `OwnRuntimeEnds`, the inductive invariant `ThreadsInv`, and `JoinEnds` |
| `library` | 42 classes, 7 of them also with another allocator, 3 strands, 3 updates, 2-bit numbers | `SerialValue`, `MoveOutValue`, `LeftmostKept`, `NothingBehind`, the inductive invariant `LibraryInv` |

Bounds. Two thieves are needed for a steal that fails while another is under
way; four slots let the owner and both thieves meet in the middle of the stack
and at its ends. Three siblings give a returning child a left and a right
neighbour that return in its unlocked window, and with four workers each
child and the continuation can run at the same time. Two regions are the smallest number in
which a worker of the last one meets the next. Four IDs give a log of two
entries, so that both the log and the array scan are exercised; three reducers
suffice for the hint to name an ID in use, and overflow a table of two. A single update cannot be out of order, three can be, in one view or two. `MaxClosures` and `MaxFibers` are large enough that no run is
stopped by them. In `memory` five allocations reach every limit: lists of two and
four blocks, pools of two fibers, a shared pool of two, so that batches are
served from lists, from the rest of a chunk and from a new one. CPUs 0, 2, 3, 5
are the smallest mask whose gaps make a group and the next CPU meet; two workers on it are bound to groups, four to single
CPUs, three (in the second environment) to single CPUs with one left over. One key
shows the case in which keys run out with two threads. Three strands give an associative
step, and 2-bit numbers wrap around.

Runs with an expected violation, each a disagreement between the code and what
a comment or assertion in it says (`findings` in PROJECT.json quotes the lines):

| Run | Counterexample |
|---|---|
| `lock_leak` | a slow thief that meets the next region's root leaves with closure and deque locked |
| `lost_exception` | a right sibling throws while its neighbour reduces without locks; the exception is destroyed with the closure |
| `freed_stack` | unwinding from a promoted callee into its unsynched caller frees the fiber the unwinder is on |
| `same_key` | a slot logged for a destroyed reducer is met again by a merge |
| `splice_front` | a `splice_front` of a whole list with another allocator inserts the range `x.begin(), x.begin()` and clears the list: the elements are lost |

More of the same kind is part of the models, without a run of its own:

* the boss makes the root ready without its lock, so it may do so between a
  thief's switch on the status and `increment_exception_pointer`, whose
  assertion (`scheduler.c:61`) lacks the exception for the root closure that
  `decrement_exception_pointer` makes (`Cilkify`, `Dekker`);
* the personality routine stores the exception in `user_exn`
  (`personality.c:71`); when the frame itself catches it nothing clears the field
  and it replaces the frame's next exception (`Scheduler`, `Catch`, `Replaced`);
* `thrd_create` on a worker sets the new thread's affinity after the thread
  has started (`cilk_c11_threads.c:49`), so the CPUs of its configuration can be
  overridden (`Threads`, `PlaceThread`; `Isolated` excludes such threads);
* a key per Cilk thread is never deleted and `pthread_key_create` is not checked
  (`cilk2c.c:81`): once the keys have run out, runtimes are no longer shut down
  (`SetKey`; `OwnRuntimeEnds` allows it);
* `cilkred_map_merge` sets `merging` and returns early for an empty map
  (`cilkred_map.c:161`); the surviving map, "Set true if merging"
  (`cilkred_map.h:35`), is not being merged any more, and its next lookup aborts with "User
  error: hyperobject used by another hyperobject" (`reducer_impl.c:330`). A strand that created and destroyed its
  only reducer has such an empty map (`Reducers`, `MergeMaps`, final state `"merging"`);
* the comment of the binding lists three cases (`init.c:204`-`207`) and the code has others: "Core
  count greater than worker count, do not bind workers to CPUs" is not done, the
  code binds them to single CPUs, as three workers on four CPUs in `threads`; "Otherwise, bind workers to single
  CPUs" is done for as many workers as CPUs but not for more; and a group is made of CPU
  numbers, so that in a mask with gaps it can be smaller than the floor the comment
  speaks of. `threads_init` is the code; `Pinned` asks for CPUs of their own only
  where code and comment agree (`OwnCpus`), and elsewhere only that workers stay within the mask;
* `thrd_exit` may leave a runtime running, which its comment in the source admits and the one in
  `cilk_c11_threads.h` does not mention (`Threads`, `thrd_exit`); that one says of a call by a worker
  that "the behavior is a no-op" (`src/include/cilk/cilk_c11_threads.h:38`), but the code ends the worker's
  thread (`cilk_c11_threads.c:83`; not modelled);
* with the is_set optimization an argument equal to the least (greatest) number
  does not record its index (`reducer_min_max.h`; `Calc`, `FirstBest`);
* `reducer_opand()` starts at `Type()`, not at the identity (`ReducerClasses`).

Met while reading, outside of the models: `internal_malloc_global_check` at shutdown
(with CILK_DEBUG) fails, since blocks freed globally are not taken off the
workers' counters, and so `Accounts` is about the running program;
`extend_global_pool` leaves entries of a grown `mem_list` uninitialized that
`global_im_pool_destroy` unmaps; `cilk_thrd_c11_wrapper` drops the function's
result, which `cilk_thread_tests/cilk_thrd_create.c:59` expects;
`cilk_cfg_from_env` passes NULL to `strtok_r` for an empty value;
`cilkg_nproc` is that of the runtime started last; the check that
`__cilkrts_atinit` comes in time is commented out;
`holder_monoid::deallocate` frees `sizeof(Type)` objects instead of one.

The third region of `scheduler` is chosen so that none of the exception defects is reachable in it
(no reducer map opens the window, no callee is promoted, and the continuation's
own exception always gives way to a child's, whose raise clears `user_exn`), and so shows that the
rest of the protocol is right. `cilkify` does not check deadlock: the lock leak is one,
and `RegionEnds` makes the exception for it explicit. `threads` and `library` do not
either: the process, and the life of a reducer, end.

Fairness. `THE`: threads keep running and store buffers drain (weak fairness of
the steps the runtime owes); user code owes no step and locks are not fair, as
with the spin locks of `mutex.c`. `Scheduler` and `Cilkify`: every worker
thread keeps running (`WF` of everything but stealing); the code does not ensure
that any steal succeeds, so none is assumed. `Threads`: the system schedules every
thread and answers its calls (`WF`), a region whose strands are in no call ends (`WF` of `LeaveRegion`, justified by
`RegionEnds` and `Terminates`), and a thread that can end eventually does (`SF` of `ThreadReturns` or
`thrd_exit`), as the caller of `thrd_join` relies on. In `Cilkify` a sleeper is owed nothing but its signal. An idle worker spins in
worker_scheduler: `FailedSteal` is that stuttering loop, so that a program that
waits on a resumed worker is not taken for a deadlock.

## 4. Proofs

`THE_proofs`, for every set of thieves, every number of slots and of spawns:

* `THEInvariant`: `Spec => []THEInv`
* `Exclusive`: `Spec => []AtMostOnce`
* `Complete`: `Spec => []NoneLost`

The only assumption is `THEAssumption` (sizes are natural numbers, `None` is
not a thief). Neither property is inductive: both follow from `THEInv`, whose
parts are `LockInv` (a thief inside the critical section holds the lock),
`ExcInv` (`exc` is one ahead of `head` exactly between the thief's visible
increment and the end of its attempt), `StatusInv` (a thief is past the peek only
while the owner is in user code), `BoundInv` (what thieves own, the frame a
thief is committed to included, lies below the visible tail, or below the slot the owner is about to
take) and `FrameInv` (the live slots hold exactly the frames nobody took, in
order). The first four are proved together as `CoreInv`, action by action;
`FrameInv` then rests on three lemmas: nothing changes (`FrameFrame`), the owner
pops (`PopKeepsFrames`), a thief commits. The argument's core is that the pop's
store of `tail` is sequentially consistent and the thief's increment is
followed by a fence: at `LeaveLoadExc` the owner either sees the increment, or the
thief's test comes later and sees the decrement.

`Library_proofs`, its part on views, for every width of the type, every set of bits, every range of
values and every set of indices: what the reduce functions of the library owe the
runtime. `MinMaxSplit`, `AddSplit`, `MulSplit` and `BitwiseSplit` say that an
update of the right view followed by the reduction equals the reduction followed by
the update, so that a steal between two updates does not change the result;
`MinMaxAssociative` and `MinMaxIdentity` (and parts of `BitwiseSplit`) are the
monoid laws. The assumptions are `ScalarAssumption` and `MinMaxAssumption` (the
modulus is positive, the default value is in range). `MinMaxSplit` needs that a view that has
seen no value is exactly the identity (`Contents`), which `calc` preserves
(`CalcContents`); the argument is that the
number such a view starts from is never better than another. The arithmetic rests on uniqueness of the remainder (`SameRemainder`).

`RefinesDeque` in `THE_proofs`: `Spec => ImplementsDeque`. The abstract deque is the
segment of the shadow stack between the logical head and tail (`Segment`), so that the
proof needs `FrameInv` and the lemmas on what is left of a segment without
its oldest or youngest frame. A push is `Detach`; a pop takes place where the
owner learns that it keeps its frame; a steal takes place at the thief's test, under the
lock. Every other step, the store buffers' included, is shown to stutter.

`Scheduler_proofs`, for every program, any set of workers and any number of closures and
fibers: `SchedulerInvariant` (`Spec => []SchedulerInv`, the type invariant included), and from it `TreeConsistentAlways`,
`NoLostWakeupAlways`, `OneOwnerAlways` and `AssertsAlways`. The run's `FairSpec` is `Spec` with fairness (the lemma
`FairIsSpec`), so they hold of it as well. `SchedulerAssumption` says what a program is:
a frame is one invocation, so the frames form a forest whose roots are the regions; a called function
that does not spawn has no Cilk frame; the compiler puts a sync behind the last spawn of a body.

None of the four properties is inductive, and they cannot be proved apart: that
the counter counts the list needs that only one worker links or unlinks a child
at a time, that needs that a closure has one owner, and that needs that a
frame a thief turns into a closure is not one that has a closure already. The parts of `SchedulerInv`:

* `Owners`: a worker holds at most one closure, whose status fits what the worker is
  doing; no two hold the same one. `Blank`: a destroyed closure is as a new one.
* `Lists`: some sequence orders the children of each closure, the sibling pointers
  follow it, the join counter is its length. (`TreeConsistent`, which counts, is
  derived from it; an existential sequence is what can be shown to survive
  `Add_child`, `Remove_child` and `Closure_create`, without a recursion along the list.)
* `Named`, `Placed`, `Callees`: a stolen frame has one closure, which lies below the
  closure of its caller; while a thief is between its steal and the end of the
  promotion (`Promoting`) the call chain is still incomplete.
* `NoLostWakeup`, `Unsynched`: children only below unsynched frames, or below the
  closure a thief is finishing; a returning closure has synched.
* `Stacks`: the stacklet of a running worker, from its closure's frame to the
  current frame, meets no other worker's; its only stolen frame is that of the closure, and the shadow stack has
  exactly the frames whose child is detached, oldest first. What is left of a
  victim's stacklet while the thief promotes it is such a stack, too.
* `Unbegun`: a frame that is still to be invoked is on no stack and was not stolen.

The step is proved action by action (`StealFullKeeps`, `StealStackletKeeps`, `PromoteStackletKeeps`, ...),
most of them from a few lemmas on what a group of actions leaves alone: steps that
touch no closure, steps that give the closure they hold a new status, steps on
the list. The hard ones are the two steals and the promotion: a thief's stack and the
victim's are the two halves of one stacklet, and the lemmas on `Above` say that the halves
are disjoint and that each shadow stack fits its half.
`OneOwner` needs `EmptyShadow` besides (a worker that is not running has an empty shadow stack).
`Asserts` needs `MapsInPlace` (which closures can have saved views: a closure's user views are
set only while it is suspended, and cleared before its frame runs on) and `ComesBack` (a worker that brings a closure back
has the parent's frame as its current one and no fiber to free), which is where the assertion
`w->l->fiber_to_free == NULL` of `Closure_return` comes from.

`Cilkify_proofs`, for any number of workers and regions: `CilkifyInvariant`, and from
it `OneRootAlways` and `RegionOverAlways`. `CilkifyInv` says which phase a region is in
(`Over`, `Starting`, `Started`, `Running`, `Ending`, `Stopping`) and for each of them where the root closure
is and what the flags are. `SleepInv` says that a worker sleeps only while `start` is clear and the boss only while `cilkified` is set.
The fact that makes the whole inductive is about the *last*
exiting worker: until the next region begins it is at the wait for `start`, or on
its way there from `done`; otherwise it would start a region twice. The fairness
conditions play no part, so the theorems hold of `FairSpec` as of any behaviour
of the actions.

`FoldInduction` has lemmas only: `FoldInvariant` is the rule for loops. The induction theorems of
the library have a predicate as a parameter, which cannot be instantiated here;
with a set in its place, and the minimum of a well-founded relation, induction is first-order
(`SetInduction`), and with it the existence of the function that `FoldLeft`
chooses (`FoldExists`).

`Reducers_proofs`, for any number of reducers, IDs, strands and updates: `ReducersInvariant`, and
`WithinArrays`, `IdsUniqueAlways`, `NothingDroppedAlways`, `ViewsSerialAlways`. None of the
four is inductive. `ReducersInv` adds `Scopes` (a strand has views only of reducers it may use, so a
reused ID meets empty slots everywhere), `Forgotten` (a slot without a key has no
value, so a merge that moves a view overwrites none) and `Reachable` (some strand has a view of every
registered reducer, so that `hyper_destroy` counts off a view only when there is one).
The merge loop over the log, or over the whole array after an overflow, is handled by
the loop rule: every slot that was visited has its final view, the others are as before, and a
second visit of a slot changes nothing. The assertion inside of that loop can
fail (run `same_key`), and so can the check for `merging`; the invariants
hold up to such a state, which is final in the model as in the program.

`Threads_proofs`, for every set of CPUs, every configuration, any number of threads and of
keys: `ThreadsInvariant`, `PinnedAlways`, `IsolatedAlways`, `OwnRuntimeEndsAlways`. `ThreadsInv` is made of
`LifeCycle` (what a runtime can be, given where its thread is), `Placed` (who may
still set the affinity of a thread), `KeptCpus` (the affinities a thread and its
workers can have, for `Isolated`) and `KeysCounted` (which threads the keys went to, for
`OwnRuntimeEnds`). The loops of `cilk_cfg_from_env` and of `threads_init` are
handled by the loop rule. For `threads_init` the invariant of the loop is that all CPUs left in
the mask lie ahead of the search and that no worker took more than its share, so that there are enough CPUs left
for the workers to come and the unbounded search ends. That proof gives more than `Pinned` asks: all
workers that are bound at all get disjoint CPUs. The assumption `ThreadsAssumption`
says that CPUs and threads are finite sets, that CPUs are numbers and that a
configuration is a sequence of entries. A first version of `Isolated`, in which any
`cpuset` entry counted, is false for configurations with several of them: `CPU_ZERO` (`cilk2c.c:193`)
makes the last one count, as `Named` now says.

`FiberPool_proofs`, for any number of workers, any size classes, capacities, chunk
and object sizes: `FiberPoolInvariant`, and from it `NoOverlapAlways`, `WithinLimitsAlways`, `InUseAlways`
and `NothingLeftAlways`. The assumptions are `MallocAssumption` (the classes increase, each has
a list of at least two blocks and fits a chunk) and `FiberPoolAssumption` (a pool has at least two
fibers and every object a class). `FiberPoolInv` says of the whole memory what a batch
keeps however it is cut short:

* `InOrder`: no address is twice in the free lists or in a list and in use (`Once`, `Out`), and
  the blocks, free and in use, lie below the first byte that no chunk has given out and do not overlap
  (`Separate`), so that the next block cut from the chunk overlaps none;
* `MemOK`: a thing in use lies in a block of its own class, no list of a worker exceeds its capacity,
  and per tag the counters of all workers and of the global descriptor, each of
  which may be negative, sum up to the things in use;
* `Pools`: the fibers of the pools are in use for the allocator, each is in one
  pool, and none is in the program's hands (`Apart`); `Limits` and `Counted` are the two properties as they are;
* `Down`: what the shutdown has emptied at each of its steps.

`NoOverlap` follows because everything that has an address is one of these
(`EntriesAre`) and two entries at one address are one (`OneEntry`). `NothingLeft` follows because
with empty hands and empty pools `MemOK` makes every tag's sum zero.
Each batch is handled by the loop rule, on what its body does to lists and blocks
(`TakeBlock`, `PutBlock`, `CutBlock`, `MoveBlock`). That a single batch of half of the capacity
brings a list below its limit, which `Free` and `DeallocateToPool` rely on, is part of
`FreeOK` and `PoolFreeBatchOK`.

`Library_proofs`, for every class, any operands and any number of strands: `LibraryInvariant`,
`LeftmostKeptAlways`, `NothingBehindAlways`. `LibraryInv` says which parts of the
object exist in each phase, that the first strand works on the view in the object, and that the
heap holds exactly one view for each other strand that has one. It needs a
counting argument for a new view (`FreshIsFree`: fewer views than strands) and, for the
merge, that in both directions the left view survives (`JoinedLeft`). The contents of
views play no part in it.

Only model-checked:

* liveness (`OwnerNotStarved`, `Terminates`, `RegionEnds`, `ShutdownEnds`,
  `JoinEnds`) and ENABLED, which are out of the prover's reach;
* `SerialReduction`, `SerialException` of `Scheduler`: results of a region are compared with
  `Serial`, a recursion over the program, for which there is no induction
  here; `SerialException` is moreover false of some programs (run `lost_exception`);
* `FiberAsserts`, `StacksAllocated`, `NoLeak`: false of programs that unwind through a promoted
  callee (run `freed_stack`), and so no theorems about every program; they hold in the regions of
  the run;
* `Accounts` of `FiberPool`: that no byte is lost is not true of every choice of sizes, since the
  end of a chunk that is too short for the next block is given up, as `wasted` records;
* `SerialValue` and `MoveOutValue`: the step from `MinMaxSplit` and its relatives to a whole
  computation is an induction over its updates with a different reference
  definition for every class.

## 5. Not modelled

* The simulated steal of `promote_own_deque`, a testing aid for one worker: it
  holds several closures of one worker in its deque and promotes frames of the
  running function, which the representation of a deque in `Scheduler` excludes.
* Reducers registered before the runtime exists (`m->global`,
  `reducers_import`): nothing calls that code in multicilk.
* Exit codes, `thrd_exit` on a worker (its comment calls it undefined),
  `worker_join`, `worker_exit`, the atinit and atexit callbacks, the C++ wrapper.
* Statistics, alerts and pedigrees (no influence on control); context switches
  and stack mapping (machine level); requests the allocator hands on to the
  system; `reducer_file.h`, `metaprogramming.h`, `cilk_stub.h` (a wrapper of a C
  library, types, macros).

The memory model of `Scheduler`, `Cilkify`, `FiberPool` and `Threads` is
sequentially consistent: their shared fields are accessed under locks or by one thread at a
time, and the relaxed accesses of the stack pointers are THE's.

## 6. Plan

What is left is proof: `Accounts` with the wasted ends of chunks in the balance;
`StacksAllocated` and `FiberAsserts` of `Scheduler` for the programs
without exceptions, on top of `SchedulerInv`; the order of the maps
(`SerialReduction`) from the order of the children in `Lists`.
