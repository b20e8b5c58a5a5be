----------------------------- MODULE Scheduler -----------------------------
(***************************************************************************)
(* The work-stealing scheduler of the Cheetah runtime inside one Cilkified *)
(* region (src/runtime/scheduler.c, closure.c, closure.h, cilk2c.c,        *)
(* personality.c): workers execute a spawn program; thieves promote the    *)
(* stolen frame to a full closure; children return to their parent         *)
(* concurrently, handing over reducer maps, exceptions and fibers; a frame *)
(* that waits at a sync is resumed by the last child to return.            *)
(*                                                                         *)
(* The program is a constant: Code[f] is the body of frame f, a sequence   *)
(* of <<"spawn", g>>, <<"call", g>>, <<"update", n>>, <<"sync", 0>>,       *)
(* <<"throw", e>> and <<"catch", 0>>, the end of a try block.  A spawned g *)
(* is a spawn helper, a called g is a function that spawns.  Updates and   *)
(* exceptions are numbered in the order of the serial execution.           *)
(*                                                                         *)
(* A worker's shadow stack is the atomic deque that module THE implements. *)
(* A reducer map is the sequence of the updates its views have absorbed    *)
(* (an absent map is empty); merging is concatenation.  A section that     *)
(* holds a deque lock is one action; a closure lock is a variable because  *)
(* Closure_return gives it up and takes it again.  A stack pointer is the  *)
(* fiber it points into.  0 is the null pointer.                           *)
(***************************************************************************)
EXTENDS Integers, Sequences, FiniteSets, SequencesExt

CONSTANTS Workers,      \* the workers, a set of positive integers
          Boss,         \* the worker that runs the root closure first
          Frames,       \* the frames of the program, positive integers
          Roots,        \* the root frames: the regions the program may start
          Code,         \* [Frames -> body]
          MaxClosures,  \* bound: closures alive at the same time
          MaxFibers     \* bound: fibers in use at the same time

Closures == 1 .. MaxClosures
Fibers == 1 .. MaxFibers
RootClosure == 1
RootFiber == 1

Ops(f, kind) == {Code[f][i][2] : i \in {j \in DOMAIN Code[f] : Code[f][j][1] = kind}}
Spawned == UNION {Ops(g, "spawn") : g \in Frames}
Detached(f) == f \in Spawned
Caller == [f \in Frames \ Roots |->
             CHOOSE g \in Frames : f \in Ops(g, "spawn") \cup Ops(g, "call")]
CallParent(f) == Caller[f]

\* Frame f and its ancestors: what every set that has f, and the caller of
\* each of its frames, contains.
CallerClosed == {S \in SUBSET Frames : \A f \in S \ Roots : CallParent(f) \in S}
Above == [f \in Frames |-> {g \in Frames : \A S \in CallerClosed : f \in S => g \in S}]

Operation == ({"spawn", "call"} \X Frames) \cup ({"update"} \X Nat)
             \cup ({"throw"} \X (Nat \ {0})) \cup ({"sync", "catch"} \X {0})
Invokes(op) == op[1] \in {"spawn", "call"}

ASSUME SchedulerAssumption ==
    /\ Workers \subseteq Nat \ {0} /\ Boss \in Workers
    /\ MaxClosures \in Nat \ {0} /\ MaxFibers \in Nat \ {0}
    /\ Frames \subseteq Nat \ {0} /\ Roots \subseteq Frames
    /\ Code \in [Frames -> Seq(Operation)]
    \* a frame is one invocation: the frames are the nodes of a forest
    /\ \A f, g \in Frames : \A i \in DOMAIN Code[f], j \in DOMAIN Code[g] :
         Invokes(Code[f][i]) /\ Invokes(Code[g][j]) /\ Code[f][i][2] = Code[g][j][2]
            => f = g /\ i = j
    /\ \A f \in Frames : \A i \in DOMAIN Code[f] : Invokes(Code[f][i]) => Code[f][i][2] \notin Roots
    /\ \A f \in Frames \ Roots : \E g \in Frames : f \in Ops(g, "spawn") \cup Ops(g, "call")
    /\ \A f \in Frames \ Roots : f \notin Above[CallParent(f)]
    \* a function that does not spawn has no Cilk frame
    /\ \A f \in Frames : \A g \in Ops(f, "call") : Ops(g, "spawn") # {}
    \* the compiler puts a sync at the end of a body that spawns
    /\ \A f \in Frames : Ops(f, "spawn") # {} =>
         \E i \in DOMAIN Code[f] : /\ Code[f][i][1] = "sync"
                                  /\ \A j \in DOMAIN Code[f] :
                                        Code[f][j][1] = "spawn" => j < i

VARIABLES
    \* per worker
    wst,      \* "idle": stealing; "has": holds closure cl; "run": user code;
              \* "back": back in the runtime; "promote", "finish": completes a
              \* steal; "exn", "red", "relock": inside Closure_return
    cl,       \* the closure t of worker_scheduler
    cur,      \* current_stack_frame
    shadow,   \* shadow stack: frames with a stealable continuation, oldest first
    dq,       \* the closure in the ready deque
    rmap,     \* reducer_map
    ftf,      \* fiber_to_free
    on,       \* the fiber whose stack the worker executes user code on
    \* per frame
    at,       \* index of the next operation
    inflight, \* exception that unwinds the frame
    stolen,   \* frames with CILK_FRAME_STOLEN: they have a closure
    unsynced, \* frames with CILK_FRAME_UNSYNCHED
    pending,  \* frames with CILK_FRAME_EXCEPTION_PENDING
    sp,       \* stack pointer in the frame's jump buffer
    caught,   \* exceptions that a handler has caught
    \* shared
    clo,      \* the closures
    mutex,    \* holder of each closure lock
    fibers,   \* the fibers in the pools
    exiting   \* exiting_worker once the region is done

deque == <<shadow, dq>>
worker == <<wst, cl>>
flags == <<stolen, unsynced, pending>>
program == <<at, inflight, caught>>
vars == <<wst, cl, cur, shadow, dq, rmap, ftf, on, at, inflight, stolen, unsynced,
          pending, sp, caught, clo, mutex, fibers, exiting>>

\* Closure_init
FreshClosure ==
    [status |-> "FREE", frame |-> 0, join_counter |-> 0,
     has_cilk_callee |-> FALSE, callee |-> 0, call_parent |-> 0,
     spawn_parent |-> 0, left_sib |-> 0, right_sib |-> 0, right_most_child |-> 0,
     fiber |-> 0, fiber_child |-> 0, saved_throwing_fiber |-> 0,
     orig_rsp |-> 0, parent_rsp |-> 0,
     child_rmap |-> <<>>, right_rmap |-> <<>>, user_rmap |-> <<>>,
     child_exn |-> 0, right_exn |-> 0, user_exn |-> 0]

\* invoke_cilkified_root made the root closure ready; the worker that runs
\* first starts worker_scheduler with it.
Init ==
    /\ wst = [w \in Workers |-> IF w = Boss THEN "has" ELSE "idle"]
    /\ cl = [w \in Workers |-> IF w = Boss THEN RootClosure ELSE 0]
    /\ cur = [w \in Workers |-> 0]
    /\ shadow = [w \in Workers |-> <<>>]
    /\ dq = [w \in Workers |-> 0]
    /\ rmap = [w \in Workers |-> <<>>]
    /\ ftf = [w \in Workers |-> 0]
    /\ on = [w \in Workers |-> 0]
    /\ at = [f \in Frames |-> 1]
    /\ inflight = [f \in Frames |-> 0]
    /\ unsynced = {} /\ pending = {} /\ caught = {}
    /\ \E r \in Roots :
         /\ stolen = {r}
         /\ sp = [f \in Frames |-> IF f = r THEN RootFiber ELSE 0]
         /\ clo = [c \in Closures |->
                     IF c = RootClosure
                     THEN [FreshClosure EXCEPT !.status = "READY", !.frame = r,
                                               !.fiber = RootFiber]
                     ELSE FreshClosure]
    /\ mutex = [c \in Closures |-> 0]
    /\ fibers = Fibers \ {RootFiber}
    /\ exiting = 0

-----------------------------------------------------------------------------
(* Operations on the closure tree *)

\* Closure c becomes r; nothing for the null pointer.
Upd(C, c, r) == IF c = 0 THEN C ELSE [C EXCEPT ![c] = r]

\* Variant: only spawned children count, not a callee.
HasChildrenSpawned(c) == c.join_counter # 0
HasChildren(c) == c.has_cilk_callee \/ c.join_counter # 0

FreeClosures == {c \in Closures : clo[c].status = "FREE"}

Smallest(S) == CHOOSE x \in S : \A y \in S : x <= y

\* Closure_create, called once and once more.
Created == Smallest(FreeClosures)
CreatedNext == Smallest(FreeClosures \ {Created})

\* Variant: the join counter is not incremented.
Add_childUncounted(C, p, c) ==
    LET r == C[p].right_most_child
        D == Upd(C, r, [C[r] EXCEPT !.right_sib = c])
        E == Upd(D, c, [D[c] EXCEPT !.left_sib = r, !.spawn_parent = p])
    IN Upd(E, p, [E[p] EXCEPT !.right_most_child = c])

\* Closure_add_child, and promote_child's increment of the join counter.
Add_child(C, p, c) ==
    LET r == C[p].right_most_child
        D == Upd(C, r, [C[r] EXCEPT !.right_sib = c])
        E == Upd(D, c, [D[c] EXCEPT !.left_sib = r, !.spawn_parent = p])
    IN Upd(E, p, [E[p] EXCEPT !.right_most_child = c, !.join_counter = @ + 1])

\* Variant: right_most_child is not updated.
Remove_childKeepRightMost(C, p, c) ==
    LET l == C[c].left_sib
        r == C[c].right_sib
        D == Upd(C, l, [C[l] EXCEPT !.right_sib = r])
    IN Upd(D, r, [D[r] EXCEPT !.left_sib = l])

\* Closure_remove_child with unlink_child.
Remove_child(C, p, c) ==
    LET l == C[c].left_sib
        r == C[c].right_sib
        D == Upd(C, l, [C[l] EXCEPT !.right_sib = r])
        E == Upd(D, r, [D[r] EXCEPT !.left_sib = l])
    IN Upd(E, p, [E[p] EXCEPT !.right_most_child = IF @ = c THEN l ELSE @])

Destroy(C, c) == [C EXCEPT ![c] = FreshClosure]

\* Variant: the views of the right map come first.
MergeSwapped(left, right) == right \o left

\* merge_two_rmaps: the views of left come first in serial order.
Merge(left, right) == left \o right

Unlocked(c) == mutex[c] = 0
Freed(S) == fibers \cup (S \ {0})

-----------------------------------------------------------------------------
(* worker_scheduler and do_what_it_says *)

Set(var, w, x) == [var EXCEPT ![w] = x]

\* CLOSURE_READY: setup_for_execution and longjmp_to_user_code.
ExecuteReady(w) ==
    LET t == cl[w] IN
    /\ wst[w] = "has" /\ clo[t].status = "READY" /\ Unlocked(t)
    /\ clo' = Upd(clo, t, [clo[t] EXCEPT !.status = "RUNNING"])
    /\ cur' = Set(cur, w, clo[t].frame)
    /\ shadow' = Set(shadow, w, <<>>)
    /\ dq' = Set(dq, w, t)
    /\ on' = Set(on, w, sp[clo[t].frame])
    /\ wst' = Set(wst, w, "run")
    /\ cl' = Set(cl, w, 0)
    /\ UNCHANGED <<rmap, ftf, program, flags, sp, mutex, fibers, exiting>>

\* CLOSURE_RETURNING: return_value enters Closure_return.
ExecuteReturning(w) ==
    /\ wst[w] = "has" /\ clo[cl[w]].status = "RETURNING" /\ Unlocked(cl[w])
    /\ wst' = Set(wst, w, "exn")
    /\ UNCHANGED <<cl, cur, deque, rmap, ftf, on, program, flags, sp, clo, mutex,
                   fibers, exiting>>

\* Variant: the fiber left behind is dropped, not freed.
BackInRuntimeLeaks(w) ==
    /\ wst[w] = "back"
    /\ ftf' = Set(ftf, w, 0)
    /\ cl' = Set(cl, w, dq[w])
    /\ dq' = Set(dq, w, 0)
    /\ wst' = Set(wst, w, IF dq[w] = 0 THEN "idle" ELSE "has")
    /\ UNCHANGED <<cur, shadow, rmap, on, program, flags, sp, clo, mutex, fibers, exiting>>

\* After longjmp_to_runtime: free the fiber that was left behind and look
\* for a closure in the own deque.
BackInRuntime(w) ==
    /\ wst[w] = "back"
    /\ fibers' = Freed({ftf[w]})
    /\ ftf' = Set(ftf, w, 0)
    /\ cl' = Set(cl, w, dq[w])
    /\ dq' = Set(dq, w, 0)
    /\ wst' = Set(wst, w, IF dq[w] = 0 THEN "idle" ELSE "has")
    /\ UNCHANGED <<cur, shadow, rmap, on, program, flags, sp, clo, mutex, exiting>>

-----------------------------------------------------------------------------
(* User code, as compiled *)

Running(w) == wst[w] = "run"

\* Frame f of worker w is about to perform an operation of this kind.
AtOp(w, kind) ==
    LET f == cur[w] IN
    /\ Running(w) /\ inflight[f] = 0 /\ f \notin pending
    /\ at[f] <= Len(Code[f]) /\ Code[f][at[f]][1] = kind

Arg(w) == Code[cur[w]][at[cur[w]]][2]
Advance(w) == at' = [at EXCEPT ![cur[w]] = @ + 1]

\* enter_frame_fast and detach of the spawn helper.
Spawn(w) ==
    /\ AtOp(w, "spawn") /\ Advance(w)
    /\ shadow' = Set(shadow, w, Append(shadow[w], cur[w]))
    /\ cur' = Set(cur, w, Arg(w))
    /\ UNCHANGED <<worker, dq, rmap, ftf, on, inflight, caught, flags, sp, clo,
                   mutex, fibers, exiting>>

\* enter_frame
Call(w) ==
    /\ AtOp(w, "call") /\ Advance(w)
    /\ cur' = Set(cur, w, Arg(w))
    /\ UNCHANGED <<worker, deque, rmap, ftf, on, inflight, caught, flags, sp, clo,
                   mutex, fibers, exiting>>

\* hyper_lookup gives the worker's own view, created if there is none.
Update(w) ==
    /\ AtOp(w, "update") /\ Advance(w)
    /\ rmap' = Set(rmap, w, Append(rmap[w], Arg(w)))
    /\ UNCHANGED <<worker, cur, deque, ftf, on, inflight, caught, flags, sp, clo,
                   mutex, fibers, exiting>>

Throw(w) ==
    /\ AtOp(w, "throw") /\ Advance(w)
    /\ inflight' = [inflight EXCEPT ![cur[w]] = Arg(w)]
    /\ UNCHANGED <<worker, cur, deque, rmap, ftf, on, caught, flags, sp, clo, mutex,
                   fibers, exiting>>

EndTry(w) ==
    /\ AtOp(w, "catch") /\ Advance(w)
    /\ UNCHANGED <<worker, cur, deque, rmap, ftf, on, inflight, caught, flags, sp,
                   clo, mutex, fibers, exiting>>

\* Cilk_sync of frame cur[w], whose closure t is updated to C already.
\* Not ready: the closure is suspended and the worker goes back to steal.
CilkSyncSuspend(w, C) ==
    LET t == dq[w] IN
    /\ HasChildren(C[t])
    /\ clo' = Upd(C, t, [C[t] EXCEPT
                           !.status = "SUSPENDED", !.fiber = 0, !.user_rmap = rmap[w],
                           !.saved_throwing_fiber = IF C[t].user_exn = 0 THEN @
                                                    ELSE C[t].fiber])
    /\ ftf' = Set(ftf, w, IF C[t].user_exn = 0 THEN C[t].fiber ELSE 0)
    /\ rmap' = Set(rmap, w, <<>>)
    /\ dq' = Set(dq, w, 0)
    /\ on' = Set(on, w, 0)
    /\ wst' = Set(wst, w, "back")
    /\ UNCHANGED <<unsynced, pending, sp>>

\* Ready: setup_for_sync goes back to the original fiber; the views and the
\* exception of the children are reduced into the frame.
CilkSyncReady(w, C) ==
    LET t == dq[w] IN
    /\ ~HasChildren(C[t])
    /\ ftf' = Set(ftf, w, C[t].fiber)
    /\ clo' = Upd(C, t, [C[t] EXCEPT
                           !.fiber = C[t].fiber_child, !.fiber_child = 0,
                           !.orig_rsp = 0, !.child_exn = 0, !.child_rmap = <<>>,
                           !.user_exn = IF C[t].child_exn = 0 THEN @ ELSE C[t].child_exn])
    /\ sp' = Set(sp, cur[w], C[t].orig_rsp)
    /\ on' = Set(on, w, C[t].orig_rsp)
    /\ pending' = IF C[t].child_exn = 0 THEN pending ELSE pending \cup {cur[w]}
    /\ rmap' = Set(rmap, w, Merge(C[t].child_rmap, rmap[w]))
    /\ unsynced' = unsynced \ {cur[w]}
    /\ UNCHANGED <<dq, wst>>

\* A fiber left by an earlier sync of an ancestor is freed first.
CilkSync(w, C) ==
    /\ Unlocked(dq[w])
    /\ fibers' = Freed({ftf[w]})
    /\ CilkSyncSuspend(w, C) \/ CilkSyncReady(w, C)
    /\ UNCHANGED <<cl, cur, shadow, stolen, caught, mutex, exiting>>

\* Compiled code calls __cilkrts_sync only if the frame is marked unsynched.
Sync(w) ==
    /\ AtOp(w, "sync") /\ Advance(w)
    /\ \/ cur[w] \in unsynced /\ CilkSync(w, clo)
       \/ cur[w] \notin unsynced /\ UNCHANGED <<worker, cur, deque, rmap, ftf, on,
               flags, sp, caught, clo, mutex, fibers, exiting>>
    /\ UNCHANGED inflight

\* __cilkrts_check_exception_raise: take the closure's exception and raise it.
RaiseUserExn(w) ==
    LET f == cur[w]
        t == dq[w] IN
    /\ inflight' = [inflight EXCEPT ![f] = clo[t].user_exn]
    /\ clo' = Upd(clo, t, [clo[t] EXCEPT !.user_exn = 0])
    /\ pending' = pending \ {f}
    /\ UNCHANGED <<worker, cur, deque, rmap, ftf, on, at, stolen, unsynced, sp,
                   caught, mutex, fibers, exiting>>

\* Compiled code after a sync.
CheckException(w) ==
    /\ Running(w) /\ inflight[cur[w]] = 0 /\ cur[w] \in pending /\ Unlocked(dq[w])
    /\ RaiseUserExn(w)

-----------------------------------------------------------------------------
(* Exceptions: the personality function runs on every frame that spawns    *)

Unwinding(w) == Running(w) /\ inflight[cur[w]] # 0
HasPersonality(f) == Ops(f, "spawn") # {}

\* An unsynched frame is synched before it is unwound; the sync returns to
\* the personality function, on the stack of the unwinder.
UnwindSync(w) ==
    LET f == cur[w]
        t == dq[w] IN
    /\ Unwinding(w) /\ f \in unsynced
    /\ CilkSync(w, Upd(clo, t, [clo[t] EXCEPT !.user_exn = inflight[f],
                                              !.parent_rsp = clo[t].orig_rsp,
                                              !.orig_rsp = on[w]]))
    /\ UNCHANGED <<at, inflight>>

\* The closure has another exception than the one that unwinds the frame.
Replaced(w) == /\ HasPersonality(cur[w])
               /\ clo[dq[w]].user_exn \notin {0, inflight[cur[w]]}

Reraise(w) ==
    /\ Unwinding(w) /\ cur[w] \notin unsynced /\ Replaced(w) /\ Unlocked(dq[w])
    /\ RaiseUserExn(w)

Unwound(w) == Unwinding(w) /\ cur[w] \notin unsynced /\ ~Replaced(w)

\* The ends of the try blocks that enclose what frame f executes.
Handlers(f) == {i \in DOMAIN Code[f] : i >= at[f] /\ Code[f][i][1] = "catch"}

\* The landing pad of a handler: __cilkrts_cleanup_fiber goes back to the
\* frame's own stack and frees the fiber that was kept for the unwinder.
Catch(w) ==
    LET f == cur[w]
        t == dq[w]
        synced == clo[t].parent_rsp # 0 IN
    /\ Unwound(w) /\ Handlers(f) # {}
    /\ at' = [at EXCEPT ![f] = 1 + CHOOSE i \in Handlers(f) :
                                     \A j \in Handlers(f) : i <= j]
    /\ caught' = caught \cup {inflight[f]}
    /\ inflight' = [inflight EXCEPT ![f] = 0]
    /\ on' = Set(on, w, IF synced THEN clo[t].parent_rsp ELSE clo[t].fiber)
    /\ clo' = IF synced THEN Upd(clo, t, [clo[t] EXCEPT !.parent_rsp = 0,
                                                        !.saved_throwing_fiber = 0])
              ELSE clo
    /\ fibers' = IF synced THEN Freed({clo[t].saved_throwing_fiber}) ELSE fibers
    /\ UNCHANGED <<worker, cur, deque, rmap, ftf, flags, sp, mutex, exiting>>
-----------------------------------------------------------------------------
(* Leaving a frame, normally or because an exception unwinds it *)

Leaving(w) ==
    LET f == cur[w] IN
    \/ /\ Running(w) /\ inflight[f] = 0
       /\ f \notin unsynced \cup pending /\ at[f] > Len(Code[f])
    \/ Unwound(w) /\ Handlers(f) = {}

\* The exception goes on to unwind the caller.
PassExn(f) ==
    inflight' = [inflight EXCEPT ![f] = 0, ![CallParent(f)] = inflight[f]]

\* pop_frame and leave_frame of a frame that has no closure and was called.
LeaveCalled(w) ==
    LET f == cur[w] IN
    /\ Leaving(w) /\ f \notin Roots /\ ~Detached(f) /\ f \notin stolen
    /\ cur' = Set(cur, w, CallParent(f))
    /\ PassExn(f)
    /\ UNCHANGED <<worker, deque, rmap, ftf, on, at, caught, flags, sp, clo, mutex,
                   fibers, exiting>>

\* leave_frame / pause_frame of a spawn helper: the parent was not stolen.
LeavePop(w) ==
    LET f == cur[w] IN
    /\ Leaving(w) /\ Detached(f) /\ shadow[w] # <<>>
    /\ shadow' = Set(shadow, w, Front(shadow[w]))
    /\ cur' = Set(cur, w, CallParent(f))
    /\ PassExn(f)
    /\ UNCHANGED <<worker, dq, rmap, ftf, on, at, caught, flags, sp, clo, mutex,
                   fibers, exiting>>

\* Cilk_exception_handler: the parent was stolen, return through the runtime.
LeaveStolen(w) ==
    LET f == cur[w]
        t == dq[w] IN
    /\ Leaving(w) /\ Detached(f) /\ shadow[w] = <<>> /\ Unlocked(t)
    /\ clo' = Upd(clo, t, [clo[t] EXCEPT !.status = "RETURNING",
                               !.user_exn = IF inflight[f] = 0 THEN @ ELSE inflight[f]])
    /\ inflight' = [inflight EXCEPT ![f] = 0]
    /\ cur' = Set(cur, w, CallParent(f))
    /\ on' = Set(on, w, 0)
    /\ wst' = Set(wst, w, "back")
    /\ UNCHANGED <<cl, deque, rmap, ftf, at, caught, flags, sp, mutex, fibers, exiting>>

\* Cilk_set_return: a called frame with a closure returns to its caller's
\* closure, which setup_call_parent_resumption resumes.
SetReturn(w) ==
    LET f == cur[w]
        t == dq[w]
        p == clo[t].call_parent IN
    /\ Leaving(w) /\ f \notin Roots /\ ~Detached(f) /\ f \in stolen
    /\ Unlocked(t) /\ Unlocked(p)
    /\ clo' = Upd(Destroy(clo, t), p, [clo[p] EXCEPT !.status = "RUNNING", !.callee = 0,
                                                     !.has_cilk_callee = FALSE])
    /\ dq' = Set(dq, w, p)
    /\ cur' = Set(cur, w, CallParent(f))
    /\ PassExn(f)
    /\ UNCHANGED <<worker, shadow, rmap, ftf, on, at, caught, flags, sp, mutex,
                   fibers, exiting>>

\* pop_frame of the root: exit_cilkified_root ends the region.
ExitRoot(w) ==
    /\ Leaving(w) /\ cur[w] \in Roots
    /\ exiting' = w
    /\ dq' = Set(dq, w, 0)
    /\ on' = Set(on, w, 0)
    /\ wst' = Set(wst, w, "back")
    /\ UNCHANGED <<cl, cur, shadow, rmap, ftf, program, flags, sp, clo, mutex, fibers>>

-----------------------------------------------------------------------------
(* Closure_steal *)

\* The victim has a frame to steal, and the thief wins its closure's lock and
\* Dekker's protocol.  An attempt that fails changes nothing.
Stealable(w, v) ==
    /\ wst[w] = "idle" /\ exiting = 0 /\ v # w
    /\ dq[v] # 0 /\ Unlocked(dq[v]) /\ clo[dq[v]].status = "RUNNING"
    /\ shadow[v] # <<>>
    /\ Cardinality(FreeClosures) > 1 /\ fibers # {}     \* the bounds

\* The end of promote_child, and extract_top_spawning_closure: the victim
\* continues in a new child closure, on the old fiber; the thief has the
\* spawn parent, on a new one, and keeps its lock.
Extract(w, v, C, spawn_parent, child) ==
    LET old == clo[dq[v]].fiber
        new == Smallest(fibers)
        D == Add_child(C, spawn_parent, child)
        E == Upd(D, child, [D[child] EXCEPT !.status = "RUNNING", !.fiber = old]) IN
    /\ clo' = Upd(E, spawn_parent, [E[spawn_parent] EXCEPT
                                       !.fiber = new,
                                       !.orig_rsp = IF @ = 0 THEN old ELSE @])
    /\ fibers' = fibers \ {new}
    /\ stolen' = stolen \cup {Head(shadow[v])}
    /\ shadow' = Set(shadow, v, Tail(shadow[v]))
    /\ dq' = Set(dq, v, child)
    /\ cl' = Set(cl, w, spawn_parent)
    /\ mutex' = Set(mutex, spawn_parent, w)
    /\ UNCHANGED <<cur, rmap, ftf, on, program, unsynced, pending, sp, exiting>>

\* The oldest frame has a closure already, or is the spawn helper that the
\* victim's closure stands for.
StealFull(w, v) ==
    LET c == dq[v]
        f == Head(shadow[v]) IN
    /\ Stealable(w, v) /\ (clo[c].frame = f \/ Detached(f))
    /\ Extract(w, v, Upd(clo, c, [clo[c] EXCEPT !.frame = f]), c, Created)
    /\ wst' = Set(wst, w, "finish")

\* The oldest frame was called by the closure's frame or by one below it: it
\* gets a closure of its own and the victim's closure is suspended.
StealStacklet(w, v) ==
    LET c == dq[v]
        f == Head(shadow[v])
        C == Upd(Upd(clo, Created, [clo[Created] EXCEPT !.status = "RUNNING", !.frame = f,
                                                        !.call_parent = c]),
                 c, [clo[c] EXCEPT !.status = "SUSPENDED", !.has_cilk_callee = TRUE]) IN
    /\ Stealable(w, v) /\ clo[c].frame # f /\ ~Detached(f)
    /\ Extract(w, v, C, Created, CreatedNext)
    /\ wst' = Set(wst, w, "promote")

\* The end of finish_promote: the stolen frame is ready to run on its fiber.
MakeReady(w, C) ==
    LET res == cl[w] IN
    /\ clo' = Upd(C, res, [C[res] EXCEPT !.status = "READY"])
    /\ unsynced' = unsynced \cup {clo[res].frame}
    /\ sp' = Set(sp, clo[res].frame, clo[res].fiber)
    /\ mutex' = Set(mutex, res, 0)
    /\ wst' = Set(wst, w, "has")
    /\ UNCHANGED <<cl, cur, deque, rmap, ftf, on, program, pending, fibers, exiting>>

FinishPromote(w) ==
    wst[w] = "finish" /\ MakeReady(w, clo) /\ UNCHANGED stolen

\* oldest_non_stolen_frame_in_stacklet, if nothing there has a closure yet.
Helper(f) == CHOOSE g \in Above[f] :
                /\ Detached(g)
                /\ \A h \in Above[f] : Detached(h) => h \in Above[g]

\* setup_closures_in_stacklet: every frame between the stolen one and top,
\* that of the victim's old closure, gets a suspended closure, linked by
\* Closure_add_callee to its caller's.
PromoteStacklet(w) ==
    LET res == cl[w]
        f == clo[res].frame
        oldest == clo[res].call_parent
        top == IF clo[oldest].frame = 0 THEN Helper(f) ELSE clo[oldest].frame
        between == {g \in Above[f] : top \in Above[g]} \ {f, top}
        fresh == CHOOSE a \in Injection(between, FreeClosures) : TRUE
        ClosureOf(g) == IF g = f THEN res ELSE IF g = top THEN oldest ELSE fresh[g]
        CalleeOf(g) == CHOOSE h \in between \cup {f} : CallParent(h) = g
        Suspended(g) == [FreshClosure EXCEPT !.status = "SUSPENDED", !.frame = g,
                            !.fiber = clo[oldest].fiber, !.has_cilk_callee = TRUE,
                            !.call_parent = ClosureOf(CallParent(g)),
                            !.callee = ClosureOf(CalleeOf(g))]
        C == [c \in Closures |-> IF \E g \in between : fresh[g] = c
                                 THEN Suspended(CHOOSE g \in between : fresh[g] = c)
                                 ELSE clo[c]]
        D == Upd(C, oldest, [C[oldest] EXCEPT !.frame = top, !.has_cilk_callee = TRUE,
                                              !.callee = ClosureOf(CalleeOf(top))]) IN
    /\ wst[w] = "promote"
    /\ Injection(between, FreeClosures) # {}                \* the bound
    /\ MakeReady(w, Upd(D, res, [D[res] EXCEPT !.call_parent = ClosureOf(CallParent(f))]))
    /\ stolen' = stolen \cup between \cup {top}

-----------------------------------------------------------------------------
(* Closure_return *)

Parent(w) == clo[cl[w]].spawn_parent

\* The place for what child c leaves to its left: f1 of its left sibling or,
\* for the leftmost child, f2 of the parent.
LeftOf(c) == IF clo[c].left_sib # 0 THEN clo[c].left_sib ELSE clo[c].spawn_parent
LeftField(c, f1, f2) == IF clo[c].left_sib # 0 THEN f1 ELSE f2
Left(c, f1, f2) == clo[LeftOf(c)][LeftField(c, f1, f2)]
PutLeft(C, c, f1, f2, x) ==
    Upd(C, LeftOf(c), [C[LeftOf(c)] EXCEPT ![LeftField(c, f1, f2)] = x])

Lock2(w) == mutex' = [mutex EXCEPT ![Parent(w)] = w, ![cl[w]] = w]
Unlock2(w) == mutex' = [mutex EXCEPT ![Parent(w)] = 0, ![cl[w]] = 0]
LocksFree(w) == Unlocked(Parent(w)) /\ Unlocked(cl[w])

\* Variant: the closure's own exception wins over its left neighbour's.
ReduceExnOwnFirst(w) ==
    LET c == cl[w]
        l == Left(c, "right_exn", "child_exn")
        e == clo[c].user_exn
        r == clo[c].right_exn IN
    /\ wst[w] = "exn" /\ LocksFree(w) /\ (l # 0 \/ r # 0)
    /\ clo' = Upd(PutLeft(clo, c, "right_exn", "child_exn", 0), c,
                  [clo[c] EXCEPT !.right_exn = 0,
                                 !.user_exn = IF e # 0 THEN e ELSE IF l # 0 THEN l ELSE r])
    /\ UNCHANGED <<worker, cur, deque, rmap, ftf, on, program, flags, sp, mutex,
                   fibers, exiting>>

\* One round of the exception loop that finds exceptions: they are taken and
\* reduced, with the locks released, to the leftmost one.
ReduceExn(w) ==
    LET c == cl[w]
        l == Left(c, "right_exn", "child_exn")
        e == clo[c].user_exn
        r == clo[c].right_exn IN
    /\ wst[w] = "exn" /\ LocksFree(w) /\ (l # 0 \/ r # 0)
    /\ clo' = Upd(PutLeft(clo, c, "right_exn", "child_exn", 0), c,
                  [clo[c] EXCEPT !.right_exn = 0,
                                 !.user_exn = IF l # 0 THEN l ELSE IF e # 0 THEN e ELSE r])
    /\ UNCHANGED <<worker, cur, deque, rmap, ftf, on, program, flags, sp, mutex,
                   fibers, exiting>>

\* The round that finds none deposits the exception and keeps the locks.
DepositExn(w) ==
    LET c == cl[w] IN
    /\ wst[w] = "exn" /\ LocksFree(w)
    /\ Left(c, "right_exn", "child_exn") = 0 /\ clo[c].right_exn = 0
    /\ clo' = PutLeft(clo, c, "right_exn", "child_exn", clo[c].user_exn)
    /\ Lock2(w)
    /\ wst' = Set(wst, w, "red")
    /\ UNCHANGED <<cl, cur, deque, rmap, ftf, on, program, flags, sp, fibers, exiting>>

\* One round of the reducer loop that finds maps: they are taken and merged,
\* in serial order, with the locks released.
ReduceMaps(w) ==
    LET c == cl[w]
        l == Left(c, "right_rmap", "child_rmap") IN
    /\ wst[w] = "red" /\ (l # <<>> \/ clo[c].right_rmap # <<>>)
    /\ clo' = Upd(PutLeft(clo, c, "right_rmap", "child_rmap", <<>>), c,
                  [clo[c] EXCEPT !.right_rmap = <<>>])
    /\ rmap' = Set(rmap, w, Merge(Merge(l, rmap[w]), clo[c].right_rmap))
    /\ Unlock2(w)
    /\ wst' = Set(wst, w, "relock")
    /\ UNCHANGED <<cl, cur, deque, ftf, on, program, flags, sp, fibers, exiting>>

Relock(w) ==
    /\ wst[w] = "relock" /\ LocksFree(w)
    /\ Lock2(w)
    /\ wst' = Set(wst, w, "red")
    /\ UNCHANGED <<cl, cur, deque, rmap, ftf, on, program, flags, sp, clo, fibers, exiting>>

\* Variant: the first child to return keeps its fiber, leftmost or not.
KeepsFiberFirst(c) == clo[clo[c].spawn_parent].fiber_child = 0

\* Left-holder logic: the leftmost child's fiber is the one the parent
\* continues on after its sync.
KeepsFiber(c) == clo[c].left_sib = 0 /\ clo[clo[c].spawn_parent].fiber_child = 0

\* The tree without child c, which deposits its views x and gives up its fiber.
Returned(c, x) ==
    LET p == clo[c].spawn_parent
        C == Remove_child(PutLeft(clo, c, "right_rmap", "child_rmap", x), p, c)
    IN Upd(Destroy(C, c), p, [C[p] EXCEPT !.join_counter = @ - 1,
                                !.fiber_child = IF KeepsFiber(c) THEN clo[c].fiber ELSE @])

\* Variant: the parent is resumed when one child is left.
ResumableEarly(p) == p.join_counter = 1 /\ p.status = "SUSPENDED"

\* provably_good_steal_maybe succeeds: the last child resumes the parent.
Resumable(p) == ~HasChildren(p) /\ p.status = "SUSPENDED"

\* The end of Closure_return.
Return(w) ==
    LET c == cl[w]
        p == Parent(w)
        C == Returned(c, rmap[w])
        P == C[p] IN
    /\ wst[w] = "red"
    /\ Left(c, "right_rmap", "child_rmap") = <<>> /\ clo[c].right_rmap = <<>>
    /\ fibers' = IF KeepsFiber(c) THEN fibers ELSE Freed({clo[c].fiber})
    /\ Unlock2(w)
    /\ \/ /\ Resumable(P)
          /\ clo' = Upd(C, p, [P EXCEPT !.status = "READY", !.fiber = P.fiber_child,
                               !.fiber_child = 0, !.orig_rsp = 0, !.child_rmap = <<>>,
                               !.user_rmap = <<>>, !.child_exn = 0,
                               !.user_exn = IF P.child_exn = 0 THEN @ ELSE P.child_exn])
          /\ ftf' = Set(ftf, w, P.fiber)
          /\ pending' = IF P.child_exn = 0 THEN pending ELSE pending \cup {P.frame}
          /\ unsynced' = unsynced \ {P.frame}
          /\ sp' = Set(sp, P.frame, P.orig_rsp)
          /\ rmap' = Set(rmap, w, Merge(P.child_rmap, P.user_rmap))
          /\ cl' = Set(cl, w, p)
          /\ wst' = Set(wst, w, "has")
       \/ /\ ~Resumable(P)
          /\ clo' = C
          /\ rmap' = Set(rmap, w, <<>>)
          /\ cl' = Set(cl, w, 0)
          /\ wst' = Set(wst, w, "idle")
          /\ UNCHANGED <<ftf, pending, unsynced, sp>>
    /\ UNCHANGED <<cur, deque, on, program, stolen, exiting>>

-----------------------------------------------------------------------------
(* The specification *)

\* Everything a worker does except stealing.
Work(w) ==
    \/ ExecuteReady(w) \/ ExecuteReturning(w) \/ BackInRuntime(w)
    \/ Spawn(w) \/ Call(w) \/ Update(w) \/ Throw(w) \/ EndTry(w)
    \/ Sync(w) \/ CheckException(w) \/ UnwindSync(w) \/ Reraise(w) \/ Catch(w)
    \/ LeaveCalled(w) \/ LeavePop(w) \/ LeaveStolen(w) \/ SetReturn(w) \/ ExitRoot(w)
    \/ FinishPromote(w) \/ PromoteStacklet(w)
    \/ ReduceExn(w) \/ DepositExn(w) \/ ReduceMaps(w) \/ Relock(w) \/ Return(w)

\* The region is over and every worker is back in the runtime.
Finished == exiting # 0 /\ (\A w \in Workers : wst[w] = "idle") /\ UNCHANGED vars

Next ==
    \/ \E w \in Workers : Work(w)
    \/ \E w, v \in Workers : StealFull(w, v) \/ StealStacklet(w, v)
    \/ Finished

Spec == Init /\ [][Next]_vars

\* An idle worker tries again after a failed attempt: it spins, which is not
\* a deadlock.
FailedSteal(w) == wst[w] = "idle" /\ exiting = 0 /\ UNCHANGED vars

\* A worker's thread is scheduled; a steal attempt may fail forever.
FairSpec == /\ Init /\ [][Next \/ \E w \in Workers : FailedSteal(w)]_vars
            /\ \A w \in Workers : WF_vars(Work(w))

-----------------------------------------------------------------------------
(* The serial elision: the program without spawn and sync *)

Steps == UNION {{<<f, i>> : i \in 1 .. Len(Code[f]) + 1} : f \in Frames}

\* What frame f does from its i-th operation on, executed serially: the
\* updates, the exceptions it catches and the one that leaves it.
Serial[s \in Steps] ==
    LET f == s[1]
        i == s[2]
        Nothing == [ups |-> <<>>, caught |-> {}, exn |-> 0]
        Then(a, b) == [ups |-> a.ups \o b.ups, caught |-> a.caught \cup b.caught,
                       exn |-> b.exn]
        H == {j \in DOMAIN Code[f] : j > i /\ Code[f][j][1] = "catch"}
        Goes(r) == IF r.exn = 0 THEN Then(r, Serial[<<f, i + 1>>])
                   ELSE IF H = {} THEN r
                   ELSE Then([r EXCEPT !.caught = @ \cup {r.exn}],
                             Serial[<<f, Smallest(H) + 1>>])
    IN IF i > Len(Code[f]) THEN Nothing
       ELSE LET op == Code[f][i][1]
                x == Code[f][i][2] IN
            Goes(IF op \in {"spawn", "call"} THEN Serial[<<x, 1>>]
                 ELSE IF op = "update" THEN [Nothing EXCEPT !.ups = <<x>>]
                 ELSE IF op = "throw" THEN [Nothing EXCEPT !.exn = x]
                 ELSE Nothing)

RootFrame == clo[RootClosure].frame
SerialRun == Serial[<<RootFrame, 1>>]

-----------------------------------------------------------------------------
(* Properties *)

Ptr(S) == S \cup {0}
Maps == Seq(Nat)
Live == {c \in Closures : clo[c].status # "FREE"}
Children(p) == {c \in Live : clo[c].spawn_parent = p}

Status == {"FREE", "READY", "RUNNING", "SUSPENDED", "RETURNING"}
WorkerState == {"idle", "has", "run", "back", "promote", "finish", "exn", "red", "relock"}
Closure ==
    [status : Status, frame : Ptr(Frames), join_counter : Nat,
     has_cilk_callee : BOOLEAN, callee : Ptr(Closures), call_parent : Ptr(Closures),
     spawn_parent : Ptr(Closures), left_sib : Ptr(Closures), right_sib : Ptr(Closures),
     right_most_child : Ptr(Closures), fiber : Ptr(Fibers), fiber_child : Ptr(Fibers),
     saved_throwing_fiber : Ptr(Fibers), orig_rsp : Ptr(Fibers), parent_rsp : Ptr(Fibers),
     child_rmap : Maps, right_rmap : Maps, user_rmap : Maps,
     child_exn : Nat, right_exn : Nat, user_exn : Nat]

TypeOK ==
    /\ wst \in [Workers -> WorkerState]
    /\ cl \in [Workers -> Ptr(Closures)] /\ dq \in [Workers -> Ptr(Closures)]
    /\ cur \in [Workers -> Ptr(Frames)] /\ shadow \in [Workers -> Seq(Frames)]
    /\ rmap \in [Workers -> Maps]
    /\ ftf \in [Workers -> Ptr(Fibers)] /\ on \in [Workers -> Ptr(Fibers)]
    /\ at \in [Frames -> Nat \ {0}] /\ inflight \in [Frames -> Nat]
    /\ stolen \subseteq Frames /\ unsynced \subseteq Frames /\ pending \subseteq Frames
    /\ sp \in [Frames -> Ptr(Fibers)] /\ caught \subseteq Nat
    /\ clo \in [Closures -> Closure]
    /\ mutex \in [Closures -> Ptr(Workers)]
    /\ fibers \subseteq Fibers /\ exiting \in Ptr(Workers)

\* The closure tree survives concurrent steals and returns: the join counter
\* of a closure is the number of its unreturned children, and these form one
\* doubly linked list that ends in right_most_child.
TreeConsistent ==
    \A p \in Live :
        LET K == Children(p)
            r == clo[p].right_most_child IN
        /\ clo[p].join_counter = Cardinality(K)
        /\ (r = 0) = (K = {})
        /\ r # 0 => r \in K /\ clo[r].right_sib = 0
        /\ Cardinality({c \in K : clo[c].left_sib = 0}) = (IF K = {} THEN 0 ELSE 1)
        /\ \A c \in K : clo[c].left_sib # 0 =>
               clo[c].left_sib \in K /\ clo[clo[c].left_sib].right_sib = c

\* No lost wake-up: a closure that waits at a sync or for a callee has one
\* that will resume it.  The last child's decrement of the join counter and
\* its attempt to resume the parent never miss the parent's suspension.
NoLostWakeup ==
    \A c \in Live : clo[c].status = "SUSPENDED" => HasChildren(clo[c])

\* A continuation runs once: no frame is executed by two workers, or executed
\* and stealable, or on two shadow stacks; no closure is in two deques.
OneOwner ==
    \A w, v \in Workers :
        /\ w # v /\ Running(w) /\ Running(v) =>
             /\ cur[w] # cur[v] /\ dq[w] # dq[v]
             /\ ToSet(shadow[w]) \cap ToSet(shadow[v]) = {}
        /\ Running(w) => cur[w] \notin ToSet(shadow[v])

\* The CILK_ASSERTs of Cilk_sync: an unsynched frame is on top of the shadow
\* stack and of the deque when it runs, and its closure has no callee and no
\* saved views.
SyncAsserts ==
    \A w \in Workers : Running(w) /\ cur[w] \in unsynced =>
        LET t == clo[dq[w]] IN
        /\ cur[w] \in stolen /\ t.status = "RUNNING" /\ t.frame = cur[w]
        /\ shadow[w] = <<>> /\ ~t.has_cilk_callee /\ t.user_rmap = <<>>

\* The CILK_ASSERTs of Closure_return and provably_good_steal_maybe: the
\* returning worker's current frame is the parent's, it has no fiber to free,
\* the parent is not itself returning, and the child has synched.
ReturnAsserts ==
    \A w \in Workers : wst[w] \in {"exn", "red", "relock"} =>
        LET c == clo[cl[w]]
            p == clo[c.spawn_parent] IN
        /\ c.status = "RETURNING" /\ ~HasChildren(c)
        /\ c.child_rmap = <<>> /\ c.user_rmap = <<>>
        /\ c.spawn_parent # 0 /\ p.frame = cur[w] /\ p.status # "RETURNING"
        /\ ftf[w] = 0

\* No assertion of a sync, a return or the resumption of a parent fails,
\* whatever the other workers do to the tree in between.
Asserts == SyncAsserts /\ ReturnAsserts

\* The CILK_ASSERTs of the same functions about fibers: at a sync the fiber to
\* free is not the frame's and, once the children are done, fiber_child is the
\* stack the sync continues on (in_fiber of longjmp_to_user_code); a child
\* never returns the fiber that its parent keeps already.
FiberAsserts ==
    /\ \A w \in Workers : Running(w) /\ cur[w] \in unsynced =>
         LET t == clo[dq[w]] IN
         /\ t.fiber \notin {0, ftf[w], t.fiber_child}
         /\ ~HasChildren(t) /\ inflight[cur[w]] = 0 =>
              t.fiber_child # 0 /\ t.fiber_child = t.orig_rsp
    /\ \A w \in Workers : wst[w] \in {"exn", "red", "relock"} =>
         clo[Parent(w)].fiber_child # clo[cl[w]].fiber

\* Every map is in serial order at all times, whatever the order in which the
\* children return, and the region ends with the map of the serial execution.
SerialReduction ==
    LET Sorted(s) == \A i \in 1 .. Len(s) - 1 : s[i] < s[i + 1] IN
    /\ \A w \in Workers : Sorted(rmap[w])
    /\ \A c \in Live : Sorted(clo[c].child_rmap \o clo[c].user_rmap)
    /\ exiting # 0 => rmap[exiting] = SerialRun.ups

\* The region ends with the exceptions of the serial execution: of several
\* thrown in parallel the leftmost one is caught or leaves the region; and one
\* that a handler has caught does not unwind a frame again.
SerialException ==
    /\ exiting # 0 => inflight[RootFrame] = SerialRun.exn /\ caught = SerialRun.caught
    /\ \A f \in Frames : inflight[f] \notin caught \ {0}

\* No fiber is in the pool while code runs on it or a context saved in a
\* closure will continue on it.
StacksAllocated ==
    /\ \A w \in Workers : on[w] \notin fibers
    /\ \A c \in Live : {clo[c].fiber, clo[c].fiber_child, clo[c].orig_rsp}
                         \cap fibers = {}

\* A region leaves nothing behind: when all workers are back, every fiber but
\* the root's is in the pool and every closure but the root is destroyed.
NoLeak ==
    exiting # 0 /\ (\A w \in Workers : wst[w] = "idle") =>
        fibers = Fibers \ {RootFiber} /\ Live = {RootClosure}
        /\ \A w \in Workers : w # exiting => rmap[w] = <<>>

-----------------------------------------------------------------------------
(* The inductive invariant *)

\* The closures that a thief is still promoting the stacklet of, or holds
\* before they are ready.
Promoting == {cl[w] : w \in {v \in Workers : wst[v] = "promote"}}
Finishing == {cl[w] : w \in {v \in Workers : wst[v] \in {"promote", "finish"}}}

\* A worker holds at most one closure, in its deque or outside, whose status
\* fits what the worker is doing, and no two workers hold the same one.
Holds(w) == IF cl[w] # 0 THEN cl[w] ELSE dq[w]

HoldsOne(w) ==
    LET t == clo[cl[w]]
        d == clo[dq[w]] IN
    /\ cl[w] # 0 <=> wst[w] \in {"has", "promote", "finish", "exn", "red", "relock"}
    /\ dq[w] # 0 => wst[w] \in {"run", "back"}
    /\ wst[w] = "has" => t.status \in {"READY", "RETURNING"}
    /\ wst[w] \in {"promote", "finish"} => t.status = "RUNNING"
    /\ wst[w] \in {"exn", "red", "relock"} => t.status = "RETURNING"
    /\ cl[w] # 0 /\ t.status # "RETURNING" => t.frame # 0
    /\ wst[w] = "promote" => t.call_parent # 0
    /\ wst[w] = "run" => cur[w] # 0 /\ dq[w] # 0 /\ d.status = "RUNNING"
    /\ wst[w] = "back" /\ dq[w] # 0 => d.status = "RETURNING"

Owners ==
    /\ \A w \in Workers : HoldsOne(w)
    /\ \A w, v \in Workers : w # v /\ Holds(w) # 0 => Holds(w) # Holds(v)

Blank == \A c \in Closures \ Live : clo[c] = FreshClosure

\* The children of p are linked in one list, which the join counter counts.
Kids(C, p) == {c \in Closures : C[c].status # "FREE" /\ C[c].spawn_parent = p}

Linked(C, p, s) ==
    LET n == C[p].join_counter IN
    /\ \A i, j \in 1 .. n : s[i] = s[j] => i = j
    /\ \A c \in Kids(C, p) : \E i \in 1 .. n : s[i] = c
    /\ \A i \in 1 .. n : /\ C[s[i]].left_sib = IF i = 1 THEN 0 ELSE s[i - 1]
                         /\ C[s[i]].right_sib = IF i = n THEN 0 ELSE s[i + 1]
    /\ C[p].right_most_child = IF n = 0 THEN 0 ELSE s[n]

Lists(C) ==
    \A p \in Closures : C[p].status # "FREE" =>
        \E s \in [1 .. C[p].join_counter -> Kids(C, p)] : Linked(C, p, s)

\* A stolen frame has one closure.
Named ==
    /\ \A c \in Live : clo[c].frame # 0 => clo[c].frame \in stolen
    /\ \A c, d \in Live : clo[c].frame = clo[d].frame /\ clo[c].frame # 0 => c = d

\* The closures lie as their frames do: below the closure of the caller.
Placed(c) ==
    LET b == clo[c].frame
        p == clo[c].spawn_parent
        q == clo[c].call_parent IN
    /\ p # 0 => /\ p \in Live /\ p # c /\ clo[p].frame # 0 /\ q = 0
                /\ b # 0 => Detached(b) /\ CallParent(b) = clo[p].frame
    /\ q # 0 => /\ q \in Live /\ q # c /\ clo[q].has_cilk_callee
                /\ b \in Frames \ Roots /\ ~Detached(b)
                /\ c \in Promoting \/ clo[q].frame = CallParent(b)
    /\ p = 0 /\ q = 0 => b \in Roots

\* A closure with a callee waits for it, and for no other.
Callees ==
    /\ \A c, d \in Live : clo[c].call_parent = clo[d].call_parent /\ clo[c].call_parent # 0
                            => c = d
    /\ \A c \in Live : clo[c].has_cilk_callee =>
         clo[c].status = "SUSPENDED" /\ \E d \in Live : clo[d].call_parent = c

\* A closure with children is that of an unsynched frame, or about to be.
Unsynched ==
    /\ unsynced \subseteq stolen
    /\ \A c \in Live : clo[c].join_counter # 0 => clo[c].frame \in unsynced \/ c \in Finishing
    /\ \A c \in Live : clo[c].status = "RETURNING" =>
         clo[c].join_counter = 0 /\ clo[c].spawn_parent # 0

\* The frame below which closure c begins: that of its parent.
Outer(c) == IF clo[c].spawn_parent # 0 THEN clo[clo[c].spawn_parent].frame
            ELSE IF clo[c].frame \in Roots THEN 0 ELSE CallParent(clo[c].frame)
Beyond(f) == IF f = 0 THEN {} ELSE Above[f]

\* The frames below frame o down to frame f.
Stacklet(o, f) == Above[f] \ Beyond(o)

\* Shadow stack s has the frames of S whose child is detached, oldest first.
ShadowOf(S, s) ==
    /\ \A i \in DOMAIN s : \E g \in S \ Roots : Detached(g) /\ CallParent(g) \in S /\ s[i] = CallParent(g)
    /\ \A g \in S \ Roots : Detached(g) /\ CallParent(g) \in S => \E i \in DOMAIN s : s[i] = CallParent(g)
    /\ \A i, j \in DOMAIN s : i < j => s[i] # s[j] /\ s[i] \in Above[s[j]]

\* The stacklet from o to f fits a closure with frame b and spawn parent p,
\* the stolen frames T and the shadow stack s: the only stolen frame is b, and
\* the outermost frame is detached if the closure is a child.
FitsStack(o, b, p, T, f, s) ==
    LET S == Stacklet(o, f) IN
    /\ f \in S
    /\ o # 0 => o \in Above[f]
    /\ o = 0 => b \in S /\ b \in Roots
    /\ T \cap S = {b} \ {0}
    /\ \A g \in S \ Roots : CallParent(g) \notin S => (Detached(g) <=> p # 0)
    /\ ShadowOf(S, s)

\* What is on the stack of a worker: its closure, innermost frame and shadow
\* stack; and what is left of the victim's while a thief promotes it.
OnStack(w) == wst[w] \in {"run", "promote"}
Bottom(w) == IF wst[w] = "run" THEN dq[w] ELSE clo[cl[w]].call_parent
Tip(w) == IF wst[w] = "run" THEN cur[w] ELSE CallParent(clo[cl[w]].frame)
Shadow(w) == IF wst[w] = "run" THEN shadow[w] ELSE <<>>
Stack(w) == Stacklet(Outer(Bottom(w)), Tip(w))

StackFits(w) == FitsStack(Outer(Bottom(w)), clo[Bottom(w)].frame, clo[Bottom(w)].spawn_parent,
                          stolen, Tip(w), Shadow(w))

Stacks ==
    /\ \A w \in Workers : OnStack(w) => StackFits(w)
    /\ \A w, v \in Workers : w # v /\ OnStack(w) /\ OnStack(v) => Stack(w) \cap Stack(v) = {}

\* What is still to be invoked has not begun.
Ahead(f) == {Code[f][i][2] : i \in {j \in DOMAIN Code[f] : j >= at[f] /\ Invokes(Code[f][j])}}
Unbegun ==
    \A f \in Frames : Ahead(f) \cap (stolen \cup UNION {Stack(w) : w \in {v \in Workers : OnStack(v)}}) = {}

\* The scheduler's inductive invariant.
SchedulerInv ==
    /\ TypeOK /\ Owners /\ Blank /\ Lists(clo) /\ Named /\ (\A c \in Live : Placed(c))
    /\ Callees /\ NoLostWakeup /\ Unsynched /\ Stacks /\ Unbegun

\* The region ends.
Terminates == <>(exiting # 0 /\ \A w \in Workers : wst[w] = "idle")
=============================================================================
