-------------------------------- MODULE THE --------------------------------
(***************************************************************************)
(* The THE protocol of the Cheetah scheduler: how the owner of a shadow    *)
(* stack (src/runtime/cilk2c.c, cilk2c_inlined.c) and the workers that     *)
(* steal from it (src/runtime/scheduler.c) agree on who continues a frame. *)
(*                                                                         *)
(* The owner pushes with one store of tail and pops with one store of tail *)
(* followed by one load of exc, without a lock.  A thief, holding the      *)
(* deque lock, bumps exc, issues a sequentially consistent fence and only  *)
(* then looks at tail.  Sections run under the owner's deque lock are one  *)
(* action, because everything they write is read elsewhere only by the     *)
(* fast test of a thief; the unlocked accesses are one action each.        *)
(*                                                                         *)
(* Relaxed and release stores go through a store buffer: tail is what the  *)
(* owner last stored, vtail what the thieves can read, DrainTail and       *)
(* DrainExc move a store to memory, and a seq_cst store, a fence or a lock *)
(* operation waits for the buffer.  Frames are numbered in the order they  *)
(* are detached; slots of the shadow stack are numbered from 0.            *)
(***************************************************************************)
EXTENDS Integers, Sequences

CONSTANTS Thieves,     \* the other workers
          LtqLimit,    \* ltq_limit: number of slots of the shadow stack
          MaxDetach,   \* bound: number of frames the owner detaches
          None         \* the deque lock is free

ASSUME THEAssumption == /\ LtqLimit \in Nat \ {0}
                        /\ MaxDetach \in Nat
                        /\ None \notin Thieves

VARIABLES
    head, tail, exc,   \* H, T and E of the owner; tail as the owner sees it
    vtail,             \* tail as the thieves see it
    stack,             \* shadow_stack: the frame in each slot
    status,            \* status of the closure in the ready deque, or "NONE"
    lock,              \* holder of the deque lock
    pc,                \* the owner's next step
    tpc,               \* each thief's next step
    seen,              \* head as read by the fast test
    sb,                \* the thief's store to exc is still in its store buffer
    frames,            \* number of frames detached so far
    kept, stolen       \* frames continued by the owner / by a thief

owner == <<tail, vtail, stack, pc, frames, kept>>
vars == <<head, tail, exc, vtail, stack, status, lock, pc, tpc, seen, sb,
          frames, kept, stolen>>

Slots == 0 .. LtqLimit - 1

OwnerPC == {"out", "setT", "setE", "add", "run", "load", "hlock", "sched"}
ThiefPC == {"idle", "fast", "try", "peek", "inc", "fence", "test", "dec",
            "promote", "unlock"}

Init ==
    /\ head = 0 /\ tail = 0 /\ exc = 0 /\ vtail = 0
    /\ stack = [i \in Slots |-> 0]
    /\ status = "NONE" /\ lock = None
    /\ pc = "out"
    /\ tpc = [t \in Thieves |-> "idle"]
    /\ seen = [t \in Thieves |-> 0]
    /\ sb = [t \in Thieves |-> FALSE]
    /\ frames = 0 /\ kept = {} /\ stolen = {}

-----------------------------------------------------------------------------
(* The owner *)

\* A store of the owner to tail leaves its store buffer.  Buffered stores
\* are increments of detach, or the reset of setup_for_execution.
DrainTail ==
    /\ vtail # tail
    /\ vtail' = IF vtail < tail THEN vtail + 1 ELSE tail
    /\ UNCHANGED <<head, tail, exc, stack, status, lock, pc, tpc, seen, sb,
                   frames, kept, stolen>>

\* deque_lock_self can be acquired; its atomic operation drains the buffer.
OwnerCanLock == lock = None /\ vtail = tail

\* setup_for_execution stores head, then tail, then exc; the closure is in
\* no deque yet.
SetupHead ==
    /\ pc = "out"
    /\ head' = 0 /\ pc' = "setT"
    /\ UNCHANGED <<tail, exc, vtail, stack, status, lock, tpc, seen, sb,
                   frames, kept, stolen>>

SetupTail ==
    /\ pc = "setT"
    /\ tail' = 0 /\ pc' = "setE"
    /\ UNCHANGED <<head, exc, vtail, stack, status, lock, tpc, seen, sb,
                   frames, kept, stolen>>

SetupExc ==
    /\ pc = "setE"
    /\ exc' = head /\ pc' = "add"
    /\ UNCHANGED <<head, tail, vtail, stack, status, lock, tpc, seen, sb,
                   frames, kept, stolen>>

\* do_what_it_says puts the closure into the deque and enters user code.
AddBottom ==
    /\ pc = "add" /\ OwnerCanLock
    /\ status' = "RUNNING" /\ pc' = "run"
    /\ UNCHANGED <<head, tail, exc, vtail, stack, lock, tpc, seen, sb,
                   frames, kept, stolen>>

\* __cilkrts_detach: publish the parent's continuation (a release store).
Detach ==
    /\ pc = "run"
    /\ frames < MaxDetach
    /\ tail + 1 < LtqLimit
    /\ stack' = [stack EXCEPT ![tail] = frames + 1]
    /\ frames' = frames + 1
    /\ tail' = tail + 1
    /\ UNCHANGED <<head, exc, vtail, status, lock, pc, tpc, seen, sb, kept, stolen>>

\* __cilkrts_leave_frame / __cilkrts_pause_frame of a detached frame: the
\* seq_cst store of tail ...
LeaveStoreTail ==
    /\ pc = "run" /\ tail > 0 /\ vtail = tail
    /\ tail' = tail - 1 /\ vtail' = tail - 1
    /\ pc' = "load"
    /\ UNCHANGED <<head, exc, stack, status, lock, tpc, seen, sb, frames, kept, stolen>>

\* ... and the load of exc.
LeaveLoadExc ==
    /\ pc = "load"
    /\ IF exc > tail
       THEN pc' = "hlock" /\ UNCHANGED kept
       ELSE pc' = "run" /\ kept' = kept \cup {stack[tail]}
    /\ UNCHANGED <<head, tail, exc, vtail, stack, status, lock, tpc, seen, sb,
                   frames, stolen>>

\* Variant: the handler compares head and tail with >= instead of >.
ExceptionHandlerGE ==
    /\ pc = "hlock" /\ OwnerCanLock
    /\ exc' = head
    /\ IF head >= tail
       THEN status' = "RETURNING" /\ pc' = "sched" /\ UNCHANGED kept
       ELSE pc' = "run" /\ kept' = kept \cup {stack[tail]} /\ UNCHANGED status
    /\ UNCHANGED <<head, tail, vtail, stack, lock, tpc, seen, sb, frames, stolen>>

\* Cilk_exception_handler, under the deque and the closure lock.
ExceptionHandler ==
    /\ pc = "hlock" /\ OwnerCanLock
    /\ exc' = head
    /\ IF head > tail
       THEN status' = "RETURNING" /\ pc' = "sched" /\ UNCHANGED kept
       ELSE pc' = "run" /\ kept' = kept \cup {stack[tail]} /\ UNCHANGED status
    /\ UNCHANGED <<head, tail, vtail, stack, lock, tpc, seen, sb, frames, stolen>>

\* worker_scheduler takes the returning closure out of its own deque.
XtractBottom ==
    /\ pc = "sched" /\ OwnerCanLock
    /\ status' = "NONE" /\ pc' = "out"
    /\ UNCHANGED <<head, tail, exc, vtail, stack, lock, tpc, seen, sb, frames,
                   kept, stolen>>

\* Cilk_sync of a frame with outstanding children: the closure is suspended
\* and leaves the deque.  A frame that has to sync was stolen before, so it
\* runs at the bottom of the shadow stack.
SyncSuspend ==
    /\ pc = "run" /\ tail = 0 /\ OwnerCanLock
    /\ status' = "NONE" /\ pc' = "out"
    /\ UNCHANGED <<head, tail, exc, vtail, stack, lock, tpc, seen, sb, frames,
                   kept, stolen>>

-----------------------------------------------------------------------------
(* A thief: Closure_steal *)

Goto(t, from, to) == tpc[t] = from /\ tpc' = [tpc EXCEPT ![t] = to]

\* The fast test reads head, then tail, without any lock.
FastHead(t) ==
    /\ Goto(t, "idle", "fast")
    /\ seen' = [seen EXCEPT ![t] = head]
    /\ UNCHANGED <<head, exc, status, lock, sb, stolen, owner>>

\* Variant: no fast test, every attempt goes for the lock.
FastTailAlways(t) ==
    /\ Goto(t, "fast", "try")
    /\ UNCHANGED <<head, exc, status, lock, seen, sb, stolen, owner>>

FastTail(t) ==
    /\ Goto(t, "fast", IF seen[t] >= vtail THEN "idle" ELSE "try")
    /\ UNCHANGED <<head, exc, status, lock, seen, sb, stolen, owner>>

DequeTrylock(t) ==
    /\ Goto(t, "try", IF lock = None THEN "peek" ELSE "idle")
    /\ lock' = IF lock = None THEN t ELSE lock
    /\ UNCHANGED <<head, exc, status, seen, sb, stolen, owner>>

\* Nothing to steal: the deque is empty, the closure is returning, or
\* Closure_trylock fails because a returning child holds its parent's lock.
PeekTop(t) ==
    /\ \/ status = "RUNNING" /\ Goto(t, "peek", "inc")
       \/ Goto(t, "peek", "unlock")
    /\ UNCHANGED <<head, exc, status, lock, seen, sb, stolen, owner>>

\* do_dekker_on: increment_exception_pointer is a relaxed store, ...
IncrementExc(t) ==
    /\ Goto(t, "inc", "fence")
    /\ sb' = [sb EXCEPT ![t] = TRUE]
    /\ UNCHANGED <<head, exc, status, lock, seen, stolen, owner>>

DrainExc(t) ==
    /\ sb[t]
    /\ sb' = [sb EXCEPT ![t] = FALSE]
    /\ exc' = exc + 1
    /\ UNCHANGED <<head, status, lock, tpc, seen, stolen, owner>>

\* Variant: no fence between the increment and the test of tail.
FenceMissing(t) ==
    /\ Goto(t, "fence", "test")
    /\ UNCHANGED <<head, exc, status, lock, seen, sb, stolen, owner>>

\* ... the seq_cst fence waits until it is visible, ...
Fence(t) ==
    /\ Goto(t, "fence", "test")
    /\ ~sb[t]
    /\ UNCHANGED <<head, exc, status, lock, seen, sb, stolen, owner>>

\* Variant: off by one, a victim with head = tail is stolen from.
TestTailGT(t) ==
    /\ Goto(t, "test", IF head > vtail THEN "dec" ELSE "promote")
    /\ UNCHANGED <<head, exc, status, lock, seen, sb, stolen, owner>>

\* ... and then head is compared with tail.
TestTail(t) ==
    /\ Goto(t, "test", IF head >= vtail THEN "dec" ELSE "promote")
    /\ UNCHANGED <<head, exc, status, lock, seen, sb, stolen, owner>>

\* Variant: a failed attempt leaves exc incremented.
DecrementExcMissing(t) ==
    /\ Goto(t, "dec", "unlock")
    /\ UNCHANGED <<head, exc, status, lock, seen, sb, stolen, owner>>

DecrementExc(t) ==
    /\ Goto(t, "dec", "unlock")
    /\ exc' = exc - 1
    /\ UNCHANGED <<head, status, lock, seen, sb, stolen, owner>>

\* promote_child: take *head, advance head, leave the new child closure on
\* the victim's deque; extract_top_spawning_closure removes the parent.
PromoteChild(t) ==
    /\ Goto(t, "promote", "unlock")
    /\ stolen' = stolen \cup {stack[head]}
    /\ head' = head + 1
    /\ UNCHANGED <<exc, status, lock, seen, sb, owner>>

DequeUnlock(t) ==
    /\ Goto(t, "unlock", "idle")
    /\ lock' = None
    /\ UNCHANGED <<head, exc, status, seen, sb, stolen, owner>>

-----------------------------------------------------------------------------
OwnerStep == \/ SetupHead \/ SetupTail \/ SetupExc \/ AddBottom \/ Detach
             \/ LeaveStoreTail \/ LeaveLoadExc \/ ExceptionHandler
             \/ XtractBottom \/ SyncSuspend

\* The steps of the owner that wait neither for work nor for user code.
OwnerMustStep == \/ SetupTail \/ SetupExc \/ AddBottom
                 \/ LeaveLoadExc \/ ExceptionHandler \/ XtractBottom

ThiefStep(t) == \/ FastHead(t) \/ FastTail(t) \/ DequeTrylock(t) \/ PeekTop(t)
                \/ IncrementExc(t) \/ Fence(t) \/ TestTail(t)
                \/ DecrementExc(t) \/ PromoteChild(t) \/ DequeUnlock(t)

Next == OwnerStep \/ DrainTail \/ \E t \in Thieves : ThiefStep(t) \/ DrainExc(t)

Spec == Init /\ [][Next]_vars

\* Threads keep running and store buffers drain; user code (Detach,
\* LeaveStoreTail, SyncSuspend) owes nothing.  No lock is assumed fair.
Fairness == /\ WF_vars(OwnerMustStep)
            /\ WF_vars(DrainTail)
            /\ \A t \in Thieves : WF_vars(ThiefStep(t)) /\ WF_vars(DrainExc(t))

FairSpec == Spec /\ Fairness

-----------------------------------------------------------------------------
(* Properties *)

TypeOK ==
    /\ head \in Nat /\ tail \in Nat /\ vtail \in Nat /\ exc \in Int
    /\ stack \in [Slots -> Nat]
    /\ status \in {"NONE", "RUNNING", "RETURNING"}
    /\ lock \in Thieves \cup {None}
    /\ pc \in OwnerPC
    /\ tpc \in [Thieves -> ThiefPC]
    /\ seen \in [Thieves -> Nat]
    /\ sb \in [Thieves -> BOOLEAN]
    /\ frames \in Nat
    /\ kept \subseteq Nat /\ stolen \subseteq Nat

\* A thief past the test of tail owns the frame at head although head has
\* not moved yet; an owner between its store of tail and its decision still
\* has a claim on the frame at tail.
Committed == \E t \in Thieves : tpc[t] = "promote"
LogicalHead == IF Committed THEN head + 1 ELSE head
LogicalTail == IF pc \in {"load", "hlock"} THEN tail + 1 ELSE tail

InUserCode == pc \in {"run", "load", "hlock"}

\* The slots whose continuation nobody has taken.
Live == IF InUserCode THEN LogicalHead .. LogicalTail - 1 ELSE {}

\* The frames thieves took, the one a thief is about to take included.
Taken == stolen \cup (IF Committed THEN {stack[head]} ELSE {})

\* A continuation is executed at most once: leave_frame and promote_child
\* never both take the same frame.
AtMostOnce == kept \cap stolen = {}

\* ... and none is dropped: when the owner is back in the scheduler, every
\* frame it ever detached has been continued by it or by a thief.
NoneLost == ~InUserCode => kept \cup stolen = 1 .. frames

\* An owner that waits for its own deque lock gets it although the lock is
\* not fair: the fast test keeps thieves away once head >= tail.
OwnerNotStarved == (pc \in {"add", "hlock", "sched"}) ~> (pc \in {"run", "out"})

-----------------------------------------------------------------------------
(* Refinement: the protocol implements the atomic deque.  A push takes     *)
(* effect at the store of tail, a steal at the thief's test of tail and a  *)
(* pop when the owner has compared exc (or head, in the handler) and tail. *)

DequeContents == IF InUserCode
                 THEN [i \in 1 .. LogicalTail - LogicalHead |->
                         stack[LogicalHead + i - 1]]
                 ELSE <<>>

Deque == INSTANCE WorkDeque WITH
           Frames  <- 1 .. MaxDetach,
           dq      <- DequeContents,
           running <- InUserCode,
           stolen  <- Taken

\* The unlocked push and pop, and the thief's side of the protocol, behave
\* as atomic operations on one deque: thieves take the oldest continuation,
\* the owner the youngest, and the owner gives up only when none is left.
ImplementsDeque == Deque!DSpec

-----------------------------------------------------------------------------
(* The inductive invariant *)

Locked == {"peek", "inc", "fence", "test", "dec", "promote", "unlock"}
Dekker == {"inc", "fence", "test", "dec", "promote"}

\* Mutual exclusion of the thieves' critical sections.
LockInv == \A t \in Thieves : lock = t <=> tpc[t] \in Locked

\* exc runs ahead of head exactly while a thief is between its increment and
\* the end of its steal.
Bump == \E t \in Thieves : \/ tpc[t] \in {"test", "dec", "promote"}
                           \/ tpc[t] = "fence" /\ ~sb[t]

ExcInv == /\ pc \notin {"setT", "setE"} => exc = IF Bump THEN head + 1 ELSE head
          /\ \A t \in Thieves : sb[t] => tpc[t] = "fence"

\* Where the owner is, whether its closure can be found in the deque, and
\* that no thief is inside the protocol unless it can.
StatusInv == /\ status = "RUNNING" <=> InUserCode
             /\ status = "RETURNING" <=> pc = "sched"
             /\ \A t \in Thieves : tpc[t] \in Dekker => InUserCode

\* What the owner may still take lies at or above what the thieves took.
BoundInv == /\ tail < LtqLimit
            /\ InUserCode => vtail <= tail
            /\ pc \in {"load", "hlock"} => vtail = tail
            /\ pc = "run" => LogicalHead <= vtail
            /\ pc \in {"load", "hlock"} => LogicalHead <= tail + 1
            /\ pc \in {"setT", "setE", "add"} => head = 0
            /\ pc \in {"setE", "add"} => tail = 0

\* The frames in the live slots are the ones nobody has taken, in the order
\* they were detached.
FrameInv == /\ kept \cap Taken = {}
            /\ kept \cup Taken \cup {stack[i] : i \in Live} = 1 .. frames
            /\ \A i \in Live : stack[i] \notin kept \cup Taken
            /\ \A i, j \in Live : i < j => stack[i] < stack[j]

\* THEInv is inductive; THE_proofs proves it for any number of thieves.
THEInv == TypeOK /\ LockInv /\ ExcInv /\ StatusInv /\ BoundInv /\ FrameInv
=============================================================================
