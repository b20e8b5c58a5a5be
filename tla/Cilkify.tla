------------------------------ MODULE Cilkify ------------------------------
(***************************************************************************)
(* The life of Cilkified regions in one runtime (src/runtime/init.c,       *)
(* cilk2c_inlined.c and the outer loops of scheduler.c).  The boss thread  *)
(* starts a region by making the root closure ready and raising start; the *)
(* worker that ended the last region executes the root; thieves may take   *)
(* its continuation, so that any worker can end the region; that worker    *)
(* wakes the boss, which may start the next region while slow workers are  *)
(* still inside the last one.  At the end the boss stops and joins the     *)
(* workers.                                                                *)
(*                                                                         *)
(* Of the computation only the root closure is kept: Open(v) says that its *)
(* worker v has a stealable continuation (head < tail) and a stolen        *)
(* continuation leaves a child with the victim.  Flags are sequentially    *)
(* consistent.  A wait on a condition variable is two states: "wait" is    *)
(* about to test the flag, "asleep" needs a wake-up.  The test and falling *)
(* asleep are one step, as are setting the flag and the wake-up, because   *)
(* each is under the mutex of the condition variable.                      *)
(***************************************************************************)
EXTENDS Integers, FiniteSets

CONSTANTS Workers,     \* the workers of the runtime
          First,       \* worker 0, which executes the first region's root
          MaxRegions,  \* bound: regions started by the boss
          MaxSpawns,   \* bound: spawns of the root in a region
          None

ASSUME CilkifyAssumption ==
    /\ First \in Workers /\ None \notin Workers /\ MaxRegions \in Nat
    /\ MaxSpawns \in Nat

VARIABLES
    boss,      \* program counter of the Cilkifying thread
    regions,   \* regions started so far
    start, done, cilkified, terminate, exiting_worker,
    status,    \* status of the root closure
    lock,      \* holder of the root closure's lock
    dlock,     \* holder of each deque lock
    inDeque,   \* the worker whose ready deque holds the root closure
    open,      \* the worker that runs the root has a stealable continuation
    spawns,    \* spawns of the root in this region
    children,  \* the workers that execute a child of the root
    pc,        \* program counter of each worker
    vic        \* the victim of a steal attempt, or the worker itself

flags == <<start, done, cilkified, terminate, exiting_worker>>
root == <<status, lock, dlock, inDeque, open, spawns, children>>
vars == <<boss, regions, start, done, cilkified, terminate, exiting_worker,
          status, lock, dlock, inDeque, open, spawns, children, pc, vic>>

BossPC == {"out", "cilkified", "done", "start", "wait", "asleep",
           "stop", "join", "end"}
WorkerPC == {"wait", "asleep", "woken", "begin", "loop", "idle", "try", "peek", "ctry",
             "switch", "dekker", "exec", "add", "run", "exit", "finish", "clear",
             "after", "child", "joined"}

Init ==
    /\ boss = "out" /\ regions = 0
    /\ start = FALSE /\ done = FALSE /\ cilkified = FALSE /\ terminate = FALSE
    /\ exiting_worker = First
    /\ status = "NONE" /\ lock = None /\ dlock = [w \in Workers |-> None]
    /\ inDeque = None /\ open = FALSE /\ spawns = 0 /\ children = {}
    /\ pc = [w \in Workers |-> "wait"]
    /\ vic = [w \in Workers |-> w]

-----------------------------------------------------------------------------
(* The boss: invoke_cilkified_root, wait_until_cilk_done, stop_workers *)

Boss(from, to) == boss = from /\ boss' = to

MakeReady ==
    /\ Boss("out", "cilkified") /\ regions < MaxRegions
    /\ regions' = regions + 1
    /\ status' = "READY" /\ spawns' = 0
    /\ UNCHANGED <<flags, lock, dlock, inDeque, open, children, pc, vic>>

SetCilkified ==
    /\ Boss("cilkified", "done")
    /\ cilkified' = TRUE
    /\ UNCHANGED <<regions, start, done, terminate, exiting_worker, root, pc, vic>>

ClearDone ==
    /\ Boss("done", "start")
    /\ done' = FALSE
    /\ UNCHANGED <<regions, start, cilkified, terminate, exiting_worker, root, pc, vic>>

\* Wakes the workers that sleep on start_cond_var.
Broadcast == pc' = [w \in Workers |-> IF pc[w] = "asleep" THEN "wait" ELSE pc[w]]

\* Variant: start is set without the broadcast.
SetStartQuiet ==
    /\ Boss("start", "wait")
    /\ start' = TRUE
    /\ UNCHANGED <<regions, done, cilkified, terminate, exiting_worker, root, pc, vic>>

\* Under start_lock, with the broadcast.
SetStart ==
    /\ Boss("start", "wait")
    /\ start' = TRUE /\ Broadcast
    /\ UNCHANGED <<regions, done, cilkified, terminate, exiting_worker, root, vic>>

\* Under cilkified_lock: the region is over, or the boss sleeps.
WaitUntilCilkDone ==
    /\ \/ ~cilkified /\ Boss("wait", "out")
       \/ cilkified /\ Boss("wait", "asleep")
    /\ UNCHANGED <<regions, flags, root, pc, vic>>

StopWorkers ==
    /\ Boss("out", "stop") /\ regions > 0
    /\ terminate' = TRUE
    /\ UNCHANGED <<regions, start, done, cilkified, exiting_worker, root, pc, vic>>

WakeToStop ==
    /\ Boss("stop", "join")
    /\ start' = TRUE /\ Broadcast
    /\ UNCHANGED <<regions, done, cilkified, terminate, exiting_worker, root, vic>>

JoinWorkers ==
    /\ Boss("join", "end") /\ \A w \in Workers : pc[w] = "joined"
    /\ UNCHANGED <<regions, flags, root, pc, vic>>

-----------------------------------------------------------------------------
(* A worker: scheduler_thread_proc and the loops of worker_scheduler *)

Goto(w, from, to) == pc[w] = from /\ pc' = [pc EXCEPT ![w] = to]

\* Under start_lock.
WaitStart(w) ==
    /\ \/ start /\ Goto(w, "wait", "woken")
       \/ ~start /\ Goto(w, "wait", "asleep")
    /\ UNCHANGED <<boss, regions, flags, root, vic>>

\* Variant: the worker waits for the next region instead of returning.
CheckTerminateContinue(w) ==
    /\ Goto(w, "woken", IF terminate THEN "wait" ELSE "begin")
    /\ UNCHANGED <<boss, regions, flags, root, vic>>

CheckTerminate(w) ==
    /\ Goto(w, "woken", IF terminate THEN "joined" ELSE "begin")
    /\ UNCHANGED <<boss, regions, flags, root, vic>>

\* Variant: every worker starts the region with the root closure.
BeginAlways(w) ==
    /\ Goto(w, "begin", "exec")
    /\ UNCHANGED <<boss, regions, flags, root, vic>>

\* The last exiting worker starts worker_scheduler with the root closure,
\* the others with none.
Begin(w) ==
    /\ Goto(w, "begin", IF exiting_worker = w THEN "exec" ELSE "loop")
    /\ UNCHANGED <<boss, regions, flags, root, vic>>

\* The outer loop; the own deque has nothing.
Loop(w) ==
    /\ Goto(w, "loop", IF done THEN "after" ELSE "idle")
    /\ ~done => dlock[w] = None
    /\ UNCHANGED <<boss, regions, flags, root, vic>>

\* The inner loop ends when the region does.
StopStealing(w) ==
    /\ done /\ Goto(w, "idle", "loop")
    /\ UNCHANGED <<boss, regions, flags, root, vic>>

\* Closure_steal: the fast test finds head < tail.
FastTest(w, v) ==
    /\ ~done /\ v # w /\ pc[v] = "run" /\ open
    /\ Goto(w, "idle", "try")
    /\ vic' = [vic EXCEPT ![w] = v]
    /\ UNCHANGED <<boss, regions, flags, root>>

\* Back to the inner loop, without the lock of the victim's deque.
GiveUp(w, from) ==
    /\ Goto(w, from, "idle")
    /\ dlock' = [dlock EXCEPT ![vic[w]] = IF @ = w THEN None ELSE @]
    /\ vic' = [vic EXCEPT ![w] = w]

DequeTrylock(w) ==
    LET v == vic[w] IN
    /\ \/ /\ dlock[v] = None /\ Goto(w, "try", "peek")
          /\ dlock' = [dlock EXCEPT ![v] = w]
          /\ UNCHANGED vic
       \/ dlock[v] # None /\ GiveUp(w, "try")
    /\ UNCHANGED <<boss, regions, flags, spawns, status, lock, inDeque, open, children>>

PeekTop(w) ==
    /\ \/ inDeque = vic[w] /\ Goto(w, "peek", "ctry") /\ UNCHANGED <<dlock, vic>>
       \/ inDeque # vic[w] /\ GiveUp(w, "peek")
    /\ UNCHANGED <<boss, regions, flags, spawns, status, lock, inDeque, open, children>>

ClosureTrylock(w) ==
    /\ \/ /\ lock = None /\ Goto(w, "ctry", "switch")
          /\ lock' = w
          /\ UNCHANGED <<dlock, vic>>
       \/ lock # None /\ GiveUp(w, "ctry") /\ UNCHANGED lock
    /\ UNCHANGED <<boss, regions, flags, spawns, status, inDeque, open, children>>

\* The switch on the status: a root closure that is not running was made
\* ready for a new region; the attempt returns without unlocking anything.
SwitchStatus(w) ==
    /\ \/ status = "RUNNING" /\ Goto(w, "switch", "dekker") /\ UNCHANGED vic
       \/ /\ status # "RUNNING" /\ Goto(w, "switch", "idle")
          /\ vic' = [vic EXCEPT ![w] = w]
    /\ UNCHANGED <<boss, regions, flags, root>>

\* do_dekker_on.  If the victim still has a continuation, the thief takes it
\* and executes it; the victim is left with a child.
Dekker(w) ==
    LET v == vic[w] IN
    /\ lock' = None
    /\ \/ /\ open /\ inDeque = v
          /\ pc' = [pc EXCEPT ![w] = "exec", ![v] = "child"]
          /\ pc[w] = "dekker"
          /\ dlock' = [dlock EXCEPT ![v] = None]
          /\ vic' = [vic EXCEPT ![w] = w]
          /\ status' = "READY" /\ inDeque' = None /\ open' = FALSE
          /\ children' = children \cup {v}
       \/ /\ ~(open /\ inDeque = v)
          /\ GiveUp(w, "dekker")
          /\ UNCHANGED <<status, inDeque, open, children>>
    /\ UNCHANGED <<boss, regions, flags, spawns>>

\* do_what_it_says with the root closure: setup_for_execution under its lock,
\* then into the deque and to user code.
Execute(w) ==
    /\ lock = None /\ Goto(w, "exec", "add")
    /\ status' = "RUNNING"
    /\ UNCHANGED <<boss, regions, flags, spawns, lock, dlock, inDeque, open, children, vic>>

AddBottom(w) ==
    /\ dlock[w] = None /\ Goto(w, "add", "run")
    /\ inDeque' = w
    /\ UNCHANGED <<boss, regions, flags, spawns, status, lock, dlock, open, children, vic>>

\* User code spawns, ...
Spawn(w) ==
    /\ pc[w] = "run" /\ ~open /\ spawns < MaxSpawns
    /\ open' = TRUE /\ spawns' = spawns + 1
    /\ UNCHANGED <<boss, regions, flags, status, lock, dlock, inDeque, children, pc, vic>>

\* ... and returns from what it spawned.
PopSpawned(w) ==
    /\ pc[w] = "run" /\ open
    /\ open' = FALSE
    /\ UNCHANGED <<boss, regions, flags, status, lock, dlock, inDeque, children, spawns,
                   pc, vic>>

\* Cilk_sync with outstanding children.
Suspend(w) ==
    /\ ~open /\ children # {} /\ lock = None /\ dlock[w] = None
    /\ Goto(w, "run", "loop")
    /\ status' = "SUSPENDED" /\ inDeque' = None
    /\ UNCHANGED <<boss, regions, flags, spawns, lock, dlock, open, children, vic>>

\* Closure_return of a child; the last one resumes a suspended root.
ChildReturn(w) ==
    /\ lock = None
    /\ children' = children \ {w}
    /\ \/ /\ children = {w} /\ status = "SUSPENDED"
          /\ Goto(w, "child", "exec") /\ status' = "READY"
       \/ /\ ~(children = {w} /\ status = "SUSPENDED")
          /\ Goto(w, "child", "loop") /\ UNCHANGED status
    /\ UNCHANGED <<boss, regions, flags, spawns, lock, dlock, inDeque, open, vic>>

\* Variant: a region may end while children are outstanding.
RecordExitingUnsynced(w) ==
    /\ ~open /\ Goto(w, "run", "exit")
    /\ exiting_worker' = w
    /\ UNCHANGED <<boss, regions, start, done, cilkified, terminate, root, vic>>

\* Variant: the exiting worker is reset instead of recorded.
RecordExitingReset(w) ==
    /\ ~open /\ children = {} /\ Goto(w, "run", "exit")
    /\ exiting_worker' = None
    /\ UNCHANGED <<boss, regions, start, done, cilkified, terminate, root, vic>>

\* exit_cilkified_root: exiting_worker, start, done, in this order; ...
RecordExiting(w) ==
    /\ ~open /\ children = {} /\ Goto(w, "run", "exit")
    /\ exiting_worker' = w
    /\ UNCHANGED <<boss, regions, start, done, cilkified, terminate, root, vic>>

ClearStart(w) ==
    /\ Goto(w, "exit", "finish")
    /\ start' = FALSE
    /\ UNCHANGED <<boss, regions, done, cilkified, terminate, exiting_worker, root, vic>>

SetDone(w) ==
    /\ Goto(w, "finish", "clear")
    /\ done' = TRUE
    /\ UNCHANGED <<boss, regions, start, cilkified, terminate, exiting_worker, root, vic>>

\* ... then the deque is cleared, without its lock.
ClearDeque(w) ==
    /\ Goto(w, "clear", "loop")
    /\ inDeque' = None
    /\ UNCHANGED <<boss, regions, flags, spawns, status, lock, dlock, open, children, vic>>

\* Out of the work-stealing loop: the exiting worker wakes the boss, under
\* cilkified_lock.
WakeBoss(w) ==
    /\ Goto(w, "after", "wait")
    /\ \/ /\ exiting_worker = w
          /\ cilkified' = FALSE
          /\ boss' = IF boss = "asleep" THEN "wait" ELSE boss
       \/ exiting_worker # w /\ UNCHANGED <<cilkified, boss>>
    /\ UNCHANGED <<regions, start, done, terminate, exiting_worker, root, vic>>

\* pthread_cond_wait may return without a signal; both waits test again.
SpuriousWakeup ==
    /\ \/ Boss("asleep", "wait") /\ UNCHANGED pc
       \/ UNCHANGED boss /\ \E w \in Workers : Goto(w, "asleep", "wait")
    /\ UNCHANGED <<regions, flags, root, vic>>

-----------------------------------------------------------------------------
BossStep == \/ MakeReady \/ SetCilkified \/ ClearDone \/ SetStart
            \/ WaitUntilCilkDone \/ StopWorkers \/ WakeToStop \/ JoinWorkers

\* The steps of the runtime's threads that the runtime owes.
WorkerStep(w) ==
    \/ WaitStart(w) \/ CheckTerminate(w) \/ Begin(w) \/ Loop(w) \/ StopStealing(w)
    \/ DequeTrylock(w) \/ PeekTop(w) \/ ClosureTrylock(w) \/ SwitchStatus(w)
    \/ Dekker(w) \/ Execute(w) \/ AddBottom(w)
    \/ PopSpawned(w) \/ Suspend(w) \/ ChildReturn(w) \/ RecordExiting(w) \/ ClearStart(w)
    \/ SetDone(w) \/ ClearDeque(w) \/ WakeBoss(w)

Finished == boss = "end" /\ UNCHANGED vars

Next == \/ BossStep \/ SpuriousWakeup \/ Finished
        \/ \E w \in Workers : WorkerStep(w) \/ Spawn(w)
                              \/ \E v \in Workers : FastTest(w, v)

Spec == Init /\ [][Next]_vars

\* The fast test fails and the worker tries again: it spins, which is not a
\* deadlock.
FailedSteal(w) == ~done /\ pc[w] = "idle" /\ UNCHANGED vars

\* Threads keep running.  The boss goes on once it has begun to start or stop;
\* it owes no further region.  Mutexes and steal attempts may be unlucky, and
\* nothing wakes a sleeper but a signal.
FairSpec == /\ Init /\ [][Next \/ \E w \in Workers : FailedSteal(w)]_vars
            /\ WF_vars(BossStep /\ boss # "out")
            /\ \A w \in Workers : WF_vars(WorkerStep(w))

-----------------------------------------------------------------------------
(* Properties *)

TypeOK ==
    /\ boss \in BossPC /\ regions \in 0 .. MaxRegions
    /\ start \in BOOLEAN /\ done \in BOOLEAN /\ cilkified \in BOOLEAN
    /\ terminate \in BOOLEAN
    /\ exiting_worker \in Workers
    /\ status \in {"NONE", "READY", "RUNNING", "SUSPENDED"}
    /\ lock \in Workers \cup {None} /\ dlock \in [Workers -> Workers \cup {None}]
    /\ inDeque \in Workers \cup {None} /\ open \in BOOLEAN
    /\ spawns \in 0 .. MaxSpawns /\ children \subseteq Workers
    /\ pc \in [Workers -> WorkerPC] /\ vic \in [Workers -> Workers]

InRegion(w) == pc[w] \in {"exec", "add", "run", "exit", "finish", "clear", "child"}
HasRoot(w) == InRegion(w) /\ pc[w] # "child"

\* The root closure is executed by one worker at a time, also when slow
\* workers enter worker_scheduler for a region that is over.
OneRoot == \A w, v \in Workers : HasRoot(w) /\ HasRoot(v) => w = v

\* The boss continues only after the region: nobody executes any part of it,
\* the flags are as __cilkrts_stop_workers asserts, and no deque has the root.
RegionOver ==
    boss \in {"out", "stop", "join", "end"} =>
        /\ \A w \in Workers : ~InRegion(w)
        /\ children = {} /\ inDeque = None /\ ~cilkified
        /\ status # "READY"
        /\ boss = "out" => ~start /\ (regions > 0 => done)

\* What the inductive invariant says of the root closure and of the phases of
\* a region.  The last exiting worker matters throughout: it must be back at
\* the wait for start before the next region begins, or it would start twice.
ChildrenInv == children = {w \in Workers : pc[w] = "child"}

RootInv ==
    /\ \A w \in Workers :
         /\ pc[w] = "exec" => status = "READY"
         /\ pc[w] \in {"add", "run", "exit", "finish", "clear"} => status = "RUNNING"
         /\ pc[w] \in {"run", "exit", "finish", "clear"} <=> inDeque = w
         /\ pc[w] \in {"exit", "finish", "clear"} => exiting_worker = w
    /\ open => inDeque \in Workers /\ pc[inDeque] = "run"

Nobody == (\A w \in Workers : ~InRegion(w)) /\ children = {} /\ inDeque = None /\ ~open

\* Before the first region, and after each.
Over ==
    /\ boss \in {"out", "stop"} \/ (boss = "wait" /\ ~cilkified)
    /\ Nobody /\ status \in {"NONE", "RUNNING"} /\ ~start /\ ~cilkified
    /\ pc[exiting_worker] \in {"wait", "asleep"}
    /\ (boss # "out" => regions > 0) /\ (regions > 0 => done)

Stopping ==
    /\ boss \in {"join", "end"} /\ Nobody /\ status \in {"NONE", "RUNNING"}
    /\ start /\ done /\ ~cilkified
    /\ pc[exiting_worker] \in {"wait", "woken", "joined"}

\* The boss starts a region ...
Starting ==
    /\ boss \in {"cilkified", "done", "start"} /\ Nobody /\ status = "READY"
    /\ ~start /\ (cilkified <=> boss # "cilkified") /\ (boss = "start" => ~done)
    /\ regions > 0 /\ pc[exiting_worker] \in {"wait", "asleep"}

\* ... which the last exiting worker has not seen yet.
Started ==
    /\ boss \in {"wait", "asleep"} /\ Nobody /\ status = "READY"
    /\ start /\ ~done /\ cilkified /\ regions > 0
    /\ pc[exiting_worker] \in {"wait", "woken", "begin"}

\* Someone has the root closure, or it waits for its children.
Running ==
    /\ boss \in {"wait", "asleep"} /\ start /\ ~done /\ cilkified /\ regions > 0
    /\ \/ \E w \in Workers : pc[w] \in {"exec", "add", "run"}
       \/ status = "SUSPENDED" /\ children # {}
    /\ status = "SUSPENDED" => \A w \in Workers : ~HasRoot(w)
    /\ pc[exiting_worker] \notin {"wait", "asleep", "woken", "begin", "exit", "finish",
                                  "clear", "after", "joined"}

\* The exiting worker ends the region.
Ending ==
    /\ boss \in {"wait", "asleep"} /\ cilkified /\ regions > 0
    /\ children = {} /\ ~open /\ status = "RUNNING"
    /\ \A w \in Workers : InRegion(w) => w = exiting_worker
    /\ pc[exiting_worker] \in {"exit", "finish", "clear", "loop", "after"}
    /\ pc[exiting_worker] \in {"loop", "after"} => inDeque = None
    /\ start <=> pc[exiting_worker] = "exit"
    /\ done <=> pc[exiting_worker] \in {"clear", "loop", "after"}

PhaseInv == Over \/ Stopping \/ Starting \/ Started \/ Running \/ Ending

TerminateInv ==
    /\ terminate <=> boss \in {"stop", "join", "end"}
    /\ \A w \in Workers : pc[w] = "joined" => terminate

\* Nobody sleeps through what it waits for.
SleepInv ==
    /\ \A w \in Workers : pc[w] = "asleep" => ~start
    /\ boss = "asleep" => cilkified

\* Whatever the slow workers of the last region do, a region goes through its
\* phases in order, each with one place where the root closure can be.
\* CilkifyInv is inductive; Cilkify_proofs proves it for any set of workers.
CilkifyInv == /\ TypeOK /\ OneRoot /\ ChildrenInv /\ RootInv /\ PhaseInv
              /\ TerminateInv /\ SleepInv

\* A worker that is not inside a steal attempt holds no lock.
LocksReleased ==
    \A w \in Workers : pc[w] \notin {"peek", "ctry", "switch", "dekker"} =>
        lock # w /\ \A v \in Workers : dlock[v] # w

\* A region that was started ends and wakes the boss, unless a steal attempt
\* has left the root closure and a deque locked for good (LocksReleased).
RegionEnds == (boss = "wait") ~> (boss = "out" \/ ~LocksReleased)

\* Stopping the workers ends: no worker misses the wake-up or steals forever.
ShutdownEnds == (boss = "join") ~> (boss = "end")
=============================================================================
