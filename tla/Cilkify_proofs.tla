--------------------------- MODULE Cilkify_proofs ---------------------------
(***************************************************************************)
(* CilkifyInv is an inductive invariant of Cilkify, for every set of       *)
(* workers and every number of regions and spawns, and it implies that one *)
(* worker at a time executes the root closure and that the boss returns    *)
(* from a region only when the region is over.                             *)
(***************************************************************************)
EXTENDS Cilkify, TLAPS

\* The flags of the types, and the parts of CilkifyInv other than the types.
Flags == /\ start \in BOOLEAN /\ done \in BOOLEAN /\ cilkified \in BOOLEAN
         /\ terminate \in BOOLEAN /\ open \in BOOLEAN
Core == OneRoot /\ ChildrenInv /\ RootInv /\ PhaseInv /\ TerminateInv /\ SleepInv

-----------------------------------------------------------------------------
(* Initially *)

\* The runtime starts with all its state in its types: deques empty, locks
\* free, every worker waiting for the first region.
LEMMA TypeInit == Init => TypeOK
<1> SUFFICES ASSUME Init PROVE TypeOK
  OBVIOUS
<1>1. Flags
  BY Zenon DEF Init, Flags
<1> QED BY <1>1, CilkifyAssumption DEF Init, Flags, TypeOK, BossPC, WorkerPC

\* It starts between two regions, with worker 0 waiting as if it had ended one.
LEMMA CoreInit == Init => Core
  BY CilkifyAssumption
  DEF Init, Core, OneRoot, ChildrenInv, RootInv, PhaseInv, TerminateInv, SleepInv, Over,
      Nobody, HasRoot, InRegion

-----------------------------------------------------------------------------
(* Steps of the boss *)

\* invoke_cilkified_root, wait_until_cilk_done and stop_workers set flags only.
LEMMA FlagsBoss == Flags /\ BossStep => Flags'
  BY Zenon
  DEF Flags, BossStep, MakeReady, SetCilkified, ClearDone, SetStart,
      WaitUntilCilkDone, StopWorkers, WakeToStop, JoinWorkers, flags, root

\* The steps of the boss keep the types.
LEMMA TypeBoss == TypeOK /\ BossStep => TypeOK'
<1> SUFFICES ASSUME TypeOK, BossStep PROVE TypeOK'
  OBVIOUS
<1>1. Flags'
  BY FlagsBoss DEF TypeOK, Flags
<1> QED
  BY <1>1, CilkifyAssumption
  DEF TypeOK, BossPC, Flags, BossStep, Boss, MakeReady, SetCilkified, ClearDone,
      SetStart, WaitUntilCilkDone, StopWorkers, WakeToStop, JoinWorkers, Broadcast,
      WorkerPC, flags, root

\* The boss goes from one phase of a region to the next: it starts a region
\* only when the last is over and its exiting worker waits for start again.
LEMMA CoreBoss == TypeOK /\ Core /\ BossStep => Core'
<1> SUFFICES ASSUME TypeOK, Core, BossStep PROVE Core'
  OBVIOUS
<1> USE DEF TypeOK, Core, OneRoot, ChildrenInv, RootInv, PhaseInv, TerminateInv, SleepInv,
            Over, Stopping, Starting, Started, Running, Ending, Nobody, HasRoot, InRegion,
            Boss, Broadcast, flags, root
<1>1. CASE MakeReady
  BY <1>1 DEF MakeReady
<1>2. CASE SetCilkified
  BY <1>2 DEF SetCilkified
<1>3. CASE ClearDone
  BY <1>3 DEF ClearDone
<1>4. CASE SetStart
  BY <1>4 DEF SetStart
<1>5. CASE WaitUntilCilkDone
  BY <1>5 DEF WaitUntilCilkDone
<1>6. CASE StopWorkers
  BY <1>6 DEF StopWorkers
<1>7. CASE WakeToStop
  BY <1>7 DEF WakeToStop
<1>8. CASE JoinWorkers
  BY <1>8 DEF JoinWorkers
<1> QED BY <1>1, <1>2, <1>3, <1>4, <1>5, <1>6, <1>7, <1>8 DEF BossStep

-----------------------------------------------------------------------------
(* Steps of a worker *)

\* The steps of a worker keep the types.
LEMMA TypeWorker ==
  ASSUME TypeOK, NEW w \in Workers,
         WorkerStep(w) \/ Spawn(w) \/ \E v \in Workers : FastTest(w, v)
  PROVE  TypeOK'
<1> USE CilkifyAssumption DEF TypeOK, WorkerPC, Goto, flags, root
<1>1. CASE WaitStart(w)
  BY <1>1 DEF WaitStart
<1>2. CASE CheckTerminate(w)
  BY <1>2 DEF CheckTerminate
<1>3. CASE Begin(w)
  BY <1>3 DEF Begin
<1>4. CASE Loop(w)
  BY <1>4 DEF Loop
<1>5. CASE StopStealing(w)
  BY <1>5 DEF StopStealing
<1>6. CASE DequeTrylock(w)
  BY <1>6 DEF DequeTrylock, GiveUp
<1>7. CASE PeekTop(w)
  BY <1>7 DEF PeekTop, GiveUp
<1>8. CASE ClosureTrylock(w)
  BY <1>8 DEF ClosureTrylock, GiveUp
<1>9. CASE SwitchStatus(w)
  BY <1>9 DEF SwitchStatus
<1>10. CASE Dekker(w)
  <2>1. CASE open /\ inDeque = vic[w]
    <3>1. open' \in BOOLEAN
      BY <1>10, <2>1, Zenon DEF Dekker
    <3>2. /\ pc' \in [Workers -> WorkerPC] /\ vic' \in [Workers -> Workers]
          /\ dlock' \in [Workers -> Workers \cup {None}]
      BY <1>10, <2>1 DEF Dekker
    <3> QED BY <1>10, <2>1, <3>1, <3>2 DEF Dekker
  <2>2. CASE ~(open /\ inDeque = vic[w])
    BY <1>10, <2>2 DEF Dekker, GiveUp
  <2> QED BY <2>1, <2>2
<1>11. CASE Execute(w)
  BY <1>11 DEF Execute
<1>12. CASE AddBottom(w)
  BY <1>12 DEF AddBottom
<1>13. CASE PopSpawned(w)
  BY <1>13 DEF PopSpawned
<1>14. CASE Suspend(w)
  BY <1>14 DEF Suspend
<1>15. CASE ChildReturn(w)
  BY <1>15 DEF ChildReturn
<1>16. CASE RecordExiting(w)
  BY <1>16 DEF RecordExiting
<1>17. CASE ClearStart(w)
  BY <1>17 DEF ClearStart
<1>18. CASE SetDone(w)
  BY <1>18 DEF SetDone
<1>19. CASE ClearDeque(w)
  BY <1>19 DEF ClearDeque
<1>20. CASE WakeBoss(w)
  <2>1. boss' \in BossPC
    BY <1>20 DEF WakeBoss, BossPC
  <2>2. cilkified' \in BOOLEAN
    BY <1>20, Zenon DEF WakeBoss
  <2> QED BY <1>20, <2>1, <2>2 DEF WakeBoss
<1>21. CASE Spawn(w)
  BY <1>21 DEF Spawn
<1>22. CASE \E v \in Workers : FastTest(w, v)
  BY <1>22 DEF FastTest
<1> QED
  BY <1>1, <1>2, <1>3, <1>4, <1>5, <1>6, <1>7, <1>8, <1>9, <1>10, <1>11, <1>12,
     <1>13, <1>14, <1>15, <1>16, <1>17, <1>18, <1>19, <1>20, <1>21, <1>22
  DEF WorkerStep

\* No step of a worker, fast or slow, makes a second executor of the root, and
\* only the steps of the exiting worker move a region towards its end.
LEMMA CoreWorker ==
  ASSUME TypeOK, Core, NEW w \in Workers,
         WorkerStep(w) \/ Spawn(w) \/ \E v \in Workers : FastTest(w, v)
  PROVE  Core'
<1> USE CilkifyAssumption
    DEF TypeOK, Core, OneRoot, ChildrenInv, RootInv, PhaseInv, TerminateInv, SleepInv, Over,
        Stopping, Starting, Started, Running, Ending, Nobody, HasRoot, InRegion, Goto,
        flags, root
<1>1. CASE WaitStart(w)
  BY <1>1 DEF WaitStart
<1>2. CASE CheckTerminate(w)
  BY <1>2 DEF CheckTerminate
<1>3. CASE Begin(w)
  BY <1>3 DEF Begin
<1>4. CASE Loop(w)
  BY <1>4 DEF Loop
<1>5. CASE StopStealing(w)
  BY <1>5 DEF StopStealing
<1>6. CASE DequeTrylock(w)
  BY <1>6 DEF DequeTrylock, GiveUp
<1>7. CASE PeekTop(w)
  BY <1>7 DEF PeekTop, GiveUp
<1>8. CASE ClosureTrylock(w)
  BY <1>8 DEF ClosureTrylock, GiveUp
<1>9. CASE SwitchStatus(w)
  BY <1>9 DEF SwitchStatus
<1>10. CASE Dekker(w)
  BY <1>10 DEF Dekker, GiveUp
<1>11. CASE Execute(w)
  BY <1>11 DEF Execute
<1>12. CASE AddBottom(w)
  BY <1>12 DEF AddBottom
<1>13. CASE PopSpawned(w)
  BY <1>13 DEF PopSpawned
<1>14. CASE Suspend(w)
  BY <1>14 DEF Suspend
<1>15. CASE ChildReturn(w)
  BY <1>15 DEF ChildReturn
<1>16. CASE RecordExiting(w)
  BY <1>16 DEF RecordExiting
<1>17. CASE ClearStart(w)
  BY <1>17 DEF ClearStart
<1>18. CASE SetDone(w)
  BY <1>18 DEF SetDone
<1>19. CASE ClearDeque(w)
  BY <1>19 DEF ClearDeque
<1>20. CASE WakeBoss(w)
  BY <1>20 DEF WakeBoss
<1>21. CASE Spawn(w)
  BY <1>21 DEF Spawn
<1>22. CASE \E v \in Workers : FastTest(w, v)
  BY <1>22 DEF FastTest
<1> QED
  BY <1>1, <1>2, <1>3, <1>4, <1>5, <1>6, <1>7, <1>8, <1>9, <1>10, <1>11, <1>12,
     <1>13, <1>14, <1>15, <1>16, <1>17, <1>18, <1>19, <1>20, <1>21, <1>22
  DEF WorkerStep

\* A wake-up without a signal keeps the invariant: both waits test again.
LEMMA SpuriousKeeps == TypeOK /\ Core /\ SpuriousWakeup => TypeOK' /\ Core'
<1> SUFFICES ASSUME TypeOK, Core, SpuriousWakeup PROVE TypeOK' /\ Core'
  OBVIOUS
<1>1. TypeOK'
  BY CilkifyAssumption DEF TypeOK, BossPC, WorkerPC, SpuriousWakeup, Boss, Goto, flags, root
<1>2. Core'
  BY DEF TypeOK, Core, OneRoot, ChildrenInv, RootInv, PhaseInv, TerminateInv, SleepInv, Over,
         Stopping, Starting, Started, Running, Ending, Nobody, HasRoot, InRegion, Boss, Goto,
         SpuriousWakeup, flags, root
<1> QED BY <1>1, <1>2

\* A stuttering step changes nothing the invariant speaks about.
LEMMA StutterCilkify == CilkifyInv /\ UNCHANGED vars => CilkifyInv'
  BY DEF CilkifyInv, TypeOK, OneRoot, ChildrenInv, RootInv, PhaseInv, TerminateInv,
         SleepInv, Over, Stopping, Starting, Started, Running, Ending, Nobody, HasRoot, InRegion,
         vars

-----------------------------------------------------------------------------
(* The theorems *)

\* CilkifyInv holds in every reachable state: the regions of a runtime go
\* through their phases in order, whatever the slow workers do.
THEOREM CilkifyInvariant == Spec => []CilkifyInv
<1>1. Init => CilkifyInv
  BY TypeInit, CoreInit DEF CilkifyInv, Core
<1>2. CilkifyInv /\ [Next]_vars => CilkifyInv'
  <2> SUFFICES ASSUME CilkifyInv, [Next]_vars PROVE CilkifyInv'
    OBVIOUS
  <2>1. TypeOK /\ Core
    BY DEF CilkifyInv, Core
  <2>2. CASE BossStep
    BY <2>1, <2>2, TypeBoss, CoreBoss DEF CilkifyInv, Core
  <2>3. ASSUME NEW w \in Workers,
               WorkerStep(w) \/ Spawn(w) \/ \E v \in Workers : FastTest(w, v)
        PROVE  CilkifyInv'
    BY <2>1, <2>3, TypeWorker, CoreWorker DEF CilkifyInv, Core
  <2>4. CASE UNCHANGED vars
    BY <2>4, StutterCilkify
  <2>5. CASE SpuriousWakeup
    BY <2>1, <2>5, SpuriousKeeps DEF CilkifyInv, Core
  <2> QED BY <2>2, <2>3, <2>4, <2>5 DEF Next, Finished
<1> QED BY <1>1, <1>2, PTL DEF Spec

\* The specification with fairness, and with the failed steal attempts that
\* only spin, allows no step that Spec does not.
LEMMA FairIsSafe == FairSpec => Spec
<1>1. [Next \/ \E w \in Workers : FailedSteal(w)]_vars => [Next]_vars
  BY DEF FailedSteal
<1> QED BY <1>1, PTL DEF FairSpec, Spec

\* Worker program counters, flags, locks and the root closure's status keep
\* their types.
THEOREM TypesKept == FairSpec => []TypeOK
<1>1. CilkifyInv => TypeOK
  BY DEF CilkifyInv
<1> QED BY <1>1, CilkifyInvariant, FairIsSafe, PTL

\* One worker at a time executes the root closure: the exiting worker of the
\* last region is the only one worker_scheduler starts with it, and a thief
\* takes it only from the worker that has it in its deque.
THEOREM OneRootAlways == FairSpec => []OneRoot
<1>1. CilkifyInv => OneRoot
  BY DEF CilkifyInv
<1> QED BY <1>1, CilkifyInvariant, FairIsSafe, PTL

\* When invoke_cilkified_root has returned, nobody executes any part of the
\* region, and the flags are as __cilkrts_stop_workers asserts.
THEOREM RegionOverAlways == FairSpec => []RegionOver
<1>1. CilkifyInv => RegionOver
  BY DEF CilkifyInv, TypeOK, PhaseInv, Over, Stopping, Starting, Started, Running,
         Ending, Nobody, RegionOver
<1> QED BY <1>1, CilkifyInvariant, FairIsSafe, PTL
=============================================================================
