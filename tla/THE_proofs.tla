----------------------------- MODULE THE_proofs -----------------------------
(***************************************************************************)
(* Proofs about the THE protocol, for any number of thieves, any size of   *)
(* the shadow stack and any number of detached frames.                     *)
(***************************************************************************)
EXTENDS THE, SequenceTheorems, TLAPS

\* The structural part of the invariant: types, the lock, exc, the status of
\* the closure and the bounds on head and tail.
CoreInv == TypeOK /\ LockInv /\ ExcInv /\ StatusInv /\ BoundInv

USE THEAssumption DEF InUserCode, OwnerPC, ThiefPC, Locked, Dekker, Slots

\* All stores start at 0, no thief is active and the deque is empty.
LEMMA CoreInit == Init => CoreInv
  BY DEF Init, CoreInv, TypeOK, LockInv, ExcInv, StatusInv, BoundInv,
         Bump, Committed, LogicalHead

\* Only one thief at a time is inside the critical section of Closure_steal,
\* and none is while the deque lock is free.
LEMMA OnlyHolder == LockInv => /\ \A t, u \in Thieves :
                                    tpc[t] \in Locked /\ tpc[u] \in Locked => t = u
                               /\ lock = None => ~Committed /\ ~Bump
  BY DEF LockInv, Committed, Bump

\* The slot that leave_frame or the handler takes back exists.
LEMMA TailSlot == CoreInv => tail \in Slots /\ stack[tail] \in Nat
  BY DEF CoreInv, TypeOK, BoundInv

\* While a thief is committed, exc is beyond head, so the owner that finds
\* exc <= tail is above everything the thieves took.
LEMMA LogicalHeadLeExc == CoreInv /\ pc = "load" /\ ~(exc > tail) => LogicalHead <= tail
  BY DEF CoreInv, TypeOK, ExcInv, Bump, Committed, LogicalHead

\* Every step of the owner keeps the structural invariant.
LEMMA OwnerKeepsCore == CoreInv /\ OwnerStep => CoreInv'
<1> SUFFICES ASSUME CoreInv, OwnerStep PROVE CoreInv'
  OBVIOUS
<1> USE DEF CoreInv, TypeOK, LockInv, ExcInv, StatusInv, BoundInv, Bump,
            Committed, LogicalHead, OwnerCanLock
<1>1. CASE SetupHead  BY <1>1 DEF SetupHead
<1>2. CASE SetupTail  BY <1>2 DEF SetupTail
<1>3. CASE SetupExc   BY <1>3 DEF SetupExc
<1>4. CASE AddBottom  BY <1>4 DEF AddBottom
<1>5. CASE Detach     BY <1>5 DEF Detach
<1>6. CASE LeaveStoreTail BY <1>6 DEF LeaveStoreTail
<1>7. CASE LeaveLoadExc
  <2>1. LogicalHead' = LogicalHead
    BY <1>7 DEF LeaveLoadExc
  <2>2. CASE exc > tail  BY <1>7, <2>2 DEF LeaveLoadExc
  <2>3. CASE ~(exc > tail)
    <3> kept' \subseteq Nat  BY <1>7, <2>3, TailSlot DEF LeaveLoadExc
    <3> QED BY <1>7, <2>3, LogicalHeadLeExc DEF LeaveLoadExc
  <2> QED BY <2>2, <2>3
<1>8. CASE ExceptionHandler
  <2>1. ~Committed /\ ~Bump  BY <1>8, OnlyHolder DEF ExceptionHandler
  <2>2. CASE head > tail  BY <1>8, <2>1, <2>2 DEF ExceptionHandler
  <2>3. CASE ~(head > tail)
    <3> kept' \subseteq Nat  BY <1>8, <2>3, TailSlot DEF ExceptionHandler
    <3> QED BY <1>8, <2>1, <2>3 DEF ExceptionHandler
  <2> QED BY <2>2, <2>3
<1>9. CASE XtractBottom BY <1>9 DEF XtractBottom
<1>10. CASE SyncSuspend BY <1>10 DEF SyncSuspend
<1> QED BY <1>1, <1>2, <1>3, <1>4, <1>5, <1>6, <1>7, <1>8, <1>9, <1>10 DEF OwnerStep

\* A drained store only makes the thieves see what the owner stored.
LEMMA DrainTailKeepsCore == CoreInv /\ DrainTail => CoreInv'
  BY DEF DrainTail, CoreInv, TypeOK, LockInv, ExcInv, StatusInv, BoundInv,
         Bump, Committed, LogicalHead

\* Every step of a thief keeps the structural invariant.
LEMMA ThiefKeepsCore ==
  ASSUME CoreInv, NEW t \in Thieves, ThiefStep(t) \/ DrainExc(t)
  PROVE  CoreInv'
<1> USE DEF CoreInv, TypeOK, LockInv, ExcInv, StatusInv, BoundInv, Bump,
            Committed, LogicalHead, Goto, owner
<1>1. CASE FastHead(t)  BY <1>1 DEF FastHead
<1>2. CASE FastTail(t)  BY <1>2 DEF FastTail
<1>3. CASE DequeTrylock(t)  BY <1>3 DEF DequeTrylock
<1>4. CASE PeekTop(t)  BY <1>4 DEF PeekTop
<1>5. CASE IncrementExc(t)  BY <1>5 DEF IncrementExc
<1>6. CASE Fence(t)  BY <1>6 DEF Fence
<1>7. CASE TestTail(t)  BY <1>7 DEF TestTail
<1>8. CASE DecrementExc(t)  BY <1>8 DEF DecrementExc
<1>9. CASE PromoteChild(t)
  <2>1. /\ tpc[t] = "promote" /\ \A u \in Thieves : tpc[u] \in Locked => u = t
        /\ Committed /\ Bump
    BY <1>9, OnlyHolder DEF PromoteChild
  <2>2. ~Committed' /\ ~Bump'
    BY <1>9, <2>1 DEF PromoteChild
  <2>3. stack[head] \in Nat
    <3>1. InUserCode /\ LogicalHead = head + 1  BY <2>1
    <3>2. head \in Slots  BY <3>1
    <3> QED BY <3>2
  <2>4. TypeOK'
    <3>1. head' = head + 1 /\ stolen' = stolen \cup {stack[head]}  BY <1>9 DEF PromoteChild
    <3>3. head' \in Nat /\ stolen' \subseteq Nat
      <4>1. head \in Nat /\ stolen \subseteq Nat  OBVIOUS
      <4>2. head' \in Nat  BY <3>1, <4>1
      <4>3. stolen' \subseteq Nat  BY <2>3, <3>1, <4>1, Zenon
      <4> QED BY <4>2, <4>3
    <3>2. tpc' \in [Thieves -> ThiefPC]  BY <1>9 DEF PromoteChild
    <3> QED BY <1>9, <3>2, <3>3 DEF PromoteChild
  <2>5. LockInv' /\ StatusInv'
    BY <1>9 DEF PromoteChild
  <2>6. ExcInv'
    BY <1>9, <2>1, <2>2 DEF PromoteChild
  <2>7. BoundInv'
    BY <1>9, <2>1, <2>2 DEF PromoteChild
  <2> QED BY <2>4, <2>5, <2>6, <2>7
<1>10. CASE DequeUnlock(t)  BY <1>10 DEF DequeUnlock
<1>11. CASE DrainExc(t)  BY <1>11 DEF DrainExc
<1> QED BY <1>1, <1>2, <1>3, <1>4, <1>5, <1>6, <1>7, <1>8, <1>9, <1>10, <1>11
        DEF ThiefStep

-----------------------------------------------------------------------------
(* The frames *)

\* Nothing is detached yet.
LEMMA FrameInit == Init => FrameInv
  BY DEF Init, FrameInv, Taken, Live, Committed, LogicalHead, LogicalTail

\* A step that changes neither what is live nor what is taken.
LEMMA FrameFrame ==
  ASSUME FrameInv, UNCHANGED <<stack, kept, frames>>, Live' = Live, Taken' = Taken
  PROVE  FrameInv'
  BY DEF FrameInv

\* Taking the youngest live continuation, as the owner does.
LEMMA PopKeepsFrames ==
  ASSUME CoreInv, FrameInv, InUserCode, pc # "run", LogicalHead <= tail,
         pc' = "run", kept' = kept \cup {stack[tail]},
         UNCHANGED <<head, tail, stack, tpc, frames, stolen>>
  PROVE  FrameInv'
<1>1. Taken' = Taken /\ Committed' = Committed /\ LogicalHead' = LogicalHead
  BY DEF Taken, Committed, LogicalHead
<1>2. tail \in Live /\ Live' = Live \ {tail}
  BY <1>1 DEF Live, LogicalTail, CoreInv, TypeOK, LogicalHead
<1>3. \A i \in Live' : i < tail
  BY <1>1 DEF Live, LogicalTail, CoreInv, TypeOK, LogicalHead
<1>4. Live \subseteq Int /\ \A i \in Live : i \in Slots
  BY DEF Live, LogicalTail, CoreInv, TypeOK, LogicalHead, BoundInv
<1> QED BY <1>1, <1>2, <1>3, <1>4 DEF FrameInv, CoreInv, TypeOK

\* Every step of the owner keeps the accounting of the frames.
LEMMA OwnerKeepsFrames == CoreInv /\ FrameInv /\ OwnerStep => FrameInv'
<1> SUFFICES ASSUME CoreInv, FrameInv, OwnerStep PROVE FrameInv'
  OBVIOUS
<1> USE DEF OwnerCanLock
<1>1. CASE SetupHead \/ SetupTail \/ SetupExc \/ AddBottom \/ XtractBottom
  <2>0. UNCHANGED <<stack, kept, frames, stolen, tpc>>
    BY <1>1 DEF SetupHead, SetupTail, SetupExc, AddBottom, XtractBottom
  <2>1. ~Committed /\ ~Committed' /\ Taken' = Taken
    BY <1>1, <2>0 DEF SetupHead, SetupTail, SetupExc, AddBottom, XtractBottom, Taken,
                Committed, CoreInv, StatusInv
  <2>2. Live = {}
    BY <1>1 DEF SetupHead, SetupTail, SetupExc, AddBottom, XtractBottom, Live
  <2>3. Live' = {}
    BY <1>1, <2>1 DEF SetupHead, SetupTail, SetupExc, AddBottom, XtractBottom, Live,
                LogicalHead, LogicalTail, CoreInv, BoundInv
  <2> QED BY <2>0, <2>1, <2>2, <2>3, FrameFrame
<1>2. CASE Detach
  <2>0. /\ pc = "run" /\ pc' = "run" /\ UNCHANGED <<head, kept, stolen, tpc>>
        /\ tail' = tail + 1 /\ frames' = frames + 1
        /\ tail \in Slots /\ stack' = [stack EXCEPT ![tail] = frames + 1]
    BY <1>2, TailSlot DEF Detach
  <2>1. Committed' = Committed /\ LogicalHead' = LogicalHead
    BY <2>0 DEF Committed, LogicalHead
  <2>2. LogicalHead <= tail
    BY <2>0 DEF CoreInv, TypeOK, BoundInv, LogicalHead
  <2>3. Live' = Live \cup {tail} /\ tail \notin Live /\ \A i \in Live : i < tail /\ i \in Slots
    BY <2>0, <2>1, <2>2 DEF Live, LogicalTail, CoreInv, TypeOK, LogicalHead
  <2>4. Committed => head \in Slots /\ head # tail
    BY <2>0, <2>2 DEF LogicalHead, CoreInv, TypeOK, BoundInv
  <2>5. Taken' = Taken
    BY <2>0, <2>1, <2>4 DEF Taken, CoreInv, TypeOK
  <2>6. /\ \A i \in Live : stack'[i] = stack[i]
        /\ stack'[tail] = frames + 1
    BY <2>0, <2>3 DEF CoreInv, TypeOK
  <2>7. {stack'[i] : i \in Live'} = {stack[i] : i \in Live} \cup {frames + 1}
    BY <2>3, <2>6
  <2>8. frames \in Nat /\ 1 .. frames' = (1 .. frames) \cup {frames + 1} /\ frames + 1 \notin 1 .. frames
    BY <2>0 DEF CoreInv, TypeOK
  <2>9. \A i \in Live : stack[i] \in 1 .. frames
    BY DEF FrameInv
  <2>10. kept \subseteq 1 .. frames /\ Taken \subseteq 1 .. frames
    BY DEF FrameInv
  <2>11. (kept \cap Taken = {})' /\ (kept \cup Taken \cup {stack[i] : i \in Live} = 1 .. frames)'
    BY <2>0, <2>5, <2>7, <2>8 DEF FrameInv
  <2>12. \A i \in Live' : stack'[i] \notin kept' \cup Taken'
    BY <2>0, <2>3, <2>5, <2>6, <2>8, <2>10 DEF FrameInv
  <2>13. \A i, j \in Live' : i < j => stack'[i] < stack'[j]
    <3> SUFFICES ASSUME NEW i \in Live', NEW j \in Live', i < j PROVE stack'[i] < stack'[j]
      OBVIOUS
    <3>1. i \in Live  BY <2>0, <2>3 DEF CoreInv, TypeOK
    <3>2. CASE j \in Live  BY <3>1, <3>2, <2>6 DEF FrameInv
    <3>3. CASE j = tail  BY <3>1, <3>3, <2>6, <2>8, <2>9
    <3> QED BY <2>3, <3>2, <3>3
  <2> QED BY <2>11, <2>12, <2>13 DEF FrameInv
<1>3. CASE LeaveStoreTail
  <2>1. Taken' = Taken /\ LogicalHead' = LogicalHead
    BY <1>3 DEF LeaveStoreTail, Taken, Committed, LogicalHead
  <2>2. Live' = Live
    BY <1>3, <2>1 DEF LeaveStoreTail, Live, LogicalTail, CoreInv, TypeOK
  <2> QED BY <1>3, <2>1, <2>2, FrameFrame DEF LeaveStoreTail
<1>4. CASE LeaveLoadExc
  <2>1. CASE exc > tail
    <3>1. Taken' = Taken /\ Live' = Live
      BY <1>4, <2>1 DEF LeaveLoadExc, Taken, Committed, LogicalHead, Live, LogicalTail
    <3> QED BY <1>4, <2>1, <3>1, FrameFrame DEF LeaveLoadExc
  <2>2. CASE ~(exc > tail)
    BY <1>4, <2>2, LogicalHeadLeExc, PopKeepsFrames DEF LeaveLoadExc
  <2> QED BY <2>1, <2>2
<1>5. CASE ExceptionHandler
  <2>0. ~Committed /\ LogicalHead = head
    BY <1>5, OnlyHolder DEF ExceptionHandler, LogicalHead, CoreInv
  <2>1. CASE head > tail
    <3>1. Taken' = Taken
      BY <1>5, <2>1 DEF ExceptionHandler, Taken, Committed
    <3>2. Live = {} /\ Live' = {}
      BY <1>5, <2>0, <2>1 DEF ExceptionHandler, Live, LogicalTail, CoreInv, TypeOK
    <3> QED BY <1>5, <2>1, <3>1, <3>2, FrameFrame DEF ExceptionHandler
  <2>2. CASE ~(head > tail)
    BY <1>5, <2>0, <2>2, PopKeepsFrames DEF ExceptionHandler, CoreInv, TypeOK
  <2> QED BY <2>1, <2>2
<1>6. CASE SyncSuspend
  <2>1. Taken' = Taken
    BY <1>6 DEF SyncSuspend, Taken, Committed
  <2>2. Live = {} /\ Live' = {}
    BY <1>6 DEF SyncSuspend, Live, LogicalTail, LogicalHead, CoreInv, TypeOK, BoundInv
  <2> QED BY <1>6, <2>1, <2>2, FrameFrame DEF SyncSuspend
<1> QED BY <1>1, <1>2, <1>3, <1>4, <1>5, <1>6 DEF OwnerStep

\* Every step of a thief keeps the accounting of the frames: the frame at
\* head changes sides when the thief has seen head < tail.
LEMMA ThiefKeepsFrames ==
  ASSUME CoreInv, FrameInv, NEW t \in Thieves, ThiefStep(t) \/ DrainExc(t)
  PROVE  FrameInv'
<1> USE DEF Goto, owner
<1>1. CASE TestTail(t) /\ ~(head >= vtail)
  <2>0. /\ tpc[t] = "test" /\ tpc' = [tpc EXCEPT ![t] = "promote"]
        /\ UNCHANGED <<head, stack, kept, frames, stolen, pc, tail>>
        /\ tpc \in [Thieves -> ThiefPC]
    BY <1>1 DEF TestTail, CoreInv, TypeOK
  <2>1. ~Committed
    BY <2>0, OnlyHolder DEF Committed, CoreInv
  <2>2. Committed'
    BY <2>0 DEF Committed
  <2>3. InUserCode /\ head < tail
    BY <1>1, <2>0 DEF CoreInv, StatusInv, BoundInv, TypeOK
  <2>4. head \in Live /\ Live' = Live \ {head}
    BY <2>0, <2>1, <2>2, <2>3 DEF Live, LogicalHead, LogicalTail, CoreInv, TypeOK
  <2>5. Taken' = Taken \cup {stack[head]}
    BY <2>0, <2>1, <2>2 DEF Taken
  <2>6. Live \subseteq Slots /\ Live' \subseteq Live /\ \A i \in Live' : head < i
    BY <2>0, <2>1, <2>2, <2>3 DEF Live, LogicalHead, LogicalTail, CoreInv, TypeOK, BoundInv
  <2>7. ASSUME NEW i \in Live' PROVE stack[head] # stack[i]
    <3>1. stack[head] < stack[i]  BY <2>4, <2>6 DEF FrameInv
    <3>2. stack[head] \in Nat /\ stack[i] \in Nat  BY <2>4, <2>6 DEF CoreInv, TypeOK
    <3> QED BY <3>1, <3>2
  <2>8. {stack[i] : i \in Live} = {stack[i] : i \in Live'} \cup {stack[head]}
    BY <2>4
  <2>9. stack[head] \notin kept
    BY <2>4 DEF FrameInv
  <2>10. (kept \cap Taken = {})' /\ (kept \cup Taken \cup {stack[i] : i \in Live} = 1 .. frames)'
    BY <2>0, <2>5, <2>8, <2>9 DEF FrameInv
  <2> QED BY <2>0, <2>5, <2>6, <2>7, <2>10 DEF FrameInv
<1>2. CASE PromoteChild(t)
  <2>0. /\ tpc[t] = "promote" /\ tpc' = [tpc EXCEPT ![t] = "unlock"]
        /\ head' = head + 1 /\ stolen' = stolen \cup {stack[head]}
        /\ UNCHANGED <<stack, kept, frames, pc, tail>>
        /\ tpc \in [Thieves -> ThiefPC]
    BY <1>2 DEF PromoteChild, CoreInv, TypeOK
  <2>1. Committed
    BY <2>0 DEF Committed
  <2>2. ~Committed'
    BY <2>0, OnlyHolder DEF Committed, CoreInv
  <2>3. Live' = Live /\ Taken' = Taken
    BY <2>0, <2>1, <2>2 DEF Live, Taken, LogicalHead, LogicalTail
  <2> QED BY <2>0, <2>3, FrameFrame
<1>3. CASE \/ FastHead(t) \/ FastTail(t) \/ DequeTrylock(t) \/ PeekTop(t)
           \/ IncrementExc(t) \/ Fence(t) \/ DecrementExc(t) \/ DequeUnlock(t)
           \/ DrainExc(t) \/ (TestTail(t) /\ head >= vtail)
  <2>0. /\ UNCHANGED <<head, stack, kept, frames, stolen, pc, tail>>
        /\ Committed' = Committed
    <3> tpc \in [Thieves -> ThiefPC]  BY DEF CoreInv, TypeOK
    <3>1. CASE FastHead(t)  BY <3>1 DEF FastHead, Committed
    <3>2. CASE FastTail(t)  BY <3>2 DEF FastTail, Committed
    <3>3. CASE DequeTrylock(t)  BY <3>3 DEF DequeTrylock, Committed
    <3>4. CASE PeekTop(t)  BY <3>4 DEF PeekTop, Committed
    <3>5. CASE IncrementExc(t) \/ Fence(t)  BY <3>5 DEF IncrementExc, Fence, Committed
    <3>6. CASE DecrementExc(t) \/ DequeUnlock(t)
      BY <3>6 DEF DecrementExc, DequeUnlock, Committed
    <3>7. CASE DrainExc(t)  BY <3>7 DEF DrainExc, Committed
    <3>8. CASE TestTail(t) /\ head >= vtail  BY <3>8 DEF TestTail, Committed
    <3> QED BY <1>3, <3>1, <3>2, <3>3, <3>4, <3>5, <3>6, <3>7, <3>8
  <2>1. Live' = Live /\ Taken' = Taken
    BY <2>0 DEF Live, Taken, LogicalHead, LogicalTail
  <2> QED BY <2>0, <2>1, FrameFrame
<1>4. CASE TestTail(t)
  <2>1. CASE head >= vtail  BY <1>3, <1>4, <2>1
  <2>2. CASE ~(head >= vtail)  BY <1>1, <1>4, <2>2
  <2> QED BY <2>1, <2>2
<1> QED BY <1>2, <1>3, <1>4 DEF ThiefStep

\* A store that drains changes no frame.
LEMMA DrainTailKeepsFrames == FrameInv /\ DrainTail => FrameInv'
  BY FrameFrame DEF DrainTail, Live, Taken, Committed, LogicalHead, LogicalTail

\* THEInv holds in every reachable state.
THEOREM THEInvariant == Spec => []THEInv
<1>1. Init => THEInv
  BY CoreInit, FrameInit DEF THEInv, CoreInv
<1>2. THEInv /\ [Next]_vars => THEInv'
  <2> SUFFICES ASSUME CoreInv, FrameInv, [Next]_vars PROVE CoreInv' /\ FrameInv'
    BY DEF THEInv, CoreInv
  <2>1. CASE OwnerStep  BY <2>1, OwnerKeepsCore, OwnerKeepsFrames
  <2>2. CASE DrainTail  BY <2>2, DrainTailKeepsCore, DrainTailKeepsFrames
  <2>3. ASSUME NEW t \in Thieves, ThiefStep(t) \/ DrainExc(t)
        PROVE  CoreInv' /\ FrameInv'
    BY <2>3, ThiefKeepsCore, ThiefKeepsFrames
  <2>4. CASE UNCHANGED vars
    BY <2>4 DEF vars, CoreInv, TypeOK, LockInv, ExcInv, StatusInv, BoundInv, Bump,
                Committed, LogicalHead, LogicalTail, FrameInv, Live, Taken
  <2> QED BY <2>1, <2>2, <2>3, <2>4 DEF Next
<1> QED BY <1>1, <1>2, PTL DEF Spec

\* No continuation is executed twice: once by the worker that returns from
\* the spawned child and once by a thief.
THEOREM Exclusive == Spec => []AtMostOnce
<1>1. THEInv => AtMostOnce
  BY DEF THEInv, FrameInv, Taken, AtMostOnce
<1> QED BY <1>1, THEInvariant, PTL

\* No continuation is dropped: outside user code everything detached has been
\* continued by somebody.
THEOREM Complete == Spec => []NoneLost
<1>1. THEInv => NoneLost
  BY DEF THEInv, FrameInv, StatusInv, Taken, Live, NoneLost, Committed
<1> QED BY <1>1, THEInvariant, PTL

-----------------------------------------------------------------------------
(***************************************************************************)
(* The THE protocol implements the atomic deque of module WorkDeque: every *)
(* step of THE is a step of the deque or leaves it unchanged.              *)
(***************************************************************************)

HIDE DEF Locked, Dekker

-----------------------------------------------------------------------------
(* Segments of the shadow stack as sequences *)

\* The frames in the slots lo .. hi - 1, oldest first.
Segment(st, lo, hi) == [i \in 1 .. hi - lo |-> st[lo + i - 1]]

\* What SegmentIsSeq says of a segment.
IsSegment(s, st, lo, hi) ==
    /\ s \in Seq(Nat) /\ Len(s) = hi - lo
    /\ \A i \in 1 .. hi - lo : s[i] = st[lo + i - 1]

\* A segment inside the shadow stack is a sequence of its frames.
LEMMA SegmentIsSeq ==
  ASSUME NEW st \in [Slots -> Nat], NEW lo \in Nat, NEW hi \in Nat,
         lo <= hi, hi <= LtqLimit
  PROVE  IsSegment(Segment(st, lo, hi), st, lo, hi)
<1> DEFINE n == hi - lo
           s == Segment(st, lo, hi)
<1>1. \A i \in 1 .. n : lo + i - 1 \in Slots
  OBVIOUS
<1>2. s \in [1 .. n -> Nat] /\ \A i \in 1 .. n : s[i] = st[lo + i - 1]
  BY <1>1 DEF Segment
<1> HIDE DEF s
<1>3. s \in Seq(Nat)
  BY <1>2, SeqDef
<1>4. Len(s) = n
  BY <1>2, <1>3, LenProperties
<1> QED BY <1>2, <1>3, <1>4 DEF IsSegment, s

\* Two sequences with the same frames of the shadow stack are equal.
LEMMA SegmentsEqual ==
  ASSUME NEW st, NEW lo \in Nat, NEW hi \in Nat, NEW s, NEW u, lo <= hi,
         IsSegment(s, st, lo, hi), IsSegment(u, st, lo, hi)
  PROVE  s = u
  BY SeqEqual DEF IsSegment

\* Without its youngest frame.
LEMMA SegmentFront ==
  ASSUME NEW st \in [Slots -> Nat], NEW lo \in Nat, NEW hi \in Nat,
         lo < hi, hi <= LtqLimit
  PROVE  LET s == Segment(st, lo, hi) IN
         /\ s # <<>> /\ s[Len(s)] = st[hi - 1]
         /\ SubSeq(s, 1, Len(s) - 1) = Segment(st, lo, hi - 1)
<1> DEFINE s == Segment(st, lo, hi)
<1> HIDE DEF s
<1>1. IsSegment(s, st, lo, hi)
  BY SegmentIsSeq DEF s
<1>2. s # <<>> /\ s[Len(s)] = st[hi - 1]
  BY <1>1, EmptySeq DEF IsSegment
<1> DEFINE n == hi - lo - 1
           u == SubSeq(s, 1, n)
<1>3. n \in Nat /\ Len(s) - 1 = n
  BY <1>1 DEF IsSegment
<1>4. \A i \in 1 .. n : s[i] \in Nat
  BY <1>1, <1>3, ElementOfSeq DEF IsSegment
<1>5. u \in Seq(Nat) /\ Len(u) = n /\ \A i \in 1 .. n : u[i] = s[i]
  BY <1>3, <1>4, SubSeqProperties
<1>6. IsSegment(u, st, lo, hi - 1)
  BY <1>1, <1>5 DEF IsSegment
<1>7. IsSegment(Segment(st, lo, hi - 1), st, lo, hi - 1)
  BY SegmentIsSeq
<1>8. u = Segment(st, lo, hi - 1)
  <2>1. hi - 1 \in Nat /\ lo <= hi - 1
    OBVIOUS
  <2> HIDE DEF u
  <2> QED BY <1>6, <1>7, <2>1, SegmentsEqual
<1> QED BY <1>2, <1>3, <1>8 DEF s

\* Without its oldest frame.
LEMMA SegmentTail ==
  ASSUME NEW st \in [Slots -> Nat], NEW lo \in Nat, NEW hi \in Nat,
         lo < hi, hi <= LtqLimit
  PROVE  LET s == Segment(st, lo, hi) IN
         /\ s # <<>> /\ Head(s) = st[lo]
         /\ Tail(s) = Segment(st, lo + 1, hi)
<1> DEFINE s == Segment(st, lo, hi)
<1> HIDE DEF s
<1>1. IsSegment(s, st, lo, hi)
  BY SegmentIsSeq DEF s
<1>2. s # <<>> /\ Head(s) = st[lo]
  BY <1>1, EmptySeq DEF IsSegment
<1>3. IsSegment(Tail(s), st, lo + 1, hi)
  BY <1>1, <1>2, HeadTailProperties DEF IsSegment
<1>4. IsSegment(Segment(st, lo + 1, hi), st, lo + 1, hi)
  BY SegmentIsSeq
<1>5. lo + 1 \in Nat /\ lo + 1 <= hi
  OBVIOUS
<1>6. Tail(s) = Segment(st, lo + 1, hi)
  BY <1>3, <1>4, <1>5, SegmentsEqual
<1> QED BY <1>2, <1>6 DEF s

\* The shadow stack tt is st with f in slot i.
Written(tt, st, i, f) ==
    tt \in [Slots -> Nat] /\ tt[i] = f /\ \A j \in Slots : j # i => tt[j] = st[j]

\* With one more frame, written to the slot above it.
LEMMA SegmentAppend ==
  ASSUME NEW st \in [Slots -> Nat], NEW lo \in Nat, NEW hi \in Nat,
         lo <= hi, hi < LtqLimit, NEW f \in Nat, NEW tt, Written(tt, st, hi, f)
  PROVE  Append(Segment(st, lo, hi), f) = Segment(tt, lo, hi + 1)
<1> DEFINE s == Segment(st, lo, hi)
           a == Append(s, f)
<1>1. IsSegment(s, st, lo, hi)
  BY SegmentIsSeq DEF s
<1> HIDE DEF s
<1>2. /\ a \in Seq(Nat) /\ Len(a) = hi - lo + 1 /\ a[hi - lo + 1] = f
      /\ \A i \in 1 .. hi - lo : a[i] = s[i]
  <2>1. s \in Seq(Nat) /\ Len(s) = hi - lo /\ hi - lo \in Nat
    BY <1>1 DEF IsSegment
  <2>2. /\ Append(s, f) \in Seq(Nat) /\ Len(Append(s, f)) = hi - lo + 1
        /\ Append(s, f)[hi - lo + 1] = f
        /\ \A i \in 1 .. hi - lo : Append(s, f)[i] = s[i]
    BY ONLY <2>1, f \in Nat, AppendProperties
  <2> QED BY <2>2
<1> HIDE DEF a
<1>3. \A i \in 1 .. hi - lo : a[i] = tt[lo + i - 1]
  <2>1. \A i \in 1 .. hi - lo : lo + i - 1 \in Slots /\ lo + i - 1 # hi
    OBVIOUS
  <2> QED BY <1>1, <1>2, <2>1 DEF IsSegment, Written
<1>4. IsSegment(a, tt, lo, hi + 1)
  <2>1. ASSUME NEW i \in 1 .. hi + 1 - lo PROVE a[i] = tt[lo + i - 1]
    <3>1. CASE i \in 1 .. hi - lo
      BY <1>3, <3>1
    <3>2. CASE i = hi - lo + 1
      BY <1>2, <3>2 DEF Written
    <3> QED BY <3>1, <3>2
  <2> QED BY <1>2, <2>1 DEF IsSegment
<1>5. IsSegment(Segment(tt, lo, hi + 1), tt, lo, hi + 1)
  BY SegmentIsSeq DEF Written
<1>6. hi + 1 \in Nat /\ lo <= hi + 1
  OBVIOUS
<1>7. a = Segment(tt, lo, hi + 1)
  BY <1>4, <1>5, <1>6, SegmentsEqual
<1> QED BY <1>7 DEF a, s

-----------------------------------------------------------------------------
(* Steps of THE and steps of the deque *)

\* In user code the deque is the segment between what the thieves took and
\* what the owner can still take back.
LEMMA ContentsSegment ==
  ASSUME THEInv, InUserCode
  PROVE  /\ LogicalHead \in Nat /\ LogicalTail \in Nat
         /\ LogicalHead <= LogicalTail /\ LogicalTail <= LtqLimit
         /\ DequeContents = Segment(stack, LogicalHead, LogicalTail)
<1>1. DequeContents = Segment(stack, LogicalHead, LogicalTail)
  BY DEF DequeContents, Segment
<1> QED
  BY <1>1 DEF THEInv, TypeOK, BoundInv, LogicalHead, LogicalTail

\* A step that moves neither end of the live slots leaves the deque unchanged.
LEMMA DequeSame ==
  ASSUME InUserCode' <=> InUserCode,
         LogicalHead' = LogicalHead, LogicalTail' = LogicalTail, Taken' = Taken,
         UNCHANGED <<stack, kept>>
  PROVE  UNCHANGED Deque!dvars
  BY DEF DequeContents, Deque!dvars

\* So does a step outside user code, where the deque is empty.
LEMMA DequeOutside ==
  ASSUME ~InUserCode, ~InUserCode', Taken' = Taken, UNCHANGED kept
  PROVE  UNCHANGED Deque!dvars
  BY DEF DequeContents, Deque!dvars

\* The owner takes back the youngest continuation.
LEMMA PopStep ==
  ASSUME THEInv, InUserCode, pc # "run", LogicalHead <= tail,
         pc' = "run", kept' = kept \cup {stack[tail]},
         UNCHANGED <<head, tail, stack, tpc, stolen>>
  PROVE  Deque!PopBottom
<1>1. Taken' = Taken /\ LogicalHead' = LogicalHead
  BY DEF Taken, Committed, LogicalHead
<1>2. LogicalTail = tail + 1 /\ LogicalTail' = tail /\ tail \in Nat /\ stack \in [Slots -> Nat]
  BY DEF LogicalTail, THEInv, TypeOK
<1>3. DequeContents' = Segment(stack, LogicalHead, tail)
  BY <1>1, <1>2 DEF DequeContents, Segment
<1>4. /\ DequeContents = Segment(stack, LogicalHead, tail + 1)
      /\ LogicalHead \in Nat /\ LogicalHead < tail + 1 /\ tail + 1 <= LtqLimit
      /\ tail + 1 \in Nat /\ (tail + 1) - 1 = tail
  BY <1>2, ContentsSegment
<1>5. /\ DequeContents # <<>>
      /\ DequeContents[Len(DequeContents)] = stack[(tail + 1) - 1]
      /\ SubSeq(DequeContents, 1, Len(DequeContents) - 1)
           = Segment(stack, LogicalHead, (tail + 1) - 1)
  BY <1>2, <1>4, SegmentFront, Zenon
<1> QED BY <1>1, <1>3, <1>4, <1>5 DEF Deque!PopBottom, Deque!Front, Deque!Last

\* The owner publishes a continuation.
LEMMA PushStep ==
  ASSUME THEInv, Detach
  PROVE  Deque!Push
<1>1. /\ pc = "run" /\ pc' = "run" /\ frames < MaxDetach /\ tail + 1 < LtqLimit
      /\ stack' = [stack EXCEPT ![tail] = frames + 1] /\ tail' = tail + 1
      /\ UNCHANGED <<head, kept, stolen, tpc>>
  BY DEF Detach
<1>2. /\ stack \in [Slots -> Nat] /\ tail \in Nat /\ frames \in Nat
      /\ LogicalTail = tail /\ LogicalTail' = tail + 1 /\ LogicalHead' = LogicalHead
  BY <1>1 DEF THEInv, TypeOK, LogicalTail, LogicalHead, Committed
<1>3. /\ DequeContents = Segment(stack, LogicalHead, tail)
      /\ LogicalHead \in Nat /\ LogicalHead <= tail
  BY <1>1, <1>2, ContentsSegment
<1>4. DequeContents' = Segment(stack', LogicalHead, tail + 1)
  BY <1>1, <1>2 DEF DequeContents, Segment
<1>5. DequeContents' = Append(DequeContents, frames + 1)
  <2>1. tail < LtqLimit /\ frames + 1 \in Nat
    BY <1>1, <1>2
  <2>2. Written(stack', stack, tail, frames + 1)
    BY <1>1, <1>2, <2>1 DEF Written
  <2>3. Append(Segment(stack, LogicalHead, tail), frames + 1)
          = Segment(stack', LogicalHead, tail + 1)
    BY <1>2, <1>3, <2>1, <2>2, SegmentAppend
  <2> QED BY <1>3, <1>4, <2>3
<1>6. Taken' = Taken
  <2>1. Committed => head \in Slots /\ head # tail
    BY <1>2, <1>3 DEF LogicalHead, THEInv, TypeOK, BoundInv
  <2> QED BY <1>1, <1>2, <2>1 DEF Taken, Committed
<1>7. frames + 1 \notin kept \cup Taken \cup Deque!Range(DequeContents)
  <2>1. kept \cup Taken \subseteq 1 .. frames /\ \A i \in Live : stack[i] \in 1 .. frames
    BY DEF THEInv, FrameInv
  <2>2. ASSUME NEW i \in DOMAIN DequeContents PROVE DequeContents[i] \in 1 .. frames
    <3>1. /\ i \in 1 .. tail - LogicalHead
          /\ DequeContents[i] = stack[LogicalHead + i - 1]
      BY <1>3 DEF Segment
    <3>2. LogicalHead + i - 1 \in Live
      BY <1>1, <1>2, <1>3, <3>1 DEF Live
    <3> QED BY <2>1, <3>1, <3>2
  <2>3. frames + 1 \notin 1 .. frames
    BY <1>2
  <2>4. Deque!Range(DequeContents) \subseteq 1 .. frames
    BY <2>2 DEF Deque!Range
  <2> QED BY <2>1, <2>3, <2>4
<1>8. frames + 1 \in 1 .. MaxDetach
  BY <1>1, <1>2
<1> QED BY <1>1, <1>5, <1>6, <1>7, <1>8 DEF Deque!Push

\* A thief that finds head < tail has taken the oldest continuation.
LEMMA StealStep ==
  ASSUME THEInv, NEW t \in Thieves, TestTail(t), ~(head >= vtail)
  PROVE  Deque!StealTop
<1>1. /\ tpc[t] = "test" /\ tpc' = [tpc EXCEPT ![t] = "promote"]
      /\ UNCHANGED <<head, stack, kept, stolen, pc, tail>>
      /\ tpc \in [Thieves -> ThiefPC] /\ stack \in [Slots -> Nat]
  BY DEF TestTail, Goto, owner, THEInv, TypeOK
<1>2. ~Committed /\ Committed'
  BY <1>1, OnlyHolder DEF Committed, THEInv, Locked
<1>3. InUserCode /\ InUserCode' /\ head \in Nat /\ head < tail
  BY <1>1 DEF THEInv, TypeOK, StatusInv, BoundInv, Dekker
<1>4. /\ LogicalHead = head /\ LogicalHead' = head + 1 /\ LogicalTail' = LogicalTail
      /\ Taken' = Taken \cup {stack[head]}
  BY <1>1, <1>2 DEF LogicalHead, LogicalTail, Taken
<1>5. /\ DequeContents = Segment(stack, head, LogicalTail) /\ LogicalTail \in Nat
      /\ head < LogicalTail /\ LogicalTail <= LtqLimit
  <2>1. head < LogicalTail
    BY <1>3 DEF LogicalTail, THEInv, TypeOK
  <2> QED BY <1>3, <1>4, <2>1, ContentsSegment
<1>6. DequeContents' = Segment(stack, head + 1, LogicalTail)
  BY <1>1, <1>3, <1>4 DEF DequeContents, Segment
<1>7. DequeContents # <<>> /\ Head(DequeContents) = stack[head] /\ Tail(DequeContents) = DequeContents'
  BY <1>1, <1>3, <1>5, <1>6, SegmentTail, Zenon
<1> QED BY <1>1, <1>3, <1>4, <1>7 DEF Deque!StealTop

-----------------------------------------------------------------------------
(* The refinement *)

\* Initially the owner is in the scheduler and the deque is empty.
LEMMA DequeInit == Init => Deque!DInit
  BY DEF Init, Deque!DInit, DequeContents, Taken, Committed

\* Every step of the owner is a step of the deque or leaves it unchanged.
LEMMA OwnerImplements == THEInv /\ OwnerStep => [Deque!DNext]_(Deque!dvars)
<1> SUFFICES ASSUME THEInv, OwnerStep PROVE Deque!DNext \/ UNCHANGED Deque!dvars
  OBVIOUS
<1>0. CoreInv
  BY DEF THEInv, CoreInv
<1>1. CASE SetupHead \/ SetupTail \/ SetupExc \/ XtractBottom
  <2>1. ~InUserCode /\ ~InUserCode' /\ UNCHANGED <<kept, stolen, stack, tpc>>
    BY <1>1 DEF SetupHead, SetupTail, SetupExc, XtractBottom
  <2>2. ~Committed /\ ~Committed'
    BY <2>1 DEF Committed, THEInv, StatusInv, Dekker
  <2>3. Taken' = Taken
    BY <2>1, <2>2 DEF Taken
  <2> QED BY <2>1, <2>3, DequeOutside
<1>2. CASE AddBottom
  <2>1. pc = "add" /\ pc' = "run" /\ UNCHANGED <<kept, stolen, stack, tpc, head, tail>>
    BY <1>2 DEF AddBottom
  <2>2. ~Committed /\ ~Committed' /\ head = 0 /\ tail = 0
    BY <2>1 DEF Committed, THEInv, StatusInv, BoundInv, Dekker
  <2>3. Taken' = Taken
    BY <2>1, <2>2 DEF Taken
  <2>4. DequeContents = <<>> /\ DequeContents' = <<>>
    BY <2>1, <2>2 DEF DequeContents, LogicalHead, LogicalTail
  <2> QED BY <2>1, <2>3, <2>4 DEF Deque!DNext, Deque!Resume
<1>3. CASE Detach
  BY <1>3, PushStep DEF Deque!DNext
<1>4. CASE LeaveStoreTail
  <2>1. /\ LogicalTail' = LogicalTail /\ LogicalHead' = LogicalHead /\ Taken' = Taken
        /\ InUserCode /\ InUserCode' /\ UNCHANGED <<stack, kept>>
    BY <1>4 DEF LeaveStoreTail, LogicalTail, LogicalHead, Taken, Committed, THEInv, TypeOK
  <2> QED BY <2>1, DequeSame
<1>5. CASE LeaveLoadExc
  <2>1. CASE exc > tail
    <3>1. /\ LogicalTail' = LogicalTail /\ LogicalHead' = LogicalHead /\ Taken' = Taken
          /\ InUserCode /\ InUserCode' /\ UNCHANGED <<stack, kept>>
      BY <1>5, <2>1 DEF LeaveLoadExc, LogicalTail, LogicalHead, Taken, Committed
    <3> QED BY <3>1, DequeSame
  <2>2. CASE ~(exc > tail)
    <3>1. LogicalHead <= tail
      BY <1>0, <1>5, <2>2, LogicalHeadLeExc DEF LeaveLoadExc
    <3> QED BY <1>5, <2>2, <3>1, PopStep DEF LeaveLoadExc, Deque!DNext
  <2> QED BY <2>1, <2>2
<1>6. CASE ExceptionHandler
  <2>0. ~Committed /\ LogicalHead = head
    BY <1>6, OnlyHolder DEF ExceptionHandler, OwnerCanLock, LogicalHead, THEInv
  <2>1. CASE head > tail
    <3>1. /\ pc = "hlock" /\ pc' = "sched" /\ Taken' = Taken /\ UNCHANGED kept
      BY <1>6, <2>1 DEF ExceptionHandler, Taken, Committed
    <3>2. LogicalTail = tail + 1 /\ LogicalHead <= LogicalTail /\ head \in Nat /\ tail \in Nat
      BY <3>1, ContentsSegment DEF LogicalTail, THEInv, TypeOK
    <3>3. LogicalTail - LogicalHead = 0
      BY <2>0, <2>1, <3>2
    <3>4. DequeContents = <<>> /\ DequeContents' = <<>>
      BY <3>1, <3>3 DEF DequeContents
    <3> QED BY <3>1, <3>4 DEF Deque!DNext, Deque!GiveUp
  <2>2. CASE ~(head > tail)
    <3>1. LogicalHead <= tail
      BY <2>0, <2>2 DEF THEInv, TypeOK
    <3> QED BY <1>6, <2>2, <3>1, PopStep DEF ExceptionHandler, Deque!DNext
  <2> QED BY <2>1, <2>2
<1>7. CASE SyncSuspend
  <2>1. pc = "run" /\ pc' = "out" /\ tail = 0 /\ Taken' = Taken /\ UNCHANGED kept
    BY <1>7 DEF SyncSuspend, Taken, Committed
  <2>2. LogicalTail - LogicalHead = 0
    BY <2>1, ContentsSegment DEF LogicalTail
  <2>3. DequeContents = <<>> /\ DequeContents' = <<>>
    BY <2>1, <2>2 DEF DequeContents
  <2> QED BY <2>1, <2>3 DEF Deque!DNext, Deque!GiveUp
<1> QED BY <1>1, <1>2, <1>3, <1>4, <1>5, <1>6, <1>7 DEF OwnerStep

\* A step of a thief is the atomic steal or leaves the deque unchanged: the
\* steal takes effect at the test of tail, before head is advanced.
LEMMA ThiefImplements ==
  ASSUME THEInv, NEW t \in Thieves, ThiefStep(t) \/ DrainExc(t)
  PROVE  Deque!DNext \/ UNCHANGED Deque!dvars
<1>0. CASE TestTail(t) /\ ~(head >= vtail)
  BY <1>0, StealStep DEF Deque!DNext
<1> SUFFICES ASSUME ~(TestTail(t) /\ ~(head >= vtail))
             PROVE  UNCHANGED Deque!dvars
  BY <1>0
<1>1. /\ UNCHANGED <<stack, kept, pc, tail>> /\ tpc \in [Thieves -> ThiefPC]
      /\ (InUserCode' <=> InUserCode) /\ LogicalTail' = LogicalTail
  BY DEF ThiefStep, FastHead, FastTail, DequeTrylock, PeekTop, IncrementExc, Fence,
         TestTail, DecrementExc, PromoteChild, DequeUnlock, DrainExc, owner, LogicalTail,
         THEInv, TypeOK
<1>2. LogicalHead' = LogicalHead /\ Taken' = Taken
  <2>1. CASE PromoteChild(t)
    <3>1. /\ tpc[t] = "promote" /\ tpc' = [tpc EXCEPT ![t] = "unlock"]
          /\ head' = head + 1 /\ stolen' = stolen \cup {stack[head]}
      BY <2>1 DEF PromoteChild, Goto
    <3>2. Committed /\ ~Committed'
      BY <1>1, <3>1, OnlyHolder DEF Committed, THEInv, Locked
    <3> QED BY <1>1, <3>1, <3>2 DEF LogicalHead, Taken
  <2>2. CASE ~PromoteChild(t)
    <3>1. UNCHANGED <<head, stolen>>
      BY <2>2 DEF ThiefStep, FastHead, FastTail, DequeTrylock, PeekTop, IncrementExc,
                  Fence, TestTail, DecrementExc, DequeUnlock, DrainExc
    <3>2. Committed' <=> Committed
      BY <1>1, <2>2
      DEF ThiefStep, FastHead, FastTail, DequeTrylock, PeekTop, IncrementExc, Fence,
          TestTail, DecrementExc, DequeUnlock, DrainExc, Goto, Committed
    <3> QED BY <1>1, <3>1, <3>2 DEF LogicalHead, Taken
  <2> QED BY <2>1, <2>2
<1> QED BY <1>1, <1>2, DequeSame

\* The unlocked protocol is an atomic deque: every behaviour of THE is, seen
\* through the refinement mapping, one of WorkDeque.
THEOREM RefinesDeque == Spec => ImplementsDeque
<1>1. Init => Deque!DInit
  BY DequeInit
<1>2. THEInv /\ [Next]_vars => [Deque!DNext]_(Deque!dvars)
  <2> SUFFICES ASSUME THEInv, [Next]_vars
               PROVE  Deque!DNext \/ UNCHANGED Deque!dvars
    OBVIOUS
  <2>1. CASE OwnerStep
    BY <2>1, OwnerImplements
  <2>2. CASE DrainTail \/ UNCHANGED vars
    <3>1. /\ (InUserCode' <=> InUserCode) /\ LogicalHead' = LogicalHead
          /\ LogicalTail' = LogicalTail /\ Taken' = Taken /\ UNCHANGED <<stack, kept>>
      BY <2>2 DEF DrainTail, vars, LogicalHead, LogicalTail, Taken, Committed
    <3> QED BY <3>1, DequeSame
  <2>3. ASSUME NEW t \in Thieves, ThiefStep(t) \/ DrainExc(t)
        PROVE  Deque!DNext \/ UNCHANGED Deque!dvars
    BY <2>3, ThiefImplements
  <2> QED BY <2>1, <2>2, <2>3 DEF Next
<1> QED BY <1>1, <1>2, THEInvariant, PTL DEF Spec, ImplementsDeque, Deque!DSpec
=============================================================================
