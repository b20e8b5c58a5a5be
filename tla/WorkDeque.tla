----------------------------- MODULE WorkDeque -----------------------------
(***************************************************************************)
(* What a worker's deque of stealable continuations promises.              *)
(*                                                                         *)
(* The owner pushes the continuation of a frame when it spawns and takes   *)
(* it back when the spawned child returns; thieves take the oldest one.    *)
(* Every step is atomic: this is the object that the head / tail /         *)
(* exception-pointer protocol of module THE implements with plain loads    *)
(* and stores on the owner's fast path.                                    *)
(***************************************************************************)
EXTENDS Naturals, Sequences, SequencesExt

CONSTANT Frames   \* the frames whose continuation can be pushed

VARIABLES
    dq,       \* the continuations that can be taken, oldest first
    running,  \* the owner executes user code
    kept,     \* continuations the owner took back
    stolen    \* continuations a thief took

dvars == <<dq, running, kept, stolen>>

DInit == dq = <<>> /\ running = FALSE /\ kept = {} /\ stolen = {}

Push == /\ running
        /\ \E f \in Frames \ (kept \cup stolen \cup Range(dq)) : dq' = Append(dq, f)
        /\ UNCHANGED <<running, kept, stolen>>

\* The spawned child returns and its parent was not stolen.
PopBottom == /\ running /\ dq # <<>>
             /\ dq' = Front(dq)
             /\ kept' = kept \cup {Last(dq)}
             /\ UNCHANGED <<running, stolen>>

StealTop == /\ running /\ dq # <<>>
            /\ dq' = Tail(dq)
            /\ stolen' = stolen \cup {Head(dq)}
            /\ UNCHANGED <<running, kept>>

\* The owner goes back to the scheduler: only when nothing is left to pop.
GiveUp == running /\ dq = <<>> /\ running' = FALSE /\ UNCHANGED <<dq, kept, stolen>>

Resume == ~running /\ running' = TRUE /\ UNCHANGED <<dq, kept, stolen>>

DNext == Push \/ PopBottom \/ StealTop \/ GiveUp \/ Resume

DSpec == DInit /\ [][DNext]_dvars
=============================================================================
