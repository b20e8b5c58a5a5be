------------------------------ MODULE MCMemory ------------------------------
(* A small instance of FiberPool. *)
EXTENDS FiberPool

MCBucketSizes == <<2, 4>>
MCBucketCapacity == <<4, 2>>
MCSize == [closure |-> 3, fiber |-> 2, map |-> 1]
=============================================================================
