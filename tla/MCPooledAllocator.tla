-------------------------- MODULE MCPooledAllocator --------------------------
(* PooledAllocator with two small pools and a heap around them.            *)
EXTENDS PooledAllocator, TLC

CONSTANTS p1, p2

Addresses == [p \in Pools |-> IF p = p1 THEN 10 ELSE 20]

(* After the first pool and before the second.                             *)
Around == {10 + SlotCount, 19}

(* Frames have no order and no names of their own.                         *)
FrameSymmetry == Permutations(Frames)
=============================================================================
