--------------------------- MODULE MCFifoScheduler ---------------------------
(* FifoScheduler with a small ring.                                        *)
EXTENDS FifoScheduler, Bitwise

(* next of the code is NextIndex, for the capacities that compile.         *)
ASSUME NextIsMask ==
    /\ \E k \in 1..10 : Capacity = 2^k
    /\ \A i \in Slots : NextIndex(i) = (i + 1) & (Capacity - 1)
=============================================================================
