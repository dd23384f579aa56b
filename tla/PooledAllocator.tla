--------------------------- MODULE PooledAllocator ---------------------------
(***************************************************************************)
(* utility::policy::pooled_coroutine_allocator and the frame_header by      *)
(* which bool_task returns a coroutine frame                                *)
(* (src/include/boost/sml/utility/co_sm.hpp).  Addresses count in units of  *)
(* one pool slot; the heap, operator new and delete, hands out addresses    *)
(* outside the pools, which may be next to one.  Whether the size and the   *)
(* alignment of a frame fit into a slot is the input "fits".               *)
(***************************************************************************)
EXTENDS Integers

CONSTANTS
    Pools,          \* allocator objects
    Begin,          \* Begin[p]: address of slots_ of p
    SlotCount,      \* slots of a pool
    Heap,           \* addresses operator new can return
    Frames,         \* coroutine frames
    NoAllocator     \* nullptr

Slots == 0..(SlotCount - 1)

ASSUME SlotCountAssumption == SlotCount \in Nat \ {0}
ASSUME NoAllocatorAssumption == NoAllocator \notin Pools
ASSUME BeginAssumption ==
    /\ Begin \in [Pools -> Int]
    /\ \A p, q \in Pools : p # q => \A s, t \in Slots : Begin[p] + s # Begin[q] + t
ASSUME HeapAssumption ==
    /\ Heap \subseteq Int
    /\ \A p \in Pools : \A s \in Slots : Begin[p] + s \notin Heap

VARIABLES
    next_free_, free_head_,     \* members, for each pool
    alive,                      \* pools that exist
    allocator_ctx, allocation_ptr, allocation_fits,   \* frame_header
    heap,       \* addresses operator new returned that were not deleted
    rank,       \* rank[p][s]: free slots from s to the end of the list
    free,       \* length of the free list
    lost        \* slots a pool never had: taken when it was copied

poolVars == <<next_free_, free_head_>>
headerVars == <<allocator_ctx, allocation_ptr, allocation_fits>>
historyVars == <<rank, free, lost>>
vars == <<poolVars, alive, headerVars, heap, historyVars>>

invalid_index == SlotCount

Live(f) == allocator_ctx[f] # NoAllocator
Held(p, s) == \E f \in Frames : allocator_ctx[f] = p /\ allocation_ptr[f] = Begin[p] + s

-----------------------------------------------------------------------------
(* Mistakes in the code below, for the mutants of PROJECT.json: the end of  *)
(* the pool included, its last slot left out, the list cut after the first  *)
(* slot.                                                                   *)
EndIncluded(p, a) == a >= Begin[p] /\ a <= Begin[p] + SlotCount
LastExcluded(p, a) == a >= Begin[p] /\ a < Begin[p] + SlotCount - 1
FirstOnly == [s \in Slots |-> invalid_index]

(* is_pool_pointer and slot_index_for.                                     *)
IsPoolPointer(p, a) == ~(a < Begin[p] \/ a >= Begin[p] + SlotCount)
SlotIndexFor(p, a) == a - Begin[p]

(* The list reset_freelist builds.                                         *)
FreeList == [s \in Slots |-> s + 1]

Init ==
    /\ next_free_ = [p \in Pools |-> FreeList]
    /\ free_head_ = [p \in Pools |-> 0]
    /\ alive = {}
    /\ allocator_ctx = [f \in Frames |-> NoAllocator]
    /\ allocation_ptr = [f \in Frames |-> 0]
    /\ allocation_fits = [f \in Frames |-> FALSE]
    /\ heap = {}
    /\ rank = [p \in Pools |-> [s \in Slots |-> SlotCount - s]]
    /\ free = [p \in Pools |-> SlotCount]
    /\ lost = [p \in Pools |-> {}]

ResetFreelist(p) ==
    /\ next_free_' = [next_free_ EXCEPT ![p] = FreeList]
    /\ free_head_' = [free_head_ EXCEPT ![p] = 0]
    /\ rank' = [rank EXCEPT ![p] = [s \in Slots |-> SlotCount - s]]
    /\ free' = [free EXCEPT ![p] = SlotCount]
    /\ lost' = [lost EXCEPT ![p] = {}]

Construct(p) ==
    /\ p \notin alive
    /\ alive' = alive \cup {p}
    /\ ResetFreelist(p)
    /\ UNCHANGED <<headerVars, heap>>

(* The implicit copy constructor, by which co_sm takes an allocator.       *)
CopyConstruct(p, q) ==
    /\ p \notin alive /\ q \in alive
    /\ alive' = alive \cup {p}
    /\ next_free_' = [next_free_ EXCEPT ![p] = next_free_[q]]
    /\ free_head_' = [free_head_ EXCEPT ![p] = free_head_[q]]
    /\ rank' = [rank EXCEPT ![p] = rank[q]]
    /\ free' = [free EXCEPT ![p] = free[q]]
    /\ lost' = [lost EXCEPT ![p] = {s \in Slots : rank[q][s] = 0}]
    /\ UNCHANGED <<headerVars, heap>>

(* An allocator must outlive the frames that are in it.  What its memory    *)
(* holds afterwards does not matter.                                       *)
Destroy(p) ==
    /\ p \in alive
    /\ \A f \in Frames : allocator_ctx[f] # p
    /\ alive' = alive \ {p}
    /\ ResetFreelist(p)
    /\ UNCHANGED <<headerVars, heap>>

(* allocate_frame writes the header into the memory it got.                *)
WriteHeader(f, p, a, fits) ==
    /\ allocator_ctx' = [allocator_ctx EXCEPT ![f] = p]
    /\ allocation_ptr' = [allocation_ptr EXCEPT ![f] = a]
    /\ allocation_fits' = [allocation_fits EXCEPT ![f] = fits]

(* Mistake in the code below, for the mutants: the head stays.             *)
HeadKept(f, p) ==
    /\ p \in alive /\ ~Live(f)
    /\ free_head_[p] # invalid_index
    /\ WriteHeader(f, p, Begin[p] + free_head_[p], TRUE)
    /\ UNCHANGED <<poolVars, alive, heap, historyVars>>

(* allocate.                                                               *)
AllocateSlot(f, p) ==
    /\ p \in alive /\ ~Live(f)
    /\ free_head_[p] # invalid_index
    /\ WriteHeader(f, p, Begin[p] + free_head_[p], TRUE)
    /\ free_head_' = [free_head_ EXCEPT ![p] = next_free_[p][free_head_[p]]]
    /\ rank' = [rank EXCEPT ![p][free_head_[p]] = 0]
    /\ free' = [free EXCEPT ![p] = free[p] - 1]
    /\ UNCHANGED <<next_free_, alive, heap, lost>>

AllocateHeap(f, p, fits) ==
    /\ p \in alive /\ ~Live(f)
    /\ fits => free_head_[p] = invalid_index
    /\ \E a \in Heap \ heap :
          /\ WriteHeader(f, p, a, fits)
          /\ heap' = heap \cup {a}
    /\ UNCHANGED <<poolVars, alive, historyVars>>

(* deallocate with what the header says; the header ends with the memory.   *)
ReturnSlot(p, s) ==
    /\ next_free_' = [next_free_ EXCEPT ![p][s] = free_head_[p]]
    /\ free_head_' = [free_head_ EXCEPT ![p] = s]
    /\ rank' = [rank EXCEPT ![p][s] = free[p] + 1]
    /\ free' = [free EXCEPT ![p] = free[p] + 1]
    /\ UNCHANGED <<heap, lost>>

DeleteHeap(a) ==
    /\ heap' = heap \ {a}
    /\ UNCHANGED <<poolVars, historyVars>>

(* Mistake in the code below, for the mutants: the list behind the returned *)
(* slot is dropped.                                                        *)
LinkForgotten(f) ==
    /\ Live(f)
    /\ LET p == allocator_ctx[f]
           a == allocation_ptr[f]
           s == SlotIndexFor(p, a)
       IN  IF allocation_fits[f] /\ IsPoolPointer(p, a)
           THEN /\ free_head_' = [free_head_ EXCEPT ![p] = s]
                /\ rank' = [rank EXCEPT ![p][s] = free[p] + 1]
                /\ free' = [free EXCEPT ![p] = free[p] + 1]
                /\ UNCHANGED <<next_free_, heap, lost>>
           ELSE DeleteHeap(a)
    /\ WriteHeader(f, NoAllocator, 0, FALSE)
    /\ UNCHANGED alive

Deallocate(f) ==
    /\ Live(f)
    /\ LET p == allocator_ctx[f]
           a == allocation_ptr[f]
       IN  IF allocation_fits[f] /\ IsPoolPointer(p, a)
           THEN ReturnSlot(p, SlotIndexFor(p, a))
           ELSE DeleteHeap(a)
    /\ WriteHeader(f, NoAllocator, 0, FALSE)
    /\ UNCHANGED alive

Next ==
    \/ \E p \in Pools : Construct(p) \/ Destroy(p)
    \/ \E p, q \in Pools : CopyConstruct(p, q)
    \/ \E f \in Frames, p \in Pools :
          AllocateSlot(f, p) \/ \E fits \in BOOLEAN : AllocateHeap(f, p, fits)
    \/ \E f \in Frames : Deallocate(f)

Spec == Init /\ [][Next]_vars
-----------------------------------------------------------------------------
(* Every variable has the shape the code gives it; the free list stays      *)
(* inside the pool.                                                        *)
TypeOK ==
    /\ next_free_ \in [Pools -> [Slots -> 0..SlotCount]]
    /\ free_head_ \in [Pools -> 0..SlotCount]
    /\ alive \subseteq Pools
    /\ allocator_ctx \in [Frames -> alive \cup {NoAllocator}]
    /\ allocation_ptr \in [Frames -> Int]
    /\ allocation_fits \in [Frames -> BOOLEAN]
    /\ heap \subseteq Heap
    /\ rank \in [Pools -> [Slots -> Nat]]
    /\ free \in [Pools -> Nat]
    /\ lost \in [Pools -> SUBSET Slots]

(* next_free_ from free_head_ on runs through the free slots, each once, and *)
(* ends: the rank falls by one with every link.                            *)
LinksTo(p, s, k) == IF k = 0 THEN s = invalid_index ELSE s \in Slots /\ rank[p][s] = k

ListIntact(p) ==
    /\ LinksTo(p, free_head_[p], free[p])
    /\ \A s \in Slots :
          rank[p][s] > 0 => /\ rank[p][s] <= free[p]
                            /\ LinksTo(p, next_free_[p][s], rank[p][s] - 1)
    /\ \A s, t \in Slots : rank[p][s] = rank[p][t] /\ rank[p][s] > 0 => s = t
FreeListIntact == \A p \in alive : ListIntact(p)

(* No two frames get the same memory, from whatever pool, copy of a pool or  *)
(* the heap.                                                               *)
FramesApart ==
    \A f, g \in Frames :
       f # g /\ Live(f) /\ Live(g) => allocation_ptr[f] # allocation_ptr[g]

(* A slot is free, or a frame is in it, or it was in use when the pool was   *)
(* copied: none leaks, none is free and in use.                            *)
SlotsAccounted ==
    \A p \in alive : \A s \in Slots :
       /\ rank[p][s] = 0 <=> Held(p, s) \/ s \in lost[p]
       /\ ~(Held(p, s) /\ s \in lost[p])

(* A frame goes back to where it came from: what operator new returned is    *)
(* deleted once, what came from a pool never.                              *)
HeapBalanced ==
    heap = {allocation_ptr[f] : f \in {g \in Frames : Live(g)}} \cap Heap

(* What makes these inductive: the memory of a frame is a slot of its pool,  *)
(* if it fits, or from the heap.                                           *)
FramesPlaced ==
    \A f \in Frames : Live(f) =>
       \/ allocation_ptr[f] \in heap
       \/ /\ allocation_fits[f]
          /\ \E s \in Slots : allocation_ptr[f] = Begin[allocator_ctx[f]] + s

PoolInv ==
    FreeListIntact /\ FramesApart /\ SlotsAccounted /\ HeapBalanced /\ FramesPlaced

(* The heap is asked for a frame that fits only when the pool has given      *)
(* away all it had.                                                        *)
PoolUsedFirst ==
    [][\A f \in Frames :
          ~Live(f) /\ Live(f)' /\ allocation_fits'[f] /\ allocation_ptr'[f] \in Heap
            => \A s \in Slots : \/ Held(allocator_ctx'[f], s)
                                \/ s \in lost[allocator_ctx'[f]]]_vars
=============================================================================
