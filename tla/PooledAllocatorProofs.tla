------------------------ MODULE PooledAllocatorProofs ------------------------
(***************************************************************************)
(* Theorems about PooledAllocator: memory is never given out twice, never   *)
(* lost and goes back to where it came from, for pools of every size.      *)
(***************************************************************************)
EXTENDS PooledAllocator, TLAPS

USE SlotCountAssumption, NoAllocatorAssumption, BeginAssumption, HeapAssumption
USE DEF SlotCountAssumption, NoAllocatorAssumption, BeginAssumption, HeapAssumption

(* The list reset_freelist builds is intact.                               *)
LEMMA InitPool == Init => TypeOK /\ PoolInv
<1> SUFFICES ASSUME Init PROVE TypeOK /\ PoolInv
  OBVIOUS
<1>1. TypeOK
  BY DEF Init, TypeOK, FreeList, Slots
<1>2. alive = {} /\ heap = {} /\ \A f \in Frames : ~Live(f)
  BY DEF Init, Live
<1> QED
  BY <1>1, <1>2 DEF PoolInv, FreeListIntact, FramesApart, SlotsAccounted, HeapBalanced, FramesPlaced

(* The head of a list is no slot exactly when the list is empty.           *)
LEMMA HeadOfList ==
    ASSUME TypeOK, FreeListIntact, NEW p \in alive
    PROVE  /\ ListIntact(p) /\ p \in Pools /\ free[p] \in Nat /\ rank[p] \in [Slots -> Nat]
           /\ free_head_[p] = invalid_index <=> free[p] = 0
           /\ free[p] > 0 => /\ free_head_[p] \in Slots
                             /\ rank[p][free_head_[p]] = free[p]
           /\ free[p] = 0 => \A s \in Slots : rank[p][s] = 0
<1>1. p \in Pools /\ free[p] \in Nat /\ rank[p] \in [Slots -> Nat]
  BY DEF TypeOK
<1>2. ListIntact(p) /\ LinksTo(p, free_head_[p], free[p])
  BY DEF FreeListIntact, ListIntact
<1>3. \A s \in Slots : rank[p][s] > 0 => rank[p][s] <= free[p]
  BY <1>2 DEF ListIntact
<1>4. \A s \in Slots : rank[p][s] \in Nat
  BY <1>1
<1>5. invalid_index \notin Slots
  BY DEF invalid_index, Slots
<1> QED
  BY <1>1, <1>2, <1>3, <1>4, <1>5 DEF LinksTo

(* What deallocate decides by the address is where the frame came from.     *)
LEMMA CameFrom ==
    ASSUME TypeOK, PoolInv, NEW f \in Frames, Live(f)
    PROVE  LET p == allocator_ctx[f]
               a == allocation_ptr[f]
           IN  /\ p \in alive /\ p \in Pools
               /\ IsPoolPointer(p, a) <=> \E s \in Slots : a = Begin[p] + s
               /\ allocation_fits[f] /\ IsPoolPointer(p, a)
                     => SlotIndexFor(p, a) \in Slots /\ a = Begin[p] + SlotIndexFor(p, a)
               /\ ~(allocation_fits[f] /\ IsPoolPointer(p, a)) => a \in heap
<1> DEFINE p == allocator_ctx[f]
           a == allocation_ptr[f]
<1>1. p \in alive /\ p \in Pools /\ a \in Int /\ Begin[p] \in Int
  BY DEF TypeOK, Live
<1>2. IsPoolPointer(p, a) => SlotIndexFor(p, a) \in Slots /\ a = Begin[p] + SlotIndexFor(p, a)
  BY <1>1 DEF IsPoolPointer, SlotIndexFor, Slots
<1>3. (\E s \in Slots : a = Begin[p] + s) => IsPoolPointer(p, a)
  BY <1>1 DEF IsPoolPointer, Slots
<1>4. a \in heap \/ (allocation_fits[f] /\ \E s \in Slots : a = Begin[p] + s)
  BY DEF PoolInv, FramesPlaced
<1> QED
  BY <1>1, <1>2, <1>3, <1>4

(* The steps of the list itself.                                           *)
LEMMA PopIntact ==
    ASSUME TypeOK, FreeListIntact, NEW f \in Frames, NEW p \in Pools, AllocateSlot(f, p)
    PROVE  FreeListIntact' /\ free[p] > 0 /\ free_head_[p] \in Slots
<1> DEFINE h == free_head_[p]
<1>1. /\ p \in alive /\ free[p] \in Nat /\ free[p] > 0 /\ ListIntact(p)
      /\ h \in Slots /\ rank[p][h] = free[p] /\ rank[p] \in [Slots -> Nat]
  BY HeadOfList DEF AllocateSlot
<1>2. /\ rank'[p] = [rank[p] EXCEPT ![h] = 0] /\ free'[p] = free[p] - 1
      /\ free_head_'[p] = next_free_[p][h] /\ next_free_' = next_free_ /\ alive' = alive
      /\ \A q \in Pools : q # p => /\ rank'[q] = rank[q] /\ free'[q] = free[q]
                                   /\ free_head_'[q] = free_head_[q]
  BY <1>1 DEF AllocateSlot, TypeOK
<1> HIDE DEF h
<1>3. ASSUME NEW q \in alive, q # p PROVE ListIntact(q)'
  <2>1. ListIntact(q) /\ q \in Pools
    BY DEF FreeListIntact, TypeOK
  <2> QED
    BY <1>2, <1>3, <2>1 DEF ListIntact, LinksTo, invalid_index
<1>4. \A s \in Slots : s # h => rank'[p][s] = rank[p][s] /\ rank[p][s] # free[p]
  BY <1>1, <1>2 DEF ListIntact
<1>5. rank'[p][h] = 0
  BY <1>1, <1>2
<1>6. ASSUME NEW x, NEW k \in Nat, k < free[p], LinksTo(p, x, k)
      PROVE  IF k = 0 THEN x = invalid_index ELSE x \in Slots /\ rank'[p][x] = k
  BY <1>1, <1>4, <1>6 DEF LinksTo
<1>7. ListIntact(p)'
  <2>1. LinksTo(p, free_head_[p], free[p])'
    <3>1. LinksTo(p, next_free_[p][h], free[p] - 1)
      BY <1>1 DEF ListIntact
    <3> QED
      BY <3>1, <1>1, <1>2, <1>6 DEF LinksTo, invalid_index
  <2>2. ASSUME NEW s \in Slots, rank'[p][s] > 0
        PROVE  rank'[p][s] <= free'[p] /\ LinksTo(p, next_free_[p][s], rank[p][s] - 1)'
    <3>1. s # h /\ rank'[p][s] = rank[p][s] /\ rank[p][s] < free[p] /\ rank[p][s] \in Nat
      BY <2>2, <1>1, <1>4, <1>5 DEF ListIntact
    <3>2. LinksTo(p, next_free_[p][s], rank[p][s] - 1)
      BY <3>1, <2>2, <1>1 DEF ListIntact
    <3> QED
      BY <3>1, <3>2, <2>2, <1>1, <1>2, <1>6 DEF LinksTo, invalid_index
  <2>3. ASSUME NEW s \in Slots, NEW t \in Slots, rank'[p][s] = rank'[p][t], rank'[p][s] > 0
        PROVE  s = t
    BY <2>3, <1>1, <1>4, <1>5 DEF ListIntact
  <2> QED
    BY <2>1, <2>2, <2>3 DEF ListIntact
<1> QED
  BY <1>1, <1>2, <1>3, <1>7 DEF FreeListIntact, h

LEMMA PushIntact ==
    ASSUME TypeOK, FreeListIntact, UNCHANGED alive,
           NEW p \in alive, NEW h \in Slots, rank[p][h] = 0, ReturnSlot(p, h)
    PROVE  FreeListIntact'
<1>1. /\ p \in Pools /\ free[p] \in Nat /\ ListIntact(p) /\ rank[p] \in [Slots -> Nat]
      /\ free[p] > 0 => free_head_[p] \in Slots
      /\ next_free_[p] \in [Slots -> 0..SlotCount]
  BY HeadOfList DEF TypeOK
<1>2. /\ rank'[p] = [rank[p] EXCEPT ![h] = free[p] + 1] /\ free'[p] = free[p] + 1
      /\ free_head_'[p] = h /\ next_free_'[p] = [next_free_[p] EXCEPT ![h] = free_head_[p]]
      /\ \A q \in Pools : q # p => /\ rank'[q] = rank[q] /\ free'[q] = free[q]
                                   /\ free_head_'[q] = free_head_[q]
                                   /\ next_free_'[q] = next_free_[q]
  BY <1>1 DEF ReturnSlot, TypeOK
<1>3. ASSUME NEW q \in alive, q # p PROVE ListIntact(q)'
  <2>1. ListIntact(q) /\ q \in Pools
    BY DEF FreeListIntact, TypeOK
  <2> QED
    BY <1>2, <1>3, <2>1 DEF ListIntact, LinksTo, invalid_index
<1>4. \A s \in Slots : s # h => /\ rank'[p][s] = rank[p][s]
                                /\ next_free_'[p][s] = next_free_[p][s]
  BY <1>1, <1>2
<1>5. rank'[p][h] = free[p] + 1 /\ next_free_'[p][h] = free_head_[p]
  BY <1>1, <1>2
<1>6. ASSUME NEW x, NEW k \in Nat, LinksTo(p, x, k)
      PROVE  IF k = 0 THEN x = invalid_index ELSE x \in Slots /\ rank'[p][x] = k
  BY <1>1, <1>4, <1>6 DEF LinksTo
<1>7. ListIntact(p)'
  <2>1. LinksTo(p, free_head_[p], free[p])'
    BY <1>1, <1>2, <1>5 DEF LinksTo
  <2>2. ASSUME NEW s \in Slots, rank'[p][s] > 0
        PROVE  rank'[p][s] <= free'[p] /\ LinksTo(p, next_free_[p][s], rank[p][s] - 1)'
    <3>1. CASE s = h
      <4>1. LinksTo(p, free_head_[p], free[p])
        BY <1>1 DEF ListIntact
      <4>2. IF free[p] = 0 THEN free_head_[p] = invalid_index
            ELSE free_head_[p] \in Slots /\ rank'[p][free_head_[p]] = free[p]
        BY <4>1, <1>1, <1>6
      <4>3. rank'[p][s] - 1 = free[p] /\ next_free_'[p][s] = free_head_[p]
        BY <3>1, <1>1, <1>5
      <4> QED
        BY <4>2, <4>3, <1>1, <1>2 DEF LinksTo, invalid_index
    <3>2. CASE s # h
      <4>1. rank[p][s] = rank'[p][s] /\ rank[p][s] \in Nat
        BY <3>2, <1>1, <1>4
      <4>2. rank[p][s] <= free[p] /\ LinksTo(p, next_free_[p][s], rank[p][s] - 1)
        BY <4>1, <2>2, <1>1 DEF ListIntact
      <4> QED
        BY <4>1, <4>2, <3>2, <2>2, <1>1, <1>2, <1>4, <1>6 DEF LinksTo, invalid_index
    <3> QED
      BY <3>1, <3>2
  <2>3. ASSUME NEW s \in Slots, NEW t \in Slots, rank'[p][s] = rank'[p][t], rank'[p][s] > 0
        PROVE  s = t
    <3>1. \A u \in Slots : rank[p][u] > 0 => rank[p][u] <= free[p]
      BY <1>1 DEF ListIntact
    <3> QED
      BY <2>3, <3>1, <1>1, <1>4, <1>5 DEF ListIntact
  <2> QED
    BY <2>1, <2>2, <2>3 DEF ListIntact
<1> QED
  BY <1>3, <1>7 DEF FreeListIntact

(* Types.                                                                  *)
LEMMA TypeStep ==
    ASSUME TypeOK, PoolInv, [Next]_vars
    PROVE  TypeOK'
<1>0. /\ FreeList \in [Slots -> 0..SlotCount]
      /\ [s \in Slots |-> SlotCount - s] \in [Slots -> Nat]
  BY DEF FreeList, Slots
<1>1. ASSUME NEW p \in Pools, ResetFreelist(p)
      PROVE  /\ next_free_' \in [Pools -> [Slots -> 0..SlotCount]]
             /\ free_head_' \in [Pools -> 0..SlotCount]
             /\ rank' \in [Pools -> [Slots -> Nat]]
             /\ free' \in [Pools -> Nat]
             /\ lost' \in [Pools -> SUBSET Slots]
  BY <1>0, <1>1 DEF ResetFreelist, TypeOK
<1>2. ASSUME NEW p \in Pools, Construct(p) PROVE TypeOK'
  BY <1>1, <1>2 DEF Construct, TypeOK, headerVars
<1>3. ASSUME NEW p \in Pools, Destroy(p) PROVE TypeOK'
  <2>1. allocator_ctx \in [Frames -> (alive \ {p}) \cup {NoAllocator}]
    BY <1>3 DEF Destroy, TypeOK
  <2> QED
    BY <2>1, <1>1, <1>3 DEF Destroy, TypeOK, headerVars
<1>4. ASSUME NEW p \in Pools, NEW q \in Pools, CopyConstruct(p, q) PROVE TypeOK'
  BY <1>4 DEF CopyConstruct, TypeOK, headerVars
<1>5. ASSUME NEW f \in Frames, NEW p \in Pools, AllocateSlot(f, p) PROVE TypeOK'
  <2>1. free[p] > 0 /\ free_head_[p] \in Slots
    BY <1>5, PopIntact DEF PoolInv
  <2>2. Begin[p] + free_head_[p] \in Int
    BY <2>1 DEF Slots
  <2>3. /\ free_head_' \in [Pools -> 0..SlotCount]
        /\ rank' \in [Pools -> [Slots -> Nat]]
        /\ free' \in [Pools -> Nat]
    BY <1>5, <2>1 DEF AllocateSlot, TypeOK
  <2>4. /\ allocator_ctx' \in [Frames -> alive \cup {NoAllocator}]
        /\ allocation_ptr' \in [Frames -> Int]
        /\ allocation_fits' \in [Frames -> BOOLEAN]
    BY <1>5, <2>2 DEF AllocateSlot, WriteHeader, TypeOK
  <2> QED
    BY <1>5, <2>3, <2>4 DEF AllocateSlot, TypeOK
<1>6. ASSUME NEW f \in Frames, NEW p \in Pools, NEW fits \in BOOLEAN, AllocateHeap(f, p, fits)
      PROVE  TypeOK'
  BY <1>6 DEF AllocateHeap, WriteHeader, TypeOK, poolVars, historyVars
<1>7. ASSUME NEW f \in Frames, Deallocate(f) PROVE TypeOK'
  <2> DEFINE p == allocator_ctx[f]
             a == allocation_ptr[f]
             s == SlotIndexFor(p, a)
  <2>1. /\ allocator_ctx' \in [Frames -> alive \cup {NoAllocator}] /\ alive' = alive
        /\ allocation_ptr' \in [Frames -> Int]
        /\ allocation_fits' \in [Frames -> BOOLEAN]
    BY <1>7 DEF Deallocate, WriteHeader, TypeOK
  <2>2. Live(f) /\ p \in Pools
    BY <1>7, CameFrom DEF Deallocate
  <2>3. CASE allocation_fits[f] /\ IsPoolPointer(p, a)
    <3>1. s \in Slots /\ s \in 0..SlotCount /\ ReturnSlot(p, s)
      BY <1>7, <2>2, <2>3, CameFrom DEF Deallocate, Slots
    <3> HIDE DEF s, p, a
    <3>2. next_free_' \in [Pools -> [Slots -> 0..SlotCount]] /\ free_head_' \in [Pools -> 0..SlotCount]
      BY <3>1, <2>2 DEF ReturnSlot, TypeOK
    <3>3. rank' \in [Pools -> [Slots -> Nat]] /\ free' \in [Pools -> Nat]
      BY <3>1, <2>2 DEF ReturnSlot, TypeOK
    <3> QED
      BY <3>1, <3>2, <3>3, <2>1 DEF ReturnSlot, TypeOK
  <2>4. CASE ~(allocation_fits[f] /\ IsPoolPointer(p, a))
    BY <1>7, <2>1, <2>4 DEF Deallocate, DeleteHeap, TypeOK, poolVars, historyVars
  <2> QED
    BY <2>3, <2>4
<1>8. CASE UNCHANGED vars
  BY <1>8 DEF vars, poolVars, headerVars, historyVars, TypeOK
<1> QED
  BY <1>2, <1>3, <1>4, <1>5, <1>6, <1>7, <1>8 DEF Next

(* A pool whose memory is not written keeps its list.                      *)
LEMMA ListKept ==
    ASSUME NEW q, ListIntact(q), rank'[q] = rank[q], free'[q] = free[q],
           free_head_'[q] = free_head_[q], next_free_'[q] = next_free_[q]
    PROVE  ListIntact(q)'
BY DEF ListIntact, LinksTo, invalid_index

LEMMA ResetIntact ==
    ASSUME TypeOK, NEW p \in Pools, ResetFreelist(p)
    PROVE  /\ ListIntact(p)' /\ lost'[p] = {} /\ \A s \in Slots : rank'[p][s] > 0
           /\ \A q \in Pools : q # p =>
                 /\ rank'[q] = rank[q] /\ free'[q] = free[q] /\ lost'[q] = lost[q]
                 /\ free_head_'[q] = free_head_[q] /\ next_free_'[q] = next_free_[q]
<1>1. /\ next_free_'[p] = FreeList /\ free_head_'[p] = 0 /\ free'[p] = SlotCount
      /\ rank'[p] = [s \in Slots |-> SlotCount - s] /\ lost'[p] = {}
  BY DEF ResetFreelist, TypeOK
<1>2. \A s \in Slots : rank'[p][s] = SlotCount - s /\ next_free_'[p][s] = s + 1
  BY <1>1 DEF FreeList
<1>3. ListIntact(p)'
  BY <1>1, <1>2 DEF ListIntact, LinksTo, invalid_index, Slots
<1> QED
  BY <1>1, <1>2, <1>3 DEF ResetFreelist, TypeOK, Slots

(* Where frames are follows from where they were.                          *)
LEMMA StillPlaced ==
    ASSUME PoolInv, UNCHANGED headerVars, UNCHANGED heap
    PROVE  /\ FramesApart' /\ HeapBalanced' /\ FramesPlaced'
           /\ \A p, s : Held(p, s)' <=> Held(p, s)
<1>1. \A f \in Frames : Live(f)' <=> Live(f)
  BY DEF Live, headerVars
<1>2. \A p, s : Held(p, s)' <=> Held(p, s)
  BY DEF Held, headerVars
<1> QED
  BY <1>1, <1>2 DEF PoolInv, FramesApart, HeapBalanced, FramesPlaced, headerVars

LEMMA ConstructStep ==
    ASSUME TypeOK, PoolInv, NEW p \in Pools, Construct(p) \/ Destroy(p)
    PROVE  PoolInv'
<1>1. ResetFreelist(p) /\ UNCHANGED <<headerVars, heap>> /\ alive' \subseteq alive \cup {p}
  BY DEF Construct, Destroy
<1>2. \A s \in Slots : ~Held(p, s)
  <2>1. \A f \in Frames : allocator_ctx[f] # p
    BY DEF Construct, Destroy, TypeOK
  <2> QED
    BY <2>1 DEF Held
<1>3. FreeListIntact'
  BY <1>1, ResetIntact, ListKept DEF PoolInv, FreeListIntact, TypeOK
<1>4. /\ FramesApart' /\ HeapBalanced' /\ FramesPlaced'
      /\ \A q, s : Held(q, s)' <=> Held(q, s)
  BY <1>1, StillPlaced
<1>5. SlotsAccounted'
  <2>1. ASSUME NEW q \in alive', NEW s \in Slots
        PROVE  /\ rank'[q][s] = 0 <=> Held(q, s) \/ s \in lost'[q]
               /\ ~(Held(q, s) /\ s \in lost'[q])
    <3>1. CASE q = p
      BY <3>1, <1>1, <1>2, ResetIntact
    <3>2. CASE q # p
      BY <2>1, <3>2, <1>1, ResetIntact DEF PoolInv, SlotsAccounted, TypeOK
    <3> QED
      BY <3>1, <3>2
  <2> QED
    BY <2>1, <1>4 DEF SlotsAccounted
<1> QED
  BY <1>3, <1>4, <1>5 DEF PoolInv

LEMMA CopyStep ==
    ASSUME TypeOK, PoolInv, NEW p \in Pools, NEW q \in Pools, CopyConstruct(p, q)
    PROVE  PoolInv'
<1>1. /\ UNCHANGED <<headerVars, heap>> /\ alive' = alive \cup {p} /\ q \in alive /\ p # q
      /\ rank'[p] = rank[q] /\ free'[p] = free[q] /\ lost'[p] = {s \in Slots : rank[q][s] = 0}
      /\ free_head_'[p] = free_head_[q] /\ next_free_'[p] = next_free_[q]
      /\ \A r \in Pools : r # p =>
            /\ rank'[r] = rank[r] /\ free'[r] = free[r] /\ lost'[r] = lost[r]
            /\ free_head_'[r] = free_head_[r] /\ next_free_'[r] = next_free_[r]
  BY DEF CopyConstruct, TypeOK
<1>2. \A s \in Slots : ~Held(p, s)
  <2>1. \A f \in Frames : allocator_ctx[f] # p
    BY DEF CopyConstruct, TypeOK
  <2> QED
    BY <2>1 DEF Held
<1>3. FreeListIntact'
  <2>1. ListIntact(p)'
    <3>1. ListIntact(q)
      BY <1>1 DEF PoolInv, FreeListIntact
    <3> QED
      BY <3>1, <1>1 DEF ListIntact, LinksTo, invalid_index
  <2> QED
    BY <2>1, <1>1, ListKept DEF PoolInv, FreeListIntact, TypeOK
<1>4. /\ FramesApart' /\ HeapBalanced' /\ FramesPlaced'
      /\ \A r, s : Held(r, s)' <=> Held(r, s)
  BY <1>1, StillPlaced
<1>5. SlotsAccounted'
  <2>1. ASSUME NEW r \in alive', NEW s \in Slots
        PROVE  /\ rank'[r][s] = 0 <=> Held(r, s) \/ s \in lost'[r]
               /\ ~(Held(r, s) /\ s \in lost'[r])
    <3>1. CASE r = p
      BY <3>1, <1>1, <1>2
    <3>2. CASE r # p
      BY <2>1, <3>2, <1>1 DEF PoolInv, SlotsAccounted, TypeOK
    <3> QED
      BY <3>1, <3>2
  <2> QED
    BY <2>1, <1>4 DEF SlotsAccounted
<1> QED
  BY <1>3, <1>4, <1>5 DEF PoolInv

(* What a header says after it was written.                                *)
LEMMA Written ==
    ASSUME TypeOK, NEW f \in Frames, NEW p, NEW a, NEW fits, WriteHeader(f, p, a, fits)
    PROVE  /\ allocator_ctx'[f] = p /\ allocation_ptr'[f] = a /\ allocation_fits'[f] = fits
           /\ Live(f)' <=> p # NoAllocator
           /\ \A g \in Frames : g # f =>
                 /\ allocator_ctx'[g] = allocator_ctx[g] /\ allocation_ptr'[g] = allocation_ptr[g]
                 /\ allocation_fits'[g] = allocation_fits[g] /\ (Live(g)' <=> Live(g))
BY DEF WriteHeader, TypeOK, Live

LEMMA AllocateSlotStep ==
    ASSUME TypeOK, PoolInv, NEW f \in Frames, NEW p \in Pools, AllocateSlot(f, p)
    PROVE  PoolInv'
<1> DEFINE h == free_head_[p]
           a == Begin[p] + h
<1>1. /\ p \in alive /\ h \in Slots /\ FreeListIntact' /\ rank[p][h] > 0
      /\ alive' = alive /\ heap' = heap /\ lost' = lost /\ ~Live(f) /\ p # NoAllocator
      /\ a \in Int /\ a \notin Heap
  <2>1. FreeListIntact' /\ h \in Slots /\ p \in alive /\ ~Live(f)
    BY PopIntact DEF AllocateSlot, PoolInv
  <2>2. rank[p][h] > 0
    BY <2>1, PopIntact, HeadOfList DEF PoolInv
  <2> QED
    BY <2>1, <2>2 DEF AllocateSlot, Slots
<1>2. /\ rank'[p] = [rank[p] EXCEPT ![h] = 0]
      /\ \A q \in Pools : q # p => rank'[q] = rank[q]
  BY <1>1 DEF AllocateSlot, TypeOK
<1>3. WriteHeader(f, p, a, TRUE)
  BY DEF AllocateSlot
<1>w. /\ allocator_ctx'[f] = p /\ allocation_ptr'[f] = a /\ allocation_fits'[f] = TRUE
      /\ Live(f)'
      /\ \A g \in Frames : g # f =>
            /\ allocator_ctx'[g] = allocator_ctx[g] /\ allocation_ptr'[g] = allocation_ptr[g]
            /\ allocation_fits'[g] = allocation_fits[g] /\ (Live(g)' <=> Live(g))
  BY <1>1, <1>3 DEF WriteHeader, TypeOK, Live
<1> HIDE DEF a, h
<1>4. ~Held(p, h)
  BY <1>1 DEF PoolInv, SlotsAccounted
<1>5. ASSUME NEW g \in Frames, Live(g) PROVE allocation_ptr[g] # a
  <2>1. CASE allocation_ptr[g] \in heap
    BY <2>1, <1>1 DEF TypeOK
  <2>2. ASSUME NEW t \in Slots, allocation_ptr[g] = Begin[allocator_ctx[g]] + t
        PROVE  allocation_ptr[g] # a
    <3>1. allocator_ctx[g] \in Pools
      BY <1>5 DEF Live, TypeOK
    <3>2. CASE allocator_ctx[g] = p
      <4>1. Held(p, t)
        BY <2>2, <3>2 DEF Held
      <4>2. t # h
        BY <4>1, <1>4
      <4> QED
        BY <2>2, <3>2, <4>2, <1>1 DEF a, Slots
    <3>3. CASE allocator_ctx[g] # p
      BY <2>2, <3>1, <3>3, <1>1 DEF a
    <3> QED
      BY <3>2, <3>3
  <2> QED
    BY <2>1, <2>2, <1>5 DEF PoolInv, FramesPlaced
<1>6. FramesApart'
  BY <1>w, <1>5 DEF PoolInv, FramesApart
<1>7. ASSUME NEW q \in Pools, NEW t \in Slots
      PROVE  Held(q, t)' <=> Held(q, t) \/ (q = p /\ t = h)
  <2>1. q = p /\ t = h => Held(q, t)'
    BY <1>w DEF Held, a
  <2>2. Held(q, t) => Held(q, t)'
    <3> SUFFICES ASSUME NEW g \in Frames, allocator_ctx[g] = q, allocation_ptr[g] = Begin[q] + t
                 PROVE  Held(q, t)'
      BY DEF Held
    <3>1. Live(g) /\ g # f
      BY <1>1 DEF Live
    <3> QED
      BY <3>1, <1>w DEF Held
  <2>3. Held(q, t)' => Held(q, t) \/ (q = p /\ t = h)
    <3> SUFFICES ASSUME NEW g \in Frames, allocator_ctx'[g] = q, allocation_ptr'[g] = Begin[q] + t
                 PROVE  Held(q, t) \/ (q = p /\ t = h)
      BY DEF Held
    <3>1. CASE g = f
      <4>1. q = p /\ Begin[p] + h = Begin[p] + t
        BY <3>1, <1>w DEF a
      <4>2. Begin[p] \in Int /\ h \in Int /\ t \in Int
        BY <1>1 DEF Slots
      <4> QED
        BY <4>1, <4>2
    <3>2. CASE g # f
      BY <3>2, <1>w DEF Held
    <3> QED
      BY <3>1, <3>2
  <2> QED
    BY <2>1, <2>2, <2>3
<1>8. SlotsAccounted'
  <2>1. ASSUME NEW q \in alive, NEW t \in Slots
        PROVE  /\ rank'[q][t] = 0 <=> Held(q, t)' \/ t \in lost[q]
               /\ ~(Held(q, t)' /\ t \in lost[q])
    <3>1. /\ q \in Pools
          /\ rank[q][t] = 0 <=> Held(q, t) \/ t \in lost[q]
          /\ ~(Held(q, t) /\ t \in lost[q])
      BY DEF PoolInv, SlotsAccounted, TypeOK
    <3>2. rank'[q][t] = IF q = p /\ t = h THEN 0 ELSE rank[q][t]
      BY <3>1, <1>1, <1>2 DEF TypeOK
    <3> QED
      BY <3>1, <3>2, <1>1, <1>7
  <2> QED
    BY <2>1, <1>1 DEF SlotsAccounted
<1>9. HeapBalanced'
  BY <1>1, <1>w DEF PoolInv, HeapBalanced
<1>10. FramesPlaced'
  <2>1. ASSUME NEW g \in Frames, Live(g)'
        PROVE  \/ allocation_ptr'[g] \in heap'
               \/ /\ allocation_fits'[g]
                  /\ \E t \in Slots : allocation_ptr'[g] = Begin[allocator_ctx'[g]] + t
    <3>1. CASE g = f
      BY <3>1, <1>1, <1>w DEF a
    <3>2. CASE g # f
      BY <3>2, <2>1, <1>1, <1>w DEF PoolInv, FramesPlaced
    <3> QED
      BY <3>1, <3>2
  <2> QED
    BY <2>1 DEF FramesPlaced
<1> QED
  BY <1>1, <1>6, <1>8, <1>9, <1>10 DEF PoolInv

LEMMA AllocateHeapStep ==
    ASSUME TypeOK, PoolInv, NEW f \in Frames, NEW p \in Pools, NEW fits \in BOOLEAN,
           AllocateHeap(f, p, fits)
    PROVE  PoolInv'
<1>1. PICK a \in Heap \ heap : WriteHeader(f, p, a, fits) /\ heap' = heap \cup {a}
  BY DEF AllocateHeap
<1>2. /\ ~Live(f) /\ UNCHANGED <<poolVars, alive, historyVars>> /\ p # NoAllocator
  BY DEF AllocateHeap
<1>3. \A g \in Frames : Live(g) => allocation_ptr[g] # a
  BY <1>1 DEF PoolInv, HeapBalanced
<1>4. FreeListIntact'
  BY <1>2, ListKept DEF PoolInv, FreeListIntact, poolVars, historyVars
<1>5. FramesApart'
  BY <1>1, <1>3, Written DEF PoolInv, FramesApart
<1>6. ASSUME NEW q \in Pools, NEW t \in Slots PROVE Held(q, t)' <=> Held(q, t)
  <2>1. Held(q, t) => Held(q, t)'
    <3> SUFFICES ASSUME NEW g \in Frames, allocator_ctx[g] = q, allocation_ptr[g] = Begin[q] + t
                 PROVE  Held(q, t)'
      BY DEF Held
    <3>1. Live(g) /\ g # f
      BY <1>2 DEF Live
    <3> QED
      BY <3>1, <1>1, Written DEF Held
  <2>2. Held(q, t)' => Held(q, t)
    <3> SUFFICES ASSUME NEW g \in Frames, allocator_ctx'[g] = q, allocation_ptr'[g] = Begin[q] + t
                 PROVE  Held(q, t)
      BY DEF Held
    <3>1. g # f
      BY <1>1, Written
    <3> QED
      BY <3>1, <1>1, Written DEF Held
  <2> QED
    BY <2>1, <2>2
<1>7. SlotsAccounted'
  BY <1>2, <1>6 DEF PoolInv, SlotsAccounted, TypeOK, historyVars
<1>8. HeapBalanced'
  BY <1>1, <1>2, Written DEF PoolInv, HeapBalanced
<1>9. FramesPlaced'
  BY <1>1, Written DEF PoolInv, FramesPlaced
<1> QED
  BY <1>4, <1>5, <1>7, <1>8, <1>9 DEF PoolInv

LEMMA DeallocateStep ==
    ASSUME TypeOK, PoolInv, NEW f \in Frames, Deallocate(f)
    PROVE  PoolInv'
<1> DEFINE p == allocator_ctx[f]
           a == allocation_ptr[f]
           s == SlotIndexFor(p, a)
           own == allocation_fits[f] /\ IsPoolPointer(p, a)
<1>1. /\ Live(f) /\ alive' = alive /\ WriteHeader(f, NoAllocator, 0, FALSE)
      /\ IF own THEN ReturnSlot(p, s) ELSE DeleteHeap(a)
  BY DEF Deallocate
<1>2. /\ p \in alive /\ p \in Pools
      /\ own => s \in Slots /\ a = Begin[p] + s
      /\ ~own => a \in heap
  BY <1>1, CameFrom
<1>w. /\ ~Live(f)' /\ allocator_ctx'[f] = NoAllocator
      /\ \A g \in Frames : g # f =>
            /\ allocator_ctx'[g] = allocator_ctx[g] /\ allocation_ptr'[g] = allocation_ptr[g]
            /\ allocation_fits'[g] = allocation_fits[g] /\ (Live(g)' <=> Live(g))
  BY <1>1 DEF WriteHeader, TypeOK, Live
<1> HIDE DEF p, a, s, own
<1>3. \A g \in Frames : g # f /\ Live(g) => allocation_ptr[g] # a
  BY <1>1 DEF PoolInv, FramesApart, a
<1>4. FramesApart'
  BY <1>w DEF PoolInv, FramesApart
<1>5. ASSUME NEW q \in Pools, NEW t \in Slots
      PROVE  Held(q, t)' <=> Held(q, t) /\ Begin[q] + t # a
  <2>1. Held(q, t) /\ Begin[q] + t # a => Held(q, t)'
    <3> SUFFICES ASSUME NEW g \in Frames, allocator_ctx[g] = q, allocation_ptr[g] = Begin[q] + t,
                        Begin[q] + t # a
                 PROVE  Held(q, t)'
      BY DEF Held
    <3>1. g # f
      BY DEF a
    <3> QED
      BY <3>1, <1>w DEF Held
  <2>2. Held(q, t)' => Held(q, t) /\ Begin[q] + t # a
    <3> SUFFICES ASSUME NEW g \in Frames, allocator_ctx'[g] = q, allocation_ptr'[g] = Begin[q] + t
                 PROVE  Held(q, t) /\ Begin[q] + t # a
      BY DEF Held
    <3>1. g # f
      BY <1>w
    <3>2. allocator_ctx[g] = q /\ allocation_ptr[g] = Begin[q] + t /\ Live(g)
      BY <3>1, <1>w DEF Live
    <3> QED
      BY <3>1, <3>2, <1>3 DEF Held
  <2> QED
    BY <2>1, <2>2
<1>6. CASE own
  <2>1. a = Begin[p] + s /\ s \in Slots /\ a \notin Heap /\ ReturnSlot(p, s)
    BY <1>6, <1>1, <1>2
  <2>2. Held(p, s) /\ rank[p][s] = 0 /\ s \notin lost[p]
    <3>1. Held(p, s)
      BY <2>1 DEF Held, p, a
    <3> QED
      BY <3>1, <2>1, <1>2 DEF PoolInv, SlotsAccounted
  <2>3. FreeListIntact'
    BY <2>1, <2>2, <1>1, <1>2, PushIntact DEF PoolInv
  <2>4. /\ rank'[p] = [rank[p] EXCEPT ![s] = free[p] + 1] /\ lost' = lost /\ heap' = heap
        /\ \A q \in Pools : q # p => rank'[q] = rank[q]
    BY <2>1, <1>2 DEF ReturnSlot, TypeOK
  <2>5. ASSUME NEW q \in alive, NEW t \in Slots
        PROVE  /\ rank'[q][t] = 0 <=> Held(q, t)' \/ t \in lost[q]
               /\ ~(Held(q, t)' /\ t \in lost[q])
    <3>1. /\ q \in Pools
          /\ rank[q][t] = 0 <=> Held(q, t) \/ t \in lost[q]
          /\ ~(Held(q, t) /\ t \in lost[q])
      BY DEF PoolInv, SlotsAccounted, TypeOK
    <3>2. Begin[q] + t = a <=> q = p /\ t = s
      BY <3>1, <2>1, <1>2 DEF Slots
    <3>3. rank'[q][t] = IF q = p /\ t = s THEN free[p] + 1 ELSE rank[q][t]
      BY <3>1, <2>1, <2>4, <1>2 DEF TypeOK
    <3>4. free[p] + 1 # 0
      BY <1>2 DEF TypeOK
    <3> QED
      BY <3>1, <3>2, <3>3, <3>4, <2>2, <1>5
  <2>6. SlotsAccounted'
    BY <2>4, <2>5, <1>1 DEF SlotsAccounted
  <2>7. HeapBalanced'
    BY <2>1, <2>4, <1>w DEF PoolInv, HeapBalanced, a
  <2>8. FramesPlaced'
    BY <2>4, <1>w DEF PoolInv, FramesPlaced
  <2> QED
    BY <2>3, <2>6, <2>7, <2>8, <1>4 DEF PoolInv
<1>7. CASE ~own
  <2>1. a \in heap /\ a \in Heap /\ heap' = heap \ {a} /\ UNCHANGED <<poolVars, historyVars>>
    BY <1>7, <1>1, <1>2 DEF DeleteHeap, TypeOK
  <2>2. FreeListIntact'
    BY <2>1, <1>1, ListKept DEF PoolInv, FreeListIntact, poolVars, historyVars
  <2>3. \A q \in Pools, t \in Slots : Held(q, t)' <=> Held(q, t)
    BY <2>1, <1>5
  <2>4. SlotsAccounted'
    BY <2>1, <2>3, <1>1 DEF PoolInv, SlotsAccounted, TypeOK, historyVars
  <2>5. HeapBalanced'
    BY <2>1, <1>3, <1>w DEF PoolInv, HeapBalanced, a
  <2>6. FramesPlaced'
    BY <2>1, <1>3, <1>w DEF PoolInv, FramesPlaced
  <2> QED
    BY <2>2, <2>4, <2>5, <2>6, <1>4 DEF PoolInv
<1> QED
  BY <1>6, <1>7

(* The pool invariant holds in every state.                                *)
THEOREM PoolCorrect == Spec => [](TypeOK /\ PoolInv)
<1>1. TypeOK /\ PoolInv /\ [Next]_vars => (TypeOK /\ PoolInv)'
  <2> SUFFICES ASSUME TypeOK, PoolInv, [Next]_vars PROVE TypeOK' /\ PoolInv'
    OBVIOUS
  <2>1. TypeOK'
    BY TypeStep
  <2>2. CASE UNCHANGED vars
    <3>1. UNCHANGED headerVars /\ UNCHANGED heap /\ UNCHANGED <<poolVars, historyVars, alive>>
      BY <2>2 DEF vars
    <3>2. FreeListIntact'
      BY <3>1, ListKept DEF PoolInv, FreeListIntact, poolVars, historyVars
    <3>3. FramesApart' /\ HeapBalanced' /\ FramesPlaced'
      BY <3>1, StillPlaced
    <3>4. \A p, s : Held(p, s)' <=> Held(p, s)
      BY <3>1, StillPlaced
    <3>5. SlotsAccounted'
      BY <3>1, <3>4 DEF PoolInv, SlotsAccounted, historyVars
    <3> QED
      BY <2>1, <3>2, <3>3, <3>5 DEF PoolInv
  <2>3. CASE Next
    <3>1. ASSUME \E p \in Pools : Construct(p) \/ Destroy(p) PROVE PoolInv'
      BY <3>1, ConstructStep
    <3>2. ASSUME NEW p \in Pools, NEW q \in Pools, CopyConstruct(p, q) PROVE PoolInv'
      BY <3>2, CopyStep
    <3>3. ASSUME NEW f \in Frames, NEW p \in Pools, AllocateSlot(f, p) PROVE PoolInv'
      BY <3>3, AllocateSlotStep
    <3>4. ASSUME NEW f \in Frames, NEW p \in Pools, NEW fits \in BOOLEAN, AllocateHeap(f, p, fits)
          PROVE  PoolInv'
      BY <3>4, AllocateHeapStep
    <3>5. ASSUME NEW f \in Frames, Deallocate(f) PROVE PoolInv'
      BY <3>5, DeallocateStep
    <3> QED
      BY <2>1, <2>3, <3>1, <3>2, <3>3, <3>4, <3>5 DEF Next
  <2> QED
    BY <2>1, <2>2, <2>3
<1> QED
  BY InitPool, <1>1, PTL DEF Spec

(* TypeOK holds: indices and links of the free list stay inside the pool.   *)
THEOREM PoolTypes == Spec => []TypeOK
BY PoolCorrect, PTL

(* FreeListIntact holds: the list that allocate and deallocate edit runs    *)
(* through each free slot once and ends.                                   *)
THEOREM PoolListIntact == Spec => []FreeListIntact
<1>1. PoolInv => FreeListIntact
  BY DEF PoolInv
<1> QED
  BY PoolCorrect, <1>1, PTL

(* FramesApart holds: allocate gives no memory to two live frames.          *)
THEOREM PoolFramesApart == Spec => []FramesApart
<1>1. PoolInv => FramesApart
  BY DEF PoolInv
<1> QED
  BY PoolCorrect, <1>1, PTL

(* SlotsAccounted holds: deallocate leaks no slot and frees none in use.    *)
THEOREM PoolSlotsAccounted == Spec => []SlotsAccounted
<1>1. PoolInv => SlotsAccounted
  BY DEF PoolInv
<1> QED
  BY PoolCorrect, <1>1, PTL

(* HeapBalanced holds: deallocate tells slots from heap memory.             *)
THEOREM PoolHeapBalanced == Spec => []HeapBalanced
<1>1. PoolInv => HeapBalanced
  BY DEF PoolInv
<1> QED
  BY PoolCorrect, <1>1, PTL

(* PoolUsedFirst holds: allocate falls back to the heap only when every     *)
(* slot is taken.                                                          *)
THEOREM PoolFirst == Spec => PoolUsedFirst
<1> DEFINE Given(f) ==
             ~Live(f) /\ Live(f)' /\ allocation_fits'[f] /\ allocation_ptr'[f] \in Heap
               => \A s \in Slots : \/ Held(allocator_ctx'[f], s)
                                   \/ s \in lost[allocator_ctx'[f]]
<1>1. TypeOK /\ PoolInv /\ [Next]_vars => [\A f \in Frames : Given(f)]_vars
  <2> SUFFICES ASSUME TypeOK, PoolInv, Next, NEW f \in Frames, ~Live(f), Live(f)',
                      allocation_fits'[f], allocation_ptr'[f] \in Heap,
                      NEW s \in Slots
               PROVE  Held(allocator_ctx'[f], s) \/ s \in lost[allocator_ctx'[f]]
    OBVIOUS
  <2>1. CASE \E p \in Pools : Construct(p) \/ Destroy(p) \/ \E q \in Pools : CopyConstruct(p, q)
    BY <2>1 DEF Construct, Destroy, CopyConstruct, headerVars, Live
  <2>2. ASSUME NEW g \in Frames, NEW p \in Pools, AllocateSlot(g, p)
        PROVE  FALSE
    <3>1. WriteHeader(g, p, Begin[p] + free_head_[p], TRUE) /\ free_head_[p] \in Slots
      BY <2>2, PopIntact DEF AllocateSlot, PoolInv
    <3>2. g = f
      BY <3>1, Written
    <3>3. allocation_ptr'[f] = Begin[p] + free_head_[p]
      BY <3>1, <3>2 DEF WriteHeader, TypeOK
    <3> QED
      BY <3>1, <3>3
  <2>3. ASSUME NEW g \in Frames, NEW p \in Pools, NEW fits \in BOOLEAN, AllocateHeap(g, p, fits)
        PROVE  Held(allocator_ctx'[f], s) \/ s \in lost[allocator_ctx'[f]]
    <3>1. PICK a \in Heap : WriteHeader(g, p, a, fits)
      BY <2>3 DEF AllocateHeap
    <3>2. g = f /\ allocator_ctx'[f] = p /\ fits
      BY <3>1, Written
    <3>3. p \in alive /\ free_head_[p] = invalid_index
      BY <2>3, <3>2 DEF AllocateHeap
    <3>4. rank[p][s] = 0
      BY <3>3, HeadOfList DEF PoolInv
    <3> QED
      BY <3>2, <3>3, <3>4 DEF PoolInv, SlotsAccounted
  <2>4. ASSUME NEW g \in Frames, Deallocate(g) PROVE FALSE
    <3>1. WriteHeader(g, NoAllocator, 0, FALSE)
      BY <2>4 DEF Deallocate
    <3> QED
      BY <3>1, Written
  <2> QED
    BY <2>1, <2>2, <2>3, <2>4 DEF Next
<1> QED
  BY PoolCorrect, <1>1, PTL DEF Spec, PoolUsedFirst
=============================================================================
