CONSTANTS
    p1 = p1
    p2 = p2
    Pools = {p1, p2}
    Begin <- Addresses
    SlotCount = 3
    Heap <- Around
    Frames = {f1, f2, f3, f4}
    NoAllocator = NoAllocator
SYMMETRY FrameSymmetry
SPECIFICATION Spec
INVARIANTS FreeListIntact FramesApart SlotsAccounted HeapBalanced
PROPERTIES PoolUsedFirst
