\* A heap of 24 nodes: room for five blocks of one alignment unit.
CONSTANTS
    HeapNodes = 24
    NodesPerAlignment = 4
    NodeSize = 4
    Sizes = {4, 20}
    SystemPtr = {30}
SPECIFICATION Spec
INVARIANTS
    HeapInv
PROPERTIES
    FreedWhereAllocated
    NullOnlyWhenFull
