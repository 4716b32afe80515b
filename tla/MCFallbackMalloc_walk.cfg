\* The same heap; only the invariant asserted in the source.
CONSTANTS
    HeapNodes = 24
    NodesPerAlignment = 4
    NodeSize = 4
    Sizes = {4, 20}
    SystemPtr = {30}
SPECIFICATION Spec
INVARIANTS
    WalkIsAligned
