--------------------------- MODULE FallbackMalloc ---------------------------
(***************************************************************************)
(* The emergency heap for exceptions, llvm/libcxxabi/src/                  *)
(* fallback_malloc.cpp: a fixed array of heap nodes with a singly linked   *)
(* free list, used when malloc fails.                                      *)
(*                                                                         *)
(* Addresses are offsets into `heap` in units of sizeof(heap_node), as the *)
(* code's own heap_offset.  heap_mutex is held from the first look at the  *)
(* free list to the return, so one call at a time walks the list; each     *)
(* step of the walk is a step here.  What the program keeps in a block is  *)
(* left out: it never touches the node in front of it.                     *)
(***************************************************************************)
EXTENDS Naturals

CONSTANTS
    HeapNodes,          \* HEAP_SIZE / sizeof(heap_node); offset of list_end
    NodesPerAlignment,  \* RequiredAlignment / sizeof(heap_node)
    NodeSize,           \* sizeof(heap_node) in bytes
    Sizes,              \* the request sizes, in bytes, that the callers make
    SystemPtr           \* addresses that ::malloc may return: not in the heap

\* No caller asks for zero bytes: exception objects have a header, and
\* __cxa_eh_globals has a size.  The largest alignment of a target is more than
\* one heap_node, 4 bytes, so that offset 0 is never a chunk.
ASSUME FallbackAssumption ==
    /\ HeapNodes \in Nat /\ NodesPerAlignment \in Nat \ {0, 1}
    /\ NodesPerAlignment < HeapNodes
    /\ NodeSize \in Nat \ {0}
    /\ Sizes \subseteq Nat \ {0}
    /\ SystemPtr \subseteq Nat
    /\ \A ptr \in SystemPtr : ptr > HeapNodes

VARIABLES
    freelist,   \* head of the free list, an offset or NULL
    next_node,  \* next_node[o]: field of the node at offset o
    len,        \* len[o]: field of the node at offset o
    op,         \* the call in progress: "none", "malloc" or "free"
    request,    \* malloc's len, in bytes
    cp,         \* free's chunk
    p,          \* the walk's cursor
    prev,       \* the node before the cursor, or NULL
    blocks,     \* blocks[o]: bytes the owner of chunk o asked for, or 0
    system      \* live blocks of ::malloc

heapVars == <<freelist, next_node, len>>
vars == <<freelist, next_node, len, op, request, cp, p, prev, blocks, system>>

Offset == 0 .. HeapNodes
list_end == HeapNodes
NULL == HeapNodes + 1

\* The offset that makes 'node + 1' aligned: heap itself is aligned.
getFirstAlignedNodeInHeap == NodesPerAlignment - 1

\* Nodes for a request: its size rounded up, and the header.
alloc_size_headerless(bytes) == (bytes + NodeSize - 1) \div NodeSize
alloc_size(bytes) == (bytes + NodeSize - 1) \div NodeSize + 1

is_fallback_ptr_bytes(ptr) == ptr >= 0 /\ ptr < HeapNodes \div NodeSize
is_fallback_ptr(ptr) == ptr >= 0 /\ ptr < HeapNodes

after(o) == o + len[o]

Allocated == {o \in Offset : blocks[o] # 0}

\* The heap is a zero-initialised array.
Init ==
    /\ freelist = NULL
    /\ next_node = [o \in Offset |-> 0]
    /\ len = [o \in Offset |-> 0]
    /\ op = "none"
    /\ request = 0 /\ cp = 0 /\ p = 0 /\ prev = NULL
    /\ blocks = [o \in Offset |-> 0]
    /\ system = {}

-----------------------------------------------------------------------------
(***************************************************************************)
(* __aligned_malloc_with_fallback and __calloc_with_fallback: ::malloc     *)
(* first, and the heap only if that fails.                                 *)
(***************************************************************************)
SystemMalloc(ptr) ==
    /\ op = "none"
    /\ ptr \notin system
    /\ system' = system \cup {ptr}
    /\ UNCHANGED <<heapVars, op, request, cp, p, prev, blocks>>

\* fallback_malloc up to the head of its loop, init_heap included.
fallback_malloc(bytes) ==
    /\ op = "none"
    /\ op' = "malloc"
    /\ request' = bytes
    /\ prev' = NULL
    /\ \/ /\ freelist = NULL
          /\ freelist' = getFirstAlignedNodeInHeap
          /\ p' = freelist'
          /\ next_node' = [next_node EXCEPT ![freelist'] = list_end]
          /\ len' = [len EXCEPT ![freelist'] = list_end - freelist']
       \/ /\ freelist # NULL
          /\ p' = freelist
          /\ UNCHANGED heapVars
    /\ UNCHANGED <<cp, blocks, system>>

nelems == alloc_size(request)

\* The padding that makes p's remaining length a multiple of the alignment.
aligned_nelems ==
    IF len[p] > nelems
    THEN nelems + ((len[p] - nelems) % NodesPerAlignment)
    ELSE nelems

Return == op' = "none" /\ request' = 0 /\ cp' = 0 /\ p' = 0 /\ prev' = NULL

\* p && p != list_end
Walking(call) == op = call /\ p # NULL /\ p # list_end

\* The chunk is larger: shorten it and hand out its tail.
MallocSplit ==
    /\ Walking("malloc")
    /\ len[p] > aligned_nelems
    /\ LET q == p + (len[p] - aligned_nelems)
       IN  /\ len' = [len EXCEPT ![p] = len[p] - aligned_nelems,
                                 ![q] = aligned_nelems]
           /\ next_node' = [next_node EXCEPT ![q] = 0]
           /\ blocks' = [blocks EXCEPT ![q] = request]
    /\ Return
    /\ UNCHANGED <<freelist, system>>

\* The chunk fits and cannot be split: take all of it off the list.
MallocTake ==
    /\ Walking("malloc")
    /\ len[p] <= aligned_nelems
    /\ len[p] >= nelems
    /\ \/ /\ prev = NULL
          /\ freelist' = next_node[p]
          /\ next_node' = [next_node EXCEPT ![p] = 0]
       \/ /\ prev # NULL
          /\ next_node' = [next_node EXCEPT ![prev] = next_node[p], ![p] = 0]
          /\ UNCHANGED freelist
    /\ blocks' = [blocks EXCEPT ![p] = request]
    /\ Return
    /\ UNCHANGED <<len, system>>

MallocStep ==
    /\ Walking("malloc")
    /\ len[p] < nelems
    /\ prev' = p
    /\ p' = next_node[p]
    /\ UNCHANGED <<heapVars, op, request, cp, blocks, system>>

\* Couldn't find a spot big enough.
MallocNullAfterFirst ==
    /\ op = "malloc"
    /\ p = list_end \/ prev # NULL
    /\ Return
    /\ UNCHANGED <<heapVars, blocks, system>>

MallocNull ==
    /\ op = "malloc"
    /\ p = list_end
    /\ Return
    /\ UNCHANGED <<heapVars, blocks, system>>

-----------------------------------------------------------------------------
(***************************************************************************)
(* __aligned_free_with_fallback and __free_with_fallback: a block goes     *)
(* back to the allocator its address says it came from.                    *)
(***************************************************************************)
LivePtrs == {o + 1 : o \in Allocated} \cup system

\* The owner has no claim on the block any more, whoever it is handed to.
GiveUp(ptr) ==
    /\ blocks' = [o \in Offset |-> IF o = ptr - 1 THEN 0 ELSE blocks[o]]
    /\ system' = system \ {ptr}

\* fallback_free up to the head of its loop: the chunk is the node in front.
fallback_free(ptr) ==
    /\ op = "none"
    /\ ptr \in LivePtrs
    /\ is_fallback_ptr(ptr)
    /\ op' = "free"
    /\ cp' = ptr - 1
    /\ p' = freelist
    /\ prev' = NULL
    /\ GiveUp(ptr)
    /\ UNCHANGED <<heapVars, request>>

SystemFree(ptr) ==
    /\ op = "none"
    /\ ptr \in LivePtrs
    /\ ~is_fallback_ptr(ptr)
    /\ GiveUp(ptr)
    /\ UNCHANGED <<heapVars, op, request, cp, p, prev>>

\* A free chunk ends where cp begins: make it larger.
FreeAppend ==
    /\ Walking("free")
    /\ after(p) = cp
    /\ len' = [len EXCEPT ![p] = len[p] + len[cp]]
    /\ Return
    /\ UNCHANGED <<freelist, next_node, blocks, system>>

\* A free chunk begins where cp ends: cp takes its place in the list.
FreePrepend ==
    /\ Walking("free")
    /\ after(p) # cp
    /\ after(cp) = p
    /\ len' = [len EXCEPT ![cp] = len[cp] + len[p]]
    /\ \/ /\ prev = NULL
          /\ freelist' = cp
          /\ next_node' = [next_node EXCEPT ![cp] = next_node[p]]
       \/ /\ prev # NULL
          /\ next_node' = [next_node EXCEPT ![prev] = cp]
          /\ UNCHANGED freelist
    /\ Return
    /\ UNCHANGED <<blocks, system>>

FreeStep ==
    /\ Walking("free")
    /\ after(p) # cp
    /\ after(cp) # p
    /\ prev' = p
    /\ p' = next_node[p]
    /\ UNCHANGED <<heapVars, op, request, cp, blocks, system>>

\* Nothing to merge with: cp becomes the head of the list.
FreePush ==
    /\ op = "free"
    /\ p = list_end
    /\ next_node' = [next_node EXCEPT ![cp] = freelist]
    /\ freelist' = cp
    /\ Return
    /\ UNCHANGED <<len, blocks, system>>

-----------------------------------------------------------------------------
Next ==
    \/ \E ptr \in SystemPtr : SystemMalloc(ptr)
    \/ \E bytes \in Sizes : fallback_malloc(bytes)
    \/ MallocSplit \/ MallocTake \/ MallocStep \/ MallocNull
    \/ \E ptr \in LivePtrs : fallback_free(ptr) \/ SystemFree(ptr)
    \/ FreeAppend \/ FreePrepend \/ FreeStep \/ FreePush

Spec == Init /\ [][Next]_vars

-----------------------------------------------------------------------------
\* Fields stay within the array and within heap_offset's range.
TypeOK ==
    /\ freelist \in Offset \cup {NULL}
    /\ next_node \in [Offset -> Offset]
    /\ len \in [Offset -> Offset]
    /\ op \in {"none", "malloc", "free"}
    /\ request \in Nat
    /\ cp \in Offset
    /\ p \in Offset
    /\ prev \in Offset \cup {NULL}
    /\ blocks \in [Offset -> Nat]
    /\ system \subseteq SystemPtr

\* The nodes a walk from the head of the free list visits.
Visited[n \in Nat] ==
    IF n = 0 THEN {freelist} \ {NULL, list_end}
    ELSE Visited[n - 1] \cup ({next_node[o] : o \in Visited[n - 1]} \ {list_end})

FreeChunks == Visited[HeapNodes \div NodesPerAlignment + 1]

Cells(o) == o .. o + len[o] - 1

\* A block handed out is aligned, inside the heap, as large as was asked for,
\* and shares no node with another block, with the free list, or with a chunk
\* being freed: after any sequence of splits and merges.
BlocksAreSound ==
    \A o \in Allocated :
        /\ (o + 1) % NodesPerAlignment = 0
        /\ Cells(o) \subseteq getFirstAlignedNodeInHeap .. HeapNodes - 1
        /\ (len[o] - 1) * NodeSize >= blocks[o]
        /\ \A d \in (Allocated \cup FreeChunks) \ {o} : Cells(o) \cap Cells(d) = {}
        /\ op = "free" => Cells(o) \cap Cells(cp) = {}

\* The heap is well formed: offsets stay inside it, and blocks are sound.
HeapInv == TypeOK /\ BlocksAreSound

\* The address alone sends a block home: fallback_free gets only what
\* fallback_malloc handed out, ::free only what ::malloc did.
ReturnedHome ==
    \A ptr \in LivePtrs : /\ fallback_free(ptr) => ptr - 1 \in Allocated
                          /\ SystemFree(ptr) => ptr \in system
FreedWhereAllocated == [][ReturnedHome]_vars

\* malloc returns NULL only when no chunk of the list was large enough.
NullOnlyWhenFull ==
    [][MallocNull => \A o \in FreeChunks : len[o] < nelems]_vars

\* The invariant asserted in fallback_malloc's loop: every node the walk
\* visits is placed so that the node after it is aligned.
WalkIsAligned == Walking("malloc") => (p + 1) % NodesPerAlignment = 0
=============================================================================
