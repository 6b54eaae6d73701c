-------------------------------- MODULE Heap --------------------------------
(***************************************************************************)
(* The kernel heap, src/kernel/heap.c: a first-fit allocator over one      *)
(* static array, with an address-ordered free list and coalescing on free. *)
(*                                                                         *)
(* A block is named by the address of its alloc_node_t header.  free_list  *)
(* is the list headed by `free_list' in the code, in list order; size is   *)
(* the `size' field of every header in the arena.  heap_free runs its      *)
(* coalescing loop one list node per step, because interrupts are enabled  *)
(* while it runs; no other heap call can start before the loop ends, since *)
(* threads give up the processor only when their function returns.         *)
(***************************************************************************)
EXTENDS Integers, Sequences, FiniteSets, SequencesExt

CONSTANTS
  ALLOC_HEADER_SZ,  \* offsetof(alloc_node_t, block): 12 on i386
  ALLOC_NODE_SZ,    \* sizeof(alloc_node_t): 16 on i386
  MIN_PAYLOAD,      \* the 32 of MIN_ALLOC_SZ
  PTR_SZ,           \* sizeof(void*): 4 on i386
  SIZE_MOD,         \* size_t arithmetic is modulo this: 2^32 on i386
  HEAP_ADDR,        \* address of the array `heap'
  HEAP_SIZE,        \* its size in bytes
  Requests,         \* the sizes clients ask for
  MaxDrift          \* clients stop freeing once drift exceeds this bound

ASSUME AbiAssumption ==
  /\ ALLOC_HEADER_SZ \in Nat \ {0}
  /\ ALLOC_NODE_SZ \in Nat /\ ALLOC_HEADER_SZ <= ALLOC_NODE_SZ
  /\ MIN_PAYLOAD \in Nat /\ ALLOC_HEADER_SZ <= MIN_PAYLOAD
  /\ PTR_SZ \in Nat \ {0}
  /\ SIZE_MOD \in Nat \ {0}

ASSUME ArenaAssumption ==
  /\ HEAP_ADDR \in Nat \ {0}
  /\ HEAP_SIZE \in Nat /\ ALLOC_HEADER_SZ + PTR_SZ <= HEAP_SIZE
  /\ Requests \subseteq 0 .. SIZE_MOD - 1
  /\ MaxDrift \in Nat

VARIABLES
  free_list,  \* sequence of header addresses, in list order
  size,       \* header address -> the header's size field
  vended,     \* headers of the blocks clients hold
  want,       \* history: held block -> the number of bytes asked for
  cursor,     \* 0, or the position heap_defrag_free_list has reached
  drift       \* history: bytes the coalescing has added that no block had

vars == <<free_list, size, vended, want, cursor, drift>>

Blocks == DOMAIN size
HeapEnd == HEAP_ADDR + HEAP_SIZE
MIN_ALLOC_SZ == ALLOC_HEADER_SZ + MIN_PAYLOAD

\* align_up on addresses, which are far from the top of the address space.
AlignAddr(a) == ((a + PTR_SZ - 1) \div PTR_SZ) * PTR_SZ

\* align_up on a size_t: the addition wraps.
AlignSize(n) == (((n + PTR_SZ - 1) % SIZE_MOD) \div PTR_SZ) * PTR_SZ

\* The address just past block b, as its size field has it.
BlockEnd(b) == b + ALLOC_HEADER_SZ + size[b]

FirstBlock == AlignAddr(HEAP_ADDR)

-----------------------------------------------------------------------------
Init ==
  /\ free_list = <<>>
  /\ size = <<>>
  /\ vended = {}
  /\ want = <<>>
  /\ cursor = 0
  /\ drift = 0

\* heap_init, called once by start_kernel: heap_add_block(heap, HEAP_SIZE).
HeapInit ==
  /\ Blocks = {}
  /\ size' = [b \in {FirstBlock} |->
                HEAP_ADDR + HEAP_SIZE - FirstBlock - ALLOC_HEADER_SZ]
  /\ free_list' = <<FirstBlock>>
  /\ UNCHANGED <<vended, want, cursor, drift>>

\* Variant: the search compares against the size without the header.
FirstFitShort(i, n) ==
  /\ size[free_list[i]] >= n - ALLOC_HEADER_SZ
  /\ \A j \in 1 .. i - 1 : size[free_list[j]] < n - ALLOC_HEADER_SZ

\* The first node of the free list with room for n bytes is at position i.
FirstFit(i, n) ==
  /\ size[free_list[i]] >= n
  /\ \A j \in 1 .. i - 1 : size[free_list[j]] < n

\* Variant: any remainder is split off, however small.
SplitBlockAlways(i, n) ==
  LET blk == free_list[i]
      new_blk == blk + ALLOC_HEADER_SZ + n
  IN  /\ size' = [b \in Blocks \union {new_blk} |->
                    IF b = new_blk THEN size[blk] - n - ALLOC_HEADER_SZ
                    ELSE IF b = blk THEN n ELSE size[b]]
      /\ free_list' = ReplaceAt(free_list, i, new_blk)

\* Variant: the new block's size does not leave room for its header.
SplitBlockForgetsHeader(i, n) ==
  LET blk == free_list[i]
      new_blk == blk + ALLOC_HEADER_SZ + n
  IN  /\ size[blk] - n >= MIN_ALLOC_SZ
      /\ size' = [b \in Blocks \union {new_blk} |->
                    IF b = new_blk THEN size[blk] - n
                    ELSE IF b = blk THEN n ELSE size[b]]
      /\ free_list' = ReplaceAt(free_list, i, new_blk)

\* Variant: the new block is put n bytes after the header's start, not its end.
SplitBlockTooLow(i, n) ==
  LET blk == free_list[i]
      new_blk == blk + n
  IN  /\ size[blk] - n >= MIN_ALLOC_SZ
      /\ size' = [b \in Blocks \union {new_blk} |->
                    IF b = new_blk THEN size[blk] - n
                    ELSE IF b = blk THEN n ELSE size[b]]
      /\ free_list' = ReplaceAt(free_list, i, new_blk)

\* heap_malloc: the block found is far larger than needed.  Its tail becomes
\* a new free block, linked in its place.
SplitBlock(i, n) ==
  LET blk == free_list[i]
      new_blk == blk + ALLOC_HEADER_SZ + n
  IN  /\ size[blk] - n >= MIN_ALLOC_SZ
      /\ size' = [b \in Blocks \union {new_blk} |->
                    IF b = new_blk THEN size[blk] - n - ALLOC_HEADER_SZ
                    ELSE IF b = blk THEN n ELSE size[b]]
      /\ free_list' = ReplaceAt(free_list, i, new_blk)

\* heap_malloc: the block found is handed out whole.
WholeBlock(i, n) ==
  /\ size[free_list[i]] - n < MIN_ALLOC_SZ
  /\ size' = size
  /\ free_list' = RemoveAt(free_list, i)

\* heap_malloc(request) returns NULL: for a request of 0, or when nothing fits.
MallocFails(request) ==
  /\ cursor = 0
  /\ request > 0 =>
       \A i \in 1 .. Len(free_list) : size[free_list[i]] < AlignSize(request)
  /\ UNCHANGED vars

\* heap_malloc(request) returns a block.
Malloc(request) ==
  /\ cursor = 0
  /\ request > 0
  /\ \E i \in 1 .. Len(free_list) :
       LET n == AlignSize(request) IN
       /\ FirstFit(i, n)
       /\ SplitBlock(i, n) \/ WholeBlock(i, n)
       /\ vended' = vended \union {free_list[i]}
       /\ want' = [b \in vended' |->
                     IF b = free_list[i] THEN request ELSE want[b]]
  /\ UNCHANGED <<cursor, drift>>

\* Variant: blk always goes to the tail.
InsertPositionTail(i, blk) == i = Len(free_list) + 1

\* Position before which heap_free links blk: before the first node at a higher
\* address, or at the tail.
InsertPosition(i, blk) ==
  /\ i <= Len(free_list) => free_list[i] > blk
  /\ \A j \in 1 .. i - 1 : free_list[j] <= blk

\* heap_free of a held block, up to the call of heap_defrag_free_list.
Free(blk) ==
  /\ cursor = 0
  /\ drift <= MaxDrift
  /\ blk \in vended
  /\ \E i \in 1 .. Len(free_list) + 1 :
       /\ InsertPosition(i, blk)
       /\ free_list' = InsertAt(free_list, i, blk)
  /\ vended' = vended \ {blk}
  /\ want' = [b \in vended' |-> want[b]]
  /\ cursor' = 1
  /\ UNCHANGED <<size, drift>>

\* Variant: any two neighbours on the list are joined, touching or not.
AbsorbAny ==
  /\ cursor \in 2 .. Len(free_list)
  /\ LET lb == free_list[cursor - 1]
         b == free_list[cursor]
     IN  size' = [c \in Blocks \ {b} |->
                    IF c = lb THEN size[lb] + ALLOC_NODE_SZ + size[b] ELSE size[c]]
  /\ free_list' = RemoveAt(free_list, cursor)
  /\ drift' = drift + ALLOC_NODE_SZ - ALLOC_HEADER_SZ
  /\ UNCHANGED <<vended, want, cursor>>

\* The loop of heap_defrag_free_list stands at a node that starts where the one
\* before it (lb) ends: lb absorbs it.  The code adds sizeof(*b), not the
\* header's size, so lb now claims more than the two blocks had.
Absorb ==
  /\ cursor \in 2 .. Len(free_list)
  /\ LET lb == free_list[cursor - 1]
         b == free_list[cursor]
     IN  /\ BlockEnd(lb) = b
         /\ size' = [c \in Blocks \ {b} |->
                       IF c = lb THEN size[lb] + ALLOC_NODE_SZ + size[b]
                       ELSE size[c]]
  /\ free_list' = RemoveAt(free_list, cursor)
  /\ drift' = drift + ALLOC_NODE_SZ - ALLOC_HEADER_SZ
  /\ UNCHANGED <<vended, want, cursor>>

\* The loop moves on to the next node ...
Advance ==
  /\ cursor \in 1 .. Len(free_list)
  /\ cursor > 1 => BlockEnd(free_list[cursor - 1]) # free_list[cursor]
  /\ cursor' = cursor + 1
  /\ UNCHANGED <<free_list, size, vended, want, drift>>

\* Variant: the loop ends one node early.
FreeReturnsEarly ==
  /\ cursor = Len(free_list)
  /\ cursor' = 0
  /\ UNCHANGED <<free_list, size, vended, want, drift>>

\* ... and heap_free returns when it is back at the list head.
FreeReturns ==
  /\ cursor = Len(free_list) + 1
  /\ cursor' = 0
  /\ UNCHANGED <<free_list, size, vended, want, drift>>

Next ==
  \/ HeapInit
  \/ \E request \in Requests : Malloc(request) \/ MallocFails(request)
  \/ \E blk \in vended : Free(blk)
  \/ Absorb
  \/ Advance
  \/ FreeReturns

Spec == Init /\ [][Next]_vars

-----------------------------------------------------------------------------
\* Every variable has its type.
TypeOK ==
  /\ Blocks \subseteq Nat
  /\ size \in [Blocks -> Nat]
  /\ free_list \in Seq(Blocks)
  /\ vended \in SUBSET Blocks
  /\ want \in [vended -> Nat]
  /\ cursor \in 0 .. Len(free_list) + 1
  /\ drift \in Nat

\* heap_malloc's split and heap_free's insertion keep the free list in strictly
\* increasing address order, on which the adjacency test of the coalescing loop
\* depends.
FreeListSorted ==
  \A i, j \in 1 .. Len(free_list) : i < j => free_list[i] < free_list[j]

\* No block is both on the free list and in a client's hands, and no block of
\* the arena is on neither side: nothing is handed out twice, nothing is lost.
EveryBlockHasOneOwner ==
  /\ ToSet(free_list) \intersect vended = {}
  /\ ToSet(free_list) \union vended = Blocks

\* What heap_malloc and heap_free rely on when they search the free list.
ListSound == FreeListSorted /\ EveryBlockHasOneOwner

\* The bytes blocks claim for their headers and payloads, each named by its block and
\* its place in it: a byte that two blocks claim counts twice.
ClaimedBytes == UNION {{b} \X (1 .. ALLOC_HEADER_SZ + size[b]) : b \in Blocks}

\* Split, whole-block allocation, insertion and coalescing together conserve
\* the arena: what the blocks claim adds up to what heap_add_block was given plus
\* exactly the bytes the coalescing over-counted.
SpaceConserved ==
  Blocks # {} => Cardinality(ClaimedBytes) = HeapEnd - FirstBlock + drift

\* The over-count is still smaller than a header.  Past this point headers can be
\* laid over headers and the code no longer keeps any of the promises below.
LowDrift == drift < ALLOC_HEADER_SZ

\* Headers lie inside the arena and never overlap.
HeadersApart ==
  /\ \A b \in Blocks : FirstBlock <= b /\ b + ALLOC_HEADER_SZ <= HeapEnd
  /\ \A b, c \in Blocks : b < c => b + ALLOC_HEADER_SZ <= c

\* No block claims more than drift bytes of the next one, or of what follows the
\* arena.
ClaimsBounded ==
  /\ \A b \in Blocks : BlockEnd(b) <= HeapEnd + drift
  /\ \A b, c \in Blocks : b < c => BlockEnd(b) <= c + drift

\* Every byte of the arena is claimed: each block reaches the next, or the end.
ArenaCovered ==
  Blocks # {} =>
    /\ FirstBlock \in Blocks
    /\ \A b \in Blocks : \/ HeapEnd <= BlockEnd(b)
                         \/ \E c \in Blocks : b < c /\ c <= BlockEnd(b)

\* While the drift is low, no sequence of heap_malloc and heap_free calls makes
\* headers overlap, lets a block claim more than the drift beyond its own, or
\* leaves a gap in the arena.
LayoutSound == LowDrift => HeadersApart /\ ClaimsBounded /\ ArenaCovered

\* Between two heap calls, no two neighbours on the free list meet the loop's own
\* adjacency test: one pass is enough, and no later split or allocation
\* brings two free blocks together.
NoAdjacentPairLeft ==
  cursor = 0 /\ LowDrift =>
    \A i \in 1 .. Len(free_list) - 1 : BlockEnd(free_list[i]) # free_list[i + 1]

\* A client gets at least the bytes it asked for.
BigEnough == \A b \in vended : size[b] >= want[b]

\* heap_free's comment says the coalescing checks "if any memory blocks can be
\* combined into larger blocks": between two heap calls a held block lies
\* between any two free ones.  The over-count of Absorb breaks this: a block that
\* claims bytes of its neighbour no longer meets the adjacency test.
Coalesced ==
  cursor = 0 =>
    \A b, c \in ToSet(free_list) : b < c => \E d \in vended : b < d /\ d < c

\* While the drift is low, what a client holds is its own: a block that stays held
\* over a step keeps its header, whatever is split, freed or coalesced around it.
HeldBlocksUntouched ==
  [][LowDrift => \A b \in vended \intersect vended' :
       b \in DOMAIN size' /\ size'[b] = size[b]]_vars

\* While the drift is low, the heap implements the abstract arena of regions: in
\* particular heap_defrag_free_list never joins two free blocks across a held one,
\* and heap_malloc never cuts a block at an address that is already a header.
Regions == INSTANCE HeapRegions
             WITH Addr <- HEAP_ADDR .. HeapEnd, starts <- Blocks, held <- vended

ImplementsRegions == Regions!RSpec
=============================================================================
