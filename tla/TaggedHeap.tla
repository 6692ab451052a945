------------------------------ MODULE TaggedHeap ------------------------------
(***************************************************************************)
(* tagged_heap.cpp: fixed-size blocks of memory that are handed out one by *)
(* one under a key and given back all together, by the key.  Blocks that   *)
(* come back wait in free_blocks, unless there are enough of them already. *)
(*                                                                         *)
(* m_alloc_mutex is held from the first to the last statement of every     *)
(* function, so that each call is one action.                              *)
(***************************************************************************)
EXTENDS Integers, Sequences, FiniteSets

CONSTANTS
  Keys,        \* 64-bit keys, here frame numbers
  Blocks,      \* addresses `new char[FLIB_HEAP_BLOCK_SIZE]' may return
  Nobody,      \* for the abstract store: the owner of a block that has none
  NumFree,     \* argument of the constructor; 0 for the shared heap
  MaxFree      \* FLIB_MAX_FREE_BLOCKS

ASSUME HeapAssumption ==
  /\ IsFiniteSet(Blocks)
  /\ Nobody \notin Keys
  /\ NumFree \in 0 .. Cardinality(Blocks)
  /\ MaxFree \in Nat

VARIABLES
  allocated_blocks,   \* the blocks of each key, in the order of allocation
  free_blocks,        \* the queue of free blocks
  live,               \* blocks obtained from new and not deleted
  peak,               \* history: the most blocks ever allocated at once
  destroyed           \* the destructor has run

vars == <<allocated_blocks, free_blocks, live, peak, destroyed>>

\* The elements of a sequence, and the blocks that are given out.
Elements(s) == {s[i] : i \in 1 .. Len(s)}
InUse == UNION {Elements(allocated_blocks[k]) : k \in Keys}

Larger(a, b) == IF a > b THEN a ELSE b

TypeOK ==
  /\ allocated_blocks \in [Keys -> Seq(Blocks)]
  /\ free_blocks \in Seq(Blocks)
  /\ live \subseteq Blocks
  /\ peak \in Nat
  /\ destroyed \in BOOLEAN

\* The constructor fills free_blocks with NumFree different new blocks.
Init ==
  /\ allocated_blocks = [k \in Keys |-> <<>>]
  /\ free_blocks \in {s \in [1 .. NumFree -> Blocks] : \A i, j \in 1 .. NumFree : s[i] = s[j] => i = j}
  /\ live = Elements(free_blocks)
  /\ peak = 0
  /\ destroyed = FALSE

\* alloc_block(key) with block b and what is left of free_blocks: the vector
\* of the key is made when it is missing, and b is added to it.
Grant(key, b, rest) ==
  /\ allocated_blocks' = [allocated_blocks EXCEPT ![key] = Append(@, b)]
  /\ free_blocks' = rest
  /\ live' = live \cup {b}
  /\ peak' = Larger(peak, Cardinality(InUse \cup {b}))
  /\ UNCHANGED destroyed

\* Faulty alloc_block: the front of free_blocks is not popped.
AllocKeepsFront(key) ==
  /\ ~destroyed
  /\ \/ free_blocks # <<>> /\ Grant(key, Head(free_blocks), free_blocks)
     \/ free_blocks = <<>> /\ \E b \in Blocks \ live : Grant(key, b, <<>>)

\* Faulty alloc_block: it never looks at free_blocks.
AllocAlwaysNew(key) ==
  /\ ~destroyed
  /\ \E b \in Blocks \ live : Grant(key, b, free_blocks)

\* alloc_block: the front of free_blocks, or a new block when there is none.
AllocBlock(key) ==
  /\ ~destroyed
  /\ \/ free_blocks # <<>> /\ Grant(key, Head(free_blocks), Tail(free_blocks))
     \/ free_blocks = <<>> /\ \E b \in Blocks \ live : Grant(key, b, <<>>)

\* How many of n returned blocks free_blocks takes.
RoomFor(n) == IF Len(free_blocks) >= MaxFree THEN 0
              ELSE IF MaxFree - Len(free_blocks) < n THEN MaxFree - Len(free_blocks) ELSE n

\* free(key): the blocks of the key go to the end of free_blocks as long as it
\* holds fewer than MaxFree, the others are deleted, and the key, if it has
\* blocks, is forgotten.  The key keeps `left', the heap keeps n blocks.
Take(key, n, left) ==
  LET set == allocated_blocks[key] IN
  /\ ~destroyed
  /\ free_blocks' = free_blocks \o SubSeq(set, 1, n)
  /\ live' = live \ Elements(SubSeq(set, n + 1, Len(set)))
  /\ allocated_blocks' = [allocated_blocks EXCEPT ![key] = left]
  /\ UNCHANGED <<peak, destroyed>>

\* Faulty free: set.clear() and erase are missing.
FreeRemembers(key) == Take(key, RoomFor(Len(allocated_blocks[key])), allocated_blocks[key])

\* Faulty free: blocks that do not fit are neither kept nor deleted.
FreeLeaks(key) ==
  /\ ~destroyed
  /\ free_blocks' = free_blocks \o SubSeq(allocated_blocks[key], 1, RoomFor(Len(allocated_blocks[key])))
  /\ allocated_blocks' = [allocated_blocks EXCEPT ![key] = <<>>]
  /\ UNCHANGED <<live, peak, destroyed>>

Free(key) == Take(key, RoomFor(Len(allocated_blocks[key])), <<>>)

\* The destructor collects every block in free_blocks and deletes them all.
Destroy ==
  /\ ~destroyed
  /\ live' = live \ (InUse \cup Elements(free_blocks))
  /\ allocated_blocks' = [k \in Keys |-> <<>>]
  /\ free_blocks' = <<>>
  /\ destroyed' = TRUE
  /\ UNCHANGED peak

Next ==
  \/ \E key \in Keys : AllocBlock(key) \/ Free(key)
  \/ Destroy

Spec == Init /\ [][Next]_vars

-----------------------------------------------------------------------------
(* Properties *)

\* No block is at two places: two keys, two positions of one vector, two
\* positions of free_blocks, or both given out and free.
BlockOwnedOnce ==
  /\ \A k, l \in Keys : \A i \in 1 .. Len(allocated_blocks[k]), j \in 1 .. Len(allocated_blocks[l]) :
       allocated_blocks[k][i] = allocated_blocks[l][j] => k = l /\ i = j
  /\ \A i, j \in 1 .. Len(free_blocks) : free_blocks[i] = free_blocks[j] => i = j
  /\ InUse \cap Elements(free_blocks) = {}

\* A block that was ever new is either deleted or still known to the heap.
NoBlockLost == live = InUse \cup Elements(free_blocks)

\* Blocks travel between the vectors and free_blocks for ever: every block that
\* has not been deleted is at exactly one place.  A second copy would hand one
\* frame's memory to another, a missing one is a leak, in free() or in the
\* destructor.
BlockHeldOnce == BlockOwnedOnce /\ NoBlockLost

\* The heap asks for new memory only when nothing is free: its footprint never
\* exceeds the most that was in use at one time, or what it started with.
FootprintWithinPeak == Cardinality(live) <= Larger(NumFree, peak)

\* The heap seen from outside.
Owner == [b \in Blocks |->
            IF \E k \in Keys : b \in Elements(allocated_blocks[k])
            THEN CHOOSE k \in Keys : b \in Elements(allocated_blocks[k])
            ELSE Nobody]

Store == INSTANCE BlockStore WITH owner <- Owner

\* The heap implements the block store: whatever free_blocks does, a block
\* belongs to its key until that key is freed.
ImplementsBlockStore == Store!Spec

=============================================================================
