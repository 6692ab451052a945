---------------------------- MODULE LinearAllocator ----------------------------
(***************************************************************************)
(* tagged_linear_allocator.h: the allocator of a frame.  Every thread cuts *)
(* its requests off a block of its own; when the rest of the block is too  *)
(* small it takes a new one from the shared heap, under the allocator's    *)
(* key.  Nothing is given back one by one: the owner of the allocator      *)
(* frees the key, and constructs the allocator anew before its next use    *)
(* (frame_task and InitializeFrame).                                       *)
(*                                                                         *)
(* thread_blocks is an unordered_map from get_worker_id().  The insertion  *)
(* in allocate locks m_mutex; the look-ups do not, and operator[] inserts  *)
(* too when it misses.  A look-up that meets an insertion of another       *)
(* thread half way may miss an entry that is there, each look-up on its    *)
(* own, so that a thread can come to have several entries and its two      *)
(* references can name different ones.  When two insertions meet, links of *)
(* the map may be lost, and any later look-up may miss.  (That it may also *)
(* crash is left out: the model stops where the program does.)             *)
(*                                                                         *)
(* Threads have ids of their own; all threads outside the pool share -1    *)
(* and count as one here.                                                  *)
(***************************************************************************)
EXTENDS TaggedHeap

CONSTANTS
  Threads,      \* the values of get_worker_id()
  Key,          \* the key of the allocator; the others have other users
  BlockSize,    \* FLIB_HEAP_BLOCK_SIZE, in units of the requests
  MaxCalls,     \* bound: calls of allocate between two free(key)
  MaxEntries,   \* bound: entries a thread comes to have by missed look-ups
  NULL

\* block_data.  start points `used' into `block', or is that much off null; end
\* points to the end of a block, or is null.
BlockData == [block : Blocks \cup {NULL}, used : Nat, end : Blocks \cup {NULL}]
NoBlock == [block |-> NULL, used |-> 0, end |-> NULL]

ASSUME AllocatorAssumption ==
  /\ BlockSize \in Nat \ {0}
  /\ MaxCalls \in Nat
  /\ MaxEntries \in Nat
  /\ Key \in Keys
  /\ NULL \notin Blocks \cup Threads

VARIABLES
  thread_blocks,   \* the entries of each thread's id, the oldest first
  modifying,       \* the threads that are inserting into thread_blocks
  damaged,         \* two insertions have met
  m_mutex,         \* the thread that holds it, or NULL
  pc,              \* where each thread is in allocate
  num,             \* argument of allocate
  cur_ptr,         \* the entry whose start the reference names, 0 for none yet
  block_end,       \* the entry whose end the reference names, 0 for none yet
  extents,         \* what has been handed out and not been freed
  calls,           \* calls of allocate since the allocator was constructed
  torn,            \* history: threads that have subtracted unrelated pointers
  retired          \* the key is freed and the allocator not yet constructed anew

mapVars   == <<thread_blocks, modifying, damaged>>
localVars == <<pc, num, cur_ptr, block_end>>
ownerVars == <<calls, retired>>
allocatorVars == <<vars, mapVars, m_mutex, localVars, extents, torn, ownerVars>>

\* A piece of memory, and the thread it has been handed out to.
Extent == [thread : Threads, block : Blocks \cup {NULL}, from : Nat, size : 1 .. BlockSize]

\* The five calls of operator[] in allocate, lines 55 to 57 and 60 to 61.
LookUps == {"reset", "reset_start", "reset_end", "start", "end"}

AllocatorPC == LookUps \cup {"idle", "count", "lock", "unlock", "space", "refill", "bump"}

\* Beyond the types: the references name entries that exist.
AllocatorTypeOK ==
  /\ TypeOK
  /\ thread_blocks \in [Threads -> Seq(BlockData)]
  /\ modifying \subseteq Threads
  /\ damaged \in BOOLEAN
  /\ m_mutex \in Threads \cup {NULL}
  /\ pc \in [Threads -> AllocatorPC]
  /\ num \in [Threads -> 1 .. BlockSize]
  /\ cur_ptr \in [Threads -> Nat]
  /\ block_end \in [Threads -> Nat]
  /\ extents \subseteq Extent
  /\ calls \in 0 .. MaxCalls
  /\ torn \subseteq Threads
  /\ retired \in BOOLEAN
  /\ \A t \in Threads :
       /\ pc[t] \in {"end", "space", "refill", "bump"} => cur_ptr[t] \in 1 .. Len(thread_blocks[t])
       /\ pc[t] \in {"space", "refill", "bump"} => block_end[t] \in 1 .. Len(thread_blocks[t])

AllocatorInit ==
  /\ Init
  /\ thread_blocks = [t \in Threads |-> <<>>]
  /\ modifying = {}
  /\ damaged = FALSE
  /\ m_mutex = NULL
  /\ pc = [t \in Threads |-> "idle"]
  /\ num = [t \in Threads |-> 1]
  /\ cur_ptr = [t \in Threads |-> 0]
  /\ block_end = [t \in Threads |-> 0]
  /\ extents = {}
  /\ calls = 0
  /\ torn = {}
  /\ retired = FALSE

Goto(t, l) == pc' = [pc EXCEPT ![t] = l]

\* A look-up of t may miss: there is no entry, another thread modifies the map
\* while t looks, or the map is damaged.
MayMiss(t) == thread_blocks[t] = <<>> \/ modifying \ {t} # {} \/ damaged

-----------------------------------------------------------------------------
(* allocate(n), called by thread t *)

Allocate(t, n) ==
  /\ pc[t] = "idle"
  /\ ~retired
  /\ calls < MaxCalls
  /\ calls' = calls + 1
  /\ num' = [num EXCEPT ![t] = n]
  /\ Goto(t, "count")
  /\ UNCHANGED <<vars, mapVars, m_mutex, cur_ptr, block_end, extents, torn, retired>>

\* thread_blocks.count(id) == 0
Count(t) ==
  /\ pc[t] = "count"
  /\ \/ thread_blocks[t] # <<>> /\ Goto(t, "start")
     \/ MayMiss(t) /\ Goto(t, "lock")
  /\ UNCHANGED <<vars, mapVars, m_mutex, num, cur_ptr, block_end, extents, torn, ownerVars>>

\* The lock_guard around the insertion ...
Lock(t) ==
  /\ pc[t] = "lock"
  /\ m_mutex = NULL
  /\ m_mutex' = t
  /\ Goto(t, "reset")
  /\ UNCHANGED <<vars, mapVars, num, cur_ptr, block_end, extents, torn, ownerVars>>

\* ... and the end of its scope.
Unlock(t) ==
  /\ pc[t] = "unlock"
  /\ m_mutex' = NULL
  /\ Goto(t, "start")
  /\ UNCHANGED <<vars, mapVars, num, cur_ptr, block_end, extents, torn, ownerVars>>

\* What the entry is after the look-up at l: = block_data(), start = nullptr,
\* end = nullptr, or what it was.
Written(l, e) ==
  CASE l = "reset"       -> NoBlock
    [] l = "reset_start" -> [e EXCEPT !.block = NULL, !.used = 0]
    [] l = "reset_end"   -> [e EXCEPT !.end = NULL]
    [] OTHER             -> e

AfterLookUp(l) ==
  CASE l = "reset"       -> "reset_start"
    [] l = "reset_start" -> "reset_end"
    [] l = "reset_end"   -> "unlock"
    [] l = "start"       -> "end"
    [] l = "end"         -> "space"

\* thread_blocks[id] is entry i: it is written, or a reference taken to it.
Use(t, i) ==
  /\ thread_blocks' = [thread_blocks EXCEPT ![t][i] = Written(pc[t], @)]
  /\ cur_ptr' = IF pc[t] = "start" THEN [cur_ptr EXCEPT ![t] = i] ELSE cur_ptr
  /\ block_end' = IF pc[t] = "end" THEN [block_end EXCEPT ![t] = i] ELSE block_end
  /\ Goto(t, AfterLookUp(pc[t]))
  /\ UNCHANGED <<vars, m_mutex, num, extents, torn, ownerVars>>

\* operator[] finds an entry, any of those there are.
Find(t) ==
  /\ pc[t] \in LookUps
  /\ t \notin modifying
  /\ \E i \in 1 .. Len(thread_blocks[t]) : Use(t, i)
  /\ UNCHANGED <<modifying, damaged>>

\* operator[] misses and begins to insert an entry with null pointers ...
BeginInsert(t) ==
  /\ pc[t] \in LookUps
  /\ t \notin modifying
  /\ MayMiss(t)
  /\ Len(thread_blocks[t]) < MaxEntries
  /\ thread_blocks' = [thread_blocks EXCEPT ![t] = Append(@, NoBlock)]
  /\ modifying' = modifying \cup {t}
  /\ damaged' = (damaged \/ modifying # {})
  /\ UNCHANGED <<vars, m_mutex, localVars, extents, torn, ownerVars>>

\* ... and returns the new entry.
EndInsert(t) ==
  /\ t \in modifying
  /\ Use(t, Len(thread_blocks[t]))
  /\ modifying' = modifying \ {t}
  /\ UNCHANGED damaged

\* Faulty comparison: any space at all will do.
AnySpace(c, e, n) == IF c.block = e /\ c.used = (IF e = NULL THEN 0 ELSE BlockSize) THEN {FALSE} ELSE {TRUE}

\* Whether (size_t)(block_end - cur_ptr) < n is false.  Past the end of the
\* block the difference wraps to a huge one, and pointers of different blocks,
\* or a null one and another, are that far apart in either order; only a
\* pointer that has left its block may lie just before the end of another.
Enough(c, e, n) ==
  LET rest == (IF e = NULL THEN 0 ELSE BlockSize) - c.used IN
  IF c.block = e THEN {rest < 0 \/ rest >= n}
  ELSE {TRUE} \cup (IF c.used > BlockSize THEN {FALSE} ELSE {})

\* The rest of the block is compared with the request.
Space(t) ==
  LET c == thread_blocks[t][cur_ptr[t]]
      e == thread_blocks[t][block_end[t]].end IN
  /\ pc[t] = "space"
  /\ \E enough \in Enough(c, e, num[t]) : Goto(t, IF enough THEN "bump" ELSE "refill")
  /\ torn' = IF c.block = e THEN torn ELSE torn \cup {t}
  /\ UNCHANGED <<vars, mapVars, m_mutex, num, cur_ptr, block_end, extents, ownerVars>>

\* The block alloc_block has just added to the key's.
NewBlock == allocated_blocks'[Key][Len(allocated_blocks'[Key])]

\* The entries s after the start of entry c and the end of entry d are set to
\* those of block b.
PointTo(s, c, d, b) ==
  [i \in 1 .. Len(s) |-> [block |-> IF i = c THEN b ELSE s[i].block,
                          used  |-> IF i = c THEN 0 ELSE s[i].used,
                          end   |-> IF i = d THEN b ELSE s[i].end]]

\* Faulty refill: block_end keeps its value.
RefillStartOnly(t) ==
  /\ pc[t] = "refill"
  /\ AllocBlock(Key)
  /\ thread_blocks' = [thread_blocks EXCEPT ![t] = PointTo(@, cur_ptr[t], 0, NewBlock)]
  /\ Goto(t, "bump")
  /\ UNCHANGED <<modifying, damaged, m_mutex, num, cur_ptr, block_end, extents, torn, ownerVars>>

\* cur_ptr = shared_heap().alloc_block(key); block_end = cur_ptr + BLOCK_SIZE
Refill(t) ==
  /\ pc[t] = "refill"
  /\ AllocBlock(Key)
  /\ thread_blocks' = [thread_blocks EXCEPT ![t] = PointTo(@, cur_ptr[t], block_end[t], NewBlock)]
  /\ Goto(t, "bump")
  /\ UNCHANGED <<modifying, damaged, m_mutex, num, cur_ptr, block_end, extents, torn, ownerVars>>

\* ptr = cur_ptr; cur_ptr += num; return ptr.  The references are gone.
Bump(t) ==
  LET c == thread_blocks[t][cur_ptr[t]] IN
  /\ pc[t] = "bump"
  /\ thread_blocks' = [thread_blocks EXCEPT ![t][cur_ptr[t]].used = @ + num[t]]
  /\ extents' = extents \cup {[thread |-> t, block |-> c.block, from |-> c.used, size |-> num[t]]}
  /\ cur_ptr' = [cur_ptr EXCEPT ![t] = 0]
  /\ block_end' = [block_end EXCEPT ![t] = 0]
  /\ Goto(t, "idle")
  /\ UNCHANGED <<vars, modifying, damaged, m_mutex, num, torn, ownerVars>>

-----------------------------------------------------------------------------
(* The owner of the allocator, and everybody else who uses the heap *)

\* Faulty owner: it does not wait for the threads that allocate.
FreeKeyEarly ==
  /\ ~retired
  /\ Free(Key)
  /\ extents' = {}
  /\ retired' = TRUE
  /\ UNCHANGED <<mapVars, m_mutex, localVars, torn, calls>>

\* shared_heap().free(key), when nobody uses the memory or is in allocate.
FreeKey ==
  /\ ~retired
  /\ \A t \in Threads : pc[t] = "idle"
  /\ Free(Key)
  /\ extents' = {}
  /\ retired' = TRUE
  /\ UNCHANGED <<mapVars, m_mutex, localVars, torn, calls>>

\* Faulty construction: thread_blocks survives.
ConstructKeepsBlocks ==
  /\ retired
  /\ retired' = FALSE
  /\ calls' = 0
  /\ UNCHANGED <<vars, mapVars, m_mutex, localVars, extents, torn>>

\* The destructor and the constructor of the allocator.
Construct ==
  /\ retired
  /\ ~destroyed
  /\ thread_blocks' = [t \in Threads |-> <<>>]
  /\ damaged' = FALSE
  /\ torn' = {}
  /\ retired' = FALSE
  /\ calls' = 0
  /\ UNCHANGED <<vars, modifying, m_mutex, localVars, extents>>

OthersUseHeap ==
  /\ \E k \in Keys \ {Key} : AllocBlock(k) \/ Free(k)
  /\ UNCHANGED <<mapVars, m_mutex, localVars, extents, torn, ownerVars>>

\* The program ends, and the destructor of the shared heap runs.
DestroyHeap ==
  /\ \A t \in Threads : pc[t] = "idle"
  /\ Destroy
  /\ extents' = {}
  /\ retired' = TRUE
  /\ UNCHANGED <<mapVars, m_mutex, localVars, torn, calls>>

ThreadStep(t) ==
  \/ \E n \in 1 .. BlockSize : Allocate(t, n)
  \/ Count(t) \/ Lock(t) \/ Find(t) \/ BeginInsert(t) \/ EndInsert(t) \/ Unlock(t)
  \/ Space(t) \/ Refill(t) \/ Bump(t)

AllocatorNext ==
  \/ \E t \in Threads : ThreadStep(t)
  \/ FreeKey
  \/ Construct
  \/ OthersUseHeap
  \/ DestroyHeap

AllocatorSpec == AllocatorInit /\ [][AllocatorNext]_allocatorVars

-----------------------------------------------------------------------------
(* Properties *)

\* Memory that is in use was handed out once: no two extents share a byte of a
\* block, and the block is not free or another key's, whatever the other users
\* of the heap do and however often the key has been freed before.  Missed
\* look-ups cost a block and no more, unless the two of one call lead to
\* pointers that do not belong together: only to a thread that has subtracted
\* such pointers can memory be given that sticks out of its block, or none.
ExtentsPrivate ==
  /\ \A x \in extents :
       /\ x.block # NULL => x.block \in Elements(allocated_blocks[Key])
       /\ x.thread \notin torn => x.block # NULL /\ x.from + x.size <= BlockSize
  /\ \A x, y \in extents :
       x # y /\ x.block = y.block /\ x.block # NULL =>
         x.from + x.size <= y.from \/ y.from + y.size <= x.from

\* No two threads cut from one block, nor one thread through two entries, and
\* while the allocator is in use every block it cuts from is the key's.
BlocksPrivate ==
  ~retired =>
    \A t, u \in Threads : \A i \in 1 .. Len(thread_blocks[t]), j \in 1 .. Len(thread_blocks[u]) :
      LET b == thread_blocks[t][i].block IN
      b # NULL => /\ b \in Elements(allocated_blocks[Key])
                  /\ b = thread_blocks[u][j].block => t = u /\ i = j

\* Every thread has its entry, with pointers into one block, and nobody has
\* gone astray so far.
Settled ==
  /\ modifying = {} /\ ~damaged /\ torn = {}
  /\ \A t \in Threads : Len(thread_blocks[t]) = 1 /\ thread_blocks[t][1].block = thread_blocks[t][1].end

\* The danger is in the first calls after the construction only: once every
\* thread has made its entry and all has gone well, it goes well, without any
\* lock, until the allocator is constructed anew.
SettledStays == [][Settled /\ ~retired => Settled']_allocatorVars

=============================================================================
