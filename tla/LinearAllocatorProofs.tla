------------------------- MODULE LinearAllocatorProofs -------------------------
(***************************************************************************)
(* Proofs about the allocator of a frame on top of the shared heap, for    *)
(* any threads, blocks, keys, sizes and numbers of entries: memory is      *)
(* handed out once and belongs to the allocator's key, a thread that has   *)
(* not subtracted unrelated pointers stays in its block, and an allocator  *)
(* that has settled stays so.                                              *)
(***************************************************************************)
EXTENDS LinearAllocator, TaggedHeapProofs

Entries(t) == 1 .. Len(thread_blocks[t])

\* A null start is exactly null, and another one is in its block or at its end.
EntryInBlock(e) == IF e.block = NULL THEN e.used = 0 ELSE e.used <= BlockSize

PointersInBlock ==
  \A t \in Threads \ torn : \A i \in Entries(t) : EntryInBlock(thread_blocks[t][i])

\* The pointer is advanced inside a block only.
BumpFits ==
  \A t \in Threads \ torn :
    pc[t] = "bump" =>
      LET c == thread_blocks[t][cur_ptr[t]] IN c.block # NULL /\ c.used + num[t] <= BlockSize

\* What was handed out of a block lies before the pointer into it.
BehindPointer ==
  \A x \in extents : \A t \in Threads : \A i \in Entries(t) :
    LET e == thread_blocks[t][i] IN
    e.block # NULL /\ e.block = x.block => x.from + x.size <= e.used

\* Between free(key) and the next construction nobody allocates.
RetiredIsQuiet == retired => extents = {} /\ \A t \in Threads : pc[t] = "idle"

\* A thread inserts at a look-up, and its newest entry is the one it inserts.
InsertPlaces == \A t \in modifying : pc[t] \in LookUps /\ Len(thread_blocks[t]) > 0

\* After the first of the three look-ups under the lock a thread has an entry;
\* if it has one only, that is the one to be reset.
ResetPlaces ==
  \A t \in Threads : pc[t] \in {"reset_start", "reset_end"} =>
    /\ Len(thread_blocks[t]) > 0
    /\ Len(thread_blocks[t]) = 1 =>
         t \notin modifying /\ thread_blocks[t][1].block = NULL /\ thread_blocks[t][1].end = NULL

LInv ==
  /\ HInv /\ AllocatorTypeOK
  /\ PointersInBlock /\ BumpFits /\ BehindPointer /\ RetiredIsQuiet /\ InsertPlaces /\ ResetPlaces
  /\ ExtentsPrivate /\ BlocksPrivate

-----------------------------------------------------------------------------
(* What a step does to the entries *)

\* One entry of one thread is replaced.
LEMMA EntryWritten ==
  ASSUME NEW tb \in [Threads -> Seq(BlockData)], NEW t \in Threads,
         NEW i \in 1 .. Len(tb[t]), NEW e \in BlockData
  PROVE  LET nb == [tb EXCEPT ![t] = [tb[t] EXCEPT ![i] = e]] IN
         /\ nb \in [Threads -> Seq(BlockData)]
         /\ \A u \in Threads : Len(nb[u]) = Len(tb[u])
         /\ \A u \in Threads : \A j \in 1 .. Len(tb[u]) :
              nb[u][j] = IF u = t /\ j = i THEN e ELSE tb[u][j]
<1> DEFINE s == [tb[t] EXCEPT ![i] = e]
<1>1. /\ s \in Seq(BlockData) /\ Len(s) = Len(tb[t])
      /\ \A j \in 1 .. Len(tb[t]) : s[j] = IF j = i THEN e ELSE tb[t][j]
  BY ExceptSeq
<1> HIDE DEF s
<1>2. [tb EXCEPT ![t] = s] \in [Threads -> Seq(BlockData)]
  BY <1>1
<1>3. \A u \in Threads : [tb EXCEPT ![t] = s][u] = IF u = t THEN s ELSE tb[u]
  OBVIOUS
<1> QED BY <1>1, <1>2, <1>3 DEF s

\* One entry with null pointers is added.
LEMMA EntryAdded ==
  ASSUME NEW tb \in [Threads -> Seq(BlockData)], NEW t \in Threads
  PROVE  LET nb == [tb EXCEPT ![t] = Append(@, NoBlock)] IN
         /\ nb \in [Threads -> Seq(BlockData)]
         /\ \A u \in Threads : Len(nb[u]) = IF u = t THEN Len(tb[u]) + 1 ELSE Len(tb[u])
         /\ \A u \in Threads : \A j \in 1 .. Len(tb[u]) : nb[u][j] = tb[u][j]
         /\ nb[t][Len(tb[t]) + 1] = NoBlock
<1> DEFINE s == Append(tb[t], NoBlock)
<1>0. NoBlock \in BlockData
  BY DEF NoBlock, BlockData
<1>1. /\ s \in Seq(BlockData) /\ Len(s) = Len(tb[t]) + 1
      /\ \A j \in 1 .. Len(tb[t]) : s[j] = tb[t][j]
      /\ s[Len(tb[t]) + 1] = NoBlock
  BY <1>0, AppendProperties
<1> HIDE DEF s
<1>2. [tb EXCEPT ![t] = s] \in [Threads -> Seq(BlockData)]
  BY <1>1
<1>3. \A u \in Threads : [tb EXCEPT ![t] = s][u] = IF u = t THEN s ELSE tb[u]
  OBVIOUS
<1> QED BY <1>1, <1>2, <1>3 DEF s

\* Every start that points into a block has been there before.
KeepsStarts ==
  \A u \in Threads : \A i \in 1 .. Len(thread_blocks'[u]) :
    thread_blocks'[u][i].block # NULL =>
      /\ i \in 1 .. Len(thread_blocks[u])
      /\ thread_blocks'[u][i].block = thread_blocks[u][i].block
      /\ thread_blocks'[u][i].used = thread_blocks[u][i].used

\* A step that moves no start disturbs nothing that was handed out.
LEMMA KeepInv ==
  ASSUME LInv, ~retired, KeepsStarts, UNCHANGED <<vars, extents, retired>>, torn \subseteq torn'
  PROVE  HInv' /\ BehindPointer' /\ RetiredIsQuiet' /\ ExtentsPrivate' /\ BlocksPrivate'
<1>1. HInv'
  BY HNextInv DEF LInv
<1>2. BehindPointer'
  BY DEF LInv, BehindPointer, Entries, KeepsStarts
<1>3. BlocksPrivate'
  <2> SUFFICES ASSUME NEW t \in Threads, NEW u \in Threads,
                      NEW i \in 1 .. Len(thread_blocks'[t]), NEW j \in 1 .. Len(thread_blocks'[u]),
                      thread_blocks'[t][i].block # NULL
               PROVE  /\ thread_blocks'[t][i].block \in Elements(allocated_blocks'[Key])
                      /\ thread_blocks'[t][i].block = thread_blocks'[u][j].block => t = u /\ i = j
    BY DEF BlocksPrivate
  <2>1. i \in 1 .. Len(thread_blocks[t]) /\ thread_blocks'[t][i].block = thread_blocks[t][i].block
    BY DEF KeepsStarts
  <2>2. thread_blocks'[t][i].block \in Elements(allocated_blocks'[Key])
    BY <2>1 DEF LInv, BlocksPrivate, vars
  <2>3. ASSUME thread_blocks'[t][i].block = thread_blocks'[u][j].block PROVE t = u /\ i = j
    <3>1. j \in 1 .. Len(thread_blocks[u]) /\ thread_blocks'[u][j].block = thread_blocks[u][j].block
      BY <2>3 DEF KeepsStarts
    <3>2. \A k \in 1 .. Len(thread_blocks[t]), l \in 1 .. Len(thread_blocks[u]) :
            thread_blocks[t][k].block # NULL /\ thread_blocks[t][k].block = thread_blocks[u][l].block
              => t = u /\ k = l
      BY DEF LInv, BlocksPrivate
    <3> QED BY <2>1, <2>3, <3>1, <3>2
  <2> QED BY <2>2, <2>3
<1>4. ExtentsPrivate'
  BY DEF LInv, ExtentsPrivate, vars
<1> QED BY <1>1, <1>2, <1>3, <1>4 DEF RetiredIsQuiet

LEMMA AllocatorInitInv == AllocatorInit => LInv
<1> SUFFICES ASSUME AllocatorInit PROVE LInv
  OBVIOUS
<1>1. HInv
  BY HeapInitInv DEF AllocatorInit
<1>2. AllocatorTypeOK
  <2>1. TypeOK
    BY <1>1 DEF HInv
  <2>2. 1 \in 1 .. BlockSize /\ 0 \in 0 .. MaxCalls
    BY AllocatorAssumption
  <2>3. thread_blocks \in [Threads -> Seq(BlockData)]
    BY EmptySeq DEF AllocatorInit
  <2>4. pc \in [Threads -> AllocatorPC] /\ \A t \in Threads : pc[t] = "idle"
    BY DEF AllocatorInit, AllocatorPC
  <2> QED BY <2>1, <2>2, <2>3, <2>4 DEF AllocatorInit, AllocatorTypeOK
<1>3. \A t \in Threads : Entries(t) = {}
  BY EmptySeq DEF AllocatorInit, Entries
<1>4. PointersInBlock /\ BumpFits /\ BehindPointer /\ RetiredIsQuiet /\ InsertPlaces /\ ResetPlaces
  BY <1>3 DEF AllocatorInit, PointersInBlock, BumpFits, BehindPointer, RetiredIsQuiet, InsertPlaces,
              ResetPlaces
<1>5. ExtentsPrivate /\ BlocksPrivate
  BY <1>3 DEF AllocatorInit, ExtentsPrivate, BlocksPrivate, Entries
<1> QED BY <1>1, <1>2, <1>4, <1>5 DEF LInv

-----------------------------------------------------------------------------
(* Steps that do not touch the entries *)

\* allocate is entered, the test for an entry, the lock and the comparison.
LEMMA WalkInv ==
  ASSUME LInv, NEW t \in Threads,
         (\E n \in 1 .. BlockSize : Allocate(t, n)) \/ Count(t) \/ Lock(t) \/ Unlock(t) \/ Space(t)
  PROVE  LInv'
<1> USE AllocatorAssumption
<1>0. /\ thread_blocks \in [Threads -> Seq(BlockData)]
      /\ pc \in [Threads -> AllocatorPC]
      /\ num \in [Threads -> 1 .. BlockSize]
      /\ ~retired
  BY DEF LInv, AllocatorTypeOK, RetiredIsQuiet, Allocate, Count, Lock, Unlock, Space
<1>1. UNCHANGED <<vars, mapVars, cur_ptr, block_end, extents, retired>> /\ torn \subseteq torn'
  BY DEF Allocate, Count, Lock, Unlock, Space, ownerVars
<1>2. HInv' /\ BehindPointer' /\ RetiredIsQuiet' /\ ExtentsPrivate' /\ BlocksPrivate'
  <2>1. KeepsStarts
    BY <1>1 DEF KeepsStarts, mapVars
  <2> QED BY <1>0, <1>1, <2>1, KeepInv
<1>3. PointersInBlock'
  BY <1>1 DEF LInv, PointersInBlock, Entries, mapVars
<1>4. TypeOK'
  BY <1>2 DEF HInv
<1>5. PICK l \in {"count", "start", "lock", "reset", "bump", "refill"} : pc' = [pc EXCEPT ![t] = l]
  BY DEF Allocate, Count, Lock, Unlock, Space, Goto
<1>6. /\ l \in {"bump", "refill"} => pc[t] = "space"
      /\ t \notin modifying
  BY <1>0, <1>5 DEF Allocate, Count, Lock, Unlock, Space, Goto, LInv, InsertPlaces, LookUps
<1>7. AllocatorTypeOK'
  <2>0. m_mutex \in Threads \cup {NULL} /\ calls \in 0 .. MaxCalls /\ torn \subseteq Threads
    BY DEF LInv, AllocatorTypeOK
  <2>m. m_mutex' \in {m_mutex, t, NULL}
    BY DEF Allocate, Count, Lock, Unlock, Space
  <2>n. num' = num \/ \E n \in 1 .. BlockSize : num' = [num EXCEPT ![t] = n]
    BY DEF Allocate, Count, Lock, Unlock, Space
  <2>o. torn' = torn \/ torn' = torn \cup {t}
    BY DEF Allocate, Count, Lock, Unlock, Space
  <2>1. num' \in [Threads -> 1 .. BlockSize]
    BY <1>0, <2>n
  <2>2. m_mutex' \in Threads \cup {NULL} /\ torn' \subseteq Threads
    BY <2>0, <2>m, <2>o
  <2>3. calls' \in 0 .. MaxCalls
    <3>1. calls' = calls \/ (calls < MaxCalls /\ calls' = calls + 1)
      BY DEF Allocate, Count, Lock, Unlock, Space, ownerVars
    <3> QED BY <2>0, <3>1
  <2>4. pc' \in [Threads -> AllocatorPC]
    BY <1>0, <1>5 DEF AllocatorPC, LookUps
  <2>5. \A u \in Threads :
          /\ pc'[u] \in {"end", "space", "refill", "bump"} => pc[u] \in {"end", "space", "refill", "bump"}
          /\ pc'[u] \in {"space", "refill", "bump"} => pc[u] \in {"space", "refill", "bump"}
    BY <1>0, <1>5, <1>6
  <2> QED BY <1>1, <1>4, <2>1, <2>2, <2>3, <2>4, <2>5 DEF LInv, AllocatorTypeOK, mapVars
<1>8. BumpFits'
  <2>1. \A u \in Threads \ {t} : pc'[u] = pc[u] /\ num'[u] = num[u]
    BY <1>0, <1>5 DEF Allocate, Count, Lock, Unlock, Space, ownerVars
  <2>2. ASSUME l = "bump", t \notin torn'
        PROVE  LET c == thread_blocks[t][cur_ptr[t]] IN
               c.block # NULL /\ c.used + num'[t] <= BlockSize
    <3> DEFINE c == thread_blocks[t][cur_ptr[t]]
               e == thread_blocks[t][block_end[t]].end
    <3>1. Space(t)
      BY <1>0, <1>5, <2>2 DEF Allocate, Count, Lock, Unlock, Goto
    <3>2. pc[t] = "space" /\ num' = num /\ c.block = e /\ t \notin torn
      BY <2>2, <3>1 DEF Space
    <3>3. TRUE \in Enough(c, e, num[t])
      BY <1>0, <1>5, <2>2, <3>1 DEF Space, Goto
    <3>4. cur_ptr[t] \in Entries(t) /\ c \in BlockData /\ EntryInBlock(c)
      BY <1>0, <3>2 DEF LInv, AllocatorTypeOK, Entries, PointersInBlock
    <3>5. c.used \in Nat /\ num[t] \in 1 .. BlockSize
      BY <1>0, <3>4 DEF BlockData
    <3> HIDE DEF c, e
    <3>6. LET rest == (IF e = NULL THEN 0 ELSE BlockSize) - c.used IN rest < 0 \/ rest >= num[t]
      BY <3>2, <3>3 DEF Enough
    <3>7. c.block # NULL /\ c.used + num[t] <= BlockSize
      BY <3>2, <3>4, <3>5, <3>6 DEF EntryInBlock
    <3> QED BY <3>2, <3>7 DEF c
  <2>3. pc'[t] = l
    BY <1>0, <1>5
  <2> QED BY <1>1, <2>1, <2>2, <2>3 DEF LInv, BumpFits, mapVars
<1>9. InsertPlaces' /\ ResetPlaces'
  BY <1>0, <1>1, <1>5, <1>6 DEF LInv, InsertPlaces, ResetPlaces, mapVars
<1> QED BY <1>2, <1>3, <1>7, <1>8, <1>9 DEF LInv

-----------------------------------------------------------------------------
(* The look-ups *)

\* What a look-up does to the entry it finds.
LEMMA WrittenEntry ==
  ASSUME NEW l \in LookUps, NEW old \in BlockData
  PROVE  LET e == Written(l, old) IN
         /\ e \in BlockData
         /\ \/ e.block = NULL /\ e.used = 0
            \/ e.block = old.block /\ e.used = old.used
         /\ l = "reset" \/ (old.block = NULL /\ old.end = NULL) => e.block = NULL /\ e.end = NULL
         /\ l \in {"start", "end"} => e = old
<1>1. CASE l = "reset"
  BY <1>1 DEF Written, NoBlock, BlockData
<1>2. CASE l = "reset_start"
  BY <1>2 DEF Written, BlockData
<1>3. CASE l = "reset_end"
  BY <1>3 DEF Written, BlockData
<1>4. CASE l \in {"start", "end"}
  BY <1>4 DEF Written
<1> QED BY <1>1, <1>2, <1>3, <1>4 DEF LookUps

\* operator[] returns entry i, which is there or has just been inserted.
LEMMA UseInv ==
  ASSUME LInv, NEW t \in Threads, pc[t] \in LookUps, NEW i \in Entries(t), Use(t, i),
         UNCHANGED damaged,
         \/ t \notin modifying /\ modifying' = modifying
         \/ t \in modifying /\ modifying' = modifying \ {t}
  PROVE  LInv'
<1> DEFINE tb == thread_blocks
           e == Written(pc[t], tb[t][i])
<1>0. /\ tb \in [Threads -> Seq(BlockData)]
      /\ pc \in [Threads -> AllocatorPC]
      /\ cur_ptr \in [Threads -> Nat] /\ block_end \in [Threads -> Nat]
      /\ i \in 1 .. Len(tb[t]) /\ Len(tb[t]) \in Nat
      /\ pc[t] # "idle" /\ ~retired
  BY DEF LInv, AllocatorTypeOK, RetiredIsQuiet, Entries, LookUps
<1>1. tb[t][i] \in BlockData
  BY <1>0
<1>2. /\ e \in BlockData
      /\ \/ e.block = NULL /\ e.used = 0
         \/ e.block = tb[t][i].block /\ e.used = tb[t][i].used
      /\ pc[t] = "reset" \/ (tb[t][i].block = NULL /\ tb[t][i].end = NULL) => e.block = NULL /\ e.end = NULL
      /\ pc[t] \in {"start", "end"} => e = tb[t][i]
  BY <1>1, WrittenEntry
<1>3. tb' = [tb EXCEPT ![t] = [tb[t] EXCEPT ![i] = e]]
  BY DEF Use
<1>4. /\ UNCHANGED <<vars, m_mutex, num, extents, torn, calls, retired>>
      /\ pc' = [pc EXCEPT ![t] = AfterLookUp(pc[t])]
      /\ cur_ptr' = IF pc[t] = "start" THEN [cur_ptr EXCEPT ![t] = i] ELSE cur_ptr
      /\ block_end' = IF pc[t] = "end" THEN [block_end EXCEPT ![t] = i] ELSE block_end
  BY DEF Use, Goto, ownerVars
<1> HIDE DEF e
<1>5. /\ tb' \in [Threads -> Seq(BlockData)]
      /\ \A u \in Threads : Len(tb'[u]) = Len(tb[u])
      /\ \A u \in Threads : \A j \in 1 .. Len(tb[u]) :
           tb'[u][j] = IF u = t /\ j = i THEN e ELSE tb[u][j]
  BY <1>0, <1>2, <1>3, EntryWritten
<1> HIDE DEF tb
<1>6. KeepsStarts
  BY <1>2, <1>5 DEF KeepsStarts, tb
<1>7. HInv' /\ BehindPointer' /\ RetiredIsQuiet' /\ ExtentsPrivate' /\ BlocksPrivate'
  BY <1>0, <1>4, <1>6, KeepInv
<1>8. PointersInBlock'
  <2> SUFFICES ASSUME NEW u \in Threads \ torn, NEW j \in 1 .. Len(tb[u]) PROVE EntryInBlock(tb'[u][j])
    BY <1>4, <1>5 DEF PointersInBlock, Entries, tb
  <2>1. EntryInBlock(tb[u][j])
    BY DEF LInv, PointersInBlock, Entries, tb
  <2> QED BY <1>2, <1>5, <2>1 DEF EntryInBlock
<1>9. /\ pc'[t] = AfterLookUp(pc[t])
      /\ \A u \in Threads \ {t} : pc'[u] = pc[u]
      /\ pc'[t] \in {"reset_start", "reset_end", "unlock", "end", "space"}
      /\ pc'[t] = "reset_start" => pc[t] = "reset"
      /\ pc'[t] = "reset_end" => pc[t] = "reset_start"
      /\ pc'[t] = "end" => pc[t] = "start"
      /\ pc'[t] = "space" => pc[t] = "end"
  BY <1>0, <1>4 DEF LookUps, AfterLookUp
<1>10. AllocatorTypeOK'
  <2>1. TypeOK'
    BY <1>7 DEF HInv
  <2>2. pc' \in [Threads -> AllocatorPC]
    BY <1>0, <1>4, <1>9 DEF AllocatorPC, LookUps
  <2>3. cur_ptr' \in [Threads -> Nat] /\ block_end' \in [Threads -> Nat]
    BY <1>0, <1>4
  <2>4. modifying' \subseteq Threads
    BY DEF LInv, AllocatorTypeOK
  <2>5. \A u \in Threads : pc'[u] \in {"end", "space", "refill", "bump"} => cur_ptr'[u] \in 1 .. Len(tb'[u])
    <3>1. \A u \in Threads : pc[u] \in {"end", "space", "refill", "bump"} => cur_ptr[u] \in 1 .. Len(tb[u])
      BY DEF LInv, AllocatorTypeOK, tb
    <3>2. \A u \in Threads \ {t} : cur_ptr'[u] = cur_ptr[u]
      BY <1>0, <1>4
    <3>3. pc[t] = "start" => cur_ptr'[t] = i
      BY <1>0, <1>4
    <3>4. pc[t] = "end" => cur_ptr'[t] = cur_ptr[t]
      BY <1>4
    <3> QED BY <1>0, <1>5, <1>9, <3>1, <3>2, <3>3, <3>4
  <2>6. \A u \in Threads : pc'[u] \in {"space", "refill", "bump"} => block_end'[u] \in 1 .. Len(tb'[u])
    <3>1. \A u \in Threads : pc[u] \in {"space", "refill", "bump"} => block_end[u] \in 1 .. Len(tb[u])
      BY DEF LInv, AllocatorTypeOK, tb
    <3>2. \A u \in Threads \ {t} : block_end'[u] = block_end[u]
      BY <1>0, <1>4
    <3>3. pc[t] = "end" => block_end'[t] = i
      BY <1>0, <1>4
    <3> QED BY <1>0, <1>5, <1>9, <3>1, <3>2, <3>3
  <2>7. tb' \in [Threads -> Seq(BlockData)]
    BY <1>5
  <2> QED BY <1>4, <2>1, <2>2, <2>3, <2>4, <2>5, <2>6, <2>7 DEF LInv, AllocatorTypeOK, tb
<1>11. BumpFits'
  <2> SUFFICES ASSUME NEW u \in Threads \ torn, pc'[u] = "bump"
               PROVE  tb'[u][cur_ptr'[u]].block # NULL /\ tb'[u][cur_ptr'[u]].used + num[u] <= BlockSize
    BY <1>4 DEF BumpFits, tb
  <2>1. u # t /\ pc[u] = "bump"
    BY <1>9
  <2>2. cur_ptr'[u] = cur_ptr[u] /\ cur_ptr[u] \in 1 .. Len(tb[u])
    BY <1>0, <1>4, <2>1 DEF LInv, AllocatorTypeOK, tb
  <2>3. tb'[u][cur_ptr'[u]] = tb[u][cur_ptr[u]]
    BY <1>5, <2>1, <2>2
  <2> QED BY <2>1, <2>3 DEF LInv, BumpFits, tb
<1>12. InsertPlaces'
  BY <1>5, <1>9 DEF LInv, AllocatorTypeOK, InsertPlaces, tb
<1>13. ResetPlaces'
  <2> SUFFICES ASSUME NEW u \in Threads, pc'[u] \in {"reset_start", "reset_end"}
               PROVE  /\ Len(tb'[u]) > 0
                      /\ Len(tb'[u]) = 1 => u \notin modifying' /\ tb'[u][1].block = NULL /\ tb'[u][1].end = NULL
    BY DEF ResetPlaces, tb
  <2>1. CASE u # t
    <3>1. /\ Len(tb[u]) > 0
          /\ Len(tb[u]) = 1 => u \notin modifying /\ tb[u][1].block = NULL /\ tb[u][1].end = NULL
      BY <1>9, <2>1 DEF LInv, ResetPlaces, tb
    <3> QED BY <1>5, <2>1, <3>1
  <2>2. CASE u = t
    <3>1. t \notin modifying'
      OBVIOUS
    <3>2. pc[t] = "reset_start" /\ Len(tb[t]) = 1 => tb[t][1].block = NULL /\ tb[t][1].end = NULL
      BY DEF LInv, ResetPlaces, tb
    <3>3. Len(tb[t]) = 1 => e.block = NULL /\ e.end = NULL
      BY <1>0, <1>2, <1>9, <2>2, <3>2
    <3>4. Len(tb[t]) = 1 => i = 1 /\ tb'[t][1] = e
      <4>1. Len(tb[t]) = 1 => i = 1
        BY <1>0
      <4> QED BY <1>0, <1>5, <4>1
    <3>5. Len(tb'[t]) = Len(tb[t]) /\ Len(tb[t]) > 0
      BY <1>0, <1>5
    <3> QED BY <2>2, <3>1, <3>3, <3>4, <3>5
  <2> QED BY <2>1, <2>2
<1> QED BY <1>7, <1>8, <1>10, <1>11, <1>12, <1>13 DEF LInv

LEMMA BeginInsertInv == ASSUME LInv, NEW t \in Threads, BeginInsert(t) PROVE LInv'
<1> DEFINE tb == thread_blocks
<1>0. /\ tb \in [Threads -> Seq(BlockData)]
      /\ Len(tb[t]) \in Nat
      /\ pc[t] \in LookUps /\ pc[t] # "idle" /\ t \notin modifying /\ ~retired
  BY DEF LInv, AllocatorTypeOK, RetiredIsQuiet, LookUps, BeginInsert
<1>1. /\ tb' = [tb EXCEPT ![t] = Append(@, NoBlock)]
      /\ modifying' = modifying \cup {t} /\ damaged' \in BOOLEAN
      /\ UNCHANGED <<vars, m_mutex, pc, num, cur_ptr, block_end, extents, torn, calls, retired>>
  BY DEF BeginInsert, localVars, ownerVars, LInv, AllocatorTypeOK
<1>2. /\ tb' \in [Threads -> Seq(BlockData)]
      /\ \A u \in Threads : Len(tb'[u]) = IF u = t THEN Len(tb[u]) + 1 ELSE Len(tb[u])
      /\ \A u \in Threads : \A j \in 1 .. Len(tb[u]) : tb'[u][j] = tb[u][j]
      /\ tb'[t][Len(tb[t]) + 1] = NoBlock
  BY <1>0, <1>1, EntryAdded
<1> HIDE DEF tb
<1>3. \A u \in Threads : \A j \in 1 .. Len(tb'[u]) :
        \/ j \in 1 .. Len(tb[u]) /\ tb'[u][j] = tb[u][j]
        \/ u = t /\ j = Len(tb[t]) + 1 /\ tb'[u][j] = NoBlock
  <2> SUFFICES ASSUME NEW u \in Threads, NEW j \in 1 .. Len(tb'[u])
               PROVE  \/ j \in 1 .. Len(tb[u]) /\ tb'[u][j] = tb[u][j]
                      \/ u = t /\ j = Len(tb[t]) + 1 /\ tb'[u][j] = NoBlock
    OBVIOUS
  <2> QED BY <1>0, <1>2
<1>4. KeepsStarts
  BY <1>3 DEF KeepsStarts, NoBlock, tb
<1>5. HInv' /\ BehindPointer' /\ RetiredIsQuiet' /\ ExtentsPrivate' /\ BlocksPrivate'
  BY <1>0, <1>1, <1>4, KeepInv
<1>6. PointersInBlock'
  <2> SUFFICES ASSUME NEW u \in Threads \ torn, NEW j \in 1 .. Len(tb'[u]) PROVE EntryInBlock(tb'[u][j])
    BY <1>1 DEF PointersInBlock, Entries, tb
  <2>1. j \in 1 .. Len(tb[u]) => EntryInBlock(tb[u][j])
    BY DEF LInv, PointersInBlock, Entries, tb
  <2> QED BY <1>3, <2>1 DEF EntryInBlock, NoBlock
<1>7. \A u \in Threads : 1 .. Len(tb[u]) \subseteq 1 .. Len(tb'[u])
  BY <1>0, <1>2
<1>8. AllocatorTypeOK'
  <2>1. TypeOK'
    BY <1>5 DEF HInv
  <2> QED BY <1>1, <1>2, <1>7, <2>1 DEF LInv, AllocatorTypeOK, tb
<1>9. BumpFits'
  BY <1>1, <1>2 DEF LInv, AllocatorTypeOK, BumpFits, tb
<1>10. InsertPlaces'
  BY <1>0, <1>1, <1>2 DEF LInv, InsertPlaces, tb
<1>11. ResetPlaces'
  <2> SUFFICES ASSUME NEW u \in Threads, pc[u] \in {"reset_start", "reset_end"}
               PROVE  /\ Len(tb'[u]) > 0
                      /\ Len(tb'[u]) = 1 => u \notin modifying' /\ tb'[u][1].block = NULL /\ tb'[u][1].end = NULL
    BY <1>1 DEF ResetPlaces, tb
  <2>1. /\ Len(tb[u]) > 0
        /\ Len(tb[u]) = 1 => u \notin modifying /\ tb[u][1].block = NULL /\ tb[u][1].end = NULL
    BY DEF LInv, ResetPlaces, tb
  <2>2. CASE u = t
    BY <1>0, <1>2, <2>1, <2>2
  <2>3. CASE u # t
    BY <1>1, <1>2, <2>1, <2>3
  <2> QED BY <2>2, <2>3
<1> QED BY <1>5, <1>6, <1>8, <1>9, <1>10, <1>11 DEF LInv

LEMMA LookUpInv ==
  ASSUME LInv, NEW t \in Threads, Find(t) \/ BeginInsert(t) \/ EndInsert(t) PROVE LInv'
<1>1. CASE Find(t)
  BY <1>1, UseInv DEF Find, Entries
<1>2. CASE BeginInsert(t)
  BY <1>2, BeginInsertInv
<1>3. CASE EndInsert(t)
  <2>1. pc[t] \in LookUps /\ Len(thread_blocks[t]) \in Entries(t)
    BY <1>3 DEF EndInsert, LInv, InsertPlaces, AllocatorTypeOK, Entries
  <2> QED BY <1>3, <2>1, UseInv DEF EndInsert
<1> QED BY <1>1, <1>2, <1>3

-----------------------------------------------------------------------------
(* Steps that use the heap or hand out memory *)

LEMMA FunctionIsSeq ==
  ASSUME NEW S, NEW n \in Nat, NEW f \in [1 .. n -> S]
  PROVE  f \in Seq(S) /\ Len(f) = n
<1>1. f \in Seq(S)
  BY SeqDef
<1>2. DOMAIN f = 1 .. n /\ DOMAIN f = 1 .. Len(f) /\ Len(f) \in Nat
  BY <1>1, LenProperties
<1> QED BY <1>1, <1>2

\* The start of entry c and the end of entry d point to a new block.
LEMMA EntryRefilled ==
  ASSUME NEW tb \in [Threads -> Seq(BlockData)], NEW t \in Threads, NEW b \in Blocks,
         NEW c \in 1 .. Len(tb[t]), NEW d \in 1 .. Len(tb[t])
  PROVE  LET nb == [tb EXCEPT ![t] = PointTo(tb[t], c, d, b)] IN
         /\ nb \in [Threads -> Seq(BlockData)]
         /\ \A u \in Threads : Len(nb[u]) = Len(tb[u])
         /\ \A u \in Threads \ {t} : nb[u] = tb[u]
         /\ \A j \in 1 .. Len(tb[t]) :
              /\ nb[t][j].block = IF j = c THEN b ELSE tb[t][j].block
              /\ nb[t][j].used = IF j = c THEN 0 ELSE tb[t][j].used
              /\ nb[t][j].end = IF j = d THEN b ELSE tb[t][j].end
<1> DEFINE s == tb[t]
           e(j) == [block |-> IF j = c THEN b ELSE s[j].block,
                    used  |-> IF j = c THEN 0 ELSE s[j].used,
                    end   |-> IF j = d THEN b ELSE s[j].end]
           r == PointTo(s, c, d, b)
<1>1. s \in Seq(BlockData) /\ Len(s) \in Nat
  OBVIOUS
<1>2. \A j \in 1 .. Len(s) : e(j) \in BlockData
  <2> SUFFICES ASSUME NEW j \in 1 .. Len(s) PROVE e(j) \in BlockData
    OBVIOUS
  <2>1. s[j] \in BlockData
    BY <1>1
  <2> QED BY <2>1 DEF BlockData
<1>3. r = [j \in 1 .. Len(s) |-> e(j)]
  BY DEF PointTo
<1> HIDE DEF s, r
<1>4. /\ r \in Seq(BlockData) /\ Len(r) = Len(s)
      /\ \A j \in 1 .. Len(s) : r[j] = e(j)
  <2> HIDE DEF e
  <2>1. r \in [1 .. Len(s) -> BlockData]
    BY <1>2, <1>3, Zenon
  <2>2. r \in Seq(BlockData) /\ Len(r) = Len(s)
    BY <1>1, <2>1, FunctionIsSeq
  <2> QED BY <1>3, <2>2
<1>5. [tb EXCEPT ![t] = r] \in [Threads -> Seq(BlockData)]
  BY <1>4
<1>6. \A u \in Threads : [tb EXCEPT ![t] = r][u] = IF u = t THEN r ELSE tb[u]
  OBVIOUS
<1> QED BY <1>4, <1>5, <1>6 DEF s, r

LEMMA RefillInv == ASSUME LInv, NEW t \in Threads, Refill(t) PROVE LInv'
<1> DEFINE tb == thread_blocks
           ab == allocated_blocks
           c == cur_ptr[t]
           d == block_end[t]
<1>0. /\ tb \in [Threads -> Seq(BlockData)]
      /\ pc \in [Threads -> AllocatorPC] /\ num \in [Threads -> 1 .. BlockSize]
      /\ c \in 1 .. Len(tb[t]) /\ d \in 1 .. Len(tb[t])
      /\ ab \in [Keys -> Seq(Blocks)]
      /\ pc[t] = "refill" /\ t \notin modifying /\ ~retired
  BY DEF LInv, HInv, TypeOK, AllocatorTypeOK, RetiredIsQuiet, InsertPlaces, LookUps, Refill
<1>1. PICK b \in Blocks, rest \in Seq(Blocks) : Grant(Key, b, rest) /\ b \notin InUse
  BY AllocPicks, AllocatorAssumption DEF LInv, Refill
<1>2. /\ ab'[Key] = Append(ab[Key], b)
      /\ Elements(ab'[Key]) = Elements(ab[Key]) \cup {b}
  BY <1>0, <1>1, AppendElements, AllocatorAssumption DEF Grant
<1>3. NewBlock = b
  BY <1>0, <1>2, AppendProperties, AllocatorAssumption DEF NewBlock
<1>4. /\ tb' = [tb EXCEPT ![t] = PointTo(tb[t], c, d, b)]
      /\ pc' = [pc EXCEPT ![t] = "bump"]
      /\ UNCHANGED <<modifying, damaged, m_mutex, num, cur_ptr, block_end, extents, torn, calls, retired>>
  BY <1>3 DEF Refill, Goto, ownerVars
<1>5. /\ tb' \in [Threads -> Seq(BlockData)]
      /\ \A u \in Threads : Len(tb'[u]) = Len(tb[u])
      /\ \A u \in Threads \ {t} : tb'[u] = tb[u]
      /\ \A j \in 1 .. Len(tb[t]) :
           /\ tb'[t][j].block = IF j = c THEN b ELSE tb[t][j].block
           /\ tb'[t][j].used = IF j = c THEN 0 ELSE tb[t][j].used
  <2> DEFINE nb == [tb EXCEPT ![t] = PointTo(tb[t], c, d, b)]
  <2>1. /\ nb \in [Threads -> Seq(BlockData)]
        /\ \A u \in Threads : Len(nb[u]) = Len(tb[u])
        /\ \A u \in Threads \ {t} : nb[u] = tb[u]
        /\ \A j \in 1 .. Len(tb[t]) :
             /\ nb[t][j].block = IF j = c THEN b ELSE tb[t][j].block
             /\ nb[t][j].used = IF j = c THEN 0 ELSE tb[t][j].used
    <3>1. tb \in [Threads -> Seq(BlockData)] /\ c \in 1 .. Len(tb[t]) /\ d \in 1 .. Len(tb[t])
      BY <1>0
    <3> HIDE DEF tb, c, d
    <3> QED BY <3>1, EntryRefilled
  <2> HIDE DEF nb
  <2>2. tb' = nb
    BY <1>4 DEF nb
  <2> QED BY <2>1, <2>2
<1>6. \A u \in Threads : \A j \in 1 .. Len(tb[u]) :
        /\ u = t /\ j = c => tb'[u][j].block = b /\ tb'[u][j].used = 0
        /\ u # t \/ j # c => tb'[u][j].block = tb[u][j].block /\ tb'[u][j].used = tb[u][j].used
  BY <1>5
<1>7. /\ b # NULL /\ b \notin Elements(ab[Key])
      /\ \A u \in Threads : \A j \in 1 .. Len(tb[u]) :
           tb[u][j].block # b /\ (tb[u][j].block # NULL => tb[u][j].block \in Elements(ab[Key]))
      /\ \A x \in extents : x.block # b
  <2>1. b # NULL /\ b \notin Elements(ab[Key])
    BY <1>1, AllocatorAssumption DEF InUse
  <2>2. \A u \in Threads : \A j \in 1 .. Len(tb[u]) :
          tb[u][j].block # NULL => tb[u][j].block \in Elements(ab[Key])
    BY <1>0 DEF LInv, BlocksPrivate
  <2>3. \A x \in extents : x.block # NULL => x.block \in Elements(ab[Key])
    BY DEF LInv, ExtentsPrivate
  <2> QED BY <2>1, <2>2, <2>3
<1>8. HInv'
  BY AllocInv, AllocatorAssumption DEF LInv, Refill
<1> HIDE DEF tb, ab, c, d
<1>9. AllocatorTypeOK'
  <2>1. TypeOK'
    BY <1>8 DEF HInv
  <2>2. pc' \in [Threads -> AllocatorPC] /\ pc'[t] = "bump" /\ \A u \in Threads \ {t} : pc'[u] = pc[u]
    BY <1>0, <1>4 DEF AllocatorPC
  <2> QED BY <1>0, <1>4, <1>5, <2>1, <2>2 DEF LInv, AllocatorTypeOK, tb
<1>10. PointersInBlock'
  <2> SUFFICES ASSUME NEW u \in Threads \ torn, NEW j \in 1 .. Len(tb[u]) PROVE EntryInBlock(tb'[u][j])
    BY <1>4, <1>5 DEF PointersInBlock, Entries, tb
  <2>1. EntryInBlock(tb[u][j])
    BY DEF LInv, PointersInBlock, Entries, tb
  <2> QED BY <1>6, <1>7, <2>1, AllocatorAssumption DEF EntryInBlock
<1>11. BumpFits'
  <2> SUFFICES ASSUME NEW u \in Threads \ torn, pc'[u] = "bump"
               PROVE  tb'[u][cur_ptr[u]].block # NULL /\ tb'[u][cur_ptr[u]].used + num[u] <= BlockSize
    BY <1>4 DEF BumpFits, tb
  <2>1. CASE u = t
    <3>1. tb'[t][c].block = b /\ tb'[t][c].used = 0
      BY <1>0, <1>6
    <3> QED BY <1>0, <1>7, <2>1, <3>1, AllocatorAssumption DEF c
  <2>2. CASE u # t
    BY <1>0, <1>4, <1>5, <2>2 DEF LInv, BumpFits, tb
  <2> QED BY <2>1, <2>2
<1>12. BehindPointer'
  <2> SUFFICES ASSUME NEW x \in extents, NEW u \in Threads, NEW j \in 1 .. Len(tb[u]),
                      tb'[u][j].block # NULL, tb'[u][j].block = x.block
               PROVE  x.from + x.size <= tb'[u][j].used
    BY <1>4, <1>5 DEF BehindPointer, Entries, tb
  <2> QED BY <1>6, <1>7 DEF LInv, BehindPointer, Entries, tb
<1>13. RetiredIsQuiet' /\ InsertPlaces' /\ ResetPlaces'
  BY <1>0, <1>4, <1>5 DEF LInv, RetiredIsQuiet, InsertPlaces, ResetPlaces, tb
<1>14. ExtentsPrivate'
  BY <1>2, <1>4 DEF LInv, ExtentsPrivate, ab
<1>15. BlocksPrivate'
  <2> SUFFICES ASSUME NEW u \in Threads, NEW v \in Threads,
                      NEW i \in 1 .. Len(tb'[u]), NEW j \in 1 .. Len(tb'[v]), tb'[u][i].block # NULL
               PROVE  /\ tb'[u][i].block \in Elements(ab'[Key])
                      /\ tb'[u][i].block = tb'[v][j].block => u = v /\ i = j
    BY DEF BlocksPrivate, tb, ab
  <2>0. i \in 1 .. Len(tb[u]) /\ j \in 1 .. Len(tb[v])
    BY <1>5
  <2>1. tb[u][i].block # NULL /\ tb[u][i].block = tb[v][j].block => u = v /\ i = j
    <3>1. BlocksPrivate /\ ~retired
      BY <1>0 DEF LInv
    <3> QED BY <2>0, <3>1 DEF BlocksPrivate, tb
  <2>2. CASE u = t /\ i = c
    <3>1. tb'[u][i].block = b
      BY <1>6, <2>0, <2>2
    <3>2. ASSUME v # t \/ j # c PROVE tb'[v][j].block # b
      <4>1. tb'[v][j].block = tb[v][j].block
        BY <1>6, <2>0, <3>2
      <4>2. tb[v][j].block # b
        BY <1>7, <2>0
      <4> QED BY <4>1, <4>2
    <3> QED BY <1>2, <2>2, <3>1, <3>2
  <2>3. CASE u # t \/ i # c
    <3>1. tb'[u][i].block = tb[u][i].block /\ tb[u][i].block # b
      BY <1>6, <1>7, <2>0, <2>3
    <3>2. \/ tb'[v][j].block = b
          \/ tb'[v][j].block = tb[v][j].block
      BY <1>6, <2>0
    <3>3. tb[u][i].block \in Elements(ab[Key])
      BY <1>7, <2>0, <3>1
    <3> QED BY <1>2, <2>1, <3>1, <3>2, <3>3
  <2> QED BY <2>2, <2>3
<1> QED BY <1>8, <1>9, <1>10, <1>11, <1>12, <1>13, <1>14, <1>15 DEF LInv

LEMMA BumpInv == ASSUME LInv, NEW t \in Threads, Bump(t) PROVE LInv'
<1> DEFINE tb == thread_blocks
           i == cur_ptr[t]
           c == tb[t][i]
           e == [c EXCEPT !.used = @ + num[t]]
           y == [thread |-> t, block |-> c.block, from |-> c.used, size |-> num[t]]
<1>0. /\ tb \in [Threads -> Seq(BlockData)]
      /\ pc \in [Threads -> AllocatorPC] /\ num \in [Threads -> 1 .. BlockSize]
      /\ cur_ptr \in [Threads -> Nat] /\ block_end \in [Threads -> Nat]
      /\ i \in 1 .. Len(tb[t]) /\ c \in BlockData
      /\ pc[t] = "bump" /\ t \notin modifying /\ ~retired
  <2>1. tb \in [Threads -> Seq(BlockData)] /\ i \in 1 .. Len(tb[t])
    BY DEF LInv, AllocatorTypeOK, Bump
  <2>2. c \in BlockData
    BY <2>1
  <2> QED BY <2>1, <2>2 DEF LInv, AllocatorTypeOK, RetiredIsQuiet, InsertPlaces, LookUps, Bump
<1>1. c.block \in Blocks \cup {NULL} /\ c.used \in Nat /\ num[t] \in 1 .. BlockSize /\ num[t] \in Nat
  BY <1>0, AllocatorAssumption DEF BlockData
<1>2. e \in BlockData /\ e.block = c.block /\ e.used = c.used + num[t]
  <2>1. c \in BlockData /\ c.used + num[t] \in Nat
    BY <1>0, <1>1
  <2> HIDE DEF c
  <2> QED BY <2>1 DEF BlockData
<1>3. /\ tb' = [tb EXCEPT ![t] = [tb[t] EXCEPT ![i] = e]]
      /\ extents' = extents \cup {y}
      /\ pc' = [pc EXCEPT ![t] = "idle"]
      /\ cur_ptr' = [cur_ptr EXCEPT ![t] = 0]
      /\ block_end' = [block_end EXCEPT ![t] = 0]
      /\ UNCHANGED <<vars, modifying, damaged, m_mutex, num, torn, calls, retired>>
  BY DEF Bump, Goto, ownerVars
<1>4. y \in Extent /\ y.thread = t /\ y.block = c.block /\ y.from = c.used /\ y.size = num[t]
  BY <1>1 DEF Extent
<1> HIDE DEF e, y
<1>5. /\ tb' \in [Threads -> Seq(BlockData)]
      /\ \A u \in Threads : Len(tb'[u]) = Len(tb[u])
      /\ \A u \in Threads : \A j \in 1 .. Len(tb[u]) :
           tb'[u][j] = IF u = t /\ j = i THEN e ELSE tb[u][j]
  BY <1>0, <1>2, <1>3, EntryWritten
<1>6. \A u \in Threads : \A j \in 1 .. Len(tb[u]) :
        tb[u][j] \in BlockData /\ tb[u][j].used \in Nat
  <2> SUFFICES ASSUME NEW u \in Threads, NEW j \in 1 .. Len(tb[u])
               PROVE  tb[u][j] \in BlockData /\ tb[u][j].used \in Nat
    OBVIOUS
  <2>1. tb[u][j] \in BlockData
    BY <1>0
  <2> QED BY <2>1 DEF BlockData
<1>7. c.block # NULL =>
        /\ c.block \in Elements(allocated_blocks[Key])
        /\ \A u \in Threads : \A j \in 1 .. Len(tb[u]) : tb[u][j].block = c.block => u = t /\ j = i
  BY <1>0 DEF LInv, BlocksPrivate
<1>8. t \notin torn => c.block # NULL /\ c.used + num[t] <= BlockSize
  BY <1>0 DEF LInv, BumpFits
<1>9. c.block # NULL => \A x \in extents : x.block = c.block => x.from + x.size <= c.used
  BY <1>0 DEF LInv, BehindPointer, Entries
<1> HIDE DEF tb, c, i
<1>10. HInv'
  BY <1>3, HNextInv DEF LInv
<1>11. AllocatorTypeOK'
  <2>1. TypeOK'
    BY <1>10 DEF HInv
  <2>2. pc' \in [Threads -> AllocatorPC] /\ pc'[t] = "idle" /\ \A u \in Threads \ {t} : pc'[u] = pc[u]
    BY <1>0, <1>3 DEF AllocatorPC
  <2>3. extents' \subseteq Extent
    BY <1>3, <1>4 DEF LInv, AllocatorTypeOK
  <2>4. /\ cur_ptr' \in [Threads -> Nat] /\ block_end' \in [Threads -> Nat]
        /\ \A u \in Threads \ {t} : cur_ptr'[u] = cur_ptr[u] /\ block_end'[u] = block_end[u]
    BY <1>0, <1>3
  <2> QED BY <1>3, <1>5, <2>1, <2>2, <2>3, <2>4 DEF LInv, AllocatorTypeOK, tb
<1>12. PointersInBlock'
  <2> SUFFICES ASSUME NEW u \in Threads \ torn, NEW j \in 1 .. Len(tb[u]) PROVE EntryInBlock(tb'[u][j])
    BY <1>3, <1>5 DEF PointersInBlock, Entries, tb
  <2>1. EntryInBlock(tb[u][j])
    BY DEF LInv, PointersInBlock, Entries, tb
  <2> QED BY <1>2, <1>5, <1>8, <2>1 DEF EntryInBlock
<1>13. BumpFits'
  <2> SUFFICES ASSUME NEW u \in Threads \ torn, pc'[u] = "bump"
               PROVE  tb'[u][cur_ptr'[u]].block # NULL /\ tb'[u][cur_ptr'[u]].used + num[u] <= BlockSize
    BY <1>3 DEF BumpFits, tb
  <2>1. u # t /\ pc[u] = "bump"
    BY <1>0, <1>3
  <2>2. cur_ptr'[u] = cur_ptr[u] /\ cur_ptr[u] \in 1 .. Len(tb[u])
    BY <1>0, <1>3, <2>1 DEF LInv, AllocatorTypeOK, tb
  <2>3. tb'[u][cur_ptr'[u]] = tb[u][cur_ptr[u]]
    BY <1>5, <2>1, <2>2
  <2> QED BY <2>1, <2>3 DEF LInv, BumpFits, tb
<1>14. BehindPointer'
  <2> SUFFICES ASSUME NEW x \in extents \cup {y}, NEW u \in Threads, NEW j \in 1 .. Len(tb[u]),
                      tb'[u][j].block # NULL, tb'[u][j].block = x.block
               PROVE  x.from + x.size <= tb'[u][j].used
    BY <1>3, <1>5 DEF BehindPointer, Entries, tb
  <2>1. tb'[u][j].block = tb[u][j].block
    BY <1>2, <1>5 DEF c
  <2>2. CASE x \in extents
    <3>1. x.from + x.size <= tb[u][j].used
      BY <2>1, <2>2 DEF LInv, BehindPointer, Entries, tb
    <3>2. x.from \in Nat /\ x.size \in Nat /\ tb[u][j].used \in Nat
      <4>1. x \in Extent
        BY <2>2 DEF LInv, AllocatorTypeOK
      <4>2. x.from \in Nat /\ x.size \in 1 .. BlockSize
        BY <4>1 DEF Extent
      <4> QED BY <1>6, <4>2, AllocatorAssumption
    <3>3. tb'[u][j].used = tb[u][j].used \/ tb'[u][j].used = tb[u][j].used + num[t]
      BY <1>2, <1>5 DEF c
    <3> QED BY <1>1, <3>1, <3>2, <3>3
  <2>3. CASE x = y
    <3>1. u = t /\ j = i
      BY <1>4, <1>7, <2>1, <2>3
    <3> QED BY <1>2, <1>4, <1>5, <1>1, <2>3, <3>1
  <2> QED BY <2>2, <2>3
<1>15. RetiredIsQuiet' /\ InsertPlaces' /\ ResetPlaces'
  <2>1. pc'[t] = "idle" /\ \A u \in Threads \ {t} : pc'[u] = pc[u] /\ tb'[u] = tb[u]
    BY <1>0, <1>3
  <2> QED BY <1>0, <1>3, <1>5, <2>1 DEF LInv, RetiredIsQuiet, InsertPlaces, ResetPlaces, tb
<1>16. ExtentsPrivate'
  <2>1. \A x \in extents :
          /\ x.block # NULL => x.block \in Elements(allocated_blocks[Key])
          /\ x.thread \notin torn => x.block # NULL /\ x.from + x.size <= BlockSize
    BY DEF LInv, ExtentsPrivate
  <2>2. \A x, z \in extents :
          x # z /\ x.block = z.block /\ x.block # NULL => x.from + x.size <= z.from \/ z.from + z.size <= x.from
    BY DEF LInv, ExtentsPrivate
  <2>3. y.block # NULL => y.block \in Elements(allocated_blocks[Key])
    BY <1>4, <1>7
  <2>4. y.thread \notin torn => y.block # NULL /\ y.from + y.size <= BlockSize
    BY <1>4, <1>8
  <2>5. \A x \in extents : x.block = y.block /\ y.block # NULL => x.from + x.size <= y.from
    BY <1>4, <1>9
  <2>6. \A x, z \in extents \cup {y} :
          x # z /\ x.block = z.block /\ x.block # NULL => x.from + x.size <= z.from \/ z.from + z.size <= x.from
    BY <2>2, <2>5
  <2> QED BY <1>3, <2>1, <2>3, <2>4, <2>6 DEF ExtentsPrivate, vars
<1>17. BlocksPrivate'
  <2>a. allocated_blocks' = allocated_blocks
    BY <1>3 DEF vars
  <2> SUFFICES ASSUME NEW u \in Threads, NEW v \in Threads,
                      NEW j \in 1 .. Len(tb'[u]), NEW k \in 1 .. Len(tb'[v]), tb'[u][j].block # NULL
               PROVE  /\ tb'[u][j].block \in Elements(allocated_blocks[Key])
                      /\ tb'[u][j].block = tb'[v][k].block => u = v /\ j = k
    BY <2>a DEF BlocksPrivate, tb
  <2>b. j \in 1 .. Len(tb[u]) /\ k \in 1 .. Len(tb[v])
    BY <1>5
  <2>1. tb'[u][j].block = tb[u][j].block /\ tb'[v][k].block = tb[v][k].block
    BY <1>2, <1>5, <2>b DEF c
  <2>2. tb[u][j].block # NULL => /\ tb[u][j].block \in Elements(allocated_blocks[Key])
                                 /\ tb[u][j].block = tb[v][k].block => u = v /\ j = k
    <3>1. BlocksPrivate /\ ~retired
      BY <1>0 DEF LInv
    <3> QED BY <2>b, <3>1 DEF BlocksPrivate, tb
  <2> QED BY <2>1, <2>2
<1> QED BY <1>10, <1>11, <1>12, <1>13, <1>14, <1>15, <1>16, <1>17 DEF LInv

-----------------------------------------------------------------------------
(* Steps of the owner of the allocator, and of the other users of the heap *)

\* The key is freed, or the heap destroyed.
LEMMA RetireInv == ASSUME LInv, FreeKey \/ DestroyHeap PROVE LInv'
<1>1. HInv'
  BY FreeInv, DestroyInv, AllocatorAssumption DEF LInv, FreeKey, DestroyHeap
<1>2. /\ extents' = {} /\ retired'
      /\ UNCHANGED <<mapVars, m_mutex, localVars, torn, calls>>
      /\ \A t \in Threads : pc[t] = "idle"
  BY DEF FreeKey, DestroyHeap
<1>3. AllocatorTypeOK'
  <2>1. TypeOK'
    BY <1>1 DEF HInv
  <2> QED BY <1>2, <2>1 DEF LInv, AllocatorTypeOK, mapVars, localVars
<1>4. PointersInBlock' /\ BumpFits' /\ InsertPlaces' /\ ResetPlaces'
  BY <1>2 DEF LInv, PointersInBlock, BumpFits, InsertPlaces, ResetPlaces, Entries, mapVars, localVars
<1>5. BehindPointer' /\ RetiredIsQuiet' /\ ExtentsPrivate' /\ BlocksPrivate'
  BY <1>2 DEF BehindPointer, RetiredIsQuiet, ExtentsPrivate, BlocksPrivate, localVars
<1> QED BY <1>1, <1>3, <1>4, <1>5 DEF LInv

LEMMA ConstructInv == ASSUME LInv, Construct PROVE LInv'
<1>1. extents = {} /\ modifying = {} /\ \A t \in Threads : pc[t] = "idle"
  BY DEF LInv, AllocatorTypeOK, RetiredIsQuiet, InsertPlaces, LookUps, Construct
<1>2. /\ thread_blocks' = [t \in Threads |-> <<>>]
      /\ damaged' = FALSE /\ torn' = {} /\ calls' = 0 /\ ~retired'
      /\ UNCHANGED <<vars, modifying, m_mutex, pc, num, cur_ptr, block_end, extents>>
  BY DEF Construct, localVars
<1>3. thread_blocks' \in [Threads -> Seq(BlockData)] /\ \A t \in Threads : 1 .. Len(thread_blocks'[t]) = {}
  BY <1>2, EmptySeq
<1>4. HInv'
  BY <1>2, HNextInv DEF LInv
<1>5. AllocatorTypeOK'
  <2>1. TypeOK'
    BY <1>4 DEF HInv
  <2>2. calls' \in 0 .. MaxCalls /\ torn' \subseteq Threads /\ retired' \in BOOLEAN /\ damaged' \in BOOLEAN
    <3>1. 0 \in 0 .. MaxCalls
      BY AllocatorAssumption
    <3> QED BY <1>2, <3>1 DEF Construct
  <2>3. \A t \in Threads : pc'[t] = "idle"
    BY <1>1, <1>2
  <2> QED BY <1>1, <1>2, <1>3, <2>1, <2>2, <2>3 DEF LInv, AllocatorTypeOK
<1>6. PointersInBlock' /\ BumpFits' /\ InsertPlaces' /\ ResetPlaces' /\ BehindPointer' /\ RetiredIsQuiet'
  BY <1>1, <1>2, <1>3 DEF PointersInBlock, BumpFits, InsertPlaces, ResetPlaces, BehindPointer,
                          RetiredIsQuiet, Entries
<1>7. ExtentsPrivate' /\ BlocksPrivate'
  BY <1>1, <1>2, <1>3 DEF ExtentsPrivate, BlocksPrivate
<1> QED BY <1>4, <1>5, <1>6, <1>7 DEF LInv

LEMMA OthersInv == ASSUME LInv, OthersUseHeap PROVE LInv'
<1>1. PICK k \in Keys \ {Key} : AllocBlock(k) \/ Free(k)
  BY DEF OthersUseHeap
<1>2. HInv'
  BY <1>1, AllocInv, FreeInv DEF LInv
<1>3. allocated_blocks'[Key] = allocated_blocks[Key]
  BY <1>1, AllocatorAssumption DEF LInv, HInv, TypeOK, AllocBlock, Grant, Free, Take
<1>4. UNCHANGED <<thread_blocks, modifying, damaged, m_mutex, pc, num, cur_ptr, block_end, extents, torn,
                  calls, retired>>
  BY DEF OthersUseHeap, mapVars, localVars, ownerVars
<1>5. AllocatorTypeOK'
  <2>1. TypeOK'
    BY <1>2 DEF HInv
  <2> QED BY <1>4, <2>1 DEF LInv, AllocatorTypeOK
<1>6. PointersInBlock' /\ BumpFits' /\ InsertPlaces' /\ ResetPlaces' /\ BehindPointer' /\ RetiredIsQuiet'
  BY <1>4 DEF LInv, PointersInBlock, BumpFits, InsertPlaces, ResetPlaces, BehindPointer,
              RetiredIsQuiet, Entries
<1>7. ExtentsPrivate' /\ BlocksPrivate'
  BY <1>3, <1>4 DEF LInv, ExtentsPrivate, BlocksPrivate
<1> QED BY <1>2, <1>5, <1>6, <1>7 DEF LInv

LEMMA AllocatorNextInv == LInv /\ [AllocatorNext]_allocatorVars => LInv'
<1> SUFFICES ASSUME LInv, [AllocatorNext]_allocatorVars PROVE LInv'
  OBVIOUS
<1>1. ASSUME NEW t \in Threads, ThreadStep(t) PROVE LInv'
  BY <1>1, WalkInv, LookUpInv, RefillInv, BumpInv DEF ThreadStep
<1>2. CASE FreeKey \/ DestroyHeap
  BY <1>2, RetireInv
<1>3. CASE Construct
  BY <1>3, ConstructInv
<1>4. CASE OthersUseHeap
  BY <1>4, OthersInv
<1>5. CASE UNCHANGED allocatorVars
  <2>1. HInv'
    BY <1>5, HNextInv DEF LInv, allocatorVars
  <2>2. TypeOK'
    BY <2>1 DEF HInv
  <2>3. AllocatorTypeOK'
    BY <1>5, <2>2 DEF LInv, AllocatorTypeOK, allocatorVars, mapVars, localVars, ownerVars
  <2>4. PointersInBlock' /\ BumpFits' /\ InsertPlaces' /\ ResetPlaces' /\ BehindPointer' /\ RetiredIsQuiet'
    BY <1>5 DEF LInv, PointersInBlock, BumpFits, InsertPlaces, ResetPlaces, BehindPointer, RetiredIsQuiet,
                Entries, allocatorVars, mapVars, localVars, ownerVars
  <2>5. ExtentsPrivate' /\ BlocksPrivate'
    BY <1>5 DEF LInv, ExtentsPrivate, BlocksPrivate, allocatorVars, vars, mapVars, ownerVars
  <2> QED BY <2>1, <2>3, <2>4, <2>5 DEF LInv
<1> QED BY <1>1, <1>2, <1>3, <1>4, <1>5 DEF AllocatorNext

LEMMA LInvAlways == AllocatorSpec => []LInv
<1>1. AllocatorInit => LInv
  BY AllocatorInitInv
<1>2. LInv /\ [AllocatorNext]_allocatorVars => LInv'
  BY AllocatorNextInv
<1> QED BY <1>1, <1>2, PTL DEF AllocatorSpec

-----------------------------------------------------------------------------
(* The theorems *)

\* The state of the allocator and of the heap stays well-formed; in particular
\* the two references of a call name entries of the calling thread.
THEOREM AllocatorTypeCorrect == AllocatorSpec => []AllocatorTypeOK
<1>1. LInv => AllocatorTypeOK
  BY DEF LInv
<1> QED BY <1>1, LInvAlways, PTL

\* Memory in use was handed out once, whatever look-ups miss, and is out of its
\* block, or nowhere, only for a thread that subtracted unrelated pointers.
THEOREM ExtentsArePrivate == AllocatorSpec => []ExtentsPrivate
<1>1. LInv => ExtentsPrivate
  BY DEF LInv
<1> QED BY <1>1, LInvAlways, PTL

\* No two entries cut from one block, and every block that is cut from belongs
\* to the allocator's key while the allocator is in use.
THEOREM BlocksArePrivate == AllocatorSpec => []BlocksPrivate
<1>1. LInv => BlocksPrivate
  BY DEF LInv
<1> QED BY <1>1, LInvAlways, PTL

\* When every thread has one entry only, a step of a thread finds that entry.
LEMMA SettledStep ==
  ASSUME LInv, Settled, NEW t \in Threads, ThreadStep(t)
  PROVE  Settled'
<1> DEFINE tb == thread_blocks
           NextEntry(e) == e \in BlockData /\ e.block = e.end
<1>0. /\ tb \in [Threads -> Seq(BlockData)]
      /\ modifying = {} /\ ~damaged /\ torn = {}
      /\ \A u \in Threads : Len(tb[u]) = 1 /\ tb[u] # <<>> /\ tb[u][1] \in BlockData /\ tb[u][1].block = tb[u][1].end
  <2>1. tb \in [Threads -> Seq(BlockData)] /\ \A u \in Threads : Len(tb[u]) = 1 /\ tb[u][1].block = tb[u][1].end
    BY DEF LInv, AllocatorTypeOK, Settled
  <2>2. ASSUME NEW u \in Threads PROVE tb[u] # <<>> /\ tb[u][1] \in BlockData
    <3>1. tb[u] \in Seq(BlockData) /\ Len(tb[u]) = 1 /\ 1 \in 1 .. Len(tb[u])
      BY <2>1
    <3> QED BY <3>1, EmptySeq, ElementOfSeq
  <2> QED BY <2>1, <2>2 DEF Settled
<1>1. ASSUME NEW e \in BlockData, e.block = e.end, tb' = [tb EXCEPT ![t] = [tb[t] EXCEPT ![1] = e]],
             UNCHANGED <<modifying, damaged, torn>>
      PROVE  Settled'
  <2>1. 1 \in 1 .. Len(tb[t])
    BY <1>0
  <2>2. /\ \A u \in Threads : Len(tb'[u]) = 1
        /\ \A u \in Threads : tb'[u][1] = IF u = t THEN e ELSE tb[u][1]
    <3>1. /\ \A u \in Threads : Len(tb'[u]) = Len(tb[u])
          /\ \A u \in Threads : \A j \in 1 .. Len(tb[u]) :
               tb'[u][j] = IF u = t /\ j = 1 THEN e ELSE tb[u][j]
      BY <1>0, <1>1, <2>1, EntryWritten
    <3> QED BY <1>0, <3>1
  <2> QED BY <1>0, <1>1, <2>2 DEF Settled
<1>2. CASE UNCHANGED <<thread_blocks, modifying, damaged, torn>>
  BY <1>2 DEF Settled
<1>3. CASE (\E n \in 1 .. BlockSize : Allocate(t, n)) \/ Count(t) \/ Lock(t) \/ Unlock(t)
  BY <1>2, <1>3 DEF Allocate, Count, Lock, Unlock, mapVars
<1>4. CASE BeginInsert(t) \/ EndInsert(t)
  BY <1>0, <1>4 DEF BeginInsert, EndInsert, MayMiss
<1>5. CASE Find(t)
  <2> DEFINE e == Written(pc[t], tb[t][1])
  <2>1. PICK i \in 1 .. Len(tb[t]) : Use(t, i)
    BY <1>5 DEF Find
  <2>2. i = 1 /\ pc[t] \in LookUps
    BY <1>0, <1>5 DEF Find
  <2>3. e \in BlockData
    BY <1>0, <2>2, WrittenEntry
  <2>4. e.block = e.end
    <3>1. pc[t] \in {"reset_start", "reset_end"} => tb[t][1].block = NULL /\ tb[t][1].end = NULL
      BY <1>0 DEF LInv, ResetPlaces
    <3>2. pc[t] \in {"start", "end"} => e = tb[t][1]
      BY <1>0, <2>2, WrittenEntry
    <3>3. pc[t] \in {"reset", "reset_start", "reset_end"} => e.block = NULL /\ e.end = NULL
      BY <1>0, <2>2, <3>1, WrittenEntry
    <3> QED BY <1>0, <2>2, <3>2, <3>3 DEF LookUps
  <2>5. tb' = [tb EXCEPT ![t] = [tb[t] EXCEPT ![1] = e]]
    BY <2>1, <2>2 DEF Use
  <2>6. UNCHANGED <<modifying, damaged, torn>>
    BY <1>5, <2>1 DEF Find, Use
  <2> HIDE DEF e
  <2> QED BY <1>1, <2>3, <2>4, <2>5, <2>6
<1>6. CASE Space(t)
  <2>1. cur_ptr[t] = 1 /\ block_end[t] = 1
    <3>1. cur_ptr[t] \in 1 .. Len(tb[t]) /\ block_end[t] \in 1 .. Len(tb[t]) /\ Len(tb[t]) = 1
      BY <1>0, <1>6 DEF LInv, AllocatorTypeOK, Space
    <3> QED BY <3>1
  <2>2. torn' = torn
    BY <1>0, <1>6, <2>1 DEF Space
  <2> QED BY <1>2, <1>6, <2>2 DEF Space, mapVars
<1>7. CASE Refill(t)
  <2>1. cur_ptr[t] = 1 /\ block_end[t] = 1
    <3>1. cur_ptr[t] \in 1 .. Len(tb[t]) /\ block_end[t] \in 1 .. Len(tb[t]) /\ Len(tb[t]) = 1
      BY <1>0, <1>7 DEF LInv, AllocatorTypeOK, Refill
    <3> QED BY <3>1
  <2>2. tb' = [tb EXCEPT ![t] = PointTo(tb[t], 1, 1, NewBlock)]
    BY <1>7, <2>1 DEF Refill
  <2>3. PICK b \in Blocks, rest \in Seq(Blocks) : Grant(Key, b, rest)
    BY <1>7, AllocPicks, AllocatorAssumption DEF LInv, Refill
  <2>4. NewBlock = b
    <3>1. allocated_blocks \in [Keys -> Seq(Blocks)]
      BY DEF LInv, HInv, TypeOK
    <3>2. allocated_blocks'[Key] = Append(allocated_blocks[Key], b)
      BY <2>3, <3>1, AllocatorAssumption DEF Grant
    <3> QED BY <3>1, <3>2, AppendProperties, AllocatorAssumption DEF NewBlock
  <2> DEFINE nb == [tb EXCEPT ![t] = PointTo(tb[t], 1, 1, b)]
  <2>5. 1 \in 1 .. Len(tb[t])
    BY <1>0
  <2>6. /\ \A u \in Threads : Len(nb[u]) = Len(tb[u])
        /\ \A u \in Threads \ {t} : nb[u] = tb[u]
        /\ nb[t][1].block = b /\ nb[t][1].end = b
    <3> HIDE DEF tb
    <3> QED BY <1>0, <2>5, EntryRefilled
  <2>7. tb' = nb
    BY <2>2, <2>4
  <2> HIDE DEF nb
  <2> QED BY <1>0, <1>7, <2>6, <2>7 DEF Refill, Settled
<1>8. CASE Bump(t)
  <2> DEFINE e == [tb[t][1] EXCEPT !.used = @ + num[t]]
  <2>1. cur_ptr[t] = 1
    BY <1>0, <1>8 DEF LInv, AllocatorTypeOK, Bump
  <2>2. e \in BlockData /\ e.block = e.end
    <3>1. tb[t][1].used \in Nat /\ num[t] \in 1 .. BlockSize
      BY <1>0 DEF BlockData, LInv, AllocatorTypeOK
    <3>2. tb[t][1] \in BlockData /\ tb[t][1].used + num[t] \in Nat /\ tb[t][1].block = tb[t][1].end
      BY <1>0, <3>1, AllocatorAssumption
    <3> HIDE DEF tb
    <3> QED BY <3>2 DEF BlockData
  <2>3. tb' = [tb EXCEPT ![t] = [tb[t] EXCEPT ![1] = e]]
    BY <1>8, <2>1 DEF Bump
  <2>4. UNCHANGED <<modifying, damaged, torn>>
    BY <1>8 DEF Bump
  <2> HIDE DEF e
  <2> QED BY <1>1, <2>2, <2>3, <2>4
<1> QED BY <1>3, <1>4, <1>5, <1>6, <1>7, <1>8 DEF ThreadStep

\* An allocator that has come through its first calls well is safe without any
\* lock until it is constructed anew.
THEOREM SettledIsStable == AllocatorSpec => SettledStays
<1>1. ASSUME LInv, [AllocatorNext]_allocatorVars, Settled, ~retired PROVE Settled'
  <2>1. CASE \E t \in Threads : ThreadStep(t)
    BY <1>1, <2>1, SettledStep
  <2>2. CASE FreeKey \/ DestroyHeap \/ OthersUseHeap \/ UNCHANGED allocatorVars
    <3>1. UNCHANGED <<thread_blocks, modifying, damaged, torn>>
      BY <2>2 DEF FreeKey, DestroyHeap, OthersUseHeap, allocatorVars, mapVars
    <3> QED BY <1>1, <3>1 DEF Settled
  <2>3. CASE Construct
    BY <1>1, <2>3 DEF Construct
  <2> QED BY <1>1, <2>1, <2>2, <2>3 DEF AllocatorNext
<1>2. LInv /\ [AllocatorNext]_allocatorVars => [Settled /\ ~retired => Settled']_allocatorVars
  BY <1>1
<1> QED BY <1>2, LInvAlways, PTL DEF AllocatorSpec, SettledStays

\* The allocator and its owner use the heap through its operations only.
LEMMA AllocatorUsesHeap == AllocatorSpec => Spec
<1>1. AllocatorInit => Init
  BY DEF AllocatorInit
<1>2. [AllocatorNext]_allocatorVars => [Next]_vars
  BY AllocatorAssumption
     DEF AllocatorNext, ThreadStep, Allocate, Count, Lock, Unlock, Find, BeginInsert, EndInsert, Use, Space,
         Refill, Bump, FreeKey, Construct, OthersUseHeap, DestroyHeap, Next, allocatorVars
<1> QED BY <1>1, <1>2, PTL DEF AllocatorSpec, Spec

\* What is proved of the heap holds of the heap the allocator uses.
THEOREM BlocksHeldOnceInUse == AllocatorSpec => []BlockHeldOnce
BY AllocatorUsesHeap, BlocksHeldOnce, PTL

\* The heap asks for no more memory than was in use at some time.
THEOREM FootprintBoundedInUse == AllocatorSpec => []FootprintWithinPeak
BY AllocatorUsesHeap, FootprintBounded, PTL

\* The heap under the allocator implements the block store.
THEOREM HeapInUseImplementsBlockStore == AllocatorSpec => ImplementsBlockStore
BY AllocatorUsesHeap, HeapImplementsBlockStore, PTL

============================================================================
