---------------------------- MODULE FrameLoopProofs ----------------------------
(***************************************************************************)
(* Proofs about the frame task, for any numbers of jobs, workers, blocks,  *)
(* slots, leaves and frames: jobs use only counters in memory their frame  *)
(* holds, every frame gives its memory back, and the jobs of a frame find  *)
(* their own frame.  What the heap guarantees comes from TaggedHeapProofs. *)
(***************************************************************************)
EXTENDS FrameLoop, FiniteSetTheorems, TLAPS

HeapP == INSTANCE TaggedHeapProofs WITH NumFree <- 0, Nobody <- NULL

Waits       == {"game_logic", "render", "gpu_submit", "join"}
BeforeFlip  == {"initialize", "stage", "game_logic", "render", "gpu_submit", "flip"}
MemoryPlace == {"stage", "game_logic", "render", "gpu_submit", "flip", "free"}

\* The frame job that has not come to its end.
Current(p) == task[p] = "frame" /\ at[p] # "end"

\* Where a job can be.
JobPlaces ==
  \A j \in Jobs :
    /\ \/ task[j] = "frame" /\ at[j] \in Place \ {"fork", "join"}
       \/ task[j] = "game_logic" /\ at[j] \in {"fork", "join", "end"}
       \/ task[j] \in {"leaf", NULL} /\ at[j] = "end"
    /\ task[j] = NULL <=> state[j] = "absent"
    /\ at[j] # "end" => state[j] \in {"active", "blocked"}
    /\ awaits[j] # NULL <=> state[j] = "blocked"
    /\ awaits[j] # NULL => at[j] \in Waits /\ awaits[j] = cnt[j]
    /\ task[j] = NULL => group[j] = NULL /\ cnt[j] = NULL
    /\ at[j] \in Waits => cnt[j] # NULL
    /\ at[j] = "fork" => leaves[j] < Leaves

\* p has started k and has not come back from waiting for it.
WaitedForBy(k, p) ==
  /\ cnt[p] = group[k]
  /\ dat[p] = dat[k]
  /\ \/ task[k] = "game_logic" /\ task[p] = "frame" /\ at[p] = "game_logic"
     \/ task[k] = "leaf" /\ task[p] = "game_logic" /\ at[p] \in {"fork", "join"}

\* Game logic and leaves are in a group until they have returned, and who is
\* in a group is waited for.
Members ==
  \A k \in Jobs :
    /\ task[k] \in {"game_logic", "leaf"} /\ state[k] \in {"active", "blocked"} => group[k] # NULL
    /\ group[k] # NULL => \E p \in Jobs : WaitedForBy(k, p)

\* There is one chain of frames, in order.
OneFrame == \A p, q \in Jobs : Current(p) /\ Current(q) => p = q
Latest ==
  \A p, k \in Jobs : Current(p) =>
    /\ dat[k] <= dat[p]
    /\ at[p] \in {"initialize", "stage"} /\ cnt[k] # NULL => dat[k] < dat[p]

CountersDistinct ==
  \A j, k \in Jobs : j # k /\ cnt[j] # NULL /\ dat[j] = dat[k] => cnt[j] # cnt[k]

\* The current frame has its slot, and so have the jobs that find it by number.
SlotOwned ==
  /\ \A p \in Jobs : Current(p) /\ at[p] # "initialize" /\ ~ thrown =>
       /\ dat[p] < FrameMod /\ frame_number[p] = dat[p]
       /\ params[Frame!Slot(dat[p])].m_frameNum = dat[p]
       /\ params[Frame!Slot(dat[p])].key = dat[p]
  /\ \A k \in Jobs : group[k] # NULL => frame_number[k] = dat[k]

\* Counters are cut from blocks of the frame, by each worker from its own.
BlocksOf(n) == params[Frame!Slot(n)].blocks
MarksIn(n) ==
  \A w \in Workers :
    IF BlocksOf(n)[w].block = NULL THEN BlocksOf(n)[w].used = CountersPerBlock
    ELSE /\ BlocksOf(n)[w].block \in Heap!Elements(allocated_blocks[n])
         /\ \A v \in Workers \ {w} : BlocksOf(n)[v].block # BlocksOf(n)[w].block
Marks == \A p \in Jobs : UsesMemory(p) /\ ~ thrown => MarksIn(dat[p])

\* A counter that has been cut from memory of frame n.
Issued(c, n) ==
  /\ InMemoryOf(c, n)
  /\ \A w \in Workers : BlocksOf(n)[w].block = c[1] => c[2] <= BlocksOf(n)[w].used
CountersIssued ==
  \A p, k \in Jobs :
    UsesMemory(p) /\ cnt[k] # NULL /\ dat[k] = dat[p] => Issued(cnt[k], dat[p])

\* What has been rendered and measured.
RenderedSoFar ==
  \A p \in Jobs : Current(p) =>
    rendered = IF at[p] \in BeforeFlip THEN 0 .. dat[p] - 1 ELSE 0 .. dat[p]
MeasuredBefore ==
  \A p \in Jobs : task[p] = "frame" =>
    /\ at[p] = "initialize" /\ dat[p] > 0 => DurationBefore(dat[p] % FrameMod) = dat[p] - 1
    /\ at[p] = "next" => params[Frame!Slot(dat[p])].measured = dat[p]

JInv == JobPlaces /\ Members /\ OneFrame /\ Latest
CInv == CountersDistinct /\ SlotOwned /\ Marks /\ CountersIssued /\ MemoryReturned
RInv == RenderedSoFar /\ MeasuredBefore

IInv == TypeOK /\ HeapP!HInv /\ JInv /\ CInv /\ RInv

-----------------------------------------------------------------------------
(* Remainders, the heap, and what the invariant gives *)

LEMMA ModType == \A n \in Int : n % FrameMod \in 0 .. FrameMod - 1
BY LoopAssumption

LEMMA ModSmall == \A n \in 0 .. FrameMod - 1 : n % FrameMod = n
BY LoopAssumption

LEMMA SlotType == \A n \in Int : Frame!Slot(n) \in 0 .. FramesToTrack - 1
BY LoopAssumption DEF Frame!Slot

\* The frame number before that of the next frame is that of this one.
LEMMA ModBefore == \A n \in 0 .. FrameMod - 1 : (((n + 1) % FrameMod) - 1) % FrameMod = n
<1> SUFFICES ASSUME NEW n \in 0 .. FrameMod - 1
             PROVE  (((n + 1) % FrameMod) - 1) % FrameMod = n
  OBVIOUS
<1>1. CASE n + 1 < FrameMod
  <2>1. (n + 1) % FrameMod = n + 1
    BY <1>1, ModSmall, LoopAssumption
  <2> QED BY <2>1, ModSmall
<1>2. CASE n + 1 = FrameMod
  <2>1. (n + 1) % FrameMod = 0
    BY <1>2, LoopAssumption
  <2>2. (-1) % FrameMod = FrameMod - 1
    BY LoopAssumption
  <2> QED BY <1>2, <2>1, <2>2
<1> QED BY <1>1, <1>2, LoopAssumption

LEMMA SameCardinality ==
  \A S : HeapP!Cardinality(S) = Cardinality(S) /\ Heap!Cardinality(S) = Cardinality(S)
BY DEF HeapP!Cardinality, Heap!Cardinality, Cardinality

LEMMA HeapAssumed == HeapP!HeapAssumption
<1>1. Cardinality(Blocks) \in Nat
  BY LoopAssumption, FS_CardinalityType
<1>2. HeapP!IsFiniteSet(Blocks)
  BY LoopAssumption DEF HeapP!IsFiniteSet, IsFiniteSet
<1> QED BY <1>1, <1>2, LoopAssumption, SameCardinality DEF HeapP!HeapAssumption

\* The invariant of the heap that the frames share.
LEMMA HeapKeep == ASSUME HeapP!HInv, UNCHANGED heapVars PROVE HeapP!HInv'
<1>1. HeapP!HInv /\ [HeapP!Next]_HeapP!vars => HeapP!HInv'
  BY HeapP!HNextInv, HeapAssumed
<1> QED BY <1>1 DEF heapVars, HeapP!vars

LEMMA HeapFree ==
  ASSUME HeapP!HInv, NEW n \in Keys, Heap!Free(n)
  PROVE  /\ HeapP!HInv'
         /\ allocated_blocks' = [allocated_blocks EXCEPT ![n] = <<>>]
<1>1. HeapP!Free(n)
  BY DEF Heap!Free, HeapP!Free, Heap!Take, HeapP!Take, Heap!RoomFor, HeapP!RoomFor,
         Heap!Elements, HeapP!Elements
<1>2. HeapP!HInv'
  BY <1>1, HeapP!FreeInv, HeapAssumed
<1> QED BY <1>2 DEF Heap!Free, Heap!Take

\* A block that is handed out was nobody's.
LEMMA HeapAlloc ==
  ASSUME HeapP!HInv, NEW n \in Keys, Heap!AllocBlock(n)
  PROVE  /\ HeapP!HInv'
         /\ \E b \in Blocks :
              /\ allocated_blocks' = [allocated_blocks EXCEPT ![n] = Append(@, b)]
              /\ \A m \in Keys : b \notin Heap!Elements(allocated_blocks[m])
<1>1. HeapP!AllocBlock(n)
  BY SameCardinality
  DEF Heap!AllocBlock, HeapP!AllocBlock, Heap!Grant, HeapP!Grant, Heap!InUse, HeapP!InUse,
      Heap!Elements, HeapP!Elements, Heap!Larger, HeapP!Larger
<1>2. HeapP!HInv'
  BY <1>1, HeapP!AllocInv, HeapAssumed
<1>3. PICK b \in Blocks, rest \in Seq(Blocks) : HeapP!Grant(n, b, rest) /\ b \notin HeapP!InUse
  BY <1>1, HeapP!AllocPicks, HeapAssumed
<1>4. \A m \in Keys : b \notin HeapP!Elements(allocated_blocks[m])
  BY <1>3 DEF HeapP!InUse
<1>5. \A m \in Keys : b \notin Heap!Elements(allocated_blocks[m])
  BY <1>4 DEF HeapP!Elements, Heap!Elements
<1>6. allocated_blocks' = [allocated_blocks EXCEPT ![n] = Append(@, b)]
  BY <1>3 DEF HeapP!Grant
<1> QED BY <1>2, <1>5, <1>6

\* A sequence of blocks and the set of its elements.
LEMMA HeapElements ==
  /\ \A s \in Seq(Blocks), b \in Blocks :
       Append(s, b) \in Seq(Blocks) /\ Heap!Elements(Append(s, b)) = Heap!Elements(s) \cup {b}
  /\ <<>> \in Seq(Blocks)
  /\ \A s \in Seq(Blocks) : Heap!Elements(s) \subseteq Blocks
<1>1. \A s : HeapP!Elements(s) = Heap!Elements(s)
  BY DEF HeapP!Elements, Heap!Elements
<1>2. \A s \in Seq(Blocks), b \in Blocks :
        Append(s, b) \in Seq(Blocks) /\ HeapP!Elements(Append(s, b)) = HeapP!Elements(s) \cup {b}
  BY HeapP!AppendElements, HeapAssumed
<1>3. \A s \in Seq(Blocks) : Heap!Elements(s) \subseteq Blocks
  BY DEF Heap!Elements
<1>4. <<>> \in Seq(Blocks)
  OBVIOUS
<1> QED BY <1>1, <1>2, <1>3, <1>4

\* Who is in a group is waited for by a job of a frame that waits for it.
LEMMA InGroup ==
  ASSUME JobPlaces, Members, NEW k \in Jobs, group[k] # NULL
  PROVE  \E p \in Jobs : /\ task[p] = "frame" /\ at[p] = "game_logic" /\ dat[p] = dat[k]
                         /\ state[p] \in {"active", "blocked"}
<1>1. PICK p \in Jobs : WaitedForBy(k, p)
  BY DEF Members
<1>2. CASE task[p] = "frame"
  BY <1>1, <1>2 DEF WaitedForBy, JobPlaces
<1>3. CASE task[p] = "game_logic"
  <2>1. at[p] \in {"fork", "join"} /\ dat[p] = dat[k] /\ state[p] \in {"active", "blocked"}
    BY <1>1, <1>3 DEF WaitedForBy, JobPlaces
  <2>2. group[p] # NULL
    BY <1>3, <2>1 DEF Members
  <2>3. PICK q \in Jobs : WaitedForBy(p, q)
    BY <2>2 DEF Members
  <2>4. task[q] = "frame" /\ at[q] = "game_logic" /\ dat[q] = dat[k]
    BY <1>3, <2>1, <2>3 DEF WaitedForBy
  <2> QED BY <2>4 DEF JobPlaces
<1> QED BY <1>1, <1>2, <1>3 DEF WaitedForBy

\* While the current frame is anywhere else, nobody is in a group.
LEMMA NobodyInGroup ==
  ASSUME JobPlaces, Members, OneFrame, NEW p \in Jobs, Current(p), at[p] # "game_logic"
  PROVE  \A k \in Jobs : group[k] = NULL
<1> SUFFICES ASSUME NEW k \in Jobs, group[k] # NULL PROVE FALSE
  OBVIOUS
<1>1. PICK q \in Jobs : task[q] = "frame" /\ at[q] = "game_logic"
  BY InGroup
<1> QED BY <1>1 DEF OneFrame, Current

\* A job that starts jobs in a group belongs to the current frame, which has
\* its slot, and finds it.
LEMMA StarterOwns ==
  ASSUME IInv, ~ thrown, NEW j \in Jobs, state[j] = "active",
         \/ task[j] = "frame" /\ at[j] = "stage"
         \/ task[j] = "game_logic" /\ at[j] = "fork"
  PROVE  \E p \in Jobs :
           /\ Current(p) /\ at[p] \in {"stage", "game_logic"} /\ dat[p] = dat[j]
           /\ UsesMemory(p) /\ MarksIn(dat[j])
           /\ dat[j] < FrameMod /\ frame_number[j] = dat[j]
           /\ params[Frame!Slot(dat[j])].m_frameNum = dat[j]
           /\ params[Frame!Slot(dat[j])].key = dat[j]
<1> USE DEF IInv, JInv, CInv
<1>1. PICK p \in Jobs : Current(p) /\ at[p] \in {"stage", "game_logic"} /\ dat[p] = dat[j]
  <2>1. CASE task[j] = "frame" /\ at[j] = "stage"
    BY <2>1 DEF Current
  <2>2. CASE task[j] = "game_logic" /\ at[j] = "fork"
    <3>1. group[j] # NULL
      BY <2>2 DEF Members
    <3> QED BY <3>1, InGroup DEF Current
  <2> QED BY <2>1, <2>2
<1>2. UsesMemory(p) /\ MarksIn(dat[j])
  BY <1>1 DEF UsesMemory, Current, Marks
<1>3. /\ dat[j] < FrameMod
      /\ params[Frame!Slot(dat[j])].m_frameNum = dat[j]
      /\ params[Frame!Slot(dat[j])].key = dat[j]
      /\ frame_number[p] = dat[p]
  BY <1>1 DEF SlotOwned
<1>4. frame_number[j] = dat[j]
  <2>1. CASE task[j] = "frame" /\ at[j] = "stage"
    BY <1>1, <1>3, <2>1 DEF OneFrame, Current
  <2>2. CASE task[j] = "game_logic" /\ at[j] = "fork"
    BY <2>2 DEF Members, SlotOwned
  <2> QED BY <2>1, <2>2
<1> QED BY <1>1, <1>2, <1>3, <1>4

-----------------------------------------------------------------------------
(* Steps that leave a part of the invariant alone *)

\* No counter, number or block changes, and no memory.
LEMMA CKeep ==
  ASSUME CInv, UNCHANGED <<allocated_blocks, thrown>>,
         \A n \in 0 .. FramesToTrack - 1 :
           /\ params'[n].m_frameNum = params[n].m_frameNum
           /\ params'[n].key = params[n].key /\ params'[n].blocks = params[n].blocks,
         dat \in [Jobs -> Keys],
         \A p \in Jobs :
           /\ UsesMemory(p)' <=> UsesMemory(p)
           /\ UsesMemory(p) => dat'[p] = dat[p]
           /\ (Current(p) /\ at[p] # "initialize")' =>
                /\ Current(p) /\ at[p] # "initialize"
                /\ dat'[p] = dat[p] /\ frame_number'[p] = frame_number[p]
           /\ cnt'[p] # NULL => cnt'[p] = cnt[p] /\ dat'[p] = dat[p]
           /\ group'[p] # NULL => frame_number'[p] = dat'[p]
  PROVE  CInv'
<1> USE DEF CInv
<1>0. \A p \in Jobs : dat[p] \in Int /\ Frame!Slot(dat[p]) \in 0 .. FramesToTrack - 1
  BY SlotType, LoopAssumption DEF Keys
<1>1. CountersDistinct'
  BY DEF CountersDistinct
<1>2. SlotOwned'
  BY <1>0 DEF SlotOwned, Current, Frame!Slot
<1>3. \A p \in Jobs : UsesMemory(p) => BlocksOf(dat[p])' = BlocksOf(dat[p])
  BY <1>0 DEF BlocksOf, Frame!Slot
<1>4. Marks'
  BY <1>3 DEF Marks, MarksIn
<1>5. CountersIssued'
  BY <1>3 DEF CountersIssued, Issued, InMemoryOf
<1>6. MemoryReturned'
  BY DEF MemoryReturned
<1> QED BY <1>1, <1>2, <1>4, <1>5, <1>6

\* No frame starts, is rendered or is measured.
LEMMA RKeep ==
  ASSUME RInv, UNCHANGED rendered, rendered \subseteq Keys,
         \A n \in 0 .. FramesToTrack - 1 : params'[n].measured = params[n].measured,
         dat \in [Jobs -> Keys],
         \A p \in Jobs : Current(p)' =>
           /\ Current(p)
           /\ dat'[p] = dat[p]
           /\ at'[p] \in BeforeFlip <=> at[p] \in BeforeFlip
           /\ at'[p] \in {"initialize", "next"} => at'[p] = at[p]
  PROVE  RInv'
<1> USE DEF RInv
<1>1. RenderedSoFar'
  BY DEF RenderedSoFar
<1>2. MeasuredBefore'
  <2> SUFFICES ASSUME NEW p \in Jobs, task'[p] = "frame"
               PROVE  /\ at'[p] = "initialize" /\ dat'[p] > 0 =>
                           DurationBefore(dat[p] % FrameMod)' = dat'[p] - 1
                      /\ at'[p] = "next" => params'[Frame!Slot(dat'[p])].measured = dat'[p]
    BY DEF MeasuredBefore, Current
  <2>1. dat[p] \in Int /\ Frame!Slot(dat[p]) \in 0 .. FramesToTrack - 1
    BY SlotType, LoopAssumption DEF Keys
  <2>2. Frame!Slot(((dat[p] % FrameMod) - 1) % FrameMod) \in 0 .. FramesToTrack - 1
    BY <2>1, ModType, SlotType
  <2>3. DurationBefore(dat[p] % FrameMod)' = DurationBefore(dat[p] % FrameMod) \/ ~ Current(p)'
    BY <2>2 DEF DurationBefore, Frame!GetFrameData, Frame!Slot
  <2> QED BY <2>1, <2>3 DEF MeasuredBefore, Current
<1> QED BY <1>1, <1>2

-----------------------------------------------------------------------------
(* The beginning *)

LEMMA InitInv == Init => IInv
<1> SUFFICES ASSUME Init PROVE IInv
  OBVIOUS
<1>0. 0 \in Keys /\ 0 \in Frame!FrameNumbers /\ CountersPerBlock \in 0 .. CountersPerBlock
  BY LoopAssumption DEF Keys, Frame!FrameNumbers
<1>1. HeapP!HInv
  <2>1. HeapP!Init
    BY DEF Init, Heap!Init, HeapP!Init, Heap!Elements, HeapP!Elements
  <2> QED BY <2>1, HeapP!HeapInitInv, HeapAssumed
<1>2. Heap!TypeOK
  BY <1>1 DEF HeapP!HInv, HeapP!TypeOK, Heap!TypeOK
<1>3. Frame!TypeOK
  BY <1>0 DEF Init, Frame!Init, Frame!TypeOK, Frame!FrameParams, Frame!NoBlock, Frame!Rest
<1>4. PICK i \in Jobs :
        /\ state = [x \in FJ!Callers |-> IF x \in {i, Main} THEN "active" ELSE "absent"]
        /\ task = [x \in Jobs |-> IF x = i THEN "frame" ELSE NULL]
        /\ at = [x \in Jobs |-> IF x = i THEN "initialize" ELSE "end"]
  BY DEF Init
<1>5. TypeOK
  <2>1. FJ!TypeOK
    BY <1>4 DEF Init, FJ!TypeOK
  <2>2. task \in [Jobs -> TaskKind \cup {NULL}] /\ at \in [Jobs -> Place]
    BY <1>4 DEF TaskKind, Place
  <2>3. 0 \in 0 .. Leaves
    BY LoopAssumption
  <2> QED BY <1>0, <1>2, <1>3, <2>1, <2>2, <2>3 DEF Init, TypeOK
<1>6. \A k \in Jobs : /\ state[k] = IF k = i THEN "active" ELSE "absent"
                      /\ group[k] = NULL /\ awaits[k] = NULL /\ cnt[k] = NULL /\ dat[k] = 0
  BY <1>4, LoopAssumption DEF Init, FJ!Callers
<1>7. JInv
  BY <1>4, <1>6, LoopAssumption
  DEF JInv, JobPlaces, Members, OneFrame, Latest, Current, Place, Waits, TaskKind
<1>8. \A p \in Jobs : ~ UsesMemory(p)
  BY <1>4 DEF UsesMemory
<1>9. CInv
  <2>1. MemoryReturned
    BY DEF Init, Heap!Init, MemoryReturned
  <2> QED BY <1>4, <1>6, <1>8, <2>1
      DEF CInv, CountersDistinct, SlotOwned, Marks, CountersIssued, Current
<1>10. RInv
  BY <1>4, <1>6
  DEF Init, RInv, RenderedSoFar, MeasuredBefore, Current, BeforeFlip
<1> QED BY <1>1, <1>5, <1>7, <1>9, <1>10 DEF IInv

-----------------------------------------------------------------------------
(* Jobs and their places *)

\* A frame job goes from one place to the next without calling the runtime.
LEMMA FrameMoves ==
  ASSUME TypeOK, JInv, NEW j \in Jobs, task[j] = "frame", NEW l,
         \/ at[j] = "initialize" /\ l = "stage"
         \/ at[j] = "flip" /\ l = "free"
         \/ at[j] = "free" /\ l = "measure"
         \/ at[j] = "measure" /\ l = "next",
         Goto(j, l), UNCHANGED <<jobVars, task, dat, cnt, leaves>>
  PROVE  JInv' /\ at' \in [Jobs -> Place]
<1>1. /\ at' \in [Jobs -> Place] /\ at'[j] = l
      /\ \A k \in Jobs : k # j => at'[k] = at[k]
  BY DEF TypeOK, Goto, Place
<1>2. JobPlaces'
  BY <1>1 DEF JInv, JobPlaces, jobVars, Place, Waits
<1>3. \A k, p \in Jobs : WaitedForBy(k, p)' <=> WaitedForBy(k, p)
  BY <1>1 DEF WaitedForBy, jobVars
<1>4. Members'
  BY <1>3 DEF JInv, Members, jobVars
<1>5. \A p \in Jobs : Current(p)' <=> Current(p)
  BY <1>1 DEF Current
<1>6. OneFrame' /\ Latest'
  BY <1>1, <1>5 DEF JInv, OneFrame, Latest
<1> QED BY <1>1, <1>2, <1>4, <1>6 DEF JInv

\* WaitForCounter is called.
LEMMA WaitJInv == ASSUME TypeOK, JInv, NEW j \in Jobs, Wait(j) PROVE JInv'
<1>0. Main \notin Jobs /\ NULL \notin Counters
  BY LoopAssumption
<1>1. /\ state' = [state EXCEPT ![j] = "blocked"] /\ state[j] = "active"
      /\ at[j] \in Waits /\ awaits'[j] = cnt[j]
      /\ UNCHANGED <<group, task, dat, at, frame_number, cnt, leaves>>
  BY DEF Wait, FJ!Block, localVars, Waits
<1>2. PICK g \in Counters : awaits' = [awaits EXCEPT ![j] = g]
  BY DEF Wait, FJ!Block
<1>3. /\ state'[j] = "blocked" /\ awaits'[j] # NULL
      /\ \A k \in Jobs : k # j => state'[k] = state[k] /\ awaits'[k] = awaits[k]
  BY <1>0, <1>1, <1>2 DEF TypeOK, FJ!TypeOK, FJ!Callers
<1>4. JobPlaces'
  BY <1>1, <1>3 DEF JInv, JobPlaces
<1>5. Members' /\ OneFrame' /\ Latest'
  BY <1>1, <1>3 DEF JInv, Members, WaitedForBy, OneFrame, Latest, Current
<1> QED BY <1>4, <1>5 DEF JInv

\* WaitForCounter returns: whom the job has waited for is gone.
LEMMA WaitedJInv ==
  ASSUME TypeOK, JInv, NEW j \in Jobs, Waited(j)
  PROVE  JInv' /\ at' \in [Jobs -> Place] /\ at[j] \in Waits /\ at'[j] = After(at[j])
<1>0. Main \notin Jobs /\ NULL \notin Counters
  BY LoopAssumption
<1>1. /\ state' = [state EXCEPT ![j] = "active"] /\ state[j] = "blocked"
      /\ awaits' = [awaits EXCEPT ![j] = NULL]
      /\ \A k \in Jobs : group[k] # awaits[j]
      /\ at' = [at EXCEPT ![j] = After(at[j])]
      /\ UNCHANGED <<group, task, dat, frame_number, cnt, leaves>>
  BY DEF Waited, FJ!Unblock, Goto
<1>2. at[j] \in Waits /\ awaits[j] = cnt[j]
  BY <1>1 DEF JInv, JobPlaces
<1>3. /\ After("game_logic") = "render" /\ After("render") = "gpu_submit"
      /\ After("gpu_submit") = "flip" /\ After("join") = "end"
  BY DEF After
<1>4. /\ state'[j] = "active" /\ awaits'[j] = NULL
      /\ at'[j] = After(at[j]) /\ at' \in [Jobs -> Place]
      /\ \A k \in Jobs : k # j => state'[k] = state[k] /\ awaits'[k] = awaits[k] /\ at'[k] = at[k]
  BY <1>0, <1>1, <1>2, <1>3 DEF TypeOK, FJ!TypeOK, FJ!Callers, Waits, Place
<1>5. JobPlaces'
  BY <1>1, <1>2, <1>3, <1>4 DEF JInv, JobPlaces, Waits, Place
<1>6. Members'
  <2>1. \A k, p \in Jobs : group[k] # NULL /\ WaitedForBy(k, p) => WaitedForBy(k, p)'
    BY <1>1, <1>2, <1>4 DEF WaitedForBy
  <2> QED BY <1>1, <1>4, <2>1 DEF JInv, Members
<1>7. \A p \in Jobs : Current(p)' => Current(p)
  BY <1>1, <1>2, <1>4 DEF Current, Waits
<1>8. OneFrame' /\ Latest'
  BY <1>1, <1>2, <1>3, <1>4, <1>7 DEF JInv, OneFrame, Latest, Waits
<1> QED BY <1>2, <1>4, <1>5, <1>6, <1>8 DEF JInv

\* Job j has started k, in a group.
Forked(j, k, kind) ==
  /\ state[j] = "active" /\ state[k] = "absent" /\ j # k
  /\ \A i \in Jobs : /\ state'[i] = IF i = k THEN "active" ELSE state[i]
                     /\ task'[i] = IF i = k THEN kind ELSE task[i]
                     /\ dat'[i] = IF i = k THEN dat[j] ELSE dat[i]
                     /\ cnt'[i] = IF i = k THEN NULL ELSE IF i = j THEN group'[k] ELSE cnt[i]
                     /\ i # k => group'[i] = group[i]
                     /\ frame_number'[i] = IF i = k THEN ActiveFrame(j).m_frameNum
                                           ELSE frame_number[i]
  /\ group'[k] \in Counters
  /\ cnt[j] # NULL => group'[k] = cnt[j]

\* RunTask with a counter, for the jobs.
LEMMA RunCountedJobs ==
  ASSUME TypeOK, NEW w, NEW j \in Jobs, NEW k \in Jobs, NEW kind \in TaskKind,
         RunCounted(w, j, k, kind)
  PROVE  /\ Forked(j, k, kind)
         /\ state' \in [FJ!Callers -> {"absent", "active", "blocked", "finished"}]
         /\ group' \in [Jobs -> Counters \cup {NULL}]
         /\ task' \in [Jobs -> TaskKind \cup {NULL}]
         /\ dat' \in [Jobs -> Keys]
         /\ cnt' \in [Jobs -> Counters \cup {NULL}]
<1>0. Main \notin Jobs /\ NULL \notin Counters
  BY LoopAssumption
<1>1. /\ state[j] = "active" /\ state[k] = "absent"
      /\ state' = [state EXCEPT ![k] = "active"]
      /\ group'[k] # NULL
      /\ cnt[j] # NULL => group'[k] = cnt[j]
      /\ cnt' = [cnt EXCEPT ![j] = group'[k], ![k] = NULL]
      /\ task' = [task EXCEPT ![k] = kind]
      /\ dat' = [dat EXCEPT ![k] = dat[j]]
      /\ frame_number' = [frame_number EXCEPT ![k] = ActiveFrame(j).m_frameNum]
  BY DEF RunCounted, FJ!Fork, SetUp
<1>2. PICK g \in Counters \cup {NULL} : group' = [group EXCEPT ![k] = g]
  BY DEF RunCounted, FJ!Fork
<1>3. /\ group'[k] = g /\ g \in Counters
      /\ \A i \in Jobs : i # k => group'[i] = group[i]
      /\ group' \in [Jobs -> Counters \cup {NULL}]
  BY <1>1, <1>2 DEF TypeOK, FJ!TypeOK
<1>4. /\ state' \in [FJ!Callers -> {"absent", "active", "blocked", "finished"}]
      /\ \A i \in Jobs : state'[i] = IF i = k THEN "active" ELSE state[i]
  BY <1>1 DEF TypeOK, FJ!TypeOK, FJ!Callers
<1> QED BY <1>1, <1>3, <1>4 DEF TypeOK, Forked

\* A frame job starts game logic.
LEMMA StartStageJInv ==
  ASSUME TypeOK, JInv, NEW w, NEW j \in Jobs, StartStage(w, j)
  PROVE  JInv' /\ at' \in [Jobs -> Place] /\ leaves' \in [Jobs -> 0 .. Leaves]
<1>0. state[j] = "active" /\ task[j] = "frame" /\ at[j] = "stage" /\ awaits' = awaits
  BY DEF StartStage, At
<1>1. PICK k \in Jobs :
        /\ RunCounted(w, j, k, "game_logic")
        /\ at' = [at EXCEPT ![j] = "game_logic", ![k] = "fork"]
        /\ leaves' = [leaves EXCEPT ![k] = 0]
  BY DEF StartStage
<1>2. Forked(j, k, "game_logic")
  <2>1. "game_logic" \in TaskKind
    BY DEF TaskKind
  <2> QED BY <1>1, <2>1, RunCountedJobs
<1> USE DEF Forked
<1>3. /\ at' \in [Jobs -> Place] /\ leaves' \in [Jobs -> 0 .. Leaves] /\ leaves'[k] < Leaves
      /\ at'[j] = "game_logic" /\ at'[k] = "fork"
      /\ \A i \in Jobs \ {j, k} : at'[i] = at[i] /\ leaves'[i] = leaves[i]
      /\ leaves'[j] = leaves[j]
  BY <1>1, <1>2, LoopAssumption DEF TypeOK, Place
<1>4. NULL \notin Counters /\ task[k] = NULL /\ awaits[k] = NULL /\ NULL \notin TaskKind
  BY <1>2, LoopAssumption DEF JInv, JobPlaces
<1>5. JobPlaces'
  BY <1>0, <1>2, <1>3, <1>4 DEF JInv, JobPlaces, Place, Waits, TaskKind
<1>6. Members'
  <2>1. WaitedForBy(k, j)'
    BY <1>0, <1>2, <1>3, <1>4 DEF WaitedForBy, TaskKind
  <2>2. ASSUME NEW i \in Jobs, i # k, group[i] # NULL
        PROVE  \E p \in Jobs : WaitedForBy(i, p)'
    <3>1. PICK p \in Jobs : WaitedForBy(i, p)
      BY <2>2 DEF JInv, Members
    <3>2. p # j /\ p # k
      BY <1>0, <1>4, <3>1 DEF WaitedForBy, TaskKind
    <3> QED BY <1>2, <1>3, <2>2, <3>1, <3>2 DEF WaitedForBy
  <2> QED BY <1>2, <1>4, <2>1, <2>2 DEF JInv, Members
<1>7. \A p \in Jobs : Current(p)' => p = j
  BY <1>0, <1>2, <1>3 DEF Current, JInv, OneFrame
<1>8. OneFrame' /\ Latest'
  <2>1. \A i \in Jobs : dat[i] <= dat[j]
    BY <1>0 DEF JInv, Latest, Current
  <2> QED BY <1>0, <1>2, <1>3, <1>7, <2>1 DEF OneFrame, Latest
<1> QED BY <1>3, <1>5, <1>6, <1>8 DEF JInv

\* Game logic starts a leaf.
LEMMA StartLeafJInv ==
  ASSUME TypeOK, JInv, NEW w, NEW j \in Jobs, StartLeaf(w, j)
  PROVE  JInv' /\ at' \in [Jobs -> Place] /\ leaves' \in [Jobs -> 0 .. Leaves]
<1>0. /\ state[j] = "active" /\ task[j] = "game_logic" /\ at[j] = "fork" /\ awaits' = awaits
      /\ leaves' = [leaves EXCEPT ![j] = @ + 1] /\ leaves[j] < Leaves
  BY DEF StartLeaf, At, JInv, JobPlaces
<1>1. PICK k \in Jobs :
        /\ RunCounted(w, j, k, "leaf")
        /\ at' = [at EXCEPT ![j] = IF LoopEnds(leaves'[j]) THEN "join" ELSE "fork", ![k] = "end"]
  BY DEF StartLeaf
<1>2. Forked(j, k, "leaf")
  <2>1. "leaf" \in TaskKind
    BY DEF TaskKind
  <2> QED BY <1>1, <2>1, RunCountedJobs
<1> USE DEF Forked
<1>3. /\ at' \in [Jobs -> Place] /\ leaves' \in [Jobs -> 0 .. Leaves]
      /\ at'[j] \in {"fork", "join"} /\ at'[k] = "end"
      /\ at'[j] = "fork" => leaves'[j] < Leaves
      /\ \A i \in Jobs \ {j, k} : at'[i] = at[i] /\ leaves'[i] = leaves[i]
  <2>1. leaves[j] + 1 \in 0 .. Leaves /\ leaves'[j] = leaves[j] + 1
        /\ leaves' \in [Jobs -> 0 .. Leaves]
    BY <1>0, LoopAssumption DEF TypeOK
  <2> QED BY <1>0, <1>1, <1>2, <2>1, LoopAssumption DEF TypeOK, Place, LoopEnds
<1>4. NULL \notin Counters /\ task[k] = NULL /\ awaits[k] = NULL /\ NULL \notin TaskKind
  BY <1>2, LoopAssumption DEF JInv, JobPlaces
<1>5. JobPlaces'
  BY <1>0, <1>2, <1>3, <1>4 DEF JInv, JobPlaces, Place, Waits, TaskKind
<1>6. Members'
  <2>1. WaitedForBy(k, j)'
    BY <1>0, <1>2, <1>3, <1>4 DEF WaitedForBy, TaskKind
  <2>2. ASSUME NEW i \in Jobs, i # k, group[i] # NULL
        PROVE  \E p \in Jobs : WaitedForBy(i, p)'
    <3>1. PICK p \in Jobs : WaitedForBy(i, p)
      BY <2>2 DEF JInv, Members
    <3>2. p # k
      BY <1>4, <3>1 DEF WaitedForBy, TaskKind
    <3>3. p = j => cnt'[p] = cnt[p]
      BY <1>2, <2>2, <3>1 DEF WaitedForBy
    <3> QED BY <1>0, <1>2, <1>3, <2>2, <3>1, <3>2, <3>3 DEF WaitedForBy
  <2> QED BY <1>2, <1>4, <2>1, <2>2 DEF JInv, Members
<1>7. \A p \in Jobs : Current(p)' => Current(p) /\ p # j /\ p # k
  BY <1>0, <1>2, <1>3 DEF Current
<1>8. OneFrame'
  BY <1>7 DEF JInv, OneFrame
<1>9. PICK q \in Jobs : task[q] = "frame" /\ at[q] = "game_logic"
  <2>1. group[j] # NULL
    BY <1>0 DEF JInv, Members
  <2> QED BY <2>1, InGroup DEF JInv
<1>10. Latest'
  <2> SUFFICES ASSUME NEW p \in Jobs, NEW i \in Jobs, Current(p)'
               PROVE  /\ dat'[i] <= dat'[p]
                      /\ at'[p] \in {"initialize", "stage"} /\ cnt'[i] # NULL => dat'[i] < dat'[p]
    BY DEF Latest
  <2>1. Current(p) /\ p # j /\ p # k /\ p = q
    BY <1>7, <1>9 DEF JInv, OneFrame, Current
  <2>2. at'[p] = "game_logic" /\ dat'[p] = dat[p]
    BY <1>2, <1>3, <1>9, <2>1
  <2> QED BY <1>2, <2>1, <2>2 DEF JInv, Latest
<1> QED BY <1>3, <1>5, <1>6, <1>8, <1>10 DEF JInv

\* The job of the next frame is started by that of this one, as its last act.
StartsNext(j, k) ==
  /\ At(j, "frame", "next")
  /\ dat[j] < MaxFrame
  /\ FJ!Fork(j, k)
  /\ group'[k] = NULL
  /\ cnt' = [cnt EXCEPT ![k] = NULL]
  /\ SetUp(j, k, "frame", dat[j] + 1)
  /\ at' = [at EXCEPT ![j] = "end", ![k] = "initialize"]
  /\ UNCHANGED <<heapVars, params, leaves, is_game_running, thrown, rendered>>

\* Job j goes to its end.
ComesToEnd(j) ==
  /\ state[j] = "active" /\ task[j] = "frame" /\ at[j] = "next"
  /\ at' = [at EXCEPT ![j] = "end"]
  /\ UNCHANGED <<heapVars, params, leaves, is_game_running, thrown, rendered,
                 jobVars, task, dat, frame_number, cnt>>

LEMMA NextFrameCases ==
  ASSUME NEW j \in Jobs, NextFrame(j)
  PROVE  ComesToEnd(j) \/ \E k \in Jobs : StartsNext(j, k)
BY DEF NextFrame, ComesToEnd, StartsNext, At, Goto

LEMMA ComesToEndJInv ==
  ASSUME TypeOK, JInv, NEW j \in Jobs, ComesToEnd(j)
  PROVE  JInv' /\ at' \in [Jobs -> Place]
<1>1. /\ at' \in [Jobs -> Place] /\ at'[j] = "end" /\ at[j] = "next" /\ task[j] = "frame"
      /\ \A k \in Jobs : k # j => at'[k] = at[k]
      /\ UNCHANGED <<state, group, awaits, task, dat, cnt, leaves>>
  BY DEF TypeOK, ComesToEnd, Place, jobVars
<1>2. JobPlaces'
  BY <1>1 DEF JInv, JobPlaces, Place, Waits
<1>3. Members'
  BY <1>1 DEF JInv, Members, WaitedForBy
<1>4. OneFrame' /\ Latest'
  BY <1>1 DEF JInv, OneFrame, Latest, Current
<1> QED BY <1>1, <1>2, <1>3, <1>4 DEF JInv

\* What the start of the next frame does to the jobs.
LEMMA StartsNextJobs ==
  ASSUME TypeOK, JInv, NEW j \in Jobs, NEW k \in Jobs, StartsNext(j, k)
  PROVE  /\ state[j] = "active" /\ task[j] = "frame" /\ at[j] = "next"
         /\ state[k] = "absent" /\ j # k /\ awaits' = awaits
         /\ at' \in [Jobs -> Place] /\ dat' \in [Jobs -> Keys]
         /\ dat'[k] = dat[j] + 1 /\ leaves' = leaves
         /\ \A i \in Jobs : /\ state'[i] = IF i = k THEN "active" ELSE state[i]
                            /\ at'[i] = IF i = k THEN "initialize" ELSE IF i = j THEN "end" ELSE at[i]
                            /\ task'[i] = IF i = k THEN "frame" ELSE task[i]
                            /\ i # k => dat'[i] = dat[i] /\ frame_number'[i] = frame_number[i]
                            /\ cnt'[i] = cnt[i] /\ group'[i] = group[i]
<1>0. Main \notin Jobs
  BY LoopAssumption
<1>1. /\ state[j] = "active" /\ task[j] = "frame" /\ at[j] = "next"
      /\ state[k] = "absent" /\ dat[j] < MaxFrame
      /\ state' = [state EXCEPT ![k] = "active"] /\ group'[k] = NULL
      /\ cnt' = [cnt EXCEPT ![k] = NULL] /\ awaits' = awaits
      /\ task' = [task EXCEPT ![k] = "frame"] /\ dat' = [dat EXCEPT ![k] = dat[j] + 1]
      /\ frame_number' = [frame_number EXCEPT ![k] = ActiveFrame(j).m_frameNum]
      /\ at' = [at EXCEPT ![j] = "end", ![k] = "initialize"]
  BY DEF StartsNext, At, FJ!Fork, SetUp
<1>2. j # k
  BY <1>1
<1>3. task[k] = NULL /\ group[k] = NULL /\ cnt[k] = NULL
  BY <1>1 DEF JInv, JobPlaces
<1>4. dat[j] + 1 \in Keys
  <2>1. dat[j] \in 0 .. MaxFrame
    BY DEF TypeOK, Keys
  <2> QED BY <1>1, <2>1, LoopAssumption DEF Keys
<1>5. \A i \in Jobs : group'[i] = group[i]
  BY <1>1, <1>3 DEF StartsNext, FJ!Fork, TypeOK, FJ!TypeOK
<1>6. \A i \in Jobs : state'[i] = IF i = k THEN "active" ELSE state[i]
  BY <1>1 DEF TypeOK, FJ!TypeOK, FJ!Callers
<1>7. /\ at' \in [Jobs -> Place] /\ dat' \in [Jobs -> Keys]
      /\ dat'[k] = dat[j] + 1
      /\ \A i \in Jobs : /\ at'[i] = IF i = k THEN "initialize" ELSE IF i = j THEN "end" ELSE at[i]
                         /\ task'[i] = IF i = k THEN "frame" ELSE task[i]
                         /\ i # k => dat'[i] = dat[i] /\ frame_number'[i] = frame_number[i]
                         /\ cnt'[i] = cnt[i]
  BY <1>1, <1>2, <1>3, <1>4 DEF TypeOK, Place
<1>8. leaves' = leaves
  BY DEF StartsNext
<1> QED BY <1>1, <1>2, <1>5, <1>6, <1>7, <1>8

LEMMA StartsNextJInv ==
  ASSUME TypeOK, JInv, NEW j \in Jobs, NEW k \in Jobs, StartsNext(j, k)
  PROVE  JInv'
<1>1. /\ state[j] = "active" /\ task[j] = "frame" /\ at[j] = "next"
      /\ state[k] = "absent" /\ j # k /\ awaits' = awaits
      /\ dat'[k] = dat[j] + 1 /\ leaves' = leaves
      /\ \A i \in Jobs : /\ state'[i] = IF i = k THEN "active" ELSE state[i]
                         /\ at'[i] = IF i = k THEN "initialize" ELSE IF i = j THEN "end" ELSE at[i]
                         /\ task'[i] = IF i = k THEN "frame" ELSE task[i]
                         /\ i # k => dat'[i] = dat[i]
                         /\ cnt'[i] = cnt[i] /\ group'[i] = group[i]
  BY StartsNextJobs
<1>2. task[k] = NULL /\ group[k] = NULL /\ cnt[k] = NULL /\ awaits[k] = NULL
  BY <1>1 DEF JInv, JobPlaces
<1>3. NULL \notin TaskKind
  BY LoopAssumption
<1>4. JobPlaces'
  BY <1>1, <1>2, <1>3 DEF JInv, JobPlaces, Place, Waits, TaskKind
<1>5. Members'
  <2>1. ASSUME NEW i \in Jobs, group[i] # NULL
        PROVE  \E p \in Jobs : WaitedForBy(i, p)'
    <3>1. PICK p \in Jobs : WaitedForBy(i, p)
      BY <2>1 DEF JInv, Members
    <3>2. p # j /\ p # k /\ i # k /\ i # j
      BY <1>1, <1>2, <1>3, <2>1, <3>1 DEF WaitedForBy, TaskKind
    <3> QED BY <1>1, <3>1, <3>2 DEF WaitedForBy
  <2> QED BY <1>1, <2>1 DEF JInv, Members
<1>6. \A p \in Jobs : Current(p)' => p = k
  BY <1>1 DEF JInv, OneFrame, Current
<1>7. Latest'
  <2>1. \A i \in Jobs : dat[i] <= dat[j] /\ dat[i] \in Int
    BY <1>1 DEF JInv, Latest, Current, TypeOK, Keys
  <2>2. \A i \in Jobs : i # k => dat'[i] < dat'[k]
    BY <1>1, <2>1
  <2> QED BY <1>1, <1>2, <1>6, <2>1, <2>2 DEF Latest
<1>8. OneFrame'
  BY <1>6 DEF OneFrame
<1> QED BY <1>4, <1>5, <1>7, <1>8 DEF JInv

\* The function of a job returns, the job leaves its group, and is gone.
LEMMA ReturnJInv == ASSUME TypeOK, JInv, NEW j \in Jobs, Return(j) PROVE JInv'
<1>1. /\ state[j] = "active" /\ at[j] = "end" /\ state' = [state EXCEPT ![j] = "finished"]
      /\ UNCHANGED <<group, awaits, task, dat, at, cnt, leaves>>
  BY DEF Return, FJ!Finish, localVars
<1>2. \A i \in Jobs : state'[i] = IF i = j THEN "finished" ELSE state[i]
  BY <1>1 DEF TypeOK, FJ!TypeOK, FJ!Callers
<1>3. JobPlaces'
  BY <1>1, <1>2 DEF JInv, JobPlaces
<1>4. Members' /\ OneFrame' /\ Latest'
  BY <1>1, <1>2 DEF JInv, Members, WaitedForBy, OneFrame, Latest, Current
<1> QED BY <1>3, <1>4 DEF JInv

LEMMA LeaveJInv == ASSUME TypeOK, JInv, NEW j \in Jobs, Leave(j) PROVE JInv'
<1>1. /\ state[j] = "finished" /\ group' = [group EXCEPT ![j] = NULL]
      /\ UNCHANGED <<state, awaits, task, dat, at, cnt, leaves>>
  BY DEF Leave, FJ!Leave, localVars
<1>2. \A i \in Jobs : group'[i] = IF i = j THEN NULL ELSE group[i]
  BY <1>1 DEF TypeOK, FJ!TypeOK
<1>3. JobPlaces'
  BY <1>1, <1>2 DEF JInv, JobPlaces
<1>4. Members'
  BY <1>1, <1>2 DEF JInv, Members, WaitedForBy
<1>5. OneFrame' /\ Latest'
  BY <1>1 DEF JInv, OneFrame, Latest, Current
<1> QED BY <1>3, <1>4, <1>5 DEF JInv

LEMMA VanishJInv == ASSUME TypeOK, JInv, NEW j \in Jobs, Vanish(j) PROVE JInv'
<1>1. /\ state[j] = "finished" /\ group[j] = NULL
      /\ state' = [state EXCEPT ![j] = "absent"]
      /\ task' = [task EXCEPT ![j] = NULL] /\ cnt' = [cnt EXCEPT ![j] = NULL]
      /\ dat' = [dat EXCEPT ![j] = 0] /\ leaves' = [leaves EXCEPT ![j] = 0]
      /\ UNCHANGED <<group, awaits, at>>
  BY DEF Vanish, FJ!Vanish
<1>2. \A i \in Jobs : /\ state'[i] = IF i = j THEN "absent" ELSE state[i]
                      /\ task'[i] = IF i = j THEN NULL ELSE task[i]
                      /\ cnt'[i] = IF i = j THEN NULL ELSE cnt[i]
                      /\ dat'[i] = IF i = j THEN 0 ELSE dat[i]
                      /\ i # j => leaves'[i] = leaves[i]
  BY <1>1 DEF TypeOK, FJ!TypeOK, FJ!Callers
<1>3. at[j] = "end" /\ awaits[j] = NULL /\ NULL \notin TaskKind
  BY <1>1, LoopAssumption DEF JInv, JobPlaces
<1>4. JobPlaces'
  BY <1>1, <1>2, <1>3 DEF JInv, JobPlaces, Waits, TaskKind
<1>5. Members'
  <2>1. ASSUME NEW i \in Jobs, group[i] # NULL
        PROVE  i # j /\ \E p \in Jobs : WaitedForBy(i, p)'
    <3>1. PICK p \in Jobs : WaitedForBy(i, p)
      BY <2>1 DEF JInv, Members
    <3>2. p # j /\ i # j
      BY <1>1, <1>3, <2>1, <3>1 DEF WaitedForBy
    <3> QED BY <1>1, <1>2, <3>1, <3>2 DEF WaitedForBy
  <2> QED BY <1>1, <1>2, <1>3, <2>1 DEF JInv, Members, TaskKind
<1>6. \A p \in Jobs : Current(p)' => Current(p) /\ p # j
  BY <1>1, <1>2, <1>3 DEF Current, TaskKind
<1>7. OneFrame'
  BY <1>6 DEF JInv, OneFrame
<1>8. Latest'
  <2>1. \A p \in Jobs : 0 <= dat[p] /\ dat[p] \in Int
    BY DEF TypeOK, Keys
  <2> QED BY <1>1, <1>2, <1>6, <2>1 DEF JInv, Latest
<1> QED BY <1>4, <1>5, <1>7, <1>8 DEF JInv

-----------------------------------------------------------------------------
(* The steps of the frame job *)

LEMMA HeapTyped == HeapP!HInv' => Heap!TypeOK'
BY DEF HeapP!HInv, HeapP!TypeOK, Heap!TypeOK

LEMMA NumberTypes ==
  ASSUME TypeOK, NEW j \in Jobs
  PROVE  /\ dat[j] \in Nat /\ dat[j] % FrameMod \in Frame!FrameNumbers
         /\ Frame!Slot(dat[j]) \in 0 .. FramesToTrack - 1
         /\ Frame!Slot(dat[j] % FrameMod) \in 0 .. FramesToTrack - 1
         /\ Frame!Slot(frame_number[j]) \in 0 .. FramesToTrack - 1
<1>1. dat[j] \in Nat /\ frame_number[j] \in Int
  BY LoopAssumption DEF TypeOK, Keys, Frame!FrameNumbers
<1>2. dat[j] % FrameMod \in 0 .. FrameMod - 1
  BY <1>1, ModType
<1> QED BY <1>1, <1>2, SlotType DEF Frame!FrameNumbers

\* InitializeFrame takes the slot over, whoever had it.
LEMMA InitializeFrameInv ==
  ASSUME IInv, NEW j \in Jobs, InitializeFrame(j)
  PROVE  IInv'
<1> DEFINE n == dat[j] % FrameMod
           s == Frame!Slot(n)
           d == IF dat[j] = 0 THEN NULL ELSE DurationBefore(n)
<1> USE DEF IInv
<1>1. /\ ~ thrown /\ state[j] = "active" /\ task[j] = "frame" /\ at[j] = "initialize"
      /\ params' = [params EXCEPT ![s] =
                      [m_frameNum |-> n, m_hasRendered |-> NULL, measured |-> d,
                       key |-> n, blocks |-> [w \in Workers |-> Frame!NoBlock]]]
      /\ frame_number' = [frame_number EXCEPT ![j] = n]
      /\ thrown' = (params'[s].m_frameNum # dat[j])
      /\ Goto(j, "stage")
      /\ UNCHANGED <<jobVars, heapVars, task, dat, cnt, leaves, is_game_running, rendered>>
  BY DEF InitializeFrame, Frame!InitializeFrame, At
<1>2. n \in Frame!FrameNumbers /\ s \in 0 .. FramesToTrack - 1 /\ dat[j] \in Nat
  BY NumberTypes
<1>3. d \in Nat \cup {NULL}
  <2>1. Frame!Slot((n - 1) % FrameMod) \in 0 .. FramesToTrack - 1
    BY <1>2, ModType, SlotType DEF Frame!FrameNumbers
  <2> QED BY <2>1 DEF DurationBefore, Frame!GetFrameData, TypeOK, Frame!TypeOK, Frame!FrameParams
<1> HIDE DEF n, s, d
<1>4. /\ Frame!TypeOK'
      /\ params'[s] = [m_frameNum |-> n, m_hasRendered |-> NULL, measured |-> d,
                       key |-> n, blocks |-> [w \in Workers |-> Frame!NoBlock]]
      /\ \A i \in 0 .. FramesToTrack - 1 : i # s => params'[i] = params[i]
  <2> DEFINE r == [m_frameNum |-> n, m_hasRendered |-> NULL, measured |-> d,
                   key |-> n, blocks |-> [w \in Workers |-> Frame!NoBlock]]
  <2>1. [w \in Workers |-> Frame!NoBlock] \in [Workers -> Frame!Rest]
    BY LoopAssumption DEF Frame!NoBlock, Frame!Rest
  <2>3. r \in Frame!FrameParams
    BY <1>2, <1>3, <2>1 DEF Frame!FrameParams
  <2>4. params' = [params EXCEPT ![s] = r]
    BY <1>1
  <2> HIDE DEF r
  <2>5. /\ Frame!TypeOK' /\ params'[s] = r
        /\ \A i \in 0 .. FramesToTrack - 1 : i # s => params'[i] = params[i]
    BY <1>2, <2>3, <2>4 DEF TypeOK, Frame!TypeOK
  <2> QED BY <2>5 DEF r
<1>5. JInv' /\ at' \in [Jobs -> Place]
  BY <1>1, FrameMoves
<1>6. HeapP!HInv'
  BY <1>1, HeapKeep
<1>7. TypeOK'
  <2>1. frame_number' \in [Jobs -> Frame!FrameNumbers] /\ thrown' \in BOOLEAN
    BY <1>1, <1>2 DEF TypeOK
  <2> QED BY <1>1, <1>4, <1>5, <1>6, <2>1, HeapTyped DEF TypeOK, FJ!TypeOK, jobVars
<1>8. /\ at'[j] = "stage" /\ frame_number'[j] = n
      /\ \A p \in Jobs : Current(p)' => p = j
      /\ \A p \in Jobs : UsesMemory(p)' => p = j
      /\ \A p \in Jobs : ~ UsesMemory(p)
      /\ \A k \in Jobs : group[k] = NULL
  <2>1. at'[j] = "stage" /\ \A p \in Jobs : p # j => at'[p] = at[p]
    BY <1>1 DEF Goto, TypeOK
  <2>2. \A p \in Jobs : Current(p) => p = j
    BY <1>1 DEF JInv, OneFrame, Current
  <2>3. \A k \in Jobs : group[k] = NULL
    BY <1>1, NobodyInGroup DEF JInv, Current
  <2>4. frame_number'[j] = n
    BY <1>1 DEF TypeOK
  <2> QED BY <1>1, <2>1, <2>2, <2>3, <2>4 DEF Current, UsesMemory
<1>9. ~ thrown' => n = dat[j] /\ s = Frame!Slot(dat[j]) /\ dat[j] < FrameMod
  <2>1. params'[s].m_frameNum = n
    BY <1>4
  <2>2. ~ thrown' => n = dat[j]
    BY <1>1, <2>1
  <2>3. n < FrameMod
    BY <1>2, LoopAssumption DEF Frame!FrameNumbers
  <2>4. s = Frame!Slot(n)
    BY DEF s
  <2> QED BY <2>2, <2>3, <2>4
<1>10. CInv'
  <2>1. CountersDistinct'
    BY <1>1 DEF CInv, CountersDistinct
  <2>2. SlotOwned'
    BY <1>1, <1>4, <1>8, <1>9 DEF SlotOwned, jobVars, Frame!Slot
  <2>3. Marks'
    <3> SUFFICES ASSUME ~ thrown' PROVE MarksIn(dat[j])'
      BY <1>8 DEF Marks
    <3>1. BlocksOf(dat[j])' = [w \in Workers |-> Frame!NoBlock]
      BY <1>1, <1>4, <1>9 DEF BlocksOf, Frame!Slot
    <3> QED BY <3>1 DEF MarksIn, Frame!NoBlock
  <2>4. CountersIssued'
    <3>1. \A k \in Jobs : cnt[k] # NULL => dat[k] < dat[j]
      BY <1>1 DEF JInv, Latest, Current
    <3>2. \A k \in Jobs : cnt[k] # NULL => dat[k] # dat[j]
      BY <3>1 DEF TypeOK, Keys
    <3> QED BY <1>1, <1>8, <3>2 DEF CountersIssued
  <2>5. MemoryReturned'
    BY <1>1, <1>8 DEF CInv, MemoryReturned, heapVars
  <2> QED BY <2>1, <2>2, <2>3, <2>4, <2>5 DEF CInv
<1>11. RInv'
  <2>1. RenderedSoFar'
    BY <1>1, <1>8 DEF RInv, RenderedSoFar, Current, BeforeFlip
  <2>2. MeasuredBefore'
    <3>1. \A p \in Jobs : task'[p] = "frame" /\ at'[p] # "end" => at'[p] = "stage"
      BY <1>8 DEF Current
    <3> QED BY <3>1 DEF MeasuredBefore
  <2> QED BY <2>1, <2>2 DEF RInv
<1> QED BY <1>5, <1>6, <1>7, <1>10, <1>11

\* A step that changes a member of the parameters of a frame, and no other.
LEMMA ParamsKept ==
  ASSUME TypeOK, NEW s \in 0 .. FramesToTrack - 1,
         \/ params' = [params EXCEPT ![s].m_hasRendered = TRUE]
         \/ \E d \in Nat : params' = [params EXCEPT ![s].measured = d]
  PROVE  /\ Frame!TypeOK'
         /\ \A i \in 0 .. FramesToTrack - 1 :
              /\ params'[i].m_frameNum = params[i].m_frameNum
              /\ params'[i].key = params[i].key /\ params'[i].blocks = params[i].blocks
<1>1. CASE params' = [params EXCEPT ![s].m_hasRendered = TRUE]
  <2>1. params[s] \in Frame!FrameParams
    BY DEF TypeOK, Frame!TypeOK
  <2>2. [params[s] EXCEPT !.m_hasRendered = TRUE] \in Frame!FrameParams
    BY <2>1 DEF Frame!FrameParams
  <2>3. /\ Frame!TypeOK'
        /\ params'[s] = [params[s] EXCEPT !.m_hasRendered = TRUE]
        /\ \A i \in 0 .. FramesToTrack - 1 : i # s => params'[i] = params[i]
    BY <1>1, <2>2 DEF TypeOK, Frame!TypeOK
  <2> QED BY <2>1, <2>3 DEF Frame!FrameParams
<1>2. ASSUME NEW d \in Nat, params' = [params EXCEPT ![s].measured = d]
      PROVE  /\ Frame!TypeOK'
             /\ \A i \in 0 .. FramesToTrack - 1 :
                  /\ params'[i].m_frameNum = params[i].m_frameNum
                  /\ params'[i].key = params[i].key /\ params'[i].blocks = params[i].blocks
  <2>1. params[s] \in Frame!FrameParams
    BY DEF TypeOK, Frame!TypeOK
  <2>2. [params[s] EXCEPT !.measured = d] \in Frame!FrameParams
    BY <2>1 DEF Frame!FrameParams
  <2>3. /\ Frame!TypeOK'
        /\ params'[s] = [params[s] EXCEPT !.measured = d]
        /\ \A i \in 0 .. FramesToTrack - 1 : i # s => params'[i] = params[i]
    BY <1>2, <2>2 DEF TypeOK, Frame!TypeOK
  <2> QED BY <2>1, <2>3 DEF Frame!FrameParams
<1> QED BY <1>1, <1>2

LEMMA FlipInv == ASSUME IInv, NEW j \in Jobs, Flip(j) PROVE IInv'
<1> DEFINE n == dat[j]
<1> USE DEF IInv
<1>1. /\ ~ thrown /\ state[j] = "active" /\ task[j] = "frame" /\ at[j] = "flip"
      /\ params' = [params EXCEPT ![Frame!Slot(n % FrameMod)].m_hasRendered = TRUE]
      /\ rendered' = rendered \cup {n}
      /\ Goto(j, "free")
      /\ UNCHANGED <<jobVars, heapVars, task, dat, cnt, leaves, frame_number, is_game_running,
                     thrown>>
  BY DEF Flip, At
<1>2. n \in 0 .. FrameMod - 1 /\ n \in Keys /\ Frame!Slot(n) \in 0 .. FramesToTrack - 1
  <2>1. n \in 0 .. FrameMod - 1 /\ Frame!Slot(n) \in 0 .. FramesToTrack - 1
    BY <1>1, NumberTypes, LoopAssumption DEF CInv, SlotOwned, Current
  <2>2. n \in Keys
    BY DEF TypeOK
  <2> QED BY <2>1, <2>2
<1>3. n % FrameMod = n
  BY <1>2, ModSmall
<1> HIDE DEF n
<1>4. params' = [params EXCEPT ![Frame!Slot(n)].m_hasRendered = TRUE]
  BY <1>1, <1>3
<1>5. /\ Frame!TypeOK'
      /\ \A i \in 0 .. FramesToTrack - 1 :
           /\ params'[i].m_frameNum = params[i].m_frameNum
           /\ params'[i].key = params[i].key /\ params'[i].blocks = params[i].blocks
  BY <1>2, <1>4, ParamsKept
<1>7. JInv' /\ at' \in [Jobs -> Place]
  BY <1>1, FrameMoves
<1>8. HeapP!HInv'
  BY <1>1, HeapKeep
<1>9. TypeOK'
  BY <1>1, <1>2, <1>5, <1>7, <1>8, HeapTyped DEF TypeOK, FJ!TypeOK, jobVars
<1>10. at'[j] = "free" /\ \A p \in Jobs : p # j => at'[p] = at[p]
  BY <1>1 DEF Goto, TypeOK
<1>11. CInv'
  <2>1. \A k \in Jobs : group[k] = NULL
    BY <1>1, NobodyInGroup DEF JInv, Current
  <2> QED BY <1>1, <1>5, <1>10, <2>1, CKeep
      DEF TypeOK, Current, UsesMemory, heapVars, jobVars
<1>12. \A p \in Jobs : Current(p)' => p = j
  BY <1>1, <1>10 DEF JInv, OneFrame, Current
<1>13. RInv'
  <2>1. rendered = 0 .. n - 1
    BY <1>1 DEF RInv, RenderedSoFar, Current, BeforeFlip, n
  <2>2. RenderedSoFar'
    BY <1>1, <1>2, <1>10, <1>12, <2>1 DEF RenderedSoFar, BeforeFlip, Keys, n
  <2>3. MeasuredBefore'
    BY <1>10, <1>12 DEF MeasuredBefore, Current
  <2> QED BY <2>2, <2>3 DEF RInv
<1> QED BY <1>7, <1>8, <1>9, <1>11, <1>13

LEMMA MeasureInv == ASSUME IInv, NEW j \in Jobs, Measure(j) PROVE IInv'
<1> DEFINE n == dat[j]
<1> USE DEF IInv
<1>1. /\ ~ thrown /\ state[j] = "active" /\ task[j] = "frame" /\ at[j] = "measure"
      /\ params' = [params EXCEPT ![Frame!Slot(n % FrameMod)].measured = n]
      /\ Goto(j, "next")
      /\ UNCHANGED <<jobVars, heapVars, task, dat, cnt, leaves, frame_number, is_game_running,
                     thrown, rendered>>
  BY DEF Measure, At
<1>2. n \in 0 .. FrameMod - 1 /\ n \in Nat /\ Frame!Slot(n) \in 0 .. FramesToTrack - 1
  BY <1>1, NumberTypes, LoopAssumption DEF CInv, SlotOwned, Current
<1>3. n % FrameMod = n
  BY <1>2, ModSmall
<1> HIDE DEF n
<1>4. params' = [params EXCEPT ![Frame!Slot(n)].measured = n]
  BY <1>1, <1>3
<1>5. /\ Frame!TypeOK'
      /\ \A i \in 0 .. FramesToTrack - 1 :
           /\ params'[i].m_frameNum = params[i].m_frameNum
           /\ params'[i].key = params[i].key /\ params'[i].blocks = params[i].blocks
  BY <1>2, <1>4, ParamsKept
<1>6. params'[Frame!Slot(n)].measured = n
  BY <1>2, <1>4 DEF TypeOK, Frame!TypeOK, Frame!FrameParams
<1>7. JInv' /\ at' \in [Jobs -> Place]
  BY <1>1, FrameMoves
<1>8. HeapP!HInv'
  BY <1>1, HeapKeep
<1>9. TypeOK'
  BY <1>1, <1>5, <1>7, <1>8, HeapTyped DEF TypeOK, FJ!TypeOK, jobVars
<1>10. at'[j] = "next" /\ \A p \in Jobs : p # j => at'[p] = at[p]
  BY <1>1 DEF Goto, TypeOK
<1>11. CInv'
  <2>1. \A k \in Jobs : group[k] = NULL
    BY <1>1, NobodyInGroup DEF JInv, Current
  <2> QED BY <1>1, <1>5, <1>10, <2>1, CKeep
      DEF TypeOK, Current, UsesMemory, heapVars, jobVars
<1>12. \A p \in Jobs : Current(p)' => p = j
  BY <1>1, <1>10 DEF JInv, OneFrame, Current
<1>13. RInv'
  <2>1. RenderedSoFar'
    BY <1>1, <1>10, <1>12 DEF RInv, RenderedSoFar, Current, BeforeFlip
  <2>2. MeasuredBefore'
    BY <1>1, <1>6, <1>10, <1>12 DEF MeasuredBefore, Current, Frame!Slot, n
  <2> QED BY <2>1, <2>2 DEF RInv
<1> QED BY <1>7, <1>8, <1>9, <1>11, <1>13

\* The memory of the frame is freed when nobody waits for anything in it.
LEMMA FreeFrameInv == ASSUME IInv, NEW j \in Jobs, FreeFrame(j) PROVE IInv'
<1> USE DEF IInv
<1>1. /\ ~ thrown /\ state[j] = "active" /\ task[j] = "frame" /\ at[j] = "free"
      /\ Heap!Free(dat[j])
      /\ Goto(j, "measure")
      /\ UNCHANGED <<jobVars, params, task, dat, cnt, leaves, frame_number, is_game_running,
                     thrown, rendered>>
  BY DEF FreeFrame, At, KeyOf
<1>2. HeapP!HInv' /\ allocated_blocks' = [allocated_blocks EXCEPT ![dat[j]] = <<>>]
  BY <1>1, HeapFree DEF TypeOK
<1>3. JInv' /\ at' \in [Jobs -> Place]
  BY <1>1, FrameMoves
<1>4. TypeOK'
  BY <1>1, <1>2, <1>3, HeapTyped DEF TypeOK, FJ!TypeOK, Frame!TypeOK, jobVars
<1>5. at'[j] = "measure" /\ \A p \in Jobs : p # j => at'[p] = at[p]
  BY <1>1 DEF Goto, TypeOK
<1>6. \A p \in Jobs : /\ Current(p)' => p = j /\ Current(p)
                      /\ ~ UsesMemory(p)' /\ (UsesMemory(p) => p = j)
  BY <1>1, <1>5 DEF JInv, OneFrame, Current, UsesMemory
<1>7. CInv'
  <2>1. CountersDistinct'
    BY <1>1 DEF CInv, CountersDistinct
  <2>2. SlotOwned'
    <3>1. \A k \in Jobs : group[k] = NULL
      BY <1>1, NobodyInGroup DEF JInv, Current
    <3> QED BY <1>1, <1>6, <3>1 DEF CInv, SlotOwned, Current, jobVars, Frame!Slot
  <2>3. Marks' /\ CountersIssued'
    BY <1>6 DEF Marks, CountersIssued
  <2>4. MemoryReturned'
    <3>1. \A n \in Keys : n # dat[j] => allocated_blocks[n] = <<>>
      BY <1>6 DEF CInv, MemoryReturned
    <3>2. \A n \in Keys : allocated_blocks'[n] = <<>>
      BY <1>2, <3>1 DEF TypeOK, Heap!TypeOK
    <3> QED BY <3>2 DEF MemoryReturned
  <2> QED BY <2>1, <2>2, <2>3, <2>4 DEF CInv
<1>8. RInv'
  BY <1>1, <1>5, <1>6, RKeep DEF TypeOK, BeforeFlip
<1> QED BY <1>2, <1>3, <1>4, <1>7, <1>8

\* The next frame finds that this one has been rendered and measured.
LEMMA NextFrameInv == ASSUME IInv, NEW j \in Jobs, NextFrame(j) PROVE IInv'
<1> USE DEF IInv
<1>1. CASE ComesToEnd(j)
  <2>1. JInv' /\ at' \in [Jobs -> Place]
    BY <1>1, ComesToEndJInv
  <2>2. /\ state[j] = "active" /\ task[j] = "frame" /\ at[j] = "next"
        /\ at' = [at EXCEPT ![j] = "end"]
        /\ UNCHANGED <<heapVars, params, leaves, is_game_running, thrown, rendered,
                       jobVars, task, dat, frame_number, cnt>>
    BY <1>1 DEF ComesToEnd
  <2>3. HeapP!HInv'
    BY <2>2, HeapKeep
  <2>4. TypeOK'
    BY <2>1, <2>2, <2>3, HeapTyped DEF TypeOK, FJ!TypeOK, Frame!TypeOK, jobVars
  <2>5. at'[j] = "end" /\ \A p \in Jobs : p # j => at'[p] = at[p]
    BY <2>2 DEF TypeOK
  <2>6. CInv'
    <3>1. \A k \in Jobs : group[k] = NULL
      BY <2>2, NobodyInGroup DEF JInv, Current
    <3> QED BY <2>2, <2>5, <3>1, CKeep DEF TypeOK, Current, UsesMemory, heapVars, jobVars
  <2>7. RInv'
    BY <2>2, <2>5, RKeep DEF TypeOK, Current
  <2> QED BY <2>1, <2>3, <2>4, <2>6, <2>7
<1>2. ASSUME NEW k \in Jobs, StartsNext(j, k) PROVE IInv'
  <2>1. JInv'
    BY <1>2, StartsNextJInv
  <2>2. /\ state[j] = "active" /\ task[j] = "frame" /\ at[j] = "next"
        /\ state[k] = "absent" /\ j # k /\ awaits' = awaits
        /\ at' \in [Jobs -> Place] /\ dat' \in [Jobs -> Keys]
        /\ dat'[k] = dat[j] + 1 /\ leaves' = leaves
        /\ \A i \in Jobs : /\ state'[i] = IF i = k THEN "active" ELSE state[i]
                           /\ at'[i] = IF i = k THEN "initialize" ELSE IF i = j THEN "end" ELSE at[i]
                           /\ task'[i] = IF i = k THEN "frame" ELSE task[i]
                           /\ i # k => dat'[i] = dat[i] /\ frame_number'[i] = frame_number[i]
                           /\ cnt'[i] = cnt[i] /\ group'[i] = group[i]
    BY <1>2, StartsNextJobs
  <2>3. /\ UNCHANGED <<heapVars, params, is_game_running, thrown, rendered>>
        /\ ~ thrown
        /\ state' = [state EXCEPT ![k] = "active"]
        /\ \E g \in Counters \cup {NULL} : group' = [group EXCEPT ![k] = g]
        /\ task' = [task EXCEPT ![k] = "frame"] /\ cnt' = [cnt EXCEPT ![k] = NULL]
        /\ frame_number' = [frame_number EXCEPT ![k] = ActiveFrame(j).m_frameNum]
    BY <1>2 DEF StartsNext, At, FJ!Fork, SetUp
  <2>4. HeapP!HInv'
    BY <2>3, HeapKeep
  <2>5. FJ!TypeOK'
    BY <2>2, <2>3 DEF TypeOK, FJ!TypeOK
  <2>6. frame_number' \in [Jobs -> Frame!FrameNumbers]
    <3>1. ActiveFrame(j).m_frameNum \in Frame!FrameNumbers
      BY NumberTypes DEF ActiveFrame, Frame!GetFrameData, TypeOK, Frame!TypeOK, Frame!FrameParams
    <3> QED BY <2>3, <3>1 DEF TypeOK
  <2>7. TypeOK'
    BY <2>2, <2>3, <2>4, <2>5, <2>6, HeapTyped DEF TypeOK, Frame!TypeOK, TaskKind
  <2>8. task[k] = NULL /\ NULL \notin TaskKind /\ cnt[k] = NULL
    BY <2>2, LoopAssumption DEF JInv, JobPlaces
  <2>9. \A i \in Jobs : group[i] = NULL
    BY <2>2, NobodyInGroup DEF JInv, Current
  <2>10. \A p \in Jobs : Current(p)' => p = k
    BY <2>2 DEF JInv, OneFrame, Current
  <2>11. \A p \in Jobs : ~ UsesMemory(p) /\ ~ UsesMemory(p)'
    BY <2>2, <2>10 DEF JInv, OneFrame, Current, UsesMemory
  <2>12. CInv'
    BY <2>2, <2>3, <2>8, <2>9, <2>10, <2>11, CKeep DEF TypeOK, heapVars
  <2>13. RInv'
    <3>1. dat[j] \in 0 .. FrameMod - 1
      BY <2>2, <2>3, NumberTypes, LoopAssumption DEF CInv, SlotOwned, Current
    <3>2. rendered = 0 .. dat[j]
      BY <2>2 DEF RInv, RenderedSoFar, Current, BeforeFlip
    <3>3. RenderedSoFar'
      BY <2>2, <2>3, <2>10, <3>1, <3>2, LoopAssumption DEF RenderedSoFar, BeforeFlip
    <3>4. MeasuredBefore'
      <4>1. params[Frame!Slot(dat[j])].measured = dat[j]
        BY <2>2 DEF RInv, MeasuredBefore
      <4>2. ((dat'[k] % FrameMod) - 1) % FrameMod = dat[j]
        BY <2>2, <3>1, ModBefore
      <4>3. DurationBefore(dat[k] % FrameMod)' = params'[Frame!Slot(dat[j])].measured
        BY <4>2 DEF DurationBefore, Frame!GetFrameData, Frame!Slot
      <4>4. dat'[k] - 1 = dat[j]
        BY <2>2, <3>1, LoopAssumption
      <4> QED BY <2>2, <2>3, <2>10, <4>1, <4>3, <4>4 DEF MeasuredBefore, Current
    <3> QED BY <3>3, <3>4 DEF RInv
  <2> QED BY <2>1, <2>4, <2>7, <2>12, <2>13
<1> QED BY <1>1, <1>2, NextFrameCases

-----------------------------------------------------------------------------
(* Waits, and the end of a job *)

\* Only jobs change, and their counters and frame numbers at most vanish.
LEMMA JobsInv ==
  ASSUME IInv, JInv', FJ!TypeOK', UNCHANGED <<heapVars, params, thrown, is_game_running, rendered>>,
         task' \in [Jobs -> TaskKind \cup {NULL}], dat' \in [Jobs -> Keys],
         at' \in [Jobs -> Place], frame_number' \in [Jobs -> Frame!FrameNumbers],
         cnt' \in [Jobs -> Counters \cup {NULL}], leaves' \in [Jobs -> 0 .. Leaves],
         \A p \in Jobs :
           /\ Current(p)' <=> Current(p)
           /\ Current(p) => /\ dat'[p] = dat[p] /\ frame_number'[p] = frame_number[p]
                            /\ at'[p] \in MemoryPlace <=> at[p] \in MemoryPlace
                            /\ at'[p] \in BeforeFlip <=> at[p] \in BeforeFlip
                            /\ at'[p] \in {"initialize", "next"} <=> at[p] \in {"initialize", "next"}
                            /\ at'[p] \in {"initialize", "next"} => at'[p] = at[p]
           /\ cnt'[p] # NULL => cnt'[p] = cnt[p] /\ dat'[p] = dat[p]
           /\ group'[p] # NULL => /\ group[p] # NULL
                                  /\ dat'[p] = dat[p] /\ frame_number'[p] = frame_number[p]
  PROVE  IInv'
<1> USE DEF IInv
<1>1. HeapP!HInv'
  BY HeapKeep
<1>2. TypeOK'
  BY <1>1, HeapTyped DEF TypeOK, Frame!TypeOK
<1>3. CInv'
  <2>1. \A p \in Jobs : UsesMemory(p) <=> Current(p) /\ at[p] \in MemoryPlace
    BY DEF UsesMemory, Current, MemoryPlace
  <2>2. \A p \in Jobs : UsesMemory(p)' <=> (Current(p) /\ at[p] \in MemoryPlace)'
    BY DEF UsesMemory, Current, MemoryPlace
  <2>3. \A p \in Jobs : group'[p] # NULL => frame_number'[p] = dat'[p]
    BY DEF CInv, SlotOwned
  <2> QED BY <2>1, <2>2, <2>3, CKeep DEF heapVars, TypeOK
<1>4. RInv'
  BY RKeep DEF TypeOK
<1> QED BY <1>1, <1>2, <1>3, <1>4

LEMMA WaitInv == ASSUME IInv, NEW j \in Jobs, Wait(j) PROVE IInv'
<1> USE DEF IInv
<1>1. JInv'
  BY WaitJInv
<1>2. /\ state' = [state EXCEPT ![j] = "blocked"]
      /\ \E g \in Counters : awaits' = [awaits EXCEPT ![j] = g]
      /\ UNCHANGED <<group, heapVars, params, localVars, is_game_running, thrown, rendered>>
  BY DEF Wait, FJ!Block
<1>3. FJ!TypeOK'
  BY <1>2 DEF TypeOK, FJ!TypeOK, FJ!Callers
<1> QED BY <1>1, <1>2, <1>3, JobsInv DEF TypeOK, Current, localVars

LEMMA WaitedInv == ASSUME IInv, NEW j \in Jobs, Waited(j) PROVE IInv'
<1> USE DEF IInv
<1>1. JInv' /\ at' \in [Jobs -> Place] /\ at[j] \in Waits /\ at'[j] = After(at[j])
  BY WaitedJInv
<1>2. /\ state' = [state EXCEPT ![j] = "active"]
      /\ awaits' = [awaits EXCEPT ![j] = NULL]
      /\ at' = [at EXCEPT ![j] = After(at[j])]
      /\ UNCHANGED <<group, heapVars, params, task, dat, frame_number, cnt, leaves,
                     is_game_running, thrown, rendered>>
  BY DEF Waited, FJ!Unblock, Goto
<1>3. FJ!TypeOK'
  BY <1>2 DEF TypeOK, FJ!TypeOK, FJ!Callers
<1>4. \A p \in Jobs : /\ p # j => at'[p] = at[p]
                      /\ Current(p)' <=> Current(p)
                      /\ Current(p) => /\ at'[p] \in MemoryPlace <=> at[p] \in MemoryPlace
                                       /\ at'[p] \in BeforeFlip <=> at[p] \in BeforeFlip
                                       /\ at'[p] \in {"initialize", "next"} <=>
                                            at[p] \in {"initialize", "next"}
                                       /\ at'[p] \in {"initialize", "next"} => at'[p] = at[p]
  <2>1. \A p \in Jobs : p # j => at'[p] = at[p]
    BY <1>2 DEF TypeOK
  <2>2. task[j] = "frame" => at[j] # "join"
    BY DEF JInv, JobPlaces
  <2>3. at[j] = "join" => task[j] # "frame"
    BY <2>2
  <2>4. CASE at[j] = "join"
    BY <1>2, <2>1, <2>3, <2>4 DEF Current
  <2>5. CASE at[j] # "join"
    <3>1. /\ at[j] \in {"game_logic", "render", "gpu_submit"}
          /\ at'[j] \in {"render", "gpu_submit", "flip"}
      BY <1>1, <2>5 DEF Waits, After
    <3> QED BY <1>2, <2>1, <3>1 DEF Current, MemoryPlace, BeforeFlip
  <2> QED BY <2>4, <2>5
<1> QED BY <1>1, <1>2, <1>3, <1>4, JobsInv DEF TypeOK

LEMMA ReturnInv == ASSUME IInv, NEW j \in Jobs, Return(j) PROVE IInv'
<1> USE DEF IInv
<1>1. JInv'
  BY ReturnJInv
<1>2. /\ state' = [state EXCEPT ![j] = "finished"]
      /\ UNCHANGED <<group, awaits, heapVars, params, localVars, is_game_running, thrown, rendered>>
  BY DEF Return, FJ!Finish
<1>3. FJ!TypeOK'
  BY <1>2 DEF TypeOK, FJ!TypeOK, FJ!Callers
<1> QED BY <1>1, <1>2, <1>3, JobsInv DEF TypeOK, Current, localVars

LEMMA LeaveInv == ASSUME IInv, NEW j \in Jobs, Leave(j) PROVE IInv'
<1> USE DEF IInv
<1>1. JInv'
  BY LeaveJInv
<1>2. /\ group' = [group EXCEPT ![j] = NULL]
      /\ UNCHANGED <<state, awaits, heapVars, params, localVars, is_game_running, thrown, rendered>>
  BY DEF Leave, FJ!Leave
<1>3. FJ!TypeOK' /\ \A i \in Jobs : group'[i] # NULL => group[i] # NULL
  BY <1>2 DEF TypeOK, FJ!TypeOK, FJ!Callers
<1> QED BY <1>1, <1>2, <1>3, JobsInv DEF TypeOK, Current, localVars

LEMMA VanishInv == ASSUME IInv, NEW j \in Jobs, Vanish(j) PROVE IInv'
<1> USE DEF IInv
<1>1. JInv'
  BY VanishJInv
<1>2. /\ state' = [state EXCEPT ![j] = "absent"] /\ state[j] = "finished" /\ group[j] = NULL
      /\ task' = [task EXCEPT ![j] = NULL] /\ cnt' = [cnt EXCEPT ![j] = NULL]
      /\ dat' = [dat EXCEPT ![j] = 0] /\ leaves' = [leaves EXCEPT ![j] = 0]
      /\ frame_number' = [frame_number EXCEPT ![j] = 0]
      /\ UNCHANGED <<group, awaits, heapVars, params, at, is_game_running, thrown, rendered>>
  BY DEF Vanish, FJ!Vanish
<1>3. FJ!TypeOK'
  BY <1>2 DEF TypeOK, FJ!TypeOK, FJ!Callers
<1>4. 0 \in Keys /\ 0 \in Frame!FrameNumbers /\ 0 \in 0 .. Leaves
  BY LoopAssumption DEF Keys, Frame!FrameNumbers
<1>5. /\ task' \in [Jobs -> TaskKind \cup {NULL}] /\ dat' \in [Jobs -> Keys]
      /\ frame_number' \in [Jobs -> Frame!FrameNumbers]
      /\ cnt' \in [Jobs -> Counters \cup {NULL}] /\ leaves' \in [Jobs -> 0 .. Leaves]
      /\ at' \in [Jobs -> Place]
  BY <1>2, <1>4 DEF TypeOK
<1>6. at[j] = "end" /\ NULL # "frame"
  BY <1>2, LoopAssumption DEF JInv, JobPlaces, TaskKind
<1>7. \A p \in Jobs : /\ Current(p)' <=> Current(p)
                      /\ Current(p) => p # j
                      /\ p # j => /\ dat'[p] = dat[p] /\ frame_number'[p] = frame_number[p]
                                  /\ cnt'[p] = cnt[p]
                      /\ p = j => cnt'[p] = NULL
  BY <1>2, <1>6 DEF TypeOK, Current
<1> QED BY <1>1, <1>2, <1>3, <1>5, <1>7, JobsInv

-----------------------------------------------------------------------------
(* Counters *)

\* Worker w has cut counter c from memory of frame n: from the rest of its
\* block, or from a block that was in no frame.
Cut(w, n, c) ==
  /\ allocated_blocks' \in [Keys -> Seq(Blocks)]
  /\ \A m \in Keys : m # n => allocated_blocks'[m] = allocated_blocks[m]
  /\ Heap!Elements(allocated_blocks[n]) \subseteq Heap!Elements(allocated_blocks'[n])
  /\ c[1] \in Heap!Elements(allocated_blocks'[n]) /\ c[1] # NULL
  /\ \A d \in Counters : Issued(d, n) /\ d[1] = c[1] => d[2] < c[2]
  /\ \A v \in Workers \ {w} : BlocksOf(n)[v].block # c[1]
  /\ Frame!TypeOK'
  /\ \A i \in 0 .. FramesToTrack - 1 :
       /\ params'[i].m_frameNum = params[i].m_frameNum /\ params'[i].key = params[i].key
       /\ params'[i].measured = params[i].measured
  /\ \A v \in Workers : params'[Frame!Slot(n)].blocks[v] = IF v = w THEN MarkAt(c) ELSE BlocksOf(n)[v]

\* What allocate() writes to the parameters of the frame.
LEMMA MarkWritten ==
  ASSUME TypeOK, NEW w \in Workers, NEW s \in 0 .. FramesToTrack - 1, NEW c \in Counters,
         params' = [params EXCEPT ![s].blocks[w] = MarkAt(c)]
  PROVE  /\ Frame!TypeOK'
         /\ \A i \in 0 .. FramesToTrack - 1 :
              /\ params'[i].m_frameNum = params[i].m_frameNum /\ params'[i].key = params[i].key
              /\ params'[i].measured = params[i].measured
         /\ \A v \in Workers :
              params'[s].blocks[v] = IF v = w THEN MarkAt(c) ELSE params[s].blocks[v]
<1> DEFINE b == [params[s].blocks EXCEPT ![w] = MarkAt(c)]
           r == [params[s] EXCEPT !.blocks = b]
<1>1. params[s] \in Frame!FrameParams
  BY DEF TypeOK, Frame!TypeOK
<1>2. MarkAt(c) \in Frame!Rest
  BY LoopAssumption DEF MarkAt, Frame!Rest, Counters
<1>3. /\ b \in [Workers -> Frame!Rest]
      /\ \A v \in Workers : b[v] = IF v = w THEN MarkAt(c) ELSE params[s].blocks[v]
  BY <1>1, <1>2 DEF Frame!FrameParams
<1>4. params' = [params EXCEPT ![s] = r]
  OBVIOUS
<1> HIDE DEF b
<1>5. /\ r \in Frame!FrameParams /\ r.blocks = b
      /\ r.m_frameNum = params[s].m_frameNum /\ r.key = params[s].key
      /\ r.measured = params[s].measured
  BY <1>1, <1>3 DEF Frame!FrameParams
<1> HIDE DEF r
<1>6. /\ Frame!TypeOK' /\ params'[s] = r
      /\ \A i \in 0 .. FramesToTrack - 1 : i # s => params'[i] = params[i]
  BY <1>4, <1>5 DEF TypeOK, Frame!TypeOK
<1> QED BY <1>3, <1>5, <1>6

\* allocate() returns a counter that no job of the frame has.
LEMMA AllocateCuts ==
  ASSUME TypeOK, HeapP!HInv, NEW w \in Workers, NEW j \in Jobs, NEW c \in Counters,
         Allocate(w, j, c), frame_number[j] = dat[j], MarksIn(dat[j]),
         params[Frame!Slot(dat[j])].key = dat[j]
  PROVE  HeapP!HInv' /\ Cut(w, dat[j], c)
<1> DEFINE n == dat[j]
           s == Frame!Slot(n)
           rest == BlocksOf(n)[w]
           ab == allocated_blocks
<1>1. n \in Keys /\ s \in 0 .. FramesToTrack - 1
  BY NumberTypes DEF TypeOK
<1>2. rest \in Frame!Rest /\ \A v \in Workers : BlocksOf(n)[v] \in Frame!Rest
  BY <1>1 DEF TypeOK, Frame!TypeOK, Frame!FrameParams, BlocksOf
<1>3. ab \in [Keys -> Seq(Blocks)]
  BY DEF TypeOK, Heap!TypeOK
<1>4. ActiveFrame(j) = params[s] /\ ActiveFrame(j).key = n /\ ActiveFrame(j).blocks[w] = rest
  BY DEF ActiveFrame, Frame!GetFrameData, BlocksOf
<1>5. /\ \/ /\ rest.used < CountersPerBlock
            /\ c = <<rest.block, rest.used + 1>>
            /\ UNCHANGED heapVars
         \/ /\ rest.used = CountersPerBlock
            /\ Heap!AllocBlock(n)
            /\ c = <<ab'[n][Len(ab'[n])], 1>>
      /\ params' = [params EXCEPT ![s].blocks[w] = MarkAt(c)]
  BY <1>4 DEF Allocate
<1>6. /\ Frame!TypeOK'
      /\ \A i \in 0 .. FramesToTrack - 1 :
           /\ params'[i].m_frameNum = params[i].m_frameNum /\ params'[i].key = params[i].key
           /\ params'[i].measured = params[i].measured
      /\ \A v \in Workers : params'[s].blocks[v] = IF v = w THEN MarkAt(c) ELSE params[s].blocks[v]
  BY <1>1, <1>5, MarkWritten
<1> HIDE DEF s
<1>7. ASSUME rest.used < CountersPerBlock, c = <<rest.block, rest.used + 1>>, UNCHANGED heapVars
      PROVE  /\ HeapP!HInv'
             /\ ab' \in [Keys -> Seq(Blocks)]
             /\ \A m \in Keys : m # n => ab'[m] = ab[m]
             /\ Heap!Elements(ab[n]) \subseteq Heap!Elements(ab'[n])
             /\ c[1] \in Heap!Elements(ab'[n]) /\ c[1] # NULL
             /\ \A d \in Counters : Issued(d, n) /\ d[1] = c[1] => d[2] < c[2]
             /\ \A v \in Workers \ {w} : BlocksOf(n)[v].block # c[1]
  <2>1. HeapP!HInv' /\ ab' = ab
    BY <1>7, HeapKeep DEF heapVars
  <2>2. rest.used \in Nat /\ c[1] = rest.block /\ c[2] = rest.used + 1
    BY <1>2, <1>7, LoopAssumption DEF Frame!Rest
  <2>3. rest.block # NULL
    BY <1>7, <2>2, LoopAssumption DEF MarksIn
  <2>4. rest.block \in Heap!Elements(ab[n]) /\ \A v \in Workers \ {w} : BlocksOf(n)[v].block # c[1]
    BY <2>2, <2>3 DEF MarksIn
  <2>5. \A d \in Counters : Issued(d, n) /\ d[1] = c[1] => d[2] < c[2]
    <3> SUFFICES ASSUME NEW d \in Counters, Issued(d, n), d[1] = c[1] PROVE d[2] < c[2]
      OBVIOUS
    <3>1. d[2] <= rest.used
      BY <2>2 DEF Issued
    <3>2. d[2] \in Nat
      BY DEF Counters
    <3> QED BY <2>2, <3>1, <3>2
  <2> QED BY <1>3, <2>1, <2>2, <2>3, <2>4, <2>5
<1>8. ASSUME Heap!AllocBlock(n), c = <<ab'[n][Len(ab'[n])], 1>>
      PROVE  /\ HeapP!HInv'
             /\ ab' \in [Keys -> Seq(Blocks)]
             /\ \A m \in Keys : m # n => ab'[m] = ab[m]
             /\ Heap!Elements(ab[n]) \subseteq Heap!Elements(ab'[n])
             /\ c[1] \in Heap!Elements(ab'[n]) /\ c[1] # NULL
             /\ \A d \in Counters : Issued(d, n) /\ d[1] = c[1] => d[2] < c[2]
             /\ \A v \in Workers \ {w} : BlocksOf(n)[v].block # c[1]
  <2>1. /\ HeapP!HInv'
        /\ \E b \in Blocks :
             /\ ab' = [ab EXCEPT ![n] = Append(@, b)]
             /\ \A m \in Keys : b \notin Heap!Elements(ab[m])
    BY <1>1, <1>8, HeapAlloc
  <2>2. PICK b \in Blocks : /\ ab' = [ab EXCEPT ![n] = Append(@, b)]
                            /\ b \notin Heap!Elements(ab[n])
    BY <1>1, <2>1
  <2>3. /\ ab' \in [Keys -> Seq(Blocks)] /\ ab'[n] = Append(ab[n], b)
        /\ \A m \in Keys : m # n => ab'[m] = ab[m]
    BY <1>1, <1>3, <2>2, HeapElements
  <2>4. Heap!Elements(ab'[n]) = Heap!Elements(ab[n]) \cup {b}
    BY <1>1, <1>3, <2>3, HeapElements
  <2>5. c[1] = b
    <3>1. ab'[n][Len(ab'[n])] = b
      BY <1>1, <1>3, <2>3
    <3> QED BY <1>8, <3>1
  <2>6. b # NULL
    BY LoopAssumption
  <2>7. \A d \in Counters : Issued(d, n) => d[1] # c[1]
    BY <2>2, <2>5 DEF Issued, InMemoryOf
  <2>8. \A v \in Workers : BlocksOf(n)[v].block # c[1]
    BY <2>2, <2>5, <2>6 DEF MarksIn
  <2> QED BY <2>1, <2>3, <2>4, <2>5, <2>6, <2>7, <2>8
<1> HIDE DEF rest
<1>9. \A v \in Workers : params'[s].blocks[v] = IF v = w THEN MarkAt(c) ELSE BlocksOf(n)[v]
  <2>1. \A v \in Workers : BlocksOf(n)[v] = params[s].blocks[v]
    BY DEF BlocksOf, s
  <2> QED BY <1>6, <2>1
<1> QED BY <1>5, <1>6, <1>7, <1>8, <1>9 DEF Cut, s

\* RunTask with a counter, for the memory: the first call takes a counter that
\* is new to the frame.
LEMMA RunCountedCInv ==
  ASSUME IInv, NEW w \in Workers, NEW j \in Jobs, NEW k \in Jobs,
         NEW kind \in TaskKind, kind # "frame",
         RunCounted(w, j, k, kind), ~ thrown, thrown' = thrown,
         \/ task[j] = "frame" /\ at[j] = "stage"
         \/ task[j] = "game_logic" /\ at[j] = "fork",
         \A p \in Jobs : /\ Current(p)' <=> Current(p)
                         /\ UsesMemory(p)' <=> UsesMemory(p)
                         /\ Current(p) /\ at'[p] # "initialize" => at[p] # "initialize"
  PROVE  /\ HeapP!HInv' /\ CInv' /\ Frame!TypeOK'
         /\ \A i \in 0 .. FramesToTrack - 1 :
              /\ params'[i].measured = params[i].measured
         /\ frame_number' \in [Jobs -> Frame!FrameNumbers]
<1> DEFINE n == dat[j]
           s == Frame!Slot(n)
           c == group'[k]
<1> USE DEF IInv
<1>1. Forked(j, k, kind) /\ dat' \in [Jobs -> Keys]
  BY RunCountedJobs
<1>2. PICK p \in Jobs :
        /\ Current(p) /\ dat[p] = n /\ UsesMemory(p) /\ MarksIn(n)
        /\ n < FrameMod /\ frame_number[j] = n
        /\ params[s].m_frameNum = n /\ params[s].key = n
  BY <1>1, StarterOwns DEF Forked
<1>3. ActiveFrame(j).m_frameNum = n
  BY <1>2 DEF ActiveFrame, Frame!GetFrameData
<1>4. s \in 0 .. FramesToTrack - 1 /\ n \in Keys
  BY NumberTypes DEF TypeOK
<1>5. task[k] = NULL /\ cnt[k] = NULL /\ NULL \notin TaskKind /\ NULL \notin Counters
  BY <1>1, LoopAssumption DEF JInv, JobPlaces, Forked
<1>6. \A q \in Jobs : /\ Current(q) => q = p
                      /\ UsesMemory(q) => q = p /\ q # k
  <2>1. \A q \in Jobs : UsesMemory(q) => Current(q)
    BY DEF UsesMemory, Current
  <2>2. ~ Current(k)
    BY <1>5 DEF Current, TaskKind
  <2> QED BY <1>2, <2>1, <2>2 DEF JInv, OneFrame
<1>7. p # k /\ dat'[p] = n /\ frame_number'[p] = frame_number[p]
  BY <1>1, <1>2, <1>6 DEF Forked
<1>8. \A i \in Jobs : group'[i] # NULL => frame_number'[i] = dat'[i]
  <2>1. ASSUME NEW i \in Jobs, group'[i] # NULL PROVE frame_number'[i] = dat'[i]
    <3>1. CASE i = k
      BY <1>1, <1>3, <3>1 DEF Forked
    <3>2. CASE i # k
      BY <1>1, <2>1, <3>2 DEF Forked, CInv, SlotOwned
    <3> QED BY <3>1, <3>2
  <2> QED BY <2>1
<1>9. frame_number' \in [Jobs -> Frame!FrameNumbers]
  <2>1. n \in Frame!FrameNumbers
    BY <1>2, <1>4, LoopAssumption DEF Keys, Frame!FrameNumbers
  <2> QED BY <1>3, <2>1 DEF RunCounted, SetUp, TypeOK
<1>10. c \in Counters
  BY <1>1 DEF Forked
<1>11. CASE cnt[j] # NULL
  <2>1. UNCHANGED <<heapVars, params>>
    BY <1>11 DEF RunCounted
  <2>2. HeapP!HInv'
    BY <2>1, HeapKeep
  <2>3. ASSUME NEW i \in Jobs
        PROVE  /\ cnt'[i] # NULL => cnt'[i] = cnt[i] /\ dat'[i] = dat[i]
               /\ UsesMemory(i) => dat'[i] = dat[i]
               /\ (Current(i) /\ at[i] # "initialize")' =>
                     /\ Current(i) /\ at[i] # "initialize"
                     /\ dat'[i] = dat[i] /\ frame_number'[i] = frame_number[i]
    BY <1>1, <1>6, <1>7, <1>11 DEF Forked
  <2>4. CInv'
    BY <1>8, <2>1, <2>3, CKeep DEF TypeOK, heapVars
  <2> QED BY <1>9, <2>1, <2>2, <2>4 DEF TypeOK, Frame!TypeOK
<1>12. CASE cnt[j] = NULL
  <2>1. HeapP!HInv' /\ Cut(w, n, c)
    <3>1. Allocate(w, j, c)
      BY <1>12 DEF RunCounted
    <3> QED BY <1>2, <1>10, <3>1, AllocateCuts
  <2> HIDE DEF c, n, s
  <2>2. \A i \in Jobs : cnt[i] # NULL /\ dat[i] = n => Issued(cnt[i], n) /\ cnt[i] # c
    <3> SUFFICES ASSUME NEW i \in Jobs, cnt[i] # NULL, dat[i] = n
                 PROVE  Issued(cnt[i], n) /\ cnt[i] # c
      OBVIOUS
    <3>1. Issued(cnt[i], n) /\ cnt[i] \in Counters
      BY <1>2 DEF CInv, CountersIssued, TypeOK
    <3>2. c[2] \in Nat
      BY <1>10 DEF Counters
    <3> QED BY <2>1, <3>1, <3>2 DEF Cut
  <2>3. \A i \in Jobs : cnt'[i] = IF i = j THEN c ELSE cnt[i]
    BY <1>1, <1>5 DEF Forked, c
  <2>4. j # k /\ \A i \in Jobs : i # k => dat'[i] = dat[i]
    BY <1>1 DEF Forked
  <2>5. CountersDistinct'
    <3> SUFFICES ASSUME NEW a \in Jobs, NEW b \in Jobs, a # b, cnt'[a] # NULL, dat'[a] = dat'[b]
                 PROVE  cnt'[a] # cnt'[b]
      BY DEF CountersDistinct
    <3>1. a # k
      BY <1>5, <2>3, <2>4
    <3>2. CASE b = k
      BY <1>5, <2>3, <2>4, <3>2
    <3>3. CASE b # k /\ a = j
      BY <1>5, <1>10, <2>2, <2>3, <2>4, <3>3 DEF n
    <3>4. CASE b # k /\ b = j
      BY <1>5, <1>10, <2>2, <2>3, <2>4, <3>1, <3>4 DEF n
    <3>5. CASE b # k /\ a # j /\ b # j
      BY <2>3, <2>4, <3>1, <3>5 DEF CInv, CountersDistinct
    <3> QED BY <3>2, <3>3, <3>4, <3>5
  <2>6. SlotOwned'
    <3>1. ASSUME NEW q \in Jobs, Current(q)', at'[q] # "initialize"
          PROVE  /\ dat'[q] < FrameMod /\ frame_number'[q] = dat'[q]
                 /\ params'[s].m_frameNum = dat'[q]
                 /\ params'[s].key = dat'[q]
                 /\ dat'[q] = n
      <4>1. q = p /\ at[p] # "initialize"
        BY <1>6, <3>1
      <4>2. frame_number[p] = n
        BY <1>2, <4>1 DEF CInv, SlotOwned
      <4> QED BY <1>2, <1>4, <1>7, <2>1, <4>1, <4>2 DEF Cut
    <3>2. ASSUME NEW q \in Jobs, Current(q)', at'[q] # "initialize"
          PROVE  /\ params'[Frame!Slot(dat'[q])].m_frameNum = dat'[q]
                 /\ params'[Frame!Slot(dat'[q])].key = dat'[q]
      BY <3>1, <3>2 DEF s
    <3> QED BY <1>8, <3>1, <3>2 DEF SlotOwned, Frame!Slot
  <2>7. /\ \A v \in Workers : params'[s].blocks[v] = IF v = w THEN MarkAt(c) ELSE params[s].blocks[v]
        /\ BlocksOf(n) = params[s].blocks
    BY <2>1 DEF Cut, BlocksOf, s
  <2>8. BlocksOf(dat[p])' = params'[s].blocks
    BY <1>7 DEF BlocksOf, s, Frame!Slot
  <2>9. MarkAt(c).block = c[1] /\ MarkAt(c).used = c[2]
    BY DEF MarkAt
  <2>10. Marks'
    <3> SUFFICES MarksIn(dat[p])'
      BY <1>6 DEF Marks
    <3>1. ASSUME NEW v \in Workers, params'[s].blocks[v].block # NULL
          PROVE  /\ params'[s].blocks[v].block \in Heap!Elements(allocated_blocks'[n])
                 /\ \A u \in Workers \ {v} : params'[s].blocks[u].block # params'[s].blocks[v].block
      <4>1. CASE v = w
        <5>1. params'[s].blocks[v].block = c[1]
          BY <2>7, <2>9, <4>1
        <5>2. \A u \in Workers \ {w} :
                BlocksOf(n)[u].block # c[1] /\ params'[s].blocks[u].block = BlocksOf(n)[u].block
          BY <2>1, <2>7 DEF Cut
        <5>3. c[1] \in Heap!Elements(allocated_blocks'[n])
          BY <2>1 DEF Cut
        <5> QED BY <4>1, <5>1, <5>2, <5>3
      <4>2. CASE v # w
        <5>1. params'[s].blocks[v].block = BlocksOf(n)[v].block /\ BlocksOf(n)[v].block # NULL
          BY <2>7, <3>1, <4>2
        <5>2. BlocksOf(n)[v].block \in Heap!Elements(allocated_blocks[n])
          BY <1>2, <5>1 DEF MarksIn
        <5>3. BlocksOf(n)[v].block \in Heap!Elements(allocated_blocks'[n]) /\ BlocksOf(n)[v].block # c[1]
          BY <2>1, <4>2, <5>2 DEF Cut
        <5>4. \A u \in Workers \ {v} : BlocksOf(n)[u].block # BlocksOf(n)[v].block
          BY <1>2, <5>1 DEF MarksIn
        <5>5. \A u \in Workers \ {v} :
                params'[s].blocks[u].block = c[1] \/ params'[s].blocks[u].block = BlocksOf(n)[u].block
          BY <2>7, <2>9
        <5> QED BY <5>1, <5>3, <5>4, <5>5
      <4> QED BY <4>1, <4>2
    <3>2. ASSUME NEW v \in Workers, params'[s].blocks[v].block = NULL
          PROVE  params'[s].blocks[v].used = CountersPerBlock
      BY <1>2, <2>1, <2>7, <2>9, <3>2 DEF Cut, MarksIn
    <3> QED BY <1>7, <2>8, <3>1, <3>2 DEF MarksIn, Heap!Elements
  <2>11. CountersIssued'
    <3> SUFFICES ASSUME NEW i \in Jobs, cnt'[i] # NULL, dat'[i] = n
                 PROVE  /\ cnt'[i][1] \in Heap!Elements(allocated_blocks'[n])
                        /\ \A v \in Workers : params'[s].blocks[v].block = cnt'[i][1] =>
                              cnt'[i][2] <= params'[s].blocks[v].used
      BY <1>6, <1>7, <2>8 DEF CountersIssued, Issued, InMemoryOf, Heap!Elements
    <3>1. CASE i = j
      <4>1. c[2] <= c[2]
        BY <1>10 DEF Counters
      <4> QED BY <2>1, <2>3, <2>7, <2>9, <3>1, <4>1 DEF Cut
    <3>2. CASE i # j
      <4>1. i # k /\ cnt'[i] = cnt[i] /\ dat[i] = n /\ cnt[i] \in Counters
        BY <1>5, <2>3, <2>4, <3>2 DEF TypeOK
      <4>2. Issued(cnt[i], n)
        BY <2>2, <4>1
      <4>3. cnt[i][1] \in Heap!Elements(allocated_blocks'[n])
        BY <2>1, <4>2 DEF Cut, Issued, InMemoryOf
      <4>4. ASSUME NEW v \in Workers, params'[s].blocks[v].block = cnt[i][1]
            PROVE  cnt[i][2] <= params'[s].blocks[v].used
        <5>1. CASE v = w
          <6>1. cnt[i][2] < c[2]
            BY <2>1, <2>7, <2>9, <4>1, <4>2, <4>4, <5>1 DEF Cut
          <6>2. c[2] \in Nat /\ cnt[i][2] \in Nat
            BY <1>10, <4>1 DEF Counters
          <6> QED BY <2>7, <2>9, <5>1, <6>1, <6>2
        <5>2. CASE v # w
          BY <2>7, <4>2, <4>4, <5>2 DEF Issued
        <5> QED BY <5>1, <5>2
      <4> QED BY <4>1, <4>3, <4>4
    <3> QED BY <3>1, <3>2
  <2>12. MemoryReturned'
    <3> SUFFICES ASSUME NEW m \in Keys, allocated_blocks'[m] # <<>>
                 PROVE  \E q \in Jobs : UsesMemory(q)' /\ dat'[q] = m
      BY DEF MemoryReturned
    <3>1. CASE m = n
      BY <1>2, <1>7, <3>1
    <3>2. CASE m # n
      <4>1. allocated_blocks[m] # <<>>
        BY <2>1, <3>2 DEF Cut
      <4>2. PICK q \in Jobs : UsesMemory(q) /\ dat[q] = m
        BY <4>1 DEF CInv, MemoryReturned
      <4> QED BY <1>6, <2>4, <4>2
    <3> QED BY <3>1, <3>2
  <2> QED BY <1>9, <2>1, <2>5, <2>6, <2>10, <2>11, <2>12 DEF CInv, Cut
<1> QED BY <1>11, <1>12

LEMMA StartStageInv ==
  ASSUME IInv, NEW w \in Workers, NEW j \in Jobs, StartStage(w, j)
  PROVE  IInv'
<1> USE DEF IInv
<1>1. /\ state[j] = "active" /\ task[j] = "frame" /\ at[j] = "stage" /\ ~ thrown
      /\ UNCHANGED <<awaits, is_game_running, thrown, rendered>>
  BY DEF StartStage, At
<1>2. PICK k \in Jobs :
        /\ RunCounted(w, j, k, "game_logic")
        /\ at' = [at EXCEPT ![j] = "game_logic", ![k] = "fork"]
  BY DEF StartStage
<1>3. "game_logic" \in TaskKind
  BY DEF TaskKind
<1>4. /\ Forked(j, k, "game_logic")
      /\ state' \in [FJ!Callers -> {"absent", "active", "blocked", "finished"}]
      /\ group' \in [Jobs -> Counters \cup {NULL}]
      /\ task' \in [Jobs -> TaskKind \cup {NULL}]
      /\ dat' \in [Jobs -> Keys]
      /\ cnt' \in [Jobs -> Counters \cup {NULL}]
  BY <1>2, <1>3, RunCountedJobs
<1>5. JInv' /\ at' \in [Jobs -> Place] /\ leaves' \in [Jobs -> 0 .. Leaves]
  BY StartStageJInv
<1>6. /\ at'[j] = "game_logic" /\ at'[k] = "fork" /\ j # k /\ task[k] = NULL /\ NULL # "frame"
      /\ \A i \in Jobs \ {j, k} : at'[i] = at[i]
      /\ \A i \in Jobs : /\ task'[i] = IF i = k THEN "game_logic" ELSE task[i]
                         /\ i # k => dat'[i] = dat[i]
  BY <1>2, <1>4, LoopAssumption DEF Forked, TypeOK, JInv, JobPlaces, TaskKind
<1>7. \A p \in Jobs : /\ Current(p)' <=> Current(p)
                      /\ UsesMemory(p)' <=> UsesMemory(p)
                      /\ Current(p) => p # k
                      /\ Current(p) /\ at'[p] # "initialize" => at[p] # "initialize"
  BY <1>1, <1>6 DEF Current, UsesMemory
<1>8. /\ HeapP!HInv' /\ CInv' /\ Frame!TypeOK'
      /\ \A i \in 0 .. FramesToTrack - 1 :
           /\ params'[i].measured = params[i].measured
      /\ frame_number' \in [Jobs -> Frame!FrameNumbers]
  BY <1>1, <1>2, <1>3, <1>7, RunCountedCInv
<1>9. TypeOK'
  BY <1>1, <1>4, <1>5, <1>8, HeapTyped DEF TypeOK, FJ!TypeOK
<1>10. RInv'
  BY <1>1, <1>6, <1>7, <1>8, RKeep DEF TypeOK, BeforeFlip
<1> QED BY <1>5, <1>8, <1>9, <1>10

LEMMA StartLeafInv ==
  ASSUME IInv, NEW w \in Workers, NEW j \in Jobs, StartLeaf(w, j)
  PROVE  IInv'
<1> USE DEF IInv
<1>1. /\ state[j] = "active" /\ task[j] = "game_logic" /\ at[j] = "fork" /\ ~ thrown
      /\ UNCHANGED <<awaits, is_game_running, thrown, rendered>>
  BY DEF StartLeaf, At
<1>2. PICK k \in Jobs :
        /\ RunCounted(w, j, k, "leaf")
        /\ at' = [at EXCEPT ![j] = IF LoopEnds(leaves'[j]) THEN "join" ELSE "fork", ![k] = "end"]
  BY DEF StartLeaf
<1>3. "leaf" \in TaskKind
  BY DEF TaskKind
<1>4. /\ Forked(j, k, "leaf")
      /\ state' \in [FJ!Callers -> {"absent", "active", "blocked", "finished"}]
      /\ group' \in [Jobs -> Counters \cup {NULL}]
      /\ task' \in [Jobs -> TaskKind \cup {NULL}]
      /\ dat' \in [Jobs -> Keys]
      /\ cnt' \in [Jobs -> Counters \cup {NULL}]
  BY <1>2, <1>3, RunCountedJobs
<1>5. JInv' /\ at' \in [Jobs -> Place] /\ leaves' \in [Jobs -> 0 .. Leaves]
  BY StartLeafJInv
<1>6. /\ task[k] = NULL /\ NULL # "frame"
      /\ \A i \in Jobs \ {j, k} : at'[i] = at[i]
      /\ \A i \in Jobs : /\ task'[i] = IF i = k THEN "leaf" ELSE task[i]
                         /\ i # k => dat'[i] = dat[i]
  BY <1>2, <1>4, LoopAssumption DEF Forked, TypeOK, JInv, JobPlaces, TaskKind
<1>7. \A p \in Jobs : /\ Current(p)' <=> Current(p)
                      /\ UsesMemory(p)' <=> UsesMemory(p)
                      /\ Current(p) => p # j /\ p # k
                      /\ Current(p) /\ at'[p] # "initialize" => at[p] # "initialize"
  BY <1>1, <1>6 DEF Current, UsesMemory
<1>8. /\ HeapP!HInv' /\ CInv' /\ Frame!TypeOK'
      /\ \A i \in 0 .. FramesToTrack - 1 :
           /\ params'[i].measured = params[i].measured
      /\ frame_number' \in [Jobs -> Frame!FrameNumbers]
  BY <1>1, <1>2, <1>3, <1>7, RunCountedCInv
<1>9. TypeOK'
  BY <1>1, <1>4, <1>5, <1>8, HeapTyped DEF TypeOK, FJ!TypeOK
<1>10. RInv'
  BY <1>1, <1>6, <1>7, <1>8, RKeep DEF TypeOK
<1> QED BY <1>5, <1>8, <1>9, <1>10

\* Nothing changes, or only is_game_running.
LEMMA QuietInv ==
  ASSUME IInv, is_game_running' \in BOOLEAN,
         UNCHANGED <<jobVars, heapVars, params, localVars, thrown, rendered>>
  PROVE  IInv'
<1> USE DEF IInv
<1>1. JInv'
  BY DEF JInv, JobPlaces, Members, WaitedForBy, OneFrame, Latest, Current, jobVars, localVars
<1>2. HeapP!HInv'
  BY HeapKeep
<1>3. TypeOK'
  BY <1>2, HeapTyped DEF TypeOK, FJ!TypeOK, Frame!TypeOK, jobVars, localVars
<1>4. CInv'
  <2>1. \A i \in Jobs : group'[i] # NULL => frame_number'[i] = dat'[i]
    BY DEF CInv, SlotOwned, jobVars, localVars
  <2> QED BY <2>1, CKeep DEF TypeOK, Current, UsesMemory, heapVars, localVars
<1>5. RInv'
  BY RKeep DEF TypeOK, Current, localVars
<1> QED BY <1>1, <1>2, <1>3, <1>4, <1>5

LEMMA JobStepInv ==
  ASSUME IInv, NEW w \in Workers, NEW j \in Jobs, JobStep(w, j)
  PROVE  IInv'
<1>1. CASE InitializeFrame(j)
  BY <1>1, InitializeFrameInv
<1>2. CASE StartStage(w, j)
  BY <1>2, StartStageInv
<1>3. CASE StartLeaf(w, j)
  BY <1>3, StartLeafInv
<1>4. CASE Wait(j)
  BY <1>4, WaitInv
<1>5. CASE Waited(j)
  BY <1>5, WaitedInv
<1>6. CASE Flip(j)
  BY <1>6, FlipInv
<1>7. CASE FreeFrame(j)
  BY <1>7, FreeFrameInv
<1>8. CASE Measure(j)
  BY <1>8, MeasureInv
<1>9. CASE NextFrame(j)
  BY <1>9, NextFrameInv
<1>10. CASE Return(j)
  BY <1>10, ReturnInv
<1> QED BY <1>1, <1>2, <1>3, <1>4, <1>5, <1>6, <1>7, <1>8, <1>9, <1>10 DEF JobStep

LEMMA NextInv == IInv /\ [Next]_vars => IInv'
<1> SUFFICES ASSUME IInv, [Next]_vars PROVE IInv'
  OBVIOUS
<1>1. ASSUME NEW j \in Jobs, Retire(j) PROVE IInv'
  BY <1>1, LeaveInv, VanishInv DEF Retire
<1>2. ASSUME NEW j \in Jobs, NEW w \in Workers, JobStep(w, j) PROVE IInv'
  BY <1>2, JobStepInv
<1>3. CASE StopGame
  BY <1>3, QuietInv DEF StopGame
<1>4. CASE UNCHANGED vars
  BY <1>4, QuietInv DEF vars, IInv, TypeOK
<1> QED BY <1>1, <1>2, <1>3, <1>4 DEF Next

LEMMA Invariance == Spec => []IInv
<1>1. Init => IInv
  BY InitInv
<1>2. IInv /\ [Next]_vars => IInv'
  BY NextInv
<1> QED BY <1>1, <1>2, PTL DEF Spec

-----------------------------------------------------------------------------
(* What follows *)

\* main.cpp, frame_data.cpp: the variables of the frame task have their types.
THEOREM LoopTypeCorrect == Spec => []TypeOK
<1>1. IInv => TypeOK
  BY DEF IInv
<1> QED BY <1>1, Invariance, PTL

\* frame_task: the counters of a frame are in memory the frame holds for as
\* long as anybody uses them, and no two callers share one.
THEOREM CountersInMemory == Spec => []CountersSound
<1>1. ASSUME IInv PROVE CountersSound
  <2> USE <1>1 DEF IInv
  <2>1. ASSUME NEW j \in Jobs, cnt[j] # NULL,
               at[j] \in {"game_logic", "render", "gpu_submit", "fork", "join"}
        PROVE  InMemoryOf(cnt[j], dat[j])
    <3>1. PICK p \in Jobs : UsesMemory(p) /\ dat[p] = dat[j]
      <4>1. CASE task[j] = "frame"
        <5>1. at[j] \in {"game_logic", "render", "gpu_submit"}
          BY <2>1, <4>1 DEF JInv, JobPlaces
        <5> QED BY <4>1, <5>1 DEF UsesMemory
      <4>2. CASE task[j] # "frame"
        <5>1. task[j] = "game_logic" /\ state[j] \in {"active", "blocked"}
          BY <2>1, <4>2 DEF JInv, JobPlaces
        <5>2. group[j] # NULL
          BY <5>1 DEF JInv, Members
        <5> QED BY <5>2, InGroup DEF JInv, UsesMemory
      <4> QED BY <4>1, <4>2
    <3> QED BY <2>1, <3>1 DEF CInv, CountersIssued, Issued
  <2>2. ASSUME NEW k \in Jobs, group[k] # NULL PROVE InMemoryOf(group[k], dat[k])
    <3>1. PICK p \in Jobs : WaitedForBy(k, p)
      BY <2>2 DEF JInv, Members
    <3> QED BY <2>1, <2>2, <3>1 DEF WaitedForBy
  <2>3. ASSUME NEW j \in Jobs, awaits[j] # NULL
        PROVE  InMemoryOf(awaits[j], dat[j])
    BY <2>1, <2>3 DEF JInv, JobPlaces, Waits
  <2>4. CountersAlive
    BY <2>1, <2>2, <2>3 DEF CountersAlive
  <2>5. ASSUME NEW j \in Jobs, NEW k \in Jobs, awaits[j] # NULL, group[k] = awaits[j]
        PROVE  dat[j] = dat[k] /\ task[k] # task[j]
    <3>1. awaits[j] = cnt[j] /\ at[j] \in Waits
      BY <2>5 DEF JInv, JobPlaces
    <3>2. PICK p \in Jobs : WaitedForBy(k, p)
      BY <2>5 DEF JInv, Members
    <3>3. PICK q \in Jobs : task[q] = "frame" /\ at[q] = "game_logic" /\ dat[q] = dat[k]
      BY <2>5, InGroup DEF JInv
    <3>4. dat[j] = dat[k]
      <4>1. CASE task[j] = "frame"
        BY <3>1, <3>3, <4>1 DEF JInv, OneFrame, Current, Waits
      <4>2. CASE task[j] # "frame"
        <5>1. task[j] = "game_logic" /\ state[j] \in {"active", "blocked"}
          BY <3>1, <4>2 DEF JInv, JobPlaces, Waits
        <5>2. group[j] # NULL
          BY <5>1 DEF JInv, Members
        <5>3. PICK r \in Jobs : task[r] = "frame" /\ at[r] = "game_logic" /\ dat[r] = dat[j]
          BY <5>2, InGroup DEF JInv
        <5> QED BY <3>3, <5>3 DEF JInv, OneFrame, Current
      <4> QED BY <4>1, <4>2
    <3>5. p = j
      BY <2>5, <3>1, <3>2, <3>4 DEF WaitedForBy, CInv, CountersDistinct
    <3> QED BY <3>2, <3>4, <3>5 DEF WaitedForBy
  <2>6. CountersPrivate
    BY <2>5 DEF CountersPrivate, CInv, CountersDistinct
  <2> QED BY <2>4, <2>6 DEF CountersSound
<1> QED BY <1>1, Invariance, PTL

\* frame_task: only a frame that has not come to free() holds memory.
THEOREM FramesReturnMemory == Spec => []MemoryReturned
<1>1. IInv => MemoryReturned
  BY DEF IInv, CInv
<1> QED BY <1>1, Invariance, PTL

\* GetActiveFrameData gives each job the parameters of its own frame.
THEOREM JobsFindTheirFrame == Spec => []ActiveFrameIsOwn
<1>1. ASSUME IInv PROVE ActiveFrameIsOwn
  <2> USE <1>1 DEF IInv
  <2> SUFFICES ASSUME NEW j \in Jobs, state[j] \in {"active", "blocked"}, ~ thrown,
                      at[j] # "initialize", task[j] = "frame" => at[j] # "end"
               PROVE  /\ frame_number[j] = dat[j] % FrameMod
                      /\ ActiveFrame(j).m_frameNum = frame_number[j]
                      /\ ActiveFrame(j).key = frame_number[j]
    BY DEF ActiveFrameIsOwn
  <2>1. PICK p \in Jobs : Current(p) /\ at[p] # "initialize" /\ dat[p] = dat[j]
    <3>1. CASE task[j] = "frame"
      BY <3>1 DEF Current
    <3>2. CASE task[j] # "frame"
      <4>1. group[j] # NULL
        BY <3>2 DEF JInv, JobPlaces, Members
      <4> QED BY <4>1, InGroup DEF JInv, Current
    <3> QED BY <3>1, <3>2
  <2>2. /\ dat[j] < FrameMod
        /\ params[Frame!Slot(dat[j])].m_frameNum = dat[j]
        /\ params[Frame!Slot(dat[j])].key = dat[j]
    BY <2>1 DEF CInv, SlotOwned
  <2>3. frame_number[j] = dat[j]
    <3>1. CASE task[j] = "frame"
      BY <3>1 DEF CInv, SlotOwned, Current
    <3>2. CASE task[j] # "frame"
      BY <3>2 DEF JInv, JobPlaces, Members, CInv, SlotOwned
    <3> QED BY <3>1, <3>2
  <2>4. dat[j] % FrameMod = dat[j]
    BY <2>2, NumberTypes, ModSmall, LoopAssumption
  <2> QED BY <2>2, <2>3, <2>4 DEF ActiveFrame, Frame!GetFrameData
<1> QED BY <1>1, Invariance, PTL

\* InitializeFrame is given the duration of the frame before.
THEOREM DurationsInOrder == Spec => DeltaTimeFromFrameBefore
<1> DEFINE Step == \A j \in Jobs :
                     at[j] = "initialize" /\ at'[j] = "stage" /\ dat[j] > 0 =>
                       params'[Frame!Slot(dat[j] % FrameMod)].measured = dat[j] - 1
<1>1. ASSUME IInv, [Next]_vars PROVE [Step]_vars
  <2> USE <1>1 DEF IInv
  <2> SUFFICES ASSUME Next, NEW j \in Jobs, at[j] = "initialize", at'[j] = "stage", dat[j] > 0
               PROVE  params'[Frame!Slot(dat[j] % FrameMod)].measured = dat[j] - 1
    BY <1>1
  <2>1. task[j] = "frame" /\ state[j] = "active"
    BY DEF JInv, JobPlaces, Waits
  <2>2. ASSUME NEW i \in Jobs, Retire(i) PROVE FALSE
    BY <2>2 DEF Retire, Leave, Vanish, localVars
  <2>3. ASSUME NEW i \in Jobs, NEW w \in Workers, JobStep(w, i) PROVE InitializeFrame(j)
    <3>1. CASE i = j
      <4>1. ~ StartStage(w, j) /\ ~ StartLeaf(w, j) /\ ~ Wait(j) /\ ~ Flip(j) /\ ~ FreeFrame(j)
            /\ ~ Measure(j) /\ ~ NextFrame(j) /\ ~ Return(j)
        BY DEF StartStage, StartLeaf, Wait, Flip, FreeFrame, Measure, NextFrame, Return, At
      <4>2. ~ Waited(j)
        BY <2>1 DEF Waited, FJ!Unblock
      <4> QED BY <2>3, <3>1, <4>1, <4>2 DEF JobStep
    <3>2. CASE i # j
      <4>1. at'[j] = at[j] \/ at'[j] \in {"fork", "end", "initialize"}
        <5>1. CASE InitializeFrame(i) \/ Flip(i) \/ FreeFrame(i) \/ Measure(i) \/ Waited(i)
          BY <3>2, <5>1 DEF InitializeFrame, Flip, FreeFrame, Measure, Waited, Goto, TypeOK
        <5>2. CASE Wait(i) \/ Return(i)
          BY <5>2 DEF Wait, Return, localVars
        <5>3. CASE StartStage(w, i)
          BY <3>2, <5>3 DEF StartStage, TypeOK
        <5>4. CASE StartLeaf(w, i)
          BY <3>2, <5>4 DEF StartLeaf, TypeOK
        <5>5. CASE NextFrame(i)
          BY <3>2, <5>5, NextFrameCases DEF ComesToEnd, StartsNext, TypeOK
        <5> QED BY <2>3, <5>1, <5>2, <5>3, <5>4, <5>5 DEF JobStep
      <4> QED BY <4>1
    <3> QED BY <3>1, <3>2
  <2>4. InitializeFrame(j)
    BY <2>2, <2>3 DEF Next, StopGame, Retire, Leave, Vanish, localVars
  <2>5. /\ Frame!Slot(dat[j] % FrameMod) \in 0 .. FramesToTrack - 1
        /\ DurationBefore(dat[j] % FrameMod) = dat[j] - 1
        /\ dat[j] # 0
    BY <2>1, NumberTypes DEF RInv, MeasuredBefore
  <2> QED BY <2>4, <2>5 DEF InitializeFrame, Frame!InitializeFrame, TypeOK, Frame!TypeOK
<1>2. IInv /\ [Next]_vars => [Step]_vars
  BY <1>1
<1> HIDE DEF Step
<1>3. Spec => [][Step]_vars
  BY <1>2, Invariance, PTL DEF Spec
<1> QED BY <1>3 DEF DeltaTimeFromFrameBefore, Step

\* frame_task flips the frames one after the other, each when the jobs of the
\* frame have returned.
THEOREM FlipsAfterJobs == Spec => FlipAfterJobs
<1> DEFINE Step == \A n \in rendered' \ rendered :
                     /\ n = Cardinality(rendered)
                     /\ \A j \in Jobs : state[j] # "absent" /\ dat[j] = n /\ task[j] # "frame" =>
                          state[j] = "finished"
<1>1. ASSUME IInv, [Next]_vars PROVE [Step]_vars
  <2> USE <1>1 DEF IInv
  <2> SUFFICES ASSUME Next, NEW n \in rendered' \ rendered
               PROVE  /\ n = Cardinality(rendered)
                      /\ \A j \in Jobs : state[j] # "absent" /\ dat[j] = n /\ task[j] # "frame" =>
                           state[j] = "finished"
    OBVIOUS
  <2>1. PICK i \in Jobs : Flip(i)
    <3>1. ASSUME NEW j \in Jobs, NEW w \in Workers, JobStep(w, j), ~ Flip(j) PROVE rendered' = rendered
      BY <3>1 DEF JobStep, InitializeFrame, StartStage, StartLeaf, Wait, Waited, FreeFrame, Measure,
                  NextFrame, Return
    <3>2. ASSUME NEW j \in Jobs, Retire(j) PROVE rendered' = rendered
      BY <3>2 DEF Retire, Leave, Vanish
    <3>3. StopGame => rendered' = rendered
      BY DEF StopGame
    <3> QED BY <3>1, <3>2, <3>3 DEF Next
  <2>2. task[i] = "frame" /\ at[i] = "flip" /\ n = dat[i]
    BY <2>1 DEF Flip, At
  <2>3. n \in Nat
    BY <2>2, NumberTypes
  <2>4. rendered = 0 .. n - 1
    BY <2>2 DEF RInv, RenderedSoFar, Current, BeforeFlip
  <2>5. Cardinality(0 .. n - 1) = n
    <3>1. Cardinality(0 .. n - 1) = IF 0 > n - 1 THEN 0 ELSE n - 1 - 0 + 1
      BY <2>3, FS_Interval
    <3> QED BY <2>3, <3>1
  <2>6. \A j \in Jobs : group[j] = NULL
    BY <2>2, NobodyInGroup DEF JInv, Current
  <2>7. ASSUME NEW j \in Jobs, state[j] # "absent", task[j] # "frame" PROVE state[j] = "finished"
    <3>1. task[j] \in {"game_logic", "leaf"}
      BY <2>7 DEF JInv, JobPlaces
    <3>2. state[j] \notin {"active", "blocked"}
      BY <2>6, <3>1 DEF JInv, Members
    <3> QED BY <2>7, <3>2 DEF TypeOK, FJ!TypeOK, FJ!Callers
  <2> QED BY <2>4, <2>5, <2>7
<1>2. IInv /\ [Next]_vars => [Step]_vars
  BY <1>1
<1> HIDE DEF Step
<1>3. Spec => [][Step]_vars
  BY <1>2, Invariance, PTL DEF Spec
<1> QED BY <1>3 DEF FlipAfterJobs, Step

\* frame_task throws only when the frame numbers of 64 bits have outgrown the 32
\* bits of m_frameNum.
THEOREM ValidUntilNumbersWrap == MaxFrame < FrameMod => (Spec => []FrameIsValid)
<1> SUFFICES ASSUME MaxFrame < FrameMod PROVE Spec => []FrameIsValid
  OBVIOUS
<1>1. Init => FrameIsValid
  BY DEF Init, FrameIsValid
<1>2. ASSUME IInv, FrameIsValid, [Next]_vars PROVE FrameIsValid'
  <2>1. ASSUME NEW j \in Jobs, InitializeFrame(j) PROVE ~ thrown'
    <3> DEFINE n == dat[j] % FrameMod
               s == Frame!Slot(n)
    <3>1. /\ params' = [params EXCEPT ![s] =
                         [m_frameNum |-> n, m_hasRendered |-> NULL,
                          measured |-> IF dat[j] = 0 THEN NULL ELSE DurationBefore(n),
                          key |-> n, blocks |-> [w \in Workers |-> Frame!NoBlock]]]
          /\ thrown' = (params'[s].m_frameNum # dat[j])
      BY <2>1 DEF InitializeFrame, Frame!InitializeFrame
    <3>2. n = dat[j] /\ s \in 0 .. FramesToTrack - 1
      <4>1. dat[j] \in 0 .. FrameMod - 1
        BY <1>2, LoopAssumption DEF IInv, TypeOK, Keys
      <4> QED BY <1>2, <4>1, ModSmall, NumberTypes DEF IInv
    <3> HIDE DEF n, s
    <3>3. params'[s].m_frameNum = n
      BY <1>2, <3>1, <3>2 DEF IInv, TypeOK, Frame!TypeOK
    <3> QED BY <3>1, <3>2, <3>3
  <2>2. ASSUME NEW j \in Jobs, NEW w \in Workers, JobStep(w, j), ~ InitializeFrame(j)
        PROVE  thrown' = thrown
    BY <2>2 DEF JobStep, StartStage, StartLeaf, Wait, Waited, Flip, FreeFrame, Measure,
                NextFrame, Return
  <2>3. ASSUME NEW j \in Jobs, Retire(j) PROVE thrown' = thrown
    BY <2>3 DEF Retire, Leave, Vanish
  <2> QED BY <1>2, <2>1, <2>2, <2>3 DEF Next, StopGame, vars, FrameIsValid
<1>3. IInv /\ FrameIsValid /\ [Next]_vars => FrameIsValid'
  BY <1>2
<1> QED BY <1>1, <1>3, Invariance, PTL DEF Spec

=============================================================================
