------------------------------ MODULE FrameLoop ------------------------------
(***************************************************************************)
(* The frame task of main.cpp, composed of three parts modelled elsewhere: *)
(* the fork-join runtime (ForkJoin, which FiberScheduler implements), the  *)
(* shared heap (TaggedHeap) and the ring of frames (FrameData).            *)
(*                                                                         *)
(* A frame job sets its frame up, starts the game-logic job, which starts  *)
(* the leaf jobs and waits for them, waits for game logic, frees the       *)
(* memory of the frame and starts the job of the next frame.  The counters *)
(* they wait on live in the memory of the frame, which is found through    *)
(* the frame number of the executing job.                                  *)
(***************************************************************************)
EXTENDS Integers, Sequences, FiniteSets

CONSTANTS
  Jobs,              \* fibers
  Main,              \* the thread that runs main()
  Workers, Blocks, MaxFree, FramesToTrack, FrameMod, CountersPerBlock,
  Leaves,            \* leaf jobs per frame: 50
  MaxFrame,          \* bound: the last frame that is started
  NULL

\* The address of a counter: a place in a block.
Counters == Blocks \X (1 .. CountersPerBlock)

\* Frame numbers are 64 bits in frame_task and in the heap.
Keys == 0 .. MaxFrame

TaskKind == {"frame", "game_logic", "leaf"}

ASSUME LoopAssumption ==
  /\ FramesToTrack \in Nat \ {0}
  /\ FrameMod \in Nat \ {0}
  /\ FrameMod % FramesToTrack = 0
  /\ CountersPerBlock \in Nat \ {0}
  /\ Leaves \in Nat \ {0}
  /\ MaxFrame \in Nat
  /\ Main \notin Jobs
  /\ MaxFree \in Nat
  /\ IsFiniteSet(Blocks)
  /\ NULL \notin Jobs \cup {Main} \cup Blocks \cup Counters \cup Keys \cup TaskKind

VARIABLES
  state, group, awaits,                                   \* the jobs (ForkJoin)
  allocated_blocks, free_blocks, live, peak, destroyed,   \* the heap (TaggedHeap)
  params,                                                 \* the frames (FrameData)
  task,              \* what each job executes
  dat,               \* the frame a job belongs to; for a frame job its data
  at,                \* where each job is
  frame_number,      \* fiber_data.frame_number
  cnt,               \* frame_cnt of a frame job, m_waiter of game logic
  leaves,            \* leaf jobs started by game logic
  is_game_running,
  thrown,            \* an exception has left frame_task: the process is gone
  rendered           \* history: frames that have been flipped

jobVars   == <<state, group, awaits>>
heapVars  == <<allocated_blocks, free_blocks, live, peak, destroyed>>
localVars == <<task, dat, at, frame_number, cnt, leaves>>
vars == <<jobVars, heapVars, params, localVars, is_game_running, thrown, rendered>>

FJ    == INSTANCE ForkJoin WITH Clients <- {Main}, Groups <- Counters, NoGroup <- NULL
Heap  == INSTANCE TaggedHeap WITH NumFree <- 0, Nobody <- NULL
Frame == INSTANCE FrameData

\* Places of a frame job, in the order of frame_task; "fork" and "join" are
\* those of game logic, and "end" is the return of any job.
Place == {"initialize", "stage", "game_logic", "render", "gpu_submit", "flip", "free",
          "measure", "next", "fork", "join", "end"}

TypeOK ==
  /\ FJ!TypeOK
  /\ Heap!TypeOK
  /\ Frame!TypeOK
  /\ task \in [Jobs -> TaskKind \cup {NULL}]
  /\ dat \in [Jobs -> Keys]
  /\ at \in [Jobs -> Place]
  /\ frame_number \in [Jobs -> Frame!FrameNumbers]
  /\ cnt \in [Jobs -> Counters \cup {NULL}]
  /\ leaves \in [Jobs -> 0 .. Leaves]
  /\ is_game_running \in BOOLEAN
  /\ thrown \in BOOLEAN
  /\ rendered \subseteq Keys

\* main has called RunTask(frame_task) with data 0: the frame number it passes
\* on is that of slot 0.
Init ==
  /\ Heap!Init
  /\ Frame!Init
  /\ \E j \in Jobs :
       /\ state = [x \in FJ!Callers |-> IF x \in {j, Main} THEN "active" ELSE "absent"]
       /\ task = [x \in Jobs |-> IF x = j THEN "frame" ELSE NULL]
       /\ at = [x \in Jobs |-> IF x = j THEN "initialize" ELSE "end"]
  /\ group = [x \in Jobs |-> NULL]
  /\ awaits = [x \in FJ!Callers |-> NULL]
  /\ dat = [x \in Jobs |-> 0]
  /\ frame_number = [x \in Jobs |-> 0]
  /\ cnt = [x \in Jobs |-> NULL]
  /\ leaves = [x \in Jobs |-> 0]
  /\ is_game_running = TRUE
  /\ thrown = FALSE
  /\ rendered = {}

Goto(j, l) == at' = [at EXCEPT ![j] = l]

\* Job j executes at place l.
At(j, kind, l) ==
  /\ ~thrown
  /\ state[j] = "active"
  /\ task[j] = kind
  /\ at[j] = l

\* The FrameParams a job finds through GetActiveFrameData.
ActiveFrame(j) == Frame!GetFrameData(frame_number[j])

-----------------------------------------------------------------------------
(* RunTask *)

\* Faulty RunTask, and what run_jobs does: frame_number is not set.
SetUpWithoutFrame(j, k, kind, n) ==
  /\ task' = [task EXCEPT ![k] = kind]
  /\ dat' = [dat EXCEPT ![k] = n]
  /\ UNCHANGED frame_number

\* The fiber_data of the new job k of j: with task, data and frame number.
SetUp(j, k, kind, n) ==
  /\ task' = [task EXCEPT ![k] = kind]
  /\ dat' = [dat EXCEPT ![k] = n]
  /\ frame_number' = [frame_number EXCEPT ![k] = ActiveFrame(j).m_frameNum]

\* Faulty bump: the place of c is not behind the mark.
MarkBefore(c) == [block |-> c[1], used |-> c[2] - 1]

\* The rest of a block when c is its last counter in use.
MarkAt(c) == [block |-> c[1], used |-> c[2]]

\* frame->allocate<atomic_counter>(1) on worker w returns c: from the rest of
\* the worker's block of that frame, or from a new block.
Allocate(w, j, c) ==
  LET frame == ActiveFrame(j)
      rest  == frame.blocks[w]
      blocks == allocated_blocks'[frame.key] IN
  /\ \/ /\ rest.used < CountersPerBlock
        /\ c = <<rest.block, rest.used + 1>>
        /\ UNCHANGED heapVars
     \/ /\ rest.used = CountersPerBlock
        /\ Heap!AllocBlock(frame.key)
        /\ c = <<blocks[Len(blocks)], 1>>
  /\ params' = [params EXCEPT ![Frame!Slot(frame_number[j])].blocks[w] = MarkAt(c)]

\* RunTask(k, &cnt): the first call makes the counter.
RunCounted(w, j, k, kind) ==
  /\ FJ!Fork(j, k)
  /\ IF cnt[j] = NULL
     THEN Allocate(w, j, group'[k])
     ELSE group'[k] = cnt[j] /\ UNCHANGED <<heapVars, params>>
  /\ group'[k] # NULL
  /\ cnt' = [cnt EXCEPT ![j] = group'[k], ![k] = NULL]
  /\ SetUp(j, k, kind, dat[j])

-----------------------------------------------------------------------------
(* frame_task *)

\* Faulty look-up: the duration is that of the frame that had the slot.
DurationInSlot(n) == Frame!GetFrameData(n).measured

\* GetFrameData(sdat - 1)->deltaTime
DurationBefore(n) == Frame!GetFrameData((n - 1) % FrameMod).measured

\* InitializeFrame(sdat, deltaTime of the frame before), and the test that
\* GetFrameData returns a frame with the number of the task.
InitializeFrame(j) ==
  LET sdat == dat[j] % FrameMod IN
  /\ At(j, "frame", "initialize")
  /\ Frame!InitializeFrame(sdat, IF dat[j] = 0 THEN NULL ELSE DurationBefore(sdat))
  /\ frame_number' = [frame_number EXCEPT ![j] = sdat]
  /\ thrown' = (params'[Frame!Slot(sdat)].m_frameNum # dat[j])
  /\ Goto(j, "stage")
  /\ UNCHANGED <<jobVars, heapVars, task, dat, cnt, leaves, is_game_running, rendered>>

\* RunTask(child, &frame_cnt)
StartStage(w, j) ==
  /\ At(j, "frame", "stage")
  /\ \E k \in Jobs :
       /\ RunCounted(w, j, k, "game_logic")
       /\ at' = [at EXCEPT ![j] = "game_logic", ![k] = "fork"]
       /\ leaves' = [leaves EXCEPT ![k] = 0]
  /\ UNCHANGED <<awaits, is_game_running, thrown, rendered>>

\* The place after each of the waits.
After(l) == CASE l = "game_logic" -> "render"
              [] l = "render"     -> "gpu_submit"
              [] l = "gpu_submit" -> "flip"
              [] l = "join"       -> "end"

\* The three waits of frame_task and the one of game logic are called ...
Wait(j) ==
  /\ ~thrown
  /\ at[j] \in {"game_logic", "render", "gpu_submit", "join"}
  /\ FJ!Block(j)
  /\ awaits'[j] = cnt[j]
  /\ UNCHANGED <<heapVars, params, localVars, is_game_running, thrown, rendered>>

\* ... and return.
Waited(j) ==
  /\ ~thrown
  /\ FJ!Unblock(j)
  /\ Goto(j, After(at[j]))
  /\ UNCHANGED <<heapVars, params, task, dat, frame_number, cnt, leaves, is_game_running,
                 thrown, rendered>>

\* m_hasRendered = true, MicroProfileFlip
Flip(j) ==
  /\ At(j, "frame", "flip")
  /\ params' = [params EXCEPT ![Frame!Slot(dat[j] % FrameMod)].m_hasRendered = TRUE]
  /\ rendered' = rendered \cup {dat[j]}
  /\ Goto(j, "free")
  /\ UNCHANGED <<jobVars, heapVars, task, dat, frame_number, cnt, leaves, is_game_running, thrown>>

\* Faulty key: the memory of the frame before is freed, and the right one.
KeyBefore(n) == IF n = 0 THEN MaxFrame ELSE n - 1
KeyOf(n) == n

\* shared_heap().free(dat)
FreeFrame(j) ==
  /\ At(j, "frame", "free")
  /\ Heap!Free(KeyOf(dat[j]))
  /\ Goto(j, "measure")
  /\ UNCHANGED <<jobVars, params, task, dat, frame_number, cnt, leaves, is_game_running,
                 thrown, rendered>>

\* frame_data->deltaTime = dt
Measure(j) ==
  /\ At(j, "frame", "measure")
  /\ params' = [params EXCEPT ![Frame!Slot(dat[j] % FrameMod)].measured = dat[j]]
  /\ Goto(j, "next")
  /\ UNCHANGED <<jobVars, heapVars, task, dat, frame_number, cnt, leaves, is_game_running,
                 thrown, rendered>>

\* if (is_game_running) RunTask(frame_task with dat + 1, nullptr)
NextFrame(j) ==
  /\ At(j, "frame", "next")
  /\ \/ ~is_game_running /\ Goto(j, "end") /\ UNCHANGED <<jobVars, task, dat, frame_number, cnt>>
     \/ /\ is_game_running
        /\ dat[j] < MaxFrame
        /\ \E k \in Jobs :
             /\ FJ!Fork(j, k)
             /\ group'[k] = NULL
             /\ cnt' = [cnt EXCEPT ![k] = NULL]
             /\ SetUp(j, k, "frame", dat[j] + 1)
             /\ at' = [at EXCEPT ![j] = "end", ![k] = "initialize"]
  /\ UNCHANGED <<heapVars, params, leaves, is_game_running, thrown, rendered>>

-----------------------------------------------------------------------------
(* Game logic, leaves, and the end of any job *)

\* Faulty loop condition, and the one of game logic: i < 50 fails.
LoopEndsLate(i) == i > Leaves
LoopEnds(i) == i = Leaves

\* RunTask(child, &m_waiter), Leaves times.
StartLeaf(w, j) ==
  /\ At(j, "game_logic", "fork")
  /\ leaves' = [leaves EXCEPT ![j] = @ + 1]
  /\ \E k \in Jobs :
       /\ RunCounted(w, j, k, "leaf")
       /\ at' = [at EXCEPT ![j] = IF LoopEnds(leaves'[j]) THEN "join" ELSE "fork", ![k] = "end"]
  /\ UNCHANGED <<awaits, is_game_running, thrown, rendered>>

\* The function of a job returns.
Return(j) ==
  /\ ~thrown
  /\ at[j] = "end"
  /\ FJ!Finish(j)
  /\ UNCHANGED <<heapVars, params, localVars, is_game_running, thrown, rendered>>

\* do_work decrements the counter, which is a write to the memory of the frame.
Leave(j) ==
  /\ ~thrown
  /\ FJ!Leave(j)
  /\ UNCHANGED <<heapVars, params, localVars, is_game_running, thrown, rendered>>

\* do_work deletes the fiber.
Vanish(j) ==
  /\ ~thrown
  /\ FJ!Vanish(j)
  /\ task' = [task EXCEPT ![j] = NULL]
  /\ cnt' = [cnt EXCEPT ![j] = NULL]
  /\ dat' = [dat EXCEPT ![j] = 0]
  /\ leaves' = [leaves EXCEPT ![j] = 0]
  /\ frame_number' = [frame_number EXCEPT ![j] = 0]
  /\ UNCHANGED <<heapVars, params, at, is_game_running, thrown, rendered>>

\* main: is_game_running = false
StopGame ==
  /\ ~thrown
  /\ is_game_running
  /\ is_game_running' = FALSE
  /\ UNCHANGED <<jobVars, heapVars, params, localVars, thrown, rendered>>

-----------------------------------------------------------------------------

\* A step of job j on worker w between two switches.
JobStep(w, j) ==
  \/ InitializeFrame(j) \/ StartStage(w, j) \/ StartLeaf(w, j)
  \/ Wait(j) \/ Waited(j)
  \/ Flip(j) \/ FreeFrame(j) \/ Measure(j) \/ NextFrame(j)
  \/ Return(j)

\* What do_work does with a job that has returned.
Retire(j) == Leave(j) \/ Vanish(j)

Next ==
  \/ \E j \in Jobs : Retire(j) \/ \E w \in Workers : JobStep(w, j)
  \/ StopGame

Spec == Init /\ [][Next]_vars

\* The scheduler lets every job make progress (ImplementsProgress of
\* FiberScheduler), and each piece of task code ends.
Fairness == \A j \in Jobs : WF_vars(Retire(j)) /\ WF_vars(\E w \in Workers : JobStep(w, j))

FairSpec == Spec /\ Fairness

-----------------------------------------------------------------------------
(* Properties *)

\* The job of a frame, while it uses the frame's memory.
UsesMemory(j) ==
  task[j] = "frame" /\ at[j] \in {"stage", "game_logic", "render", "gpu_submit", "flip", "free"}

\* Counter c lies in memory the heap holds for frame n.
InMemoryOf(c, n) == c[1] \in Heap!Elements(allocated_blocks[n])

\* No job has yet to decrement, polls, or will poll again, a counter in memory
\* its frame no longer holds.
CountersAlive ==
  \A j \in Jobs :
    /\ group[j] # NULL => InMemoryOf(group[j], dat[j])
    /\ awaits[j] # NULL => InMemoryOf(awaits[j], dat[j])
    /\ cnt[j] # NULL /\ at[j] \in {"game_logic", "render", "gpu_submit", "fork", "join"} =>
         InMemoryOf(cnt[j], dat[j])

\* Two callers of a frame never wait on one counter, and a counter counts the
\* jobs of one caller only.
CountersPrivate ==
  \A j, k \in Jobs :
    /\ j # k /\ state[j] # "absent" /\ state[k] # "absent" /\ cnt[j] # NULL /\ dat[j] = dat[k] =>
         cnt[j] # cnt[k]
    /\ awaits[j] # NULL /\ group[k] = awaits[j] => dat[j] = dat[k] /\ task[k] # task[j]

\* frame_task frees the memory of its frame in one stroke, with the counters
\* of all its jobs in it.  Nobody reads or writes a counter after that, and
\* memory is not given out again while a counter in it is in use.
CountersSound == CountersAlive /\ CountersPrivate

\* Every frame gives back all of its memory: only a frame job that has not
\* come to free() yet holds any, so nothing piles up over the frames.
MemoryReturned ==
  \A n \in Keys : allocated_blocks[n] # <<>> => \E j \in Jobs : UsesMemory(j) /\ dat[j] = n

\* Jobs of a frame find their own frame through GetActiveFrameData, wherever
\* and whenever they run: the slot is not taken over while one of them may
\* still call it.  (A frame job at its end may outlive its slot.)
ActiveFrameIsOwn ==
  \A j \in Jobs :
    state[j] \in {"active", "blocked"} /\ ~thrown /\ at[j] # "initialize"
      /\ (task[j] = "frame" => at[j] # "end") =>
      /\ frame_number[j] = dat[j] % FrameMod
      /\ ActiveFrame(j).m_frameNum = frame_number[j]
      /\ ActiveFrame(j).key = frame_number[j]

\* A frame starts with the duration of the frame before it.
DeltaTimeFromFrameBefore ==
  [][\A j \in Jobs :
       at[j] = "initialize" /\ at'[j] = "stage" /\ dat[j] > 0 =>
         params'[Frame!Slot(dat[j] % FrameMod)].measured = dat[j] - 1]_vars

\* frame_task(n) is flipped when all jobs of the frame are done.
FlipAfterJobs ==
  [][\A n \in rendered' \ rendered :
       /\ n = Cardinality(rendered)
       /\ \A j \in Jobs : state[j] # "absent" /\ dat[j] = n /\ task[j] # "frame" => state[j] = "finished"]_vars

\* Every frame that is begun is rendered and gives back its memory.
FramesFinish ==
  \A n \in Keys :
    (\E j \in Jobs : task[j] = "frame" /\ dat[j] = n)
      ~> (n \in rendered /\ allocated_blocks[n] = <<>>)

\* frame_task: "Returned invalid frame" is never thrown.
FrameIsValid == ~thrown

=============================================================================
