------------------------------ MODULE FrameData ------------------------------
(***************************************************************************)
(* frame_data.cpp: the ring of FrameParams.  Frame n lives in slot         *)
(* n % FRAMES_TO_TRACK, with its number, its allocator and what frame_task *)
(* notes about it.                                                         *)
(*                                                                         *)
(* The allocator keeps, for each worker thread, the block it cuts counters *)
(* from (LinearAllocator has the details).                                 *)
(***************************************************************************)
EXTENDS Integers

CONSTANTS
  FramesToTrack,   \* FRAMES_TO_TRACK
  FrameMod,        \* 2^32: m_frameNum and frame_number are uint32_t
  Workers,         \* the worker threads, with the ids of their blocks
  Blocks,          \* blocks of the shared heap
  CountersPerBlock,
  NULL

VARIABLE params

FrameNumbers == 0 .. FrameMod - 1

\* The rest of a block: `used' counters of `block' are handed out.
NoBlock == [block |-> NULL, used |-> CountersPerBlock]
Rest    == [block : Blocks \cup {NULL}, used : 0 .. CountersPerBlock]

\* m_hasRendered is NULL while it is indeterminate (its one reader,
\* HasFrameCompleted, is called by nobody).  measured is the frame whose duration
\* is in deltaTime; a nominal 1/60 s is NULL.  global_allocator has the key and
\* the blocks.
FrameParams == [m_frameNum : FrameNumbers, m_hasRendered : BOOLEAN \cup {NULL}, measured : Nat \cup {NULL},
                key : FrameNumbers, blocks : [Workers -> Rest]]

TypeOK == params \in [0 .. FramesToTrack - 1 -> FrameParams]

\* Static storage: zeroed, then constructed with number 0 and key 0.
Init ==
  params = [s \in 0 .. FramesToTrack - 1 |->
              [m_frameNum |-> 0, m_hasRendered |-> FALSE, measured |-> NULL,
               key |-> 0, blocks |-> [w \in Workers |-> NoBlock]]]

\* GetFrameData(n)
Slot(n) == n % FramesToTrack
GetFrameData(n) == params[Slot(n)]

\* Faulty InitializeFrame: the frame is not constructed anew.
InitializeInPlace(n, d) ==
  params' = [params EXCEPT ![Slot(n)] = [@ EXCEPT !.m_frameNum = n, !.measured = d]]

\* InitializeFrame(n, dt): the slot is destroyed and constructed again, number
\* and dt are stored.  No constructor sets m_hasRendered.
InitializeFrame(n, d) ==
  params' = [params EXCEPT ![Slot(n)] =
               [m_frameNum |-> n, m_hasRendered |-> NULL, measured |-> d,
                key |-> n, blocks |-> [w \in Workers |-> NoBlock]]]

=============================================================================
