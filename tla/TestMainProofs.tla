---------------------------- MODULE TestMainProofs ----------------------------
(***************************************************************************)
(* Proofs about main(): whatever the number of workers, jobs and counters  *)
(* the scheduler keeps its promises under main, a frame that has begun is  *)
(* never left without a worker, and none is left when main returns.        *)
(***************************************************************************)
EXTENDS TestMain, FiberSchedulerProofs

(***************************************************************************)
(* SomebodyDrains is not inductive: the worker it speaks of may be about   *)
(* to look at the last queue while the job waits in the first one.  What   *)
(* is kept by every step is that each queue with a job in it has a worker  *)
(* that will still look at this queue before it leaves do_work.            *)
(***************************************************************************)

\* Places of a main fiber from which do_work looks at queue p before it
\* returns: p or a queue before it is next, or a job has been popped.
LooksAt(p) ==
  CASE p = "high"   -> {"high", "switched", "delete"}
    [] p = "medium" -> {"high", "medium", "switched", "delete"}
    [] p = "low"    -> {"high", "medium", "low", "switched", "delete"}

\* do_work is called by the posted tasks alone.
WorkersInside == \A w \in Workers : pc[w] # "loop" => where[w] = "task"

QueuesWatched ==
  begun => \A p \in Prio : queue[p] # <<>> => \E w \in Workers : pc[w] \in LooksAt(p)

\* Until a job is popped there is the frame task of main, and no other.
FirstJob ==
  ~begun =>
    /\ \A w \in Workers : pc[w] \in Prio \cup {"loop"}
    /\ \A f, g \in Fibers : Live(f) /\ Live(g) => f = g

\* Nothing begins before main has scheduled the frame task.
Starting ==
  /\ place \in {"post", "run", "schedule"} => ~begun /\ \A p \in Prio : queue[p] = <<>>
  /\ place \in {"post", "run"} => \A f \in Fibers : ~Live(f)
  /\ pc[Main] = "schedule" <=> place = "schedule"

\* The destructor joins a thread of the pool at a time, and when it ends it has
\* joined them all; none is started again.
Joined ==
  /\ \A w \in joined : where[w] = "gone"
  /\ place = "join" => joining \in Workers
  /\ place = "exited" => joined = Workers

\* The loop of main posts one task after the other.
Posting == place = "post" => i < NumTasks

MInv ==
  /\ MainTypeOK
  /\ WorkersInside
  /\ QueuesWatched
  /\ FirstJob
  /\ Starting
  /\ Joined
  /\ Posting

-----------------------------------------------------------------------------
(* main under the scheduler *)

\* There is a task for every worker, and one more.
LEMMA TasksCounted == NumTasks \in Nat \ {0}
<1>1. Cardinality(Workers) \in Nat
  BY FS_CardinalityType, MainAssumption
<1> QED  BY <1>1 DEF NumTasks

LEMMA StepIsScheduling == [MainNext]_allVars => [Next]_vars
<1> SUFFICES ASSUME [MainNext]_allVars, ~ UNCHANGED vars
             PROVE  Next
  OBVIOUS
<1>1. ~ UNCHANGED allVars
  BY DEF allVars
<1>2. CASE MainThread
  <2>1. StartFrameTask \/ ScheduleFrameTask
    BY <1>2
    DEF MainThread, PostJob, Proceeds, ResetRunning, ResetGameRunning, PrintCompleted,
        BeginExit, Destructor, NotifyAll, Join, NotifyAgain
  <2>2. Main \in Clients /\ Main \in Callers
    BY MainAssumption DEF Callers
  <2>3. CallerStep(Main)
    BY <2>1, <2>2 DEF StartFrameTask, ScheduleFrameTask, CallerStep, PrioOfJobs
  <2> QED  BY <2>2, <2>3 DEF Next
<1>3. ASSUME NEW w \in Workers, WorkerStep(w) \/ SpuriousWakeup(w)
      PROVE  Next
  <2>1. CallDoWork(w) \/ InDoWork(w)
    BY <1>3
    DEF WorkerStep, PoolLoop, WaitJob, TestRunning, FallAsleep, SpuriousWakeup, TaskReturns
  <2>2. MainStep(w) \/ SwitchStep(w) \/ (cpu[w] \in Fibers /\ CallerStep(cpu[w]))
    BY <2>1 DEF CallDoWork, InDoWork, MainStep, TaskStep, CallerStep
  <2> QED  BY <2>2 DEF Next, Callers
<1> QED  BY <1>1, <1>2, <1>3 DEF MainNext

\* main, its flags and its pool drive the scheduler and nothing else does: each
\* behaviour of the program is one of FiberScheduler, so that whatever is
\* proved of the scheduler holds in the program.
THEOREM ProgramIsScheduling == MainSpec => Spec
<1>1. MainInit => Init
  BY DEF MainInit
<1> QED  BY <1>1, StepIsScheduling, PTL DEF MainSpec, Spec

LEMMA MainInitInv == MainInit => MInv
<1> SUFFICES ASSUME MainInit PROVE MInv
  OBVIOUS
<1> USE DEF MainInit, Init
<1>1. /\ Main \in Contexts /\ Main \notin Workers /\ Main \in Clients
      /\ \A f \in Fibers : pc[f] = "free"
      /\ \A w \in Workers : pc[w] = "loop"
      /\ pc[Main] = "body"
  BY SchedulerAssumption, MainAssumption DEF Contexts, Callers
<1>2. MainTypeOK
  <2>1. i \in 0 .. NumTasks /\ posted \in 0 .. i
    BY TasksCounted
  <2> QED  BY <2>1 DEF MainTypeOK, Places, WorkerPlaces
<1>3. WorkersInside /\ QueuesWatched /\ FirstJob /\ Starting /\ Joined
  BY <1>1 DEF WorkersInside, QueuesWatched, FirstJob, Live, Starting, Joined
<1>4. Posting
  BY TasksCounted DEF Posting
<1> QED  BY <1>2, <1>3, <1>4 DEF MInv

-----------------------------------------------------------------------------
(* The workers outside do_work *)

\* A worker that is not inside a posted task does not touch the scheduler.
LEMMA PoolSideInv ==
  ASSUME IInv, MInv, NEW w \in Workers,
         \/ PoolLoop(w) \/ WaitJob(w) \/ TestRunning(w) \/ FallAsleep(w)
         \/ SpuriousWakeup(w) \/ TaskReturns(w)
  PROVE  MInv'
<1> USE DEF MInv
<1>1. /\ UNCHANGED <<vars, place, i, brunning, is_game_running, m_running, joining, joined, begun>>
      /\ \E l \in WorkerPlaces : Enter(w, l)
      /\ where[w] # "gone"
      /\ pc[w] = "loop"
  <2>1. where[w] # "task" => pc[w] = "loop"
    BY DEF WorkersInside
  <2> QED
    BY <2>1
    DEF PoolLoop, WaitJob, TestRunning, FallAsleep, SpuriousWakeup, TaskReturns,
        flagVars, exitVars, WorkerPlaces
<1>2. UNCHANGED <<queue, pc>>
  BY <1>1 DEF vars
<1>3. MainTypeOK'
  <2>1. posted' \in 0 .. i'
    BY <1>1 DEF PoolLoop, WaitJob, TestRunning, FallAsleep, SpuriousWakeup, TaskReturns,
                MainTypeOK
  <2> QED  BY <1>1, <2>1 DEF MainTypeOK, Enter, NumTasks
<1>4. WorkersInside'
  BY <1>1, <1>2 DEF WorkersInside, Enter, MainTypeOK
<1>5. QueuesWatched' /\ FirstJob' /\ Starting' /\ Posting'
  BY <1>1, <1>2 DEF QueuesWatched, FirstJob, Live, Starting, Posting, NumTasks
<1>6. Joined'
  BY <1>1 DEF Joined, Enter, MainTypeOK
<1> QED  BY <1>3, <1>4, <1>5, <1>6

-----------------------------------------------------------------------------
(* The workers inside do_work *)

\* A step of the scheduler on thread w leaves main and the pool where they
\* are, and can only disturb who watches the queues and who has begun.
LEMMA InsideKeeps ==
  ASSUME IInv, MInv, NEW w \in Workers,
         UNCHANGED <<place, i, poolVars, flagVars, exitVars>>,
         where[w] = "task",
         begun' \in BOOLEAN,
         pc'[Main] = pc[Main],
         \A v \in Workers : v # w => pc'[v] = pc[v]
  PROVE  /\ MainTypeOK' /\ WorkersInside' /\ Joined' /\ Posting'
         /\ (pc'[Main] = "schedule" <=> place' = "schedule")
BY DEF MInv, MainTypeOK, WorkersInside, Starting, Joined, Posting, NumTasks,
       poolVars, flagVars, exitVars

\* Main is neither a worker nor a job.
LEMMA MainIsAlone ==
  /\ Main \in Clients /\ Main \in Callers /\ Main \in Contexts
  /\ Main \notin Workers /\ Main \notin Fibers
BY SchedulerAssumption, MainAssumption DEF Callers, Contexts

\* Entry of do_work: one worker more that looks at all queues.
LEMMA CallDoWorkMInv ==
  ASSUME IInv, MInv, NEW w \in Workers, CallDoWork(w)
  PROVE  MInv'
<1>1. /\ cpu[w] = w /\ pc[w] = "loop" /\ where[w] = "task"
      /\ pc' = [pc EXCEPT ![w] = "high"]
      /\ UNCHANGED <<queue, place, i, poolVars, flagVars, exitVars, begun>>
  BY MainOfThread DEF CallDoWork, DoWork, mainVars
<1>2. /\ pc'[w] = "high"
      /\ pc'[Main] = pc[Main]
      /\ \A f \in Fibers : pc'[f] = pc[f]
      /\ \A v \in Workers : v # w => pc'[v] = pc[v]
  BY <1>1, MainIsAlone, SchedulerAssumption DEF IInv, Shape, Contexts, Callers
<1>3. /\ MainTypeOK' /\ WorkersInside' /\ Joined' /\ Posting'
      /\ (pc'[Main] = "schedule" <=> place' = "schedule")
  BY <1>1, <1>2, InsideKeeps DEF MInv, MainTypeOK
<1>4. QueuesWatched'
  BY <1>2 DEF QueuesWatched, LooksAt, Prio
<1>5. FirstJob'
  BY <1>1, <1>2 DEF MInv, FirstJob, Live, Prio
<1>6. Starting'
  BY <1>1, <1>2, <1>3 DEF MInv, Starting, Live
<1> QED  BY <1>3, <1>4, <1>5, <1>6 DEF MInv

\* A pop: the worker comes back to look at all queues, and the first pop of
\* all begins the frame.
LEMMA PopFrontMInv ==
  ASSUME IInv, MInv, NEW w \in Workers, PopFront(w), begun' = TRUE,
         UNCHANGED <<place, i, poolVars, flagVars, exitVars>>
  PROVE  MInv'
<1>1. /\ cpu[w] = w /\ pc[w] \in Prio
      /\ queue[pc[w]] # <<>>
      /\ pc' = [pc EXCEPT ![w] = "switched"]
  BY MainOfThread DEF PopFront
<1>2. /\ pc'[w] = "switched"
      /\ pc'[Main] = pc[Main]
      /\ \A v \in Workers : v # w => pc'[v] = pc[v]
  BY <1>1, MainIsAlone, SchedulerAssumption DEF IInv, Shape, Contexts, Callers
<1>3. where[w] = "task"
  BY <1>1 DEF MInv, WorkersInside, Prio
<1>4. /\ MainTypeOK' /\ WorkersInside' /\ Joined' /\ Posting'
      /\ (pc'[Main] = "schedule" <=> place' = "schedule")
  BY <1>2, <1>3, InsideKeeps
<1>5. QueuesWatched'
  BY <1>2 DEF QueuesWatched, LooksAt, Prio
<1>6. FirstJob'
  BY DEF FirstJob
<1>7. Starting'
  <2>1. place \notin {"post", "run", "schedule"}
    BY <1>1 DEF MInv, Starting
  <2> QED  BY <1>4, <2>1 DEF Starting
<1> QED  BY <1>4, <1>5, <1>6, <1>7 DEF MInv

\* An empty queue: the worker gives up watching that queue alone.
LEMMA PopEmptyMInv ==
  ASSUME IInv, MInv, NEW w \in Workers, PopEmpty(w),
         UNCHANGED <<place, i, poolVars, flagVars, exitVars, begun>>
  PROVE  MInv'
<1>1. /\ cpu[w] = w /\ pc[w] \in Prio
      /\ queue[pc[w]] = <<>>
      /\ UNCHANGED queue
  BY MainOfThread DEF PopEmpty
<1>2. /\ pc'[w] = CASE pc[w] = "high"   -> "medium"
                    [] pc[w] = "medium" -> "low"
                    [] pc[w] = "low"    -> "loop"
      /\ pc'[Main] = pc[Main]
      /\ \A f \in Fibers : pc'[f] = pc[f]
      /\ \A v \in Workers : v # w => pc'[v] = pc[v]
  <2>1. pc \in [Contexts -> MainPC \cup CallerPC] /\ w \in Contexts
    BY DEF IInv, Shape, Contexts
  <2>2. \E l : /\ pc' = [pc EXCEPT ![w] = l]
              /\ l = CASE pc[w] = "high"   -> "medium"
                       [] pc[w] = "medium" -> "low"
                       [] pc[w] = "low"    -> "loop"
    BY <1>1 DEF PopEmpty
  <2>3. ASSUME NEW x \in Contexts, x # w
        PROVE  pc'[x] = pc[x]
    BY <2>1, <2>2, <2>3
  <2>4. \A x \in Workers \cup Fibers : x \in Contexts
    BY DEF Contexts, Callers
  <2>5. w \notin Fibers
    BY SchedulerAssumption
  <2> QED  BY <2>1, <2>2, <2>3, <2>4, <2>5, MainIsAlone
<1>3. where[w] = "task"
  BY <1>1 DEF MInv, WorkersInside, Prio
<1>4. /\ MainTypeOK' /\ WorkersInside' /\ Joined' /\ Posting'
      /\ (pc'[Main] = "schedule" <=> place' = "schedule")
  BY <1>2, <1>3, InsideKeeps DEF MInv, MainTypeOK
<1>5. QueuesWatched'
  <2> SUFFICES ASSUME begun, NEW p \in Prio, queue[p] # <<>>
               PROVE  \E v \in Workers : pc'[v] \in LooksAt(p)
    BY <1>1 DEF QueuesWatched
  <2>1. PICK v \in Workers : pc[v] \in LooksAt(p)
    BY DEF MInv, QueuesWatched
  <2>2. CASE v = w
    <3>1. pc[w] # p
      BY <1>1
    <3>2. pc'[w] \in LooksAt(p)
      BY <1>1, <1>2, <2>1, <2>2, <3>1 DEF LooksAt, Prio
    <3> QED  BY <3>2
  <2> QED  BY <1>2, <2>1, <2>2
<1>6. FirstJob'
  BY <1>1, <1>2 DEF MInv, FirstJob, Live, Prio
<1>7. Starting'
  BY <1>1, <1>2, <1>4 DEF MInv, Starting, Live
<1> QED  BY <1>4, <1>5, <1>6, <1>7 DEF MInv

\* What a worker does with the job it has popped, on its main fiber or on the
\* job's, happens after the first pop, and it will look at all queues again.
LEMMA BusyMInv ==
  ASSUME IInv, MInv, NEW w \in Workers,
         pc[w] \in {"switched", "delete"},
         pc'[w] \in {"switched", "delete", "high"},
         pc'[Main] = pc[Main],
         \A v \in Workers : v # w => pc'[v] = pc[v],
         UNCHANGED <<place, i, poolVars, flagVars, exitVars, begun>>
  PROVE  MInv'
<1>1. where[w] = "task"
  BY DEF MInv, WorkersInside
<1>2. /\ MainTypeOK' /\ WorkersInside' /\ Joined' /\ Posting'
      /\ (pc'[Main] = "schedule" <=> place' = "schedule")
  BY <1>1, InsideKeeps DEF MInv, MainTypeOK
<1>3. begun
  BY DEF MInv, FirstJob, Prio
<1>4. QueuesWatched'
  BY DEF QueuesWatched, LooksAt, Prio
<1>5. FirstJob'
  BY <1>3 DEF FirstJob
<1>6. Starting'
  BY <1>2, <1>3 DEF MInv, Starting
<1> QED  BY <1>2, <1>4, <1>5, <1>6 DEF MInv

LEMMA InDoWorkMInv ==
  ASSUME IInv, MInv, NEW w \in Workers, InDoWork(w)
  PROVE  MInv'
<1>1. UNCHANGED <<place, i, poolVars, flagVars, exitVars>>
  BY DEF InDoWork
<1>2. CASE PopFront(w) /\ begun' = TRUE
  BY <1>1, <1>2, PopFrontMInv
<1>3. CASE PopEmpty(w) /\ UNCHANGED begun
  BY <1>1, <1>3, PopEmptyMInv
<1>4. CASE (Reschedule(w) \/ Complete(w) \/ DeleteFiber(w)) /\ UNCHANGED begun
  <2>1. cpu[w] = w /\ pc[w] \in {"switched", "delete"}
    BY <1>4, MainOfThread DEF Reschedule, Complete, DeleteFiber
  <2>2. target[w] \in Fibers
    BY <2>1, JobOfMain
  <2>3. \/ pc' = [pc EXCEPT ![w] = "high"]
        \/ pc' = [pc EXCEPT ![w] = "delete"]
        \/ pc' = [pc EXCEPT ![target[w]] = "free", ![w] = "high"]
    BY <1>4, <2>1 DEF Reschedule, Complete, DeleteFiber
  <2>4. /\ pc'[w] \in {"delete", "high"}
        /\ pc'[Main] = pc[Main]
        /\ \A v \in Workers : v # w => pc'[v] = pc[v]
    <3>1. pc \in [Contexts -> MainPC \cup CallerPC] /\ w \in Contexts /\ w # target[w]
      BY <2>2, SchedulerAssumption DEF IInv, Shape, Contexts
    <3>2. pc'[w] \in {"delete", "high"}
      BY <2>3, <3>1
    <3>3. ASSUME NEW x \in Contexts, x \notin Fibers, x # w
          PROVE  pc'[x] = pc[x]
      BY <2>2, <2>3, <3>1, <3>3
    <3>4. \A v \in Workers : v \in Contexts /\ v \notin Fibers
      BY SchedulerAssumption DEF Contexts
    <3> QED  BY <3>2, <3>3, <3>4, MainIsAlone
  <2> QED  BY <1>1, <1>4, <2>1, <2>4, BusyMInv
<1>5. CASE /\ UNCHANGED begun
           /\ SwitchStep(w) \/ (cpu[w] \in Fibers /\ TaskStep(cpu[w]))
  <2>1. cpu[w] \in Fibers
    BY <1>5 DEF SwitchStep, WaitPoll, Yield, Return
  <2>2. pc[w] = "switched"
    BY <2>1, JobOfThread
  <2>3. \/ UNCHANGED pc
        \/ \E l \in CallerPC : pc' = [pc EXCEPT ![cpu[w]] = l]
        \/ \E f \in Fibers : pc' = [pc EXCEPT ![cpu[w]] = "schedule", ![f] = "body"]
    <3>1. CASE SwitchStep(w)
      BY <3>1 DEF SwitchStep, WaitPoll, Yield, Return, CallerPC
    <3>2. CASE TaskStep(cpu[w])
      BY <3>2 DEF TaskStep, RunJob, Schedule, StartWait, WaitDone, CallerPC
    <3> QED  BY <1>5, <3>1, <3>2
  <2>4. /\ pc'[Main] = pc[Main]
        /\ \A v \in Workers : pc'[v] = pc[v]
    <3>1. pc \in [Contexts -> MainPC \cup CallerPC]
      BY DEF IInv, Shape
    <3>2. ASSUME NEW x \in Contexts, x \notin Fibers
          PROVE  pc'[x] = pc[x]
      BY <2>1, <2>3, <3>1, <3>2
    <3>3. \A v \in Workers : v \in Contexts /\ v \notin Fibers
      BY SchedulerAssumption DEF Contexts
    <3> QED  BY <3>2, <3>3, MainIsAlone
  <2> QED  BY <1>1, <1>5, <2>2, <2>4, BusyMInv
<1> QED  BY <1>2, <1>3, <1>4, <1>5 DEF InDoWork

-----------------------------------------------------------------------------
(* main *)

\* A notification moves sleepers and nobody else.
LEMMA Notified ==
  ASSUME MainTypeOK, WakeOne \/ WakeAll \/ UNCHANGED where
  PROVE  /\ where' \in [Workers -> WorkerPlaces]
         /\ \A w \in Workers :
              where'[w] = where[w] \/ (where[w] = "asleep" /\ where'[w] = "wait")
BY DEF MainTypeOK, WakeOne, WakeAll, Enter, WorkerPlaces

\* What main does apart from starting the frame task.
Passing ==
  \/ PostJob \/ ResetRunning \/ ResetGameRunning \/ PrintCompleted \/ BeginExit \/ Destructor

LEMMA PassingMInv ==
  ASSUME IInv, MInv, Passing
  PROVE  MInv'
<1> USE DEF MInv, GoOn
<1>1. UNCHANGED <<vars, begun>> /\ (WakeOne \/ WakeAll \/ UNCHANGED where)
  BY DEF Passing, PostJob, ResetRunning, ResetGameRunning, PrintCompleted, BeginExit,
         Destructor, NotifyAll, Join, NotifyAgain, poolVars
<1>2. UNCHANGED <<queue, pc>>
  BY <1>1 DEF vars
<1>3. /\ where' \in [Workers -> WorkerPlaces]
      /\ \A w \in Workers :
           where'[w] = where[w] \/ (where[w] = "asleep" /\ where'[w] = "wait")
  BY <1>1, Notified
<1>4. MainTypeOK' /\ Posting'
  <2> DEFINE N == NumTasks
  <2>1. N \in Nat \ {0} /\ N' = N
    BY TasksCounted DEF NumTasks
  <2>2. /\ i \in 0 .. N /\ posted \in 0 .. i
        /\ place = "post" => i < N
    BY DEF MainTypeOK, Posting
  <2>3. i' \in 0 .. N /\ posted' \in 0 .. i' /\ (place' = "post" => i' < N)
    <3>1. CASE PostJob
      <4>1. /\ i' = i + 1 /\ posted' = posted + 1
            /\ i < N
            /\ place' = IF i + 1 = N THEN "run" ELSE "post"
        BY <2>2, <3>1 DEF PostJob
      <4> HIDE DEF N
      <4> QED  BY <2>1, <2>2, <4>1
    <3>2. CASE Passing /\ ~PostJob
      <4>1. UNCHANGED <<i, posted>> /\ place' # "post"
        BY <3>2 DEF Passing, ResetRunning, ResetGameRunning, PrintCompleted, BeginExit,
                    Destructor, NotifyAll, Join, NotifyAgain, NextThread, poolVars
      <4> QED  BY <2>2, <4>1
    <3> QED  BY <3>1, <3>2
  <2>4. place' \in Places
    BY DEF Passing, PostJob, ResetRunning, ResetGameRunning, PrintCompleted, BeginExit,
           Destructor, NotifyAll, Join, NotifyAgain, NextThread, Places
  <2>5. brunning' \in BOOLEAN /\ is_game_running' \in BOOLEAN /\ m_running' \in BOOLEAN
    BY DEF MainTypeOK, Passing, PostJob, ResetRunning, ResetGameRunning, PrintCompleted,
           BeginExit, Destructor, NotifyAll, Join, NotifyAgain, poolVars, flagVars
  <2>6. joining' \in Workers \cup {NULL} /\ joined' \subseteq Workers
    BY DEF MainTypeOK, Joined, Passing, PostJob, ResetRunning, ResetGameRunning,
           PrintCompleted, BeginExit, Destructor, NotifyAll, Join, NotifyAgain, exitVars
  <2> QED  BY <1>1, <1>3, <2>1, <2>3, <2>4, <2>5, <2>6 DEF MainTypeOK, Posting
<1>5. WorkersInside' /\ QueuesWatched' /\ FirstJob'
  BY <1>1, <1>2, <1>3 DEF WorkersInside, QueuesWatched, FirstJob, Live
<1>6. Starting'
  <2>1. /\ place' \in {"post", "run", "schedule"} => place = "post"
        /\ place # "schedule" /\ place' # "schedule"
    BY DEF Passing, PostJob, ResetRunning, ResetGameRunning, PrintCompleted, BeginExit,
           Destructor, NotifyAll, Join, NotifyAgain, NextThread
  <2> QED  BY <1>1, <1>2, <2>1 DEF Starting, Live
<1>7. Joined'
  <2>1. \A w \in joined' : where[w] = "gone"
    BY DEF Joined, Passing, PostJob, ResetRunning, ResetGameRunning, PrintCompleted,
           BeginExit, Destructor, NotifyAll, Join, NotifyAgain, exitVars
  <2>2. place' = "join" => joining' \in Workers
    BY DEF Passing, PostJob, ResetRunning, ResetGameRunning, PrintCompleted,
           BeginExit, Destructor, NotifyAll, Join, NotifyAgain, NextThread
  <2>3. place' = "exited" => joined' = Workers
    BY DEF Passing, PostJob, ResetRunning, ResetGameRunning, PrintCompleted,
           BeginExit, Destructor, NotifyAll, Join, NotifyAgain, NextThread, exitVars
  <2> QED  BY <1>3, <1>4, <2>1, <2>2, <2>3 DEF Joined, MainTypeOK
<1> QED  BY <1>4, <1>5, <1>6, <1>7

\* run_job of the frame task: the only job there is.
LEMMA StartFrameTaskMInv ==
  ASSUME IInv, MInv, StartFrameTask
  PROVE  MInv'
<1> USE DEF MInv, GoOn
<1>1. /\ place = "run" /\ place' = "schedule"
      /\ UNCHANGED <<queue, i, poolVars, flagVars, exitVars, begun>>
      /\ \E f \in Fibers : pc' = [pc EXCEPT ![Main] = "schedule", ![f] = "body"]
  BY DEF StartFrameTask, RunJob
<1>2. PICK f \in Fibers : pc' = [pc EXCEPT ![Main] = "schedule", ![f] = "body"]
  BY <1>1
<1>3. /\ pc'[Main] = "schedule"
      /\ \A v \in Workers : pc'[v] = pc[v]
      /\ \A g \in Fibers : g # f => pc'[g] = pc[g]
  BY <1>2, MainIsAlone, SchedulerAssumption DEF IInv, Shape, Contexts, Callers
<1>4. MainTypeOK' /\ WorkersInside' /\ QueuesWatched' /\ Joined' /\ Posting'
  BY <1>1, <1>3
  DEF MainTypeOK, Places, WorkersInside, QueuesWatched, Joined, Posting, NumTasks,
      poolVars, flagVars, exitVars
<1>5. FirstJob'
  BY <1>1, <1>3 DEF FirstJob, Starting, Live
<1>6. Starting'
  BY <1>1, <1>3 DEF Starting
<1> QED  BY <1>4, <1>5, <1>6

\* The frame task goes to its queue; nobody has popped it.
LEMMA ScheduleFrameTaskMInv ==
  ASSUME IInv, MInv, ScheduleFrameTask
  PROVE  MInv'
<1> USE DEF MInv, GoOn
<1>1. /\ place = "schedule" /\ place' = "started"
      /\ UNCHANGED <<i, poolVars, flagVars, exitVars, begun>>
      /\ pc' = [pc EXCEPT ![Main] = "body"]
  BY DEF ScheduleFrameTask, Schedule
<1>2. /\ pc'[Main] = "body"
      /\ \A v \in Workers : pc'[v] = pc[v]
      /\ \A f \in Fibers : pc'[f] = pc[f]
  BY <1>1, MainIsAlone, SchedulerAssumption DEF IInv, Shape, Contexts, Callers
<1>3. ~begun
  BY <1>1 DEF Starting
<1>4. MainTypeOK' /\ WorkersInside' /\ QueuesWatched' /\ Joined' /\ Posting'
  BY <1>1, <1>2, <1>3
  DEF MainTypeOK, Places, WorkersInside, QueuesWatched, Joined, Posting, NumTasks,
      poolVars, flagVars, exitVars
<1>5. FirstJob'
  BY <1>1, <1>2 DEF FirstJob, Live
<1>6. Starting'
  BY <1>1, <1>2 DEF Starting
<1> QED  BY <1>4, <1>5, <1>6

LEMMA MainNextInv == IInv /\ MInv /\ [MainNext]_allVars => IInv' /\ MInv'
<1> SUFFICES ASSUME IInv, MInv, [MainNext]_allVars PROVE IInv' /\ MInv'
  OBVIOUS
<1>1. IInv'
  BY StepIsScheduling, NextInv
<1>2. ASSUME MainThread
      PROVE  MInv'
  BY <1>2, PassingMInv, StartFrameTaskMInv, ScheduleFrameTaskMInv
  DEF MainThread, Proceeds, Passing
<1>3. ASSUME NEW w \in Workers, WorkerStep(w) \/ SpuriousWakeup(w)
      PROVE  MInv'
  BY <1>3, PoolSideInv, CallDoWorkMInv, InDoWorkMInv DEF WorkerStep
<1>4. ASSUME UNCHANGED allVars
      PROVE  MInv'
  <2>1. UNCHANGED <<queue, pc, place, i, posted, brunning, is_game_running, m_running,
                    where, joining, joined, begun>>
    BY <1>4 DEF allVars, vars, mainVars, poolVars, flagVars, exitVars
  <2>2. MainTypeOK' /\ Posting'
    BY <2>1 DEF MInv, MainTypeOK, Posting, NumTasks
  <2>3. WorkersInside' /\ QueuesWatched' /\ Joined'
    BY <2>1 DEF MInv, WorkersInside, QueuesWatched, Joined
  <2>4. FirstJob' /\ Starting'
    BY <2>1 DEF MInv, FirstJob, Starting, Live
  <2> QED  BY <2>2, <2>3, <2>4 DEF MInv
<1> QED  BY <1>1, <1>2, <1>3, <1>4 DEF MainNext

LEMMA MainSpecInv == MainSpec => [](IInv /\ MInv)
<1>1. MainInit => IInv
  BY InitInv DEF MainInit
<1> QED  BY <1>1, MainInitInv, MainNextInv, PTL DEF MainSpec

-----------------------------------------------------------------------------
(* The theorems *)

\* A live job has a worker: in a queue it is watched, popped it is held by a
\* worker, and the job that makes it is held by one.
LEMMA LiveHasWorker ==
  ASSUME IInv, MInv, begun, NEW f \in Fibers, Live(f)
  PROVE  \E w \in Workers : pc[w] # "loop"
<1>1. Queued(f) \/ Popped(f) \/ BeingMade(f)
  BY DEF Live, IInv, NeitherLostNorDangling
<1>2. ASSUME NEW g \in Fibers, Popped(g)
      PROVE  \E w \in Workers : pc[w] # "loop"
  BY <1>2, SchedulerAssumption DEF Popped, IInv, MainPlaces
<1>3. CASE Queued(f)
  <2>1. PICK p \in Prio : \E k \in 1 .. Len(queue[p]) : queue[p][k] = f
    BY <1>3 DEF Queued
  <2>2. queue[p] # <<>>
    BY <2>1 DEF IInv, Shape
  <2>3. PICK w \in Workers : pc[w] \in LooksAt(p)
    BY <2>2 DEF MInv, QueuesWatched
  <2> QED  BY <2>3 DEF LooksAt, Prio
<1>4. CASE BeingMade(f)
  <2>1. PICK x \in Callers : pc[x] = "schedule"
    BY <1>4, SchedulerAssumption DEF BeingMade, IInv, CallerPlaces
  <2>2. x # Main
    BY <2>1 DEF MInv, Starting
  <2>3. x \in Fibers
    BY <2>2, MainAssumption DEF Callers
  <2>4. Popped(x)
    BY <2>1, <2>3 DEF IInv, NeitherLostNorDangling, JobPlaces
  <2> QED  BY <1>2, <2>3, <2>4
<1> QED  BY <1>1, <1>2, <1>3, <1>4

\* The flags, the tasks in the pool and the places of main and of the workers
\* keep their types; in particular main posts no more than NumTasks tasks.
THEOREM MainTypeCorrect == MainSpec => []MainTypeOK
<1>1. MInv => MainTypeOK
  BY DEF MInv
<1> QED  BY <1>1, MainSpecInv, PTL

\* From the first pop on some worker is inside do_work as long as a job lives,
\* with any number of workers and queues read one after the other without a
\* common lock: resetting brunning strands no frame that has begun.
THEOREM BegunIsDrained == MainSpec => []SomebodyDrains
<1>1. IInv /\ MInv => SomebodyDrains
  <2> SUFFICES ASSUME IInv, MInv, begun, NEW f \in Fibers, Live(f)
               PROVE  \E w \in Workers : where[w] = "task" /\ ~(cpu[w] = w /\ pc[w] = "loop")
    BY DEF SomebodyDrains
  <2>1. PICK w \in Workers : pc[w] # "loop"
    BY LiveHasWorker
  <2> QED  BY <2>1 DEF MInv, WorkersInside
<1> QED  BY <1>1, MainSpecInv, PTL

\* When main returns every job has completed, or nobody ever popped one and
\* the frame task alone is left.
THEOREM ExitLeavesNothing == MainSpec => []NothingLeftAtExit
<1>1. IInv /\ MInv => NothingLeftAtExit
  <2> SUFFICES ASSUME IInv, MInv, place = "exited"
               PROVE  IF begun THEN \A f \in Fibers : ~Live(f)
                      ELSE Cardinality({f \in Fibers : Live(f)}) <= 1
    BY DEF NothingLeftAtExit
  <2>1. \A w \in Workers : pc[w] = "loop"
    BY DEF MInv, Joined, WorkersInside
  <2>2. CASE begun
    BY <2>1, <2>2, LiveHasWorker
  <2>3. CASE ~begun
    <3>1. CASE {f \in Fibers : Live(f)} = {}
      BY <2>3, <3>1, FS_EmptySet
    <3>2. CASE \E f \in Fibers : Live(f)
      <4>1. PICK f \in Fibers : Live(f)
        BY <3>2
      <4>2. {g \in Fibers : Live(g)} = {f}
        BY <2>3, <4>1 DEF MInv, FirstJob
      <4>3. Cardinality({f}) = 1
        BY FS_Singleton
      <4> QED  BY <2>3, <4>2, <4>3
    <3> QED  BY <3>1, <3>2
  <2> QED  BY <2>2, <2>3
<1> QED  BY <1>1, MainSpecInv, PTL

===============================================================================
