------------------------------- MODULE TestMain -------------------------------
(***************************************************************************)
(* main() of main.cpp around the scheduler: it posts to the thread pool a  *)
(* task per processor that calls do_work while brunning is set, starts the *)
(* frame task, waits for the user, resets brunning, announces that         *)
(* everything is completed, waits again, and destroys the pool.            *)
(*                                                                         *)
(* Nobody counts the jobs: whether they are finished when main returns     *)
(* depends on what the workers do after brunning has been reset.  Nor does *)
(* anything end the frames but is_game_running: with FrameChain each of    *)
(* them may start the next.                                                *)
(*                                                                         *)
(* Of the pool (ThreadPool has the rest) what a worker does between two    *)
(* tasks is kept, the sleep and its missed notification included, and the  *)
(* destructor.  Only main posts, and nobody calls do_work_if_available, so *)
(* that the queue of the pool is the number of its tasks, which are alike. *)
(***************************************************************************)
EXTENDS FiberScheduler

CONSTANT Main     \* the thread that runs main()

ASSUME MainAssumption ==
  /\ Clients = {Main}
  /\ IsFiniteSet(Workers)

VARIABLES
  place,            \* where main is
  i,                \* the loop variable of main: tasks posted so far
  posted,           \* tasks in the queue of the pool
  brunning,
  is_game_running,
  m_running,        \* of the pool
  where,            \* what each worker thread does outside do_work
  joining,          \* the thread the destructor of the pool is joining
  joined,           \* the threads it has joined
  begun             \* history: a worker has popped a job

poolVars == <<posted, m_running, where>>
flagVars == <<brunning, is_game_running>>
exitVars == <<joining, joined>>
mainVars == <<place, i, poolVars, flagVars, exitVars, begun>>
allVars  == <<vars, mainVars>>

\* hardware_concurrency() tasks for one thread less.
NumTasks == Cardinality(Workers) + 1

Places == {"post", "run", "schedule", "started", "stop", "print", "printed",
           "notify", "join", "renotify", "exited"}

\* Places of a worker: in thread_func; in wait_job about to look at the queue,
\* then at m_running, then to call m_cvar.wait; in that wait; inside a posted
\* task; ended.
WorkerPlaces == {"pool", "wait", "test", "drowsy", "asleep", "task", "gone"}

MainTypeOK ==
  /\ place \in Places
  /\ i \in 0 .. NumTasks
  /\ posted \in 0 .. i
  /\ brunning \in BOOLEAN
  /\ is_game_running \in BOOLEAN
  /\ m_running \in BOOLEAN
  /\ where \in [Workers -> WorkerPlaces]
  /\ joining \in Workers \cup {NULL}
  /\ joined \subseteq Workers
  /\ begun \in BOOLEAN

MainInit ==
  /\ Init
  /\ place = "post"
  /\ i = 0
  /\ posted = 0
  /\ brunning = TRUE
  /\ is_game_running = TRUE
  /\ m_running = TRUE
  /\ where = [w \in Workers |-> "pool"]
  /\ joining = NULL
  /\ joined = {}
  /\ begun = FALSE

-----------------------------------------------------------------------------
(* The worker threads *)

Enter(w, l) == where' = [where EXCEPT ![w] = l]

\* m_cvar.notify_one wakes one sleeper, if there is any, notify_all all.
WakeOne ==
  \/ (\A w \in Workers : where[w] # "asleep") /\ UNCHANGED where
  \/ \E w \in Workers : where[w] = "asleep" /\ Enter(w, "wait")

WakeAll == where' = [w \in Workers |-> IF where[w] = "asleep" THEN "wait" ELSE where[w]]

\* thread_func: while (m_running)
PoolLoop(w) ==
  /\ where[w] = "pool"
  /\ Enter(w, IF m_running THEN "wait" ELSE "gone")
  /\ UNCHANGED <<vars, place, i, posted, m_running, flagVars, exitVars, begun>>

\* wait_job, with m_mutex, which a worker keeps until it sleeps or returns: a
\* task when there is one.
WaitJob(w) ==
  /\ where[w] = "wait"
  /\ \A v \in Workers : where[v] \notin {"test", "drowsy"}
  /\ \/ posted > 0 /\ posted' = posted - 1 /\ Enter(w, "task")
     \/ posted = 0 /\ Enter(w, "test") /\ UNCHANGED posted
  /\ UNCHANGED <<vars, place, i, m_running, flagVars, exitVars, begun>>

\* if (!m_running) return
TestRunning(w) ==
  /\ where[w] = "test"
  /\ Enter(w, IF m_running THEN "drowsy" ELSE "pool")
  /\ UNCHANGED <<vars, place, i, posted, m_running, flagVars, exitVars, begun>>

\* m_cvar.wait: what has been notified since the test is missed.
FallAsleep(w) ==
  /\ where[w] = "drowsy"
  /\ Enter(w, "asleep")
  /\ UNCHANGED <<vars, place, i, posted, m_running, flagVars, exitVars, begun>>

\* A condition variable may wake a thread up for no reason, and post_job does
\* when another worker has taken the task between its push and its notify_one.
SpuriousWakeup(w) ==
  /\ where[w] = "asleep"
  /\ Enter(w, "wait")
  /\ UNCHANGED <<vars, place, i, posted, m_running, flagVars, exitVars, begun>>

\* The posted task calls do_work while (*dat), again and again.
CallDoWork(w) ==
  /\ where[w] = "task"
  /\ brunning
  /\ DoWork(w)
  /\ UNCHANGED mainVars

TaskReturns(w) ==
  /\ where[w] = "task"
  /\ cpu[w] = w /\ pc[w] = "loop"
  /\ ~brunning
  /\ Enter(w, "pool")
  /\ UNCHANGED <<vars, place, i, posted, m_running, flagVars, exitVars, begun>>

\* The code of job f.  A job that has no counter is the next frame, started if
\* is_game_running: the test and run_job are one step, as nobody sees the job
\* before it is scheduled.
TaskStep(f) ==
  \/ \E p \in PrioOfJobs(f), counted \in BOOLEAN :
       /\ counted \/ is_game_running
       /\ RunJob(f, p, counted)
  \/ Schedule(f) \/ StartWait(f) \/ WaitDone(f)

\* do_work and the jobs it runs, after its entry.
InDoWork(w) ==
  /\ \/ PopFront(w) /\ begun' = TRUE
     \/ /\ \/ PopEmpty(w) \/ Reschedule(w) \/ Complete(w) \/ DeleteFiber(w)
           \/ SwitchStep(w)
           \/ cpu[w] \in Fibers /\ TaskStep(cpu[w])
        /\ UNCHANGED begun
  /\ UNCHANGED <<place, i, poolVars, flagVars, exitVars>>

WorkerStep(w) ==
  \/ PoolLoop(w) \/ WaitJob(w) \/ TestRunning(w) \/ FallAsleep(w)
  \/ CallDoWork(w) \/ TaskReturns(w) \/ InDoWork(w)

-----------------------------------------------------------------------------
(* main *)

GoOn(from, to) == place = from /\ place' = to

\* pool.post_job(..., &brunning, NULL): push and notify_one.
PostJob ==
  /\ GoOn("post", IF i + 1 = NumTasks THEN "run" ELSE "post")
  /\ i' = i + 1
  /\ posted' = posted + 1
  /\ WakeOne
  /\ UNCHANGED <<vars, m_running, flagVars, exitVars, begun>>

\* RunTask(task, nullptr)
StartFrameTask ==
  /\ GoOn("run", "schedule")
  /\ \E p \in RootPrio : RunJob(Main, p, FALSE)
  /\ UNCHANGED <<i, poolVars, flagVars, exitVars, begun>>

ScheduleFrameTask ==
  /\ GoOn("schedule", "started")
  /\ Schedule(Main)
  /\ UNCHANGED <<i, poolVars, flagVars, exitVars, begun>>

\* The user presses enter: brunning = false
ResetRunning ==
  /\ GoOn("started", "stop")
  /\ brunning' = FALSE
  /\ UNCHANGED <<vars, i, poolVars, is_game_running, exitVars, begun>>

\* Faulty main: it does not tell the frames.
KeepGameRunning ==
  /\ GoOn("stop", "print")
  /\ UNCHANGED <<vars, i, poolVars, flagVars, exitVars, begun>>

\* is_game_running = false
ResetGameRunning ==
  /\ GoOn("stop", "print")
  /\ is_game_running' = FALSE
  /\ UNCHANGED <<vars, i, poolVars, brunning, exitVars, begun>>

\* "All tests completed, press enter to exit"
PrintCompleted ==
  /\ GoOn("print", "printed")
  /\ UNCHANGED <<vars, i, poolVars, flagVars, exitVars, begun>>

\* The loop of the destructor ends when all threads have been joined, and main.
NextThread == IF joined = Workers THEN "exited" ELSE "notify"

\* The user presses enter: the profiler is shut down, and the destructor of
\* the pool begins with m_running = false.
BeginExit ==
  /\ GoOn("printed", NextThread)
  /\ m_running' = FALSE
  /\ UNCHANGED <<vars, i, posted, where, flagVars, exitVars, begun>>

\* notify_all, and on to the join of a thread: m_threads has some order.
NotifyAll ==
  /\ GoOn("notify", "join")
  /\ WakeAll
  /\ joining' \in Workers \ joined
  /\ UNCHANGED <<vars, i, posted, m_running, flagVars, joined, begun>>

\* Faulty destructor: the threads are detached.
Detach ==
  /\ GoOn("join", "renotify")
  /\ joined' = joined \cup {joining}
  /\ joining' = NULL
  /\ UNCHANGED <<vars, i, poolVars, flagVars, begun>>

\* join returns when the thread has ended.
Join ==
  /\ GoOn("join", "renotify")
  /\ where[joining] = "gone"
  /\ joined' = joined \cup {joining}
  /\ joining' = NULL
  /\ UNCHANGED <<vars, i, poolVars, flagVars, begun>>

\* notify_all again, after the join.
NotifyAgain ==
  /\ GoOn("renotify", NextThread)
  /\ WakeAll
  /\ UNCHANGED <<vars, i, posted, m_running, flagVars, exitVars, begun>>

\* What main does without waiting for the user.
Destructor == NotifyAll \/ Join \/ NotifyAgain
Proceeds ==
  StartFrameTask \/ ScheduleFrameTask \/ ResetGameRunning \/ PrintCompleted \/ Destructor

MainThread == PostJob \/ Proceeds \/ ResetRunning \/ BeginExit

MainNext ==
  \/ MainThread
  \/ \E w \in Workers : WorkerStep(w) \/ SpuriousWakeup(w)

MainSpec == MainInit /\ [][MainNext]_allVars

\* As in FiberScheduler; main itself waits for the user, who need not come, and
\* no wakeup is spurious by necessity.
MainFairness ==
  /\ \A w \in Workers : WF_allVars(WorkerStep(w))
  /\ WF_allVars(Proceeds)
  /\ \A f \in Fibers : SF_allVars(\E w \in Workers : cpu[w] = f /\ Return(w) /\ UNCHANGED mainVars)

MainFairSpec == MainSpec /\ MainFairness

-----------------------------------------------------------------------------
(* Properties *)

Live(f) == pc[f] # "free"

\* do_work looks at its three queues one after the other, without a common
\* lock, and may return although a job has just been queued.  Yet from the
\* first pop on, as long as a job is live some worker is inside do_work: who
\* queues a job looks at all queues after that.  So resetting brunning never
\* strands a frame that has begun.
SomebodyDrains ==
  begun /\ (\E f \in Fibers : Live(f)) =>
    \E w \in Workers : where[w] = "task" /\ ~(cpu[w] = w /\ pc[w] = "loop")

\* When main returns no job is left, unless none was ever popped: then it is
\* the frame task alone, which the workers have missed.
NothingLeftAtExit ==
  place = "exited" =>
    IF begun THEN \A f \in Fibers : ~Live(f)
    ELSE Cardinality({f \in Fibers : Live(f)}) <= 1

\* Once the user has pressed enter for the second time the program exits, for
\* no chain of frames outlives is_game_running and keeps a worker in do_work for
\* ever, unless a worker tested m_running before it was reset and has not
\* fallen asleep yet when the destructor notifies.
ProgramExits ==
  (place = "notify" /\ \A w \in Workers : where[w] # "drowsy") ~> place = "exited"

\* "All tests completed": no frame has begun and is unfinished when main says so.
AllTestsCompleted == place = "printed" /\ begun => \A f \in Fibers : ~Live(f)

=============================================================================
