--------------------------- MODULE FiberScheduler ---------------------------
(***************************************************************************)
(* The cooperative scheduler of fiber_scheduler.cpp, with the join counter *)
(* of atomic_counter.h.                                                    *)
(*                                                                         *)
(* Operating-system threads (Workers) run do_work() for ever.  Each turns  *)
(* itself into a fiber, pops a job from the high, medium or low queue and  *)
(* switches to the job's fiber; the job's function runs until it yields,   *)
(* polls a counter that is still positive, or returns, and each of these   *)
(* switches back to the main fiber of the thread it happens to run on.  A  *)
(* job may therefore resume on another thread than the one it left.        *)
(*                                                                         *)
(* What runs on a thread is an execution context: the thread's own main    *)
(* fiber, named by the worker, or the fiber of a job, named by its         *)
(* fiber_data.  `pc' and the locals of do_work belong to the context, the  *)
(* thread_local variables to the thread: cpu[w] relates the two.           *)
(*                                                                         *)
(* An action is the longest piece of code that touches shared state (a     *)
(* queue, a counter, a fiber_data another thread can reach) once.          *)
(***************************************************************************)
EXTENDS Integers, Sequences, FiniteSets

CONSTANTS
  Workers,    \* threads that run do_work, and the main fiber of each
  Clients,    \* threads that only start jobs and wait: main()
  Fibers,     \* addresses of fiber_data, each with the native fiber made for it
  Counters,   \* addresses of atomic_counters in frame memory
  NULL,       \* nullptr
  MaxJobs,    \* bound: calls of run_job
  FrameChain, \* whether a job may start one without a counter beyond the bound,
              \* as each frame starts the next
  RootPrio,   \* task_decl.prio of the jobs clients start
  ChildPrio   \* for each prio, the task_decl.prio of the jobs such a job starts

\* The three queues, in the order do_work tries them.
Prio == {"high", "medium", "low"}

\* task_decl.prio: one of the three enumerators, or whatever the stack holds
\* when the caller never sets the field (frame_task, main.cpp:107-110).
DeclPrio == Prio \cup {"unset"}

ASSUME SchedulerAssumption ==
  /\ Workers \cap Fibers = {}
  /\ Workers \cap Clients = {}
  /\ Clients \cap Fibers = {}
  /\ NULL \notin Workers \cup Clients \cup Fibers \cup Counters
  /\ IsFiniteSet(Fibers)
  /\ MaxJobs \in Nat
  /\ FrameChain \in BOOLEAN
  /\ RootPrio \subseteq DeclPrio
  /\ ChildPrio \in [DeclPrio -> SUBSET DeclPrio]

\* The contexts that run task code and so call run_job and wait_for_value.
Callers == Fibers \cup Clients
Contexts == Workers \cup Callers

VARIABLES
  queue,         \* high_prio, med_prio, low_prio
  fdat,          \* the fiber_data records
  m_cnt,         \* value of each atomic_counter
  constructed,   \* the counters constructed so far
  current_main,  \* thread_local: the main fiber of the thread
  active_fiber,  \* thread_local: the job the thread last switched to
  cpu,           \* the context each thread executes
  pc,            \* where each context is
  target,        \* local of do_work: the job a main fiber popped
  job,           \* local of run_job: the fiber_data being set up, not yet pushed
  waiter,        \* local of a task: its atomic_counter*, null until first used
  jobs           \* calls of run_job so far, those of a FrameChain apart

vars == <<queue, fdat, m_cnt, constructed, current_main, active_fiber, cpu,
          pc, target, job, waiter, jobs>>

FiberData == [prio : DeclPrio, counter : Counters \cup {NULL},
              isComplete : BOOLEAN, asleep : BOOLEAN]

\* Memory that is not allocated; its contents are never read.
Unallocated == [prio |-> "unset", counter |-> NULL,
                isComplete |-> FALSE, asleep |-> FALSE]

\* Places of a main fiber: between two calls of do_work, about to try one of
\* the queues, inside flFiberSwitch, about to delete a completed fiber.
MainPC == Prio \cup {"loop", "switched", "delete"}

\* Places of task code: in the body of the task, in run_job before schedule(),
\* in wait_for_value, after the final yield of fiber_func; "free" is a
\* fiber_data that is not allocated.
CallerPC == {"free", "body", "schedule", "waiting", "returned"}

TypeOK ==
  /\ queue \in [Prio -> Seq(Fibers)]
  /\ fdat \in [Fibers -> FiberData]
  /\ m_cnt \in [Counters -> Nat]
  /\ constructed \subseteq Counters
  /\ current_main \in [Workers -> Workers \cup {NULL}]
  /\ active_fiber \in [Workers -> Fibers \cup {NULL}]
  /\ cpu \in [Workers -> Workers \cup Fibers]
  /\ pc \in [Contexts -> MainPC \cup CallerPC]
  /\ \A m \in Workers : pc[m] \in MainPC
  /\ \A x \in Callers : pc[x] \in CallerPC
  /\ target \in [Workers -> Fibers \cup {NULL}]
  /\ job \in [Callers -> Fibers \cup {NULL}]
  /\ waiter \in [Callers -> constructed \cup {NULL}]
  /\ jobs \in 0 .. MaxJobs

Init ==
  /\ queue = [p \in Prio |-> <<>>]
  /\ fdat = [f \in Fibers |-> Unallocated]
  /\ m_cnt = [c \in Counters |-> 0]
  /\ constructed = {}
  /\ current_main = [w \in Workers |-> NULL]
  /\ active_fiber = [w \in Workers |-> NULL]
  /\ cpu = [w \in Workers |-> w]
  /\ pc = [x \in Contexts |-> IF x \in Workers THEN "loop"
                              ELSE IF x \in Clients THEN "body" ELSE "free"]
  /\ target = [m \in Workers |-> NULL]
  /\ job = [x \in Callers |-> NULL]
  /\ waiter = [x \in Callers |-> NULL]
  /\ jobs = 0

-----------------------------------------------------------------------------
(* Helpers *)

\* schedule() sends a prio that is none of the enumerators to med_prio.
QueueOf(p) == IF p \in Prio THEN p ELSE "medium"

\* Faulty Push: the switch has no default branch.
PushWithoutDefault(f) ==
  queue' = IF fdat[f].asleep \/ fdat[f].prio \notin Prio THEN queue
           ELSE [queue EXCEPT ![fdat[f].prio] = Append(@, f)]

\* Faulty Push: the job goes back to the front of the queue.
PushInFront(f) ==
  queue' = IF fdat[f].asleep THEN queue
           ELSE [queue EXCEPT ![QueueOf(fdat[f].prio)] = <<f>> \o @]

\* schedule(): a sleeping job is left alone, any other goes to the tail of
\* the queue of its priority.
Push(f) ==
  queue' = IF fdat[f].asleep THEN queue
           ELSE [queue EXCEPT ![QueueOf(fdat[f].prio)] = Append(@, f)]

\* flFiberSwitch: thread w continues in context x.
SwitchTo(w, x) == cpu' = [cpu EXCEPT ![w] = x]

\* Faulty yield(): the address of the thread_local was taken on the thread the
\* fiber ran on before it migrated.
SwitchToStaleMain(w) ==
  \E v \in Workers : current_main[v] # NULL /\ SwitchTo(w, current_main[v])

\* yield(): switch to the main fiber the thread has in its thread_local.
SwitchToMain(w) == SwitchTo(w, current_main[w])

\* Faulty operator++ and operator--: the update is lost.
Lost(c) == m_cnt' = m_cnt

\* Faulty operator--: the first job to finish releases the waiters.
DecrementToZero(c) == m_cnt' = IF c = NULL THEN m_cnt ELSE [m_cnt EXCEPT ![c] = 0]

\* ++(**cnt) and --(*target->counter), skipped for a null pointer.  A uint32_t
\* cannot overflow here: 2^32 live jobs would need 2^49 bytes of stack.
Increment(c) == m_cnt' = IF c = NULL THEN m_cnt ELSE [m_cnt EXCEPT ![c] = @ + 1]
Decrement(c) == m_cnt' = IF c = NULL THEN m_cnt ELSE [m_cnt EXCEPT ![c] = @ - 1]

\* Faulty wait_for_value: stops waiting one decrement early.
ReachedEarly(c) == ~ (m_cnt[c] > 1)

\* The exit of the loop of wait_for_value(0): every caller waits for zero.
Reached(c) == ~ (m_cnt[c] > 0)

\* A client's thread always executes it; a job's fiber needs a thread.
Executing(x) == x \in Clients \/ \E w \in Workers : cpu[w] = x

-----------------------------------------------------------------------------
(* do_work, executed by the main fiber m that runs on thread w *)

\* Entry of do_work, called again and again by the pool job of main.cpp:
\* ConvertThreadToFiber hands back the fiber of the calling context.
DoWork(w) ==
  LET m == cpu[w] IN
  /\ m \in Workers
  /\ pc[m] = "loop"
  /\ current_main' = [current_main EXCEPT ![w] = m]
  /\ pc' = [pc EXCEPT ![m] = "high"]
  /\ UNCHANGED <<queue, fdat, m_cnt, constructed, active_fiber, cpu, target,
                 job, waiter, jobs>>

\* try_pop_front succeeds: remember the job and switch to its fiber.
PopFront(w) ==
  LET m == cpu[w] IN
  /\ m \in Workers
  /\ pc[m] \in Prio
  /\ queue[pc[m]] # <<>>
  /\ LET t == Head(queue[pc[m]]) IN
       /\ queue' = [queue EXCEPT ![pc[m]] = Tail(@)]
       /\ target' = [target EXCEPT ![m] = t]
       /\ active_fiber' = [active_fiber EXCEPT ![w] = t]
       /\ SwitchTo(w, t)
  /\ pc' = [pc EXCEPT ![m] = "switched"]
  /\ UNCHANGED <<fdat, m_cnt, constructed, current_main, job, waiter, jobs>>

\* try_pop_front fails: try the next queue; after the third one do_work
\* turns the fiber back into a thread and returns to the loop of main.cpp.
PopEmpty(w) ==
  LET m == cpu[w] IN
  /\ m \in Workers
  /\ pc[m] \in Prio
  /\ queue[pc[m]] = <<>>
  /\ pc' = [pc EXCEPT ![m] = CASE pc[m] = "high"   -> "medium"
                               [] pc[m] = "medium" -> "low"
                               [] pc[m] = "low"    -> "loop"]
  /\ UNCHANGED <<queue, fdat, m_cnt, constructed, current_main, active_fiber,
                 cpu, target, job, waiter, jobs>>

\* Faulty do_work: it returns after a job that has only yielded.
RescheduleAndReturn(w) ==
  LET m == cpu[w] IN
  /\ m \in Workers
  /\ pc[m] = "switched"
  /\ ~fdat[target[m]].isComplete
  /\ active_fiber' = [active_fiber EXCEPT ![w] = NULL]
  /\ Push(target[m])
  /\ target' = [target EXCEPT ![m] = NULL]
  /\ pc' = [pc EXCEPT ![m] = "loop"]
  /\ UNCHANGED <<fdat, m_cnt, constructed, current_main, cpu, job, waiter, jobs>>

\* Back from flFiberSwitch with a job that has only yielded: schedule(*target).
Reschedule(w) ==
  LET m == cpu[w] IN
  /\ m \in Workers
  /\ pc[m] = "switched"
  /\ ~fdat[target[m]].isComplete
  /\ active_fiber' = [active_fiber EXCEPT ![w] = NULL]
  /\ Push(target[m])
  /\ target' = [target EXCEPT ![m] = NULL]
  /\ pc' = [pc EXCEPT ![m] = "high"]
  /\ UNCHANGED <<fdat, m_cnt, constructed, current_main, cpu, job, waiter, jobs>>

\* Back from flFiberSwitch with a completed job: --(*target->counter), if any.
Complete(w) ==
  LET m == cpu[w]
      t == target[m]
      c == fdat[t].counter IN
  /\ m \in Workers
  /\ pc[m] = "switched"
  /\ fdat[t].isComplete
  /\ active_fiber' = [active_fiber EXCEPT ![w] = NULL]
  /\ Decrement(c)
  /\ fdat' = [fdat EXCEPT ![t].counter = NULL]
  /\ pc' = [pc EXCEPT ![m] = "delete"]
  /\ UNCHANGED <<queue, constructed, current_main, cpu, target, job, waiter, jobs>>

\* flDeleteFiber and data_alloc.deallocate: the address may be handed out again.
DeleteFiber(w) ==
  LET m == cpu[w]
      t == target[m] IN
  /\ m \in Workers
  /\ pc[m] = "delete"
  /\ fdat' = [fdat EXCEPT ![t] = Unallocated]
  /\ target' = [target EXCEPT ![m] = NULL]
  /\ pc' = [pc EXCEPT ![t] = "free", ![m] = "high"]
  /\ UNCHANGED <<queue, m_cnt, constructed, current_main, active_fiber, cpu, job,
                 waiter, jobs>>

-----------------------------------------------------------------------------
(* Task code: run_job, wait_for_value, this_task::yield and the return *)

\* The bound on the calls of run_job.
CountJob(x, counted) ==
  IF FrameChain /\ x \in Fibers /\ ~counted THEN UNCHANGED jobs
  ELSE jobs < MaxJobs /\ jobs' = jobs + 1

\* run_job up to schedule(), called by context x with a null counter pointer
\* or the address of its counter variable: a counter that does not exist yet
\* is allocated in frame memory and constructed, it is incremented, and the
\* new fiber_data is filled in.  Nobody else can reach the job so far.
RunJob(x, p, counted) ==
  /\ Executing(x)
  /\ pc[x] = "body"
  /\ CountJob(x, counted)
  /\ \E f \in Fibers, c \in Counters \cup {NULL} :
       /\ pc[f] = "free"
       /\ \/ ~counted /\ c = NULL
          \/ counted /\ c # NULL /\ c = waiter[x]
          \/ counted /\ c # NULL /\ waiter[x] = NULL /\ c \notin constructed
       /\ constructed' = constructed \cup ({c} \ {NULL})
       /\ Increment(c)
       /\ fdat' = [fdat EXCEPT ![f] = [prio |-> p, counter |-> c,
                                      isComplete |-> FALSE, asleep |-> FALSE]]
       /\ waiter' = [waiter EXCEPT ![x] = IF counted THEN c ELSE @, ![f] = NULL]
       /\ job' = [job EXCEPT ![x] = f]
       /\ pc' = [pc EXCEPT ![x] = "schedule", ![f] = "body"]
  /\ UNCHANGED <<queue, current_main, active_fiber, cpu, target>>

\* The last line of run_job: schedule(fdat).
Schedule(x) ==
  /\ Executing(x)
  /\ pc[x] = "schedule"
  /\ Push(job[x])
  /\ job' = [job EXCEPT ![x] = NULL]
  /\ pc' = [pc EXCEPT ![x] = "body"]
  /\ UNCHANGED <<fdat, m_cnt, constructed, current_main, active_fiber, cpu,
                 target, waiter, jobs>>

\* WaitForCounter(cnt, 0)
StartWait(x) ==
  /\ Executing(x)
  /\ pc[x] = "body"
  /\ waiter[x] # NULL
  /\ pc' = [pc EXCEPT ![x] = "waiting"]
  /\ UNCHANGED <<queue, fdat, m_cnt, constructed, current_main, active_fiber, cpu,
                 target, job, waiter, jobs>>

\* The loop of wait_for_value sees the value it waits for and returns.
WaitDone(x) ==
  /\ Executing(x)
  /\ pc[x] = "waiting"
  /\ Reached(waiter[x])
  /\ pc' = [pc EXCEPT ![x] = "body"]
  /\ UNCHANGED <<queue, fdat, m_cnt, constructed, current_main, active_fiber, cpu,
                 target, job, waiter, jobs>>

\* Faulty poll: the waiting job puts itself back into the queue while its
\* fiber still executes.
WaitPollRequeues(w) ==
  LET f == cpu[w] IN
  /\ f \in Fibers
  /\ pc[f] = "waiting"
  /\ ~ Reached(waiter[f])
  /\ Push(f)
  /\ SwitchToMain(w)
  /\ UNCHANGED <<fdat, m_cnt, constructed, current_main, active_fiber, pc,
                 target, job, waiter, jobs>>

\* The loop of wait_for_value, in a fiber, sees a larger value: yield.  (A
\* client calls std::this_thread::yield and looks again: no step.)
WaitPoll(w) ==
  LET f == cpu[w] IN
  /\ f \in Fibers
  /\ pc[f] = "waiting"
  /\ ~ Reached(waiter[f])
  /\ SwitchToMain(w)
  /\ UNCHANGED <<queue, fdat, m_cnt, constructed, current_main, active_fiber, pc,
                 target, job, waiter, jobs>>

\* this_task::yield()
Yield(w) ==
  LET f == cpu[w] IN
  /\ f \in Fibers
  /\ pc[f] = "body"
  /\ SwitchToMain(w)
  /\ UNCHANGED <<queue, fdat, m_cnt, constructed, current_main, active_fiber, pc,
                 target, job, waiter, jobs>>

\* The task function returns to fiber_func, which marks the job complete and
\* yields for the last time.  The task's locals are gone.
Return(w) ==
  LET f == cpu[w] IN
  /\ f \in Fibers
  /\ pc[f] = "body"
  /\ fdat' = [fdat EXCEPT ![f].isComplete = TRUE]
  /\ waiter' = [waiter EXCEPT ![f] = NULL]
  /\ SwitchToMain(w)
  /\ pc' = [pc EXCEPT ![f] = "returned"]
  /\ UNCHANGED <<queue, m_cnt, constructed, current_main, active_fiber, target,
                 job, jobs>>

-----------------------------------------------------------------------------

\* The prio a task gives the jobs it starts.
PrioOfJobs(x) == IF x \in Clients THEN RootPrio ELSE ChildPrio[fdat[x].prio]

MainStep(w) ==
  \/ DoWork(w)
  \/ PopFront(w)
  \/ PopEmpty(w)
  \/ Reschedule(w)
  \/ Complete(w)
  \/ DeleteFiber(w)

SwitchStep(w) ==
  \/ WaitPoll(w)
  \/ Yield(w)
  \/ Return(w)

CallerStep(x) ==
  \/ \E p \in PrioOfJobs(x), counted \in BOOLEAN : RunJob(x, p, counted)
  \/ Schedule(x)
  \/ StartWait(x)
  \/ WaitDone(x)

Next ==
  \/ \E w \in Workers : MainStep(w) \/ SwitchStep(w)
  \/ \E x \in Callers : CallerStep(x)

Spec == Init /\ [][Next]_vars

\* Every thread keeps executing: the operating system preempts, and no thread
\* holds a lock across an action.  Task code is finite: a task that gets to
\* run again and again returns in the end.
Fairness ==
  /\ \A w \in Workers :
       WF_vars(MainStep(w) \/ SwitchStep(w) \/ (cpu[w] \in Fibers /\ CallerStep(cpu[w])))
  /\ \A x \in Clients : WF_vars(Schedule(x) \/ WaitDone(x))
  /\ \A f \in Fibers : SF_vars(\E w \in Workers : cpu[w] = f /\ Return(w))

FairSpec == Spec /\ Fairness

-----------------------------------------------------------------------------
(* Properties *)

\* The three kinds of place an allocated job can be reached from.
Queued(f)  == \E p \in Prio : \E i \in 1 .. Len(queue[p]) : queue[p][i] = f
Popped(f)  == \E m \in Workers : target[m] = f
BeingMade(f) == \E x \in Callers : job[x] = f

\* No job is reachable from two places: it is not queued twice, not queued
\* while a thread runs it or is about to delete it, not popped by two threads,
\* not queued before run_job has finished with it.  do_work re-queues a job
\* only after the switch away from its fiber, and this is what that buys.
HeldOnce ==
  /\ \A p, q \in Prio : \A i \in 1 .. Len(queue[p]), j \in 1 .. Len(queue[q]) :
       queue[p][i] = queue[q][j] => p = q /\ i = j
  /\ \A m, n \in Workers : target[m] = target[n] /\ target[m] # NULL => m = n
  /\ \A x, y \in Callers : job[x] = job[y] /\ job[x] # NULL => x = y
  /\ \A f \in Fibers :
       /\ ~(Queued(f) /\ Popped(f))
       /\ ~(Queued(f) /\ BeingMade(f))
       /\ ~(Popped(f) /\ BeingMade(f))

\* The allocated fiber_data are exactly the reachable ones: no job is dropped
\* between two queues, and nobody keeps the address of a freed one.
NeitherLostNorDangling ==
  \A f \in Fibers : pc[f] # "free" <=> Queued(f) \/ Popped(f) \/ BeingMade(f)

\* Jobs migrate between threads, thread_locals do not: no context executes on
\* two threads, main fibers stay on their thread, and task code finds itself
\* in active_fiber and its thread's main fiber in current_main.
ThreadLocalsAgree ==
  /\ \A v, w \in Workers : cpu[v] = cpu[w] => v = w
  /\ \A w \in Workers :
       \/ cpu[w] = w
       \/ /\ cpu[w] \in Fibers
          /\ active_fiber[w] = cpu[w]
          /\ current_main[w] = w
          /\ target[w] = cpu[w]

\* A counter is the number of live jobs that will still decrement it, in every
\* state and with every interleaving of ++ and --.
CounterCountsJobs ==
  \A c \in Counters : m_cnt[c] = Cardinality({f \in Fibers : fdat[f].counter = c})

\* wait_for_value returns only when every job started with the counter has
\* run to the end of its function.
JoinIsSound ==
  [][\A x \in Callers :
       pc[x] = "waiting" /\ pc'[x] # "waiting" =>
         \A f \in Fibers : fdat[f].counter = waiter[x] => fdat[f].isComplete]_vars

\* Every job that is started completes and gives its memory back.
JobsComplete == \A f \in Fibers : pc[f] # "free" ~> pc[f] = "free"

\* Every wait ends.
WaitsEnd == \A x \in Callers : pc[x] = "waiting" ~> pc[x] = "body"

=============================================================================
