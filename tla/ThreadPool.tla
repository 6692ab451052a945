----------------------------- MODULE ThreadPool -----------------------------
(***************************************************************************)
(* thread_pool.cpp: a fixed number of worker threads that sleep on a       *)
(* condition variable until a task is posted, and the constructor and      *)
(* destructor that start and join them.                                    *)
(*                                                                         *)
(* The task queue has a mutex of its own.  m_mutex protects only a         *)
(* worker's look at the queue and m_running before it sleeps, and the      *)
(* allocator; post_job pushes and notifies, and the destructor stores      *)
(* m_running and notifies, without it.  An action is the longest piece of  *)
(* code that touches one shared object; what a worker does between locking *)
(* and unlocking m_mutex is several actions.                               *)
(*                                                                         *)
(* The pool does not outlive its users: the destructor starts when no      *)
(* client is inside post_job or do_work_if_available.                      *)
(***************************************************************************)
EXTENDS Integers, Sequences, FiniteSets

CONSTANTS
  NumThreads,     \* argument of the constructor
  Clients,        \* threads that call the pool
  Tasks,          \* the calls of post_job, each with its function and data
  Counted,        \* the tasks posted with a counter, the same for all
  NULL,           \* the null task of a default task_struct; no owner of m_mutex
  ActiveMod,      \* 2^16 for an atomic_ushort
  InitialActive   \* values m_activeThreads may have before it is ever written

\* Worker threads are their index in m_threads, which is their threadid.
Workers == 0 .. NumThreads - 1
Threads == Workers \cup Clients

ASSUME PoolAssumption ==
  /\ NumThreads \in Nat \ {0}
  /\ NumThreads < ActiveMod
  /\ ActiveMod \in Nat
  /\ InitialActive \subseteq 0 .. ActiveMod - 1
  /\ Workers \cap Clients = {}
  /\ Counted \subseteq Tasks
  /\ IsFiniteSet(Tasks)
  /\ NULL \notin Threads \cup Tasks

VARIABLES
  tasks,            \* the concurrent_queue of task_structs
  m_mutex,          \* the thread that holds it, or NULL
  m_cvar,           \* the threads asleep in m_cvar.wait
  m_running,
  m_activeThreads,
  allocated,        \* tasks whose ctr_task_start_data is allocated
  m_cnt,            \* the atomic_counter the clients post with
  pc,               \* where each thread is
  held,             \* the task a thread posts, has taken from the queue or runs
  owner,            \* where the constructor or destructor is
  iter,             \* loop variable of initialize and of the destructor
  posted,           \* calls of post_job so far
  done              \* tasks whose function has returned

syncVars   == <<m_mutex, m_cvar>>
lifeVars   == <<m_running, m_activeThreads, owner, iter>>
threadVars == <<pc, held>>
taskVars   == <<allocated, m_cnt, posted, done>>
vars == <<tasks, syncVars, lifeVars, threadVars, taskVars>>

WorkerPC == {"uncreated", "start", "loop", "lock", "empty", "running", "wait", "asleep",
             "pop", "exited"}
RunPC    == {"run", "deallocate"}
ClientPC == {"idle", "allocate", "push", "notify"}

TypeOK ==
  /\ tasks \in Seq(Tasks)
  /\ m_mutex \in Workers \cup {NULL}
  /\ m_cvar \subseteq Workers
  /\ m_running \in BOOLEAN
  /\ m_activeThreads \in 0 .. ActiveMod - 1
  /\ allocated \subseteq Counted
  /\ m_cnt \in Nat
  /\ pc \in [Threads -> WorkerPC \cup RunPC \cup ClientPC]
  /\ held \in [Threads -> Tasks \cup {NULL}]
  /\ owner \in {"create", "spin", "open", "notify", "join", "renotify", "closed"}
  /\ iter \in 0 .. NumThreads
  /\ posted \subseteq Tasks
  /\ done \subseteq posted

\* initialize has set m_running; m_activeThreads is whatever the memory holds.
Init ==
  /\ tasks = <<>>
  /\ m_mutex = NULL
  /\ m_cvar = {}
  /\ m_running = TRUE
  /\ m_activeThreads \in InitialActive
  /\ allocated = {}
  /\ m_cnt = 0
  /\ pc = [x \in Threads |-> IF x \in Workers THEN "uncreated" ELSE "idle"]
  /\ held = [x \in Threads |-> NULL]
  /\ owner = "create"
  /\ iter = 0
  /\ posted = {}
  /\ done = {}

Goto(x, l) == pc' = [pc EXCEPT ![x] = l]

\* notify_one wakes one sleeper, if there is any.
WakeOne ==
  \/ m_cvar = {} /\ UNCHANGED m_cvar
  \/ \E w \in m_cvar : m_cvar' = m_cvar \ {w}

-----------------------------------------------------------------------------
(* thread_func and wait_job, executed by worker w *)

\* Faulty start: the increment of m_activeThreads is lost.
StartUncounted(w) ==
  /\ pc[w] = "start"
  /\ Goto(w, "loop")
  /\ UNCHANGED <<tasks, syncVars, lifeVars, held, taskVars>>

\* A new thread counts itself and moves to its processor.
Start(w) ==
  /\ pc[w] = "start"
  /\ m_activeThreads' = (m_activeThreads + 1) % ActiveMod
  /\ Goto(w, "loop")
  /\ UNCHANGED <<tasks, syncVars, m_running, owner, iter, held, taskVars>>

\* while (m_pool->m_running)
Loop(w) ==
  /\ pc[w] = "loop"
  /\ m_running
  /\ Goto(w, "lock")
  /\ UNCHANGED <<tasks, syncVars, lifeVars, held, taskVars>>

\* The loop ends, and the thread.
Exit(w) ==
  /\ pc[w] = "loop"
  /\ ~ m_running
  /\ m_activeThreads' = (m_activeThreads - 1) % ActiveMod
  /\ Goto(w, "exited")
  /\ UNCHANGED <<tasks, syncVars, m_running, owner, iter, held, taskVars>>

\* The lock of wait_job.
Lock(w) ==
  /\ pc[w] = "lock"
  /\ m_mutex = NULL
  /\ m_mutex' = w
  /\ Goto(w, "empty")
  /\ UNCHANGED <<tasks, m_cvar, lifeVars, held, taskVars>>

\* tasks.empty(), which reads the queue without the lock of the queue.
TestEmpty(w) ==
  /\ pc[w] = "empty"
  /\ Goto(w, IF tasks = <<>> THEN "running" ELSE "pop")
  /\ UNCHANGED <<tasks, syncVars, lifeVars, held, taskVars>>

\* if (!m_running) return: unlock, and the null task is not run.
TestRunning(w) ==
  /\ pc[w] = "running"
  /\ \/ m_running /\ Goto(w, "wait") /\ UNCHANGED m_mutex
     \/ ~ m_running /\ Goto(w, "loop") /\ m_mutex' = NULL
  /\ UNCHANGED <<tasks, m_cvar, lifeVars, held, taskVars>>

\* m_cvar.wait unlocks and falls asleep in one step.
Wait(w) ==
  /\ pc[w] = "wait"
  /\ m_mutex' = NULL
  /\ m_cvar' = m_cvar \cup {w}
  /\ Goto(w, "asleep")
  /\ UNCHANGED <<tasks, lifeVars, held, taskVars>>

\* A condition variable may wake a thread up for no reason.
SpuriousWakeup(w) ==
  /\ w \in m_cvar
  /\ m_cvar' = m_cvar \ {w}
  /\ UNCHANGED <<tasks, m_mutex, lifeVars, threadVars, taskVars>>

\* A thread that has been woken up locks again before wait returns, and looks
\* again, in this order.
Wake(w) ==
  /\ pc[w] = "asleep"
  /\ w \notin m_cvar
  /\ m_mutex = NULL
  /\ m_mutex' = w
  /\ Goto(w, "empty")
  /\ UNCHANGED <<tasks, m_cvar, lifeVars, held, taskVars>>

\* wait_job takes a task, leaving `rest' in the queue and m_mutex at `m'.
\* do_work_if_available may have taken the last task since tasks.empty():
\* then the task is null and is not run.
Take(w, rest, m) ==
  /\ pc[w] = "pop"
  /\ m_mutex' = m
  /\ \/ tasks = <<>> /\ Goto(w, "loop") /\ UNCHANGED <<tasks, held>>
     \/ /\ tasks # <<>>
        /\ tasks' = rest
        /\ held' = [held EXCEPT ![w] = Head(tasks)]
        /\ Goto(w, "run")
  /\ UNCHANGED <<m_cvar, lifeVars, taskVars>>

\* Faulty try_pop_front: the task stays in the queue.
PopKeeps(w) == Take(w, tasks, NULL)

\* Faulty wait_job: m_mutex stays locked while the task runs.
PopKeepsLock(w) == Take(w, Tail(tasks), w)

\* try_pop_front and the unlock.
Pop(w) == Take(w, Tail(tasks), NULL)

-----------------------------------------------------------------------------
(* A task, executed by a worker or, in do_work_if_available, by a client *)

\* Where a thread continues after a task.
AfterTask(x) == IF x \in Workers THEN "loop" ELSE "idle"

\* The function of the task returns.  For a counted task the wrapper made by
\* post_job then sets the counter to n; its copy of the start data still names
\* m_mutex and the allocator.
Finish(x, n) ==
  /\ pc[x] = "run"
  /\ done' = done \cup {held[x]}
  /\ \/ held[x] \in Counted /\ m_cnt' = n /\ Goto(x, "deallocate") /\ UNCHANGED held
     \/ /\ held[x] \notin Counted
        /\ held' = [held EXCEPT ![x] = NULL]
        /\ Goto(x, AfterTask(x))
        /\ UNCHANGED m_cnt
  /\ UNCHANGED <<tasks, syncVars, lifeVars, allocated, posted>>

\* Faulty wrapper: the counter is not decremented.
FinishForgetsCounter(x) == Finish(x, m_cnt)

\* The wrapper decrements the counter.
FinishTask(x) == Finish(x, m_cnt - 1)

\* The wrapper locks m_mutex, deallocates the start data and unlocks.
Deallocate(x) ==
  /\ pc[x] = "deallocate"
  /\ m_mutex = NULL
  /\ allocated' = allocated \ {held[x]}
  /\ held' = [held EXCEPT ![x] = NULL]
  /\ Goto(x, AfterTask(x))
  /\ UNCHANGED <<tasks, syncVars, lifeVars, m_cnt, posted, done>>

-----------------------------------------------------------------------------
(* post_job and do_work_if_available, called by client c *)

\* post_job is called; with a counter, it increments it.
PostJob(c, t) ==
  /\ pc[c] = "idle"
  /\ owner = "open"
  /\ t \notin posted
  /\ posted' = posted \cup {t}
  /\ held' = [held EXCEPT ![c] = t]
  /\ \/ t \in Counted /\ m_cnt' = m_cnt + 1 /\ Goto(c, "allocate")
     \/ t \notin Counted /\ UNCHANGED m_cnt /\ Goto(c, "push")
  /\ UNCHANGED <<tasks, syncVars, lifeVars, allocated, done>>

\* Lock m_mutex, allocate and fill in the start data, unlock.
Allocate(c) ==
  /\ pc[c] = "allocate"
  /\ m_mutex = NULL
  /\ allocated' = allocated \cup {held[c]}
  /\ Goto(c, "push")
  /\ UNCHANGED <<tasks, syncVars, lifeVars, held, m_cnt, posted, done>>

\* tasks.push
Push(c) ==
  /\ pc[c] = "push"
  /\ tasks' = Append(tasks, held[c])
  /\ held' = [held EXCEPT ![c] = NULL]
  /\ Goto(c, "notify")
  /\ UNCHANGED <<syncVars, lifeVars, taskVars>>

\* Faulty post_job: it forgets to notify.
NotifyNobody(c) ==
  /\ pc[c] = "notify"
  /\ Goto(c, "idle")
  /\ UNCHANGED <<tasks, syncVars, lifeVars, held, taskVars>>

\* m_cvar.notify_one
Notify(c) ==
  /\ pc[c] = "notify"
  /\ WakeOne
  /\ Goto(c, "idle")
  /\ UNCHANGED <<tasks, m_mutex, lifeVars, held, taskVars>>

\* do_work_if_available finds a task.  (When it finds none it returns false.)
DoWorkIfAvailable(c) ==
  /\ pc[c] = "idle"
  /\ owner = "open"
  /\ tasks # <<>>
  /\ tasks' = Tail(tasks)
  /\ held' = [held EXCEPT ![c] = Head(tasks)]
  /\ Goto(c, "run")
  /\ UNCHANGED <<syncVars, lifeVars, taskVars>>

-----------------------------------------------------------------------------
(* initialize and the destructor *)

\* m_threads.push_back(thread(...))
CreateThread ==
  /\ owner = "create"
  /\ Goto(iter, "start")
  /\ iter' = (iter + 1) % NumThreads
  /\ owner' = IF iter + 1 = NumThreads THEN "spin" ELSE "create"
  /\ UNCHANGED <<tasks, syncVars, m_running, m_activeThreads, held, taskVars>>

\* while (m_activeThreads < num_threads) yield
Constructed ==
  /\ owner = "spin"
  /\ ~ (m_activeThreads < NumThreads)
  /\ owner' = "open"
  /\ UNCHANGED <<tasks, syncVars, m_running, m_activeThreads, iter, threadVars, taskVars>>

\* The destructor: m_running = false.
BeginDestructor ==
  /\ owner = "open"
  /\ \A c \in Clients : pc[c] = "idle"
  /\ m_running' = FALSE
  /\ owner' = "notify"
  /\ UNCHANGED <<tasks, syncVars, m_activeThreads, iter, threadVars, taskVars>>

\* Faulty destructor: notify_one, and not always for the thread to be joined.
NotifyOne ==
  /\ owner = "notify"
  /\ WakeOne
  /\ owner' = "join"
  /\ UNCHANGED <<tasks, m_mutex, m_running, m_activeThreads, iter, threadVars, taskVars>>

\* notify_all before the join of thread iter.
NotifyAll ==
  /\ owner = "notify"
  /\ m_cvar' = {}
  /\ owner' = "join"
  /\ UNCHANGED <<tasks, m_mutex, m_running, m_activeThreads, iter, threadVars, taskVars>>

\* Faulty join: the destructor does not wait for the thread.
Detach ==
  /\ owner = "join"
  /\ owner' = "renotify"
  /\ UNCHANGED <<tasks, syncVars, m_running, m_activeThreads, iter, threadVars, taskVars>>

\* join returns when the thread has exited.
Join ==
  /\ owner = "join"
  /\ pc[iter] = "exited"
  /\ owner' = "renotify"
  /\ UNCHANGED <<tasks, syncVars, m_running, m_activeThreads, iter, threadVars, taskVars>>

\* notify_all after the join, and on to the next thread.
NotifyAgain ==
  /\ owner = "renotify"
  /\ m_cvar' = {}
  /\ iter' = iter + 1
  /\ owner' = IF iter + 1 = NumThreads THEN "closed" ELSE "notify"
  /\ UNCHANGED <<tasks, m_mutex, m_running, m_activeThreads, threadVars, taskVars>>

-----------------------------------------------------------------------------

\* What a worker does without acquiring m_mutex, and what acquires it.
WorkerStep(w) ==
  \/ Start(w) \/ Loop(w) \/ Exit(w)
  \/ TestEmpty(w) \/ TestRunning(w) \/ Wait(w) \/ Pop(w)
  \/ FinishTask(w)

WorkerAcquires(w) == Lock(w) \/ Wake(w) \/ Deallocate(w)

ClientCompletes(c) == Push(c) \/ Notify(c) \/ FinishTask(c)
ClientAcquires(c)  == Allocate(c) \/ Deallocate(c)
ClientCalls(c)     == DoWorkIfAvailable(c) \/ \E t \in Tasks : PostJob(c, t)

OwnerStep == CreateThread \/ Constructed \/ NotifyAll \/ Join \/ NotifyAgain

Next ==
  \/ \E w \in Workers : WorkerStep(w) \/ WorkerAcquires(w) \/ SpuriousWakeup(w)
  \/ \E c \in Clients : ClientCompletes(c) \/ ClientAcquires(c) \/ ClientCalls(c)
  \/ OwnerStep
  \/ BeginDestructor

Spec == Init /\ [][Next]_vars

\* Threads keep executing, tasks are finite, and a thread that competes for
\* m_mutex gets it in the end.  Nobody has to post, to help or to destroy the
\* pool, and no wakeup is spurious by necessity.
Fairness ==
  /\ \A w \in Workers : WF_vars(WorkerStep(w)) /\ SF_vars(WorkerAcquires(w))
  /\ \A c \in Clients : WF_vars(ClientCompletes(c)) /\ SF_vars(ClientAcquires(c))
  /\ WF_vars(OwnerStep)

FairSpec == Spec /\ Fairness

-----------------------------------------------------------------------------
(* Properties *)

Positions(t) == {i \in 1 .. Len(tasks) : tasks[i] = t}
Holders(t)   == {x \in Threads : held[x] = t}

\* A task is posted, run and forgotten once: it is never at two places, though
\* a worker and do_work_if_available race for it between tasks.empty() and
\* try_pop_front, and no task that has been posted disappears, whenever the
\* destructor starts.
TaskHeldOnce ==
  \A t \in Tasks :
    LET places == Cardinality(Positions(t)) + Cardinality(Holders(t)) IN
    /\ places <= 1
    /\ t \in posted \ done => places = 1
    /\ t \in done => /\ Positions(t) = {}
                     /\ \A x \in Holders(t) : pc[x] = "deallocate"

\* The start data of a counted task lives from its allocation in post_job to
\* the end of its wrapper: no thread runs a wrapper whose data is gone.
StartDataAlive ==
  /\ \A i \in 1 .. Len(tasks) : tasks[i] \in Counted => tasks[i] \in allocated
  /\ \A x \in Threads : pc[x] \in RunPC /\ held[x] \in Counted => held[x] \in allocated

\* The counter is the number of counted tasks posted and not finished, so it
\* stays positive for ever when the destructor drops a queued one.
CounterCountsTasks == m_cnt = Cardinality((posted \cap Counted) \ done)

\* When the destructor has returned nobody uses the pool any more: all threads
\* are gone, nobody sleeps on m_cvar or holds m_mutex while these are
\* destroyed, and what is left of the tasks is in the queue or done.
ClosedIsQuiet ==
  owner = "closed" =>
    /\ \A w \in Workers : pc[w] = "exited"
    /\ m_mutex = NULL /\ m_cvar = {}
    /\ posted \subseteq done \cup {tasks[i] : i \in 1 .. Len(tasks)}

\* A push while a worker is asleep is not lost: the task that has been pushed
\* and is about to be announced is taken, or the pool is closing.
NotifyReachesSleeper ==
  \A t \in Tasks :
    ((\E c \in Clients : pc[c] = "notify") /\ Positions(t) # {} /\ m_cvar # {})
      ~> (Positions(t) = {} \/ ~ m_running)

\* A worker that is awake does not sleep before the queue has been empty.
AwakeWorkerDrains ==
  (tasks # <<>> /\ \E w \in Workers : pc[w] \in {"loop", "lock", "empty", "pop", "run", "deallocate"})
    ~> (tasks = <<>> \/ ~ m_running)

\* The constructor returns, whatever garbage m_activeThreads holds at first,
\* unless the increments of the threads wrap it: then it may spin for ever.
ConstructorReturns ==
  m_activeThreads + NumThreads < ActiveMod => <>(owner \notin {"create", "spin"})

\* The destructor returns, unless a worker tested m_running before it was reset
\* and has not fallen asleep yet when the destructor notifies.
DestructorReturnsOrMisses ==
  (owner = "notify" /\ \A w \in Workers : pc[w] # "wait") ~> owner = "closed"

\* The destructor returns: main() ends after "press enter to exit".
DestructorReturns == owner = "notify" ~> owner = "closed"

=============================================================================
