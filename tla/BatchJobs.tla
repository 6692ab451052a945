------------------------------ MODULE BatchJobs ------------------------------
(***************************************************************************)
(* run_jobs and batch_schedule of fiber_scheduler.cpp, which RunTasks      *)
(* calls: the fiber_data of a batch are allocated as one array, the        *)
(* counter is incremented for all of them, and then they are queued one by *)
(* one.  do_work completes them like jobs that run_job has made, and gives *)
(* each element back to data_alloc on its own.                             *)
(*                                                                         *)
(* Giving back the first element gives back the array (operator delete     *)
(* gets the address it has returned); giving back another one, or touching *)
(* an element of an array that has been given back, is undefined           *)
(* behaviour.  The model goes as far as that: nothing happens after        *)
(* `misused' is set.                                                       *)
(*                                                                         *)
(* The queues have lost their order, and yields of the caller's thread are *)
(* left out: FiberScheduler has both.                                      *)
(***************************************************************************)
EXTENDS Integers, FiniteSets

CONSTANTS
  Workers,     \* threads in do_work
  Arrays,      \* addresses allocate(count) may return
  Counts,      \* values of count
  MaxCount,    \* bound: the longest array
  MaxBatches,  \* bound: calls of run_jobs
  NULL

Index == 1 .. MaxCount
Elements == Arrays \X Index

ASSUME BatchAssumption ==
  /\ NULL \notin Elements
  /\ MaxCount \in Nat \ {0}
  /\ Counts \subseteq 1 .. MaxCount
  /\ MaxBatches \in Nat

VARIABLES
  allocated,   \* arrays that are allocated
  count,       \* argument of the last run_jobs that got this array
  stage,       \* of each element
  m_cnt,       \* the caller's uint32_t
  at,          \* where the caller is
  data,        \* its array
  i,           \* its loop variable
  target,      \* local of do_work of each worker
  batches,     \* calls of run_jobs so far
  misused      \* history: undefined behaviour has been met

vars == <<allocated, count, stage, m_cnt, at, data, i, target, batches, misused>>

TypeOK ==
  /\ allocated \subseteq Arrays
  /\ count \in [Arrays -> Counts \cup {0}]
  /\ stage \in [Elements -> {"none", "made", "queued", "running", "complete", "delete"}]
  /\ m_cnt \in Nat
  /\ at \in {"body", "fill", "schedule", "waiting"}
  /\ data \in Arrays \cup {NULL}
  /\ i \in Index
  /\ target \in [Workers -> Elements \cup {NULL}]
  /\ batches \in 0 .. MaxBatches
  /\ misused \in BOOLEAN

Init ==
  /\ allocated = {}
  /\ count = [a \in Arrays |-> 0]
  /\ stage = [e \in Elements |-> "none"]
  /\ m_cnt = 0
  /\ at = "body"
  /\ data = NULL
  /\ i = 1
  /\ target = [w \in Workers |-> NULL]
  /\ batches = 0
  /\ misused = FALSE

\* Element e is read or written: that must not happen after its array is freed.
Touch(e) == misused' = (e[1] \notin allocated)

SetStage(e, s) == stage' = [stage EXCEPT ![e] = s]

\* The loop variable after an iteration for array a; the loop ends in `next'.
Loop(here, next) ==
  IF i = count[data] THEN i' = 1 /\ at' = next ELSE i' = i + 1 /\ at' = here

-----------------------------------------------------------------------------
(* run_jobs, called by task code or by main *)

\* data_alloc.allocate(count).  An address is used again when no pointer to
\* one of its elements is left.
RunJobs ==
  /\ ~misused
  /\ at = "body"
  /\ batches < MaxBatches
  /\ \E a \in Arrays \ allocated, n \in Counts :
       /\ \A k \in Index : stage[<<a, k>>] = "none"
       /\ allocated' = allocated \cup {a}
       /\ count' = [count EXCEPT ![a] = n]
       /\ data' = a
  /\ at' = "fill"
  /\ batches' = batches + 1
  /\ UNCHANGED <<stage, m_cnt, i, target, misused>>

\* Faulty loop: the counter is incremented once for the whole batch.
IncrementOnce == m_cnt' = IF i = 1 THEN m_cnt + 1 ELSE m_cnt

\* ++(**cnt)
Increment == m_cnt' = m_cnt + 1

\* An iteration of the loop of run_jobs: increment, and fill in data[i].
Fill ==
  /\ ~misused
  /\ at = "fill"
  /\ Increment
  /\ SetStage(<<data, i>>, "made")
  /\ Loop("fill", "schedule")
  /\ UNCHANGED <<allocated, count, data, target, batches, misused>>

\* An iteration of batch_schedule: fdata[i] is read, and queued.
BatchSchedule ==
  /\ ~misused
  /\ at = "schedule"
  /\ Touch(<<data, i>>)
  /\ SetStage(<<data, i>>, "queued")
  /\ Loop("schedule", "body")
  /\ UNCHANGED <<allocated, count, m_cnt, data, target, batches>>

\* WaitForCounter(*cnt, 0)
StartWait ==
  /\ ~misused
  /\ at = "body"
  /\ batches > 0
  /\ at' = "waiting"
  /\ UNCHANGED <<allocated, count, stage, m_cnt, data, i, target, batches, misused>>

\* wait_for_value returns.
WaitDone ==
  /\ ~misused
  /\ at = "waiting"
  /\ m_cnt = 0
  /\ at' = "body"
  /\ UNCHANGED <<allocated, count, stage, m_cnt, data, i, target, batches, misused>>

-----------------------------------------------------------------------------
(* do_work *)

\* try_pop_front, and the switch to the job.
Pop(w) ==
  /\ ~misused
  /\ target[w] = NULL
  /\ \E e \in Elements :
       /\ stage[e] = "queued"
       /\ target' = [target EXCEPT ![w] = e]
       /\ SetStage(e, "running")
       /\ Touch(e)
  /\ UNCHANGED <<allocated, count, m_cnt, at, data, i, batches>>

\* A step of worker w with the job it has popped.
Step(w, from, to) ==
  /\ ~misused
  /\ target[w] # NULL
  /\ stage[target[w]] = from
  /\ SetStage(target[w], to)
  /\ Touch(target[w])
  /\ UNCHANGED <<count, at, data, i, batches>>

\* The job yields and is queued again.
Reschedule(w) ==
  /\ Step(w, "running", "queued")
  /\ target' = [target EXCEPT ![w] = NULL]
  /\ UNCHANGED <<allocated, m_cnt>>

\* The job returns: isComplete = true.
Return(w) ==
  /\ Step(w, "running", "complete")
  /\ UNCHANGED <<allocated, m_cnt, target>>

\* --(*target->counter)
Complete(w) ==
  /\ Step(w, "complete", "delete")
  /\ m_cnt' = m_cnt - 1
  /\ UNCHANGED <<allocated, target>>

\* data_alloc.deallocate(target, 1)
Deallocate(e) ==
  /\ allocated' = allocated \ {e[1]}
  /\ misused' = (e[2] # 1 \/ e[1] \notin allocated)

\* The end of do_work's round with a completed job, which goes to stage `to'.
Discard(w, to) ==
  /\ ~misused
  /\ target[w] # NULL
  /\ stage[target[w]] = "delete"
  /\ SetStage(target[w], to)
  /\ Deallocate(target[w])
  /\ target' = [target EXCEPT ![w] = NULL]
  /\ UNCHANGED <<count, m_cnt, at, data, i, batches>>

\* Faulty do_work: without the else a completed job is queued again as well.
DeleteAndReschedule(w) == Discard(w, "queued")

\* flDeleteFiber and deallocate.
DeleteFiber(w) == Discard(w, "none")

-----------------------------------------------------------------------------

Caller == RunJobs \/ Fill \/ BatchSchedule \/ StartWait \/ WaitDone
Worker(w) == Pop(w) \/ Reschedule(w) \/ Return(w) \/ Complete(w) \/ DeleteFiber(w)

Next == Caller \/ \E w \in Workers : Worker(w)

Spec == Init /\ [][Next]_vars

-----------------------------------------------------------------------------
(* Properties *)

\* The counter is incremented for a whole batch before any of it is queued: a
\* wait returns when all jobs of all batches have returned.
JoinIsSound ==
  [][at = "waiting" /\ at' = "body" =>
       \A e \in Elements : stage[e] \in {"none", "complete", "delete"}]_vars

\* A batch of one is as safe as a job of run_job, whatever arrays come and go
\* beside it: memory that has been given back is touched or given back again
\* only when some run_jobs had more than one job, whose array do_work takes
\* apart.
OnlyArraysAreMisused == misused => \E a \in Arrays : count[a] > 1

=============================================================================
