---------------------- MODULE FiberSchedulerRefinement ----------------------
(***************************************************************************)
(* FiberScheduler implements ForkJoin: counters are groups, and queues,    *)
(* threads and fibers disappear.                                           *)
(***************************************************************************)
EXTENDS FiberScheduler

\* A job that sets up another job in run_job goes about its own business; a
\* job that is queued is as active as one that executes.
StateOf(x) ==
  CASE pc[x] = "free"                -> "absent"
    [] pc[x] \in {"body", "schedule"} -> "active"
    [] pc[x] = "waiting"             -> "blocked"
    [] pc[x] = "returned"            -> "finished"

AbstractState  == [x \in Callers |-> StateOf(x)]
AbstractGroup  == [f \in Fibers |-> fdat[f].counter]
AbstractAwaits == [x \in Callers |-> IF pc[x] = "waiting" THEN waiter[x] ELSE NULL]

FJ == INSTANCE ForkJoin WITH
  Clients <- Clients,
  Jobs    <- Fibers,
  Groups  <- Counters,
  NoGroup <- NULL,
  state   <- AbstractState,
  group   <- AbstractGroup,
  awaits  <- AbstractAwaits

\* The scheduler is a fork-join runtime: whatever the threads, queues and
\* polls do, a wait ends only with its group empty, a job leaves its group only
\* after its function has returned, and only once.
ImplementsForkJoin == FJ!Spec

\* And it makes the progress a fork-join runtime owes its callers.
ImplementsProgress == FJ!Progress

=============================================================================
