-------------------------- MODULE MCFiberScheduler --------------------------
(***************************************************************************)
(* Model-checking instances of FiberScheduler.                             *)
(***************************************************************************)
EXTENDS FiberSchedulerRefinement, TLC

\* Any job may start jobs of a high and of an unset priority; together with
\* the low root all three queues and the default branch of schedule() occur.
AnyChild == [p \in DeclPrio |-> {"high", "unset"}]
LowRoot  == {"low"}

\* Jobs are started at the priority of their starter or above it: the
\* discipline main.cpp keeps (a frame job starts only high jobs).  Without it
\* do_work starves the job a higher-priority job polls for.
Rank(p) == CASE QueueOf(p) = "low" -> 0 [] QueueOf(p) = "medium" -> 1 [] OTHER -> 2
NotBelow == [p \in DeclPrio |-> {q \in {"high", "low"} : Rank(q) >= Rank(p)}]

Symmetry == Permutations(Workers) \cup Permutations(Fibers) \cup Permutations(Counters)
=============================================================================
