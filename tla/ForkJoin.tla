------------------------------ MODULE ForkJoin ------------------------------
(***************************************************************************)
(* What tasks.h promises to its callers, without queues, threads, fibers   *)
(* or counter values: RunTask forks a job into a group, the job runs       *)
(* beside its starter, and WaitForCounter blocks its caller until the      *)
(* group is empty.  A group is what the code calls a counter.              *)
(***************************************************************************)

CONSTANTS
  Clients,   \* callers that exist from the beginning
  Jobs,      \* names of jobs; a name is used again after its job is gone
  Groups,
  NoGroup

Callers == Clients \cup Jobs

VARIABLES
  state,     \* what each caller does
  group,     \* the group a job is a member of
  awaits     \* the group a blocked caller waits for

vars == <<state, group, awaits>>

TypeOK ==
  /\ state \in [Callers -> {"absent", "active", "blocked", "finished"}]
  /\ group \in [Jobs -> Groups \cup {NoGroup}]
  /\ awaits \in [Callers -> Groups \cup {NoGroup}]

Init ==
  /\ state = [x \in Callers |-> IF x \in Clients THEN "active" ELSE "absent"]
  /\ group = [j \in Jobs |-> NoGroup]
  /\ awaits = [x \in Callers |-> NoGroup]

\* RunTask: a new job, in a group or in none.
Fork(x, j) ==
  /\ state[x] = "active"
  /\ state[j] = "absent"
  /\ state' = [state EXCEPT ![j] = "active"]
  /\ \E g \in Groups \cup {NoGroup} : group' = [group EXCEPT ![j] = g]
  /\ UNCHANGED awaits

\* WaitForCounter is called.
Block(x) ==
  /\ state[x] = "active"
  /\ state' = [state EXCEPT ![x] = "blocked"]
  /\ \E g \in Groups : awaits' = [awaits EXCEPT ![x] = g]
  /\ UNCHANGED group

\* Faulty wait: it returns with members in the group.
UnblockEarly(x) ==
  /\ state[x] = "blocked"
  /\ state' = [state EXCEPT ![x] = "active"]
  /\ awaits' = [awaits EXCEPT ![x] = NoGroup]
  /\ UNCHANGED group

\* WaitForCounter returns: nobody is left in the group.
Unblock(x) ==
  /\ state[x] = "blocked"
  /\ \A j \in Jobs : group[j] # awaits[x]
  /\ state' = [state EXCEPT ![x] = "active"]
  /\ awaits' = [awaits EXCEPT ![x] = NoGroup]
  /\ UNCHANGED group

\* The function of a job returns.
Finish(j) ==
  /\ state[j] = "active"
  /\ state' = [state EXCEPT ![j] = "finished"]
  /\ UNCHANGED <<group, awaits>>

\* A finished job, and no other, leaves its group.
Leave(j) ==
  /\ state[j] = "finished"
  /\ group[j] # NoGroup
  /\ group' = [group EXCEPT ![j] = NoGroup]
  /\ UNCHANGED <<state, awaits>>

\* A finished job that has left its group is gone.
Vanish(j) ==
  /\ state[j] = "finished"
  /\ group[j] = NoGroup
  /\ state' = [state EXCEPT ![j] = "absent"]
  /\ UNCHANGED <<group, awaits>>

Next ==
  \/ \E x \in Callers : Block(x) \/ Unblock(x) \/ \E j \in Jobs : Fork(x, j)
  \/ \E j \in Jobs : Finish(j) \/ Leave(j) \/ Vanish(j)

Spec == Init /\ [][Next]_vars

\* A finished job leaves and vanishes, and a caller whose group stays empty is
\* released.
Progress ==
  /\ \A j \in Jobs : WF_vars(Leave(j)) /\ WF_vars(Vanish(j))
  /\ \A x \in Callers : WF_vars(Unblock(x))

FairSpec == Spec /\ Progress

=============================================================================
