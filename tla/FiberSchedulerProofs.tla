------------------------ MODULE FiberSchedulerProofs ------------------------
(***************************************************************************)
(* Proofs of the safety properties of FiberScheduler, and that it          *)
(* implements ForkJoin, for any number of threads, clients, jobs, counters *)
(* and any priorities.                                                     *)
(***************************************************************************)
EXTENDS FiberSchedulerRefinement, SequenceTheorems, FiniteSetTheorems, TLAPS

(***************************************************************************)
(* The inductive invariant.  The five properties are not inductive by      *)
(* themselves: that a job is re-queued only by the thread that popped it   *)
(* rests on where the contexts are (Places), and that a counter stays a    *)
(* natural number (TypeOK) rests on CounterCountsJobs.                     *)
(***************************************************************************)

\* TypeOK with counters in Int: what the shape of the actions alone gives.
Shape ==
  /\ queue \in [Prio -> Seq(Fibers)]
  /\ fdat \in [Fibers -> FiberData]
  /\ m_cnt \in [Counters -> Int]
  /\ constructed \subseteq Counters
  /\ current_main \in [Workers -> Workers \cup {NULL}]
  /\ active_fiber \in [Workers -> Fibers \cup {NULL}]
  /\ cpu \in [Workers -> Workers \cup Fibers]
  /\ pc \in [Contexts -> MainPC \cup CallerPC]
  /\ \A m \in Workers : pc[m] \in MainPC
  /\ \A x \in Callers : pc[x] \in CallerPC
  /\ target \in [Workers -> Fibers \cup {NULL}]
  /\ job \in [Callers -> Fibers \cup {NULL}]
  /\ waiter \in [Callers -> constructed \cup {NULL}]
  /\ jobs \in 0 .. MaxJobs

\* The first conjunct of HeldOnce.
QueuesDistinct ==
  \A p, q \in Prio : \A i \in 1 .. Len(queue[p]), j \in 1 .. Len(queue[q]) :
    queue[p][i] = queue[q][j] => p = q /\ i = j

\* Where contexts are, against the locals they keep there.
MainPlaces ==
  \A m \in Workers :
    /\ target[m] # NULL <=> pc[m] \in {"switched", "delete"}
    /\ pc[m] # "loop" => current_main[m] = m
    /\ cpu[m] # m => pc[m] = "switched" /\ pc[cpu[m]] \in {"body", "schedule", "waiting"}
    /\ pc[m] = "switched" /\ cpu[m] = m => pc[target[m]] \in {"body", "waiting", "returned"}
    /\ pc[m] = "delete" => pc[target[m]] = "returned" /\ fdat[target[m]].counter = NULL

JobPlaces ==
  \A f \in Fibers :
    /\ ~ fdat[f].asleep
    /\ fdat[f].isComplete <=> pc[f] = "returned"
    /\ pc[f] = "free" => fdat[f] = Unallocated
    /\ Queued(f) => pc[f] \in {"body", "waiting"}
    /\ BeingMade(f) => pc[f] = "body"

CallerPlaces ==
  \A x \in Callers :
    /\ job[x] # NULL <=> pc[x] = "schedule"
    /\ pc[x] = "waiting" => waiter[x] # NULL

IInv ==
  /\ Shape
  /\ HeldOnce
  /\ NeitherLostNorDangling
  /\ ThreadLocalsAgree
  /\ CounterCountsJobs
  /\ MainPlaces
  /\ JobPlaces
  /\ CallerPlaces

-----------------------------------------------------------------------------
(* The queues *)

\* Pushing a job that is awake and in no queue keeps the queues free of
\* repetitions and adds exactly that job to the queued ones.
LEMMA PushAdds ==
  ASSUME queue \in [Prio -> Seq(Fibers)], QueuesDistinct,
         NEW f \in Fibers, ~ Queued(f), ~ fdat[f].asleep, Push(f)
  PROVE  /\ queue' \in [Prio -> Seq(Fibers)]
         /\ QueuesDistinct'
         /\ \A g \in Fibers : Queued(g)' <=> Queued(g) \/ g = f
<1>1. PICK q \in Prio : queue' = [queue EXCEPT ![q] = Append(@, f)]
  BY DEF Push, QueueOf, Prio
<1>2. PICK s \in Seq(Fibers) : s = queue[q]
  OBVIOUS
<1>3. PICK t \in Seq(Fibers) : t = Append(s, f)
  BY AppendProperties
<1>4. /\ Len(s) \in Nat
      /\ Len(t) = Len(s) + 1
      /\ \A i \in 1 .. Len(s) : t[i] = s[i]
      /\ t[Len(s) + 1] = f
  BY <1>3, AppendProperties, LenProperties
<1>5. /\ queue' \in [Prio -> Seq(Fibers)]
      /\ queue'[q] = t
      /\ \A p \in Prio : p # q => queue'[p] = queue[p]
  <2>1. queue' = [queue EXCEPT ![q] = t]
    BY <1>1, <1>2, <1>3
  <2> QED  BY <2>1
<1>6. \A p \in Prio : \A i \in 1 .. Len(queue'[p]) :
        \/ i \in 1 .. Len(queue[p]) /\ queue'[p][i] = queue[p][i]
        \/ p = q /\ i = Len(s) + 1 /\ queue'[p][i] = f
  BY <1>2, <1>4, <1>5
<1>7. \A p \in Prio : \A i \in 1 .. Len(queue[p]) :
        i \in 1 .. Len(queue'[p]) /\ queue'[p][i] = queue[p][i]
  BY <1>2, <1>4, <1>5
<1>8. QueuesDistinct'
  <2>1. \A p \in Prio : \A i \in 1 .. Len(queue[p]) : queue[p][i] # f
    BY DEF Queued
  <2> SUFFICES ASSUME NEW p \in Prio, NEW r \in Prio,
                      NEW i \in 1 .. Len(queue'[p]), NEW j \in 1 .. Len(queue'[r]),
                      queue'[p][i] = queue'[r][j]
               PROVE  p = r /\ i = j
    BY DEF QueuesDistinct
  <2>2. CASE i \in 1 .. Len(queue[p]) /\ queue'[p][i] = queue[p][i]
    <3>1. j \in 1 .. Len(queue[r]) /\ queue'[r][j] = queue[r][j]
      BY <1>6, <2>1, <2>2
    <3>2. queue[p][i] = queue[r][j]
      BY <2>2, <3>1
    <3> QED  BY ONLY QueuesDistinct, <2>2, <3>1, <3>2, p \in Prio, r \in Prio DEF QueuesDistinct
  <2>3. CASE p = q /\ i = Len(s) + 1 /\ queue'[p][i] = f
    BY <1>6, <2>1, <2>3
  <2> QED  BY <1>6, <2>2, <2>3
<1>9. ASSUME NEW g \in Fibers
      PROVE  Queued(g)' <=> Queued(g) \/ g = f
  <2>1. Queued(g)' => Queued(g) \/ g = f
    BY <1>6 DEF Queued
  <2>2. Queued(g) => Queued(g)'
    BY <1>7 DEF Queued
  <2>3. Queued(f)'
    <3>1. Len(s) + 1 \in 1 .. Len(queue'[q]) /\ queue'[q][Len(s) + 1] = f
      BY <1>4, <1>5
    <3> QED  BY <3>1 DEF Queued
  <2> QED  BY <2>1, <2>2, <2>3
<1> QED  BY <1>5, <1>8, <1>9

\* Popping a queue takes its head out of the queued jobs, and nothing else.
LEMMA PopRemoves ==
  ASSUME queue \in [Prio -> Seq(Fibers)], QueuesDistinct,
         NEW q \in Prio, queue[q] # <<>>,
         queue' = [queue EXCEPT ![q] = Tail(@)]
  PROVE  /\ queue' \in [Prio -> Seq(Fibers)]
         /\ QueuesDistinct'
         /\ Head(queue[q]) \in Fibers
         /\ Queued(Head(queue[q]))
         /\ \A g \in Fibers : Queued(g)' <=> Queued(g) /\ g # Head(queue[q])
<1>1. PICK s \in Seq(Fibers) : s = queue[q] /\ s # <<>>
  OBVIOUS
<1>2. PICK t \in Seq(Fibers) : t = Tail(s)
  BY <1>1, HeadTailProperties
<1>3. PICK h \in Fibers : h = Head(s)
  BY <1>1, HeadTailProperties
<1>4. /\ Len(s) \in Nat \ {0}
      /\ Len(t) = Len(s) - 1
      /\ \A i \in 1 .. Len(t) : t[i] = s[i + 1]
      /\ h = s[1]
  BY <1>1, <1>2, <1>3, HeadTailProperties, LenProperties, EmptySeq
<1>5. /\ queue' \in [Prio -> Seq(Fibers)]
      /\ queue'[q] = t
      /\ \A p \in Prio : p # q => queue'[p] = queue[p]
  <2>1. queue' = [queue EXCEPT ![q] = t]
    BY <1>1, <1>2
  <2> QED  BY <2>1
<1>6. \A p \in Prio : \A i \in 1 .. Len(queue'[p]) :
        \/ p # q /\ i \in 1 .. Len(queue[p]) /\ queue'[p][i] = queue[p][i]
        \/ p = q /\ i + 1 \in 1 .. Len(queue[p]) /\ queue'[p][i] = queue[p][i + 1]
  BY <1>1, <1>4, <1>5
<1>7. \A p \in Prio : \A i \in 1 .. Len(queue[p]) :
        \/ p = q /\ i = 1
        \/ p = q /\ i - 1 \in 1 .. Len(queue'[p]) /\ queue'[p][i - 1] = queue[p][i]
        \/ p # q /\ i \in 1 .. Len(queue'[p]) /\ queue'[p][i] = queue[p][i]
  BY <1>1, <1>4, <1>5
<1>8. QueuesDistinct'
  BY <1>6 DEF QueuesDistinct
<1>9. 1 \in 1 .. Len(queue[q]) /\ queue[q][1] = h
  BY <1>1, <1>4
<1>10. Queued(h)
  BY <1>9 DEF Queued
<1>11. ASSUME NEW g \in Fibers
       PROVE  Queued(g)' <=> Queued(g) /\ g # h
  <2>1. ASSUME NEW p \in Prio, NEW i \in 1 .. Len(queue'[p]), queue'[p][i] = g
        PROVE  Queued(g) /\ g # h
    BY <1>6, <1>9, <2>1 DEF Queued, QueuesDistinct
  <2>2. ASSUME Queued(g), g # h
        PROVE  Queued(g)'
    <3>1. PICK p \in Prio : \E i \in 1 .. Len(queue[p]) : queue[p][i] = g
      BY <2>2 DEF Queued
    <3>2. PICK i \in 1 .. Len(queue[p]) : queue[p][i] = g
      BY <3>1
    <3>3. ~ (p = q /\ i = 1)
      BY <1>9, <2>2, <3>2
    <3>4. \E k \in 1 .. Len(queue'[p]) : queue'[p][k] = g
      BY <1>7, <3>2, <3>3
    <3> QED  BY <3>4 DEF Queued
  <2> QED  BY <2>1, <2>2 DEF Queued
<1> QED  BY <1>1, <1>3, <1>5, <1>8, <1>10, <1>11

-----------------------------------------------------------------------------
(* Where a thread is *)

\* A thread that does not execute a job executes its own main fiber.
LEMMA MainOfThread ==
  ASSUME IInv, NEW w \in Workers, cpu[w] \in Workers
  PROVE  cpu[w] = w
BY SchedulerAssumption DEF IInv, ThreadLocalsAgree

\* A job that executes has been popped by the thread it executes on, and can
\* be reached from no other place.
LEMMA JobOfThread ==
  ASSUME IInv, NEW w \in Workers, NEW f \in Fibers, cpu[w] = f
  PROVE  /\ target[w] = f /\ active_fiber[w] = f /\ current_main[w] = w
         /\ pc[w] = "switched"
         /\ pc[f] \in {"body", "schedule", "waiting"}
         /\ ~ Queued(f) /\ ~ BeingMade(f)
         /\ \A m \in Workers : target[m] = f => m = w
<1>1. cpu[w] # w /\ f # NULL
  BY SchedulerAssumption
<1>2. target[w] = f /\ active_fiber[w] = f /\ current_main[w] = w
  BY <1>1 DEF IInv, ThreadLocalsAgree
<1>3. pc[w] = "switched" /\ pc[f] \in {"body", "schedule", "waiting"}
  BY <1>1 DEF IInv, MainPlaces
<1>4. Popped(f)
  BY <1>2 DEF Popped
<1>5. ~ Queued(f) /\ ~ BeingMade(f)
  BY <1>4 DEF IInv, HeldOnce
<1>6. \A m \in Workers : target[m] = f => m = w
  BY <1>1, <1>2 DEF IInv, HeldOnce
<1> QED  BY <1>2, <1>3, <1>5, <1>6

\* A thread's main fiber that holds a job it does not execute.
LEMMA JobOfMain ==
  ASSUME IInv, NEW w \in Workers, cpu[w] = w, pc[w] \in {"switched", "delete"}
  PROVE  /\ target[w] \in Fibers
         /\ ~ Queued(target[w]) /\ ~ BeingMade(target[w])
         /\ \A m \in Workers : target[m] = target[w] => m = w
         /\ \A v \in Workers : cpu[v] # target[w]
<1>1. target[w] # NULL
  BY DEF IInv, MainPlaces
<1>2. target[w] \in Fibers
  BY <1>1 DEF IInv, Shape
<1>3. Popped(target[w])
  BY DEF Popped
<1>4. ~ Queued(target[w]) /\ ~ BeingMade(target[w])
  BY <1>2, <1>3 DEF IInv, HeldOnce
<1>5. \A m \in Workers : target[m] = target[w] => m = w
  BY <1>1 DEF IInv, HeldOnce
<1>6. \A v \in Workers : cpu[v] # target[w]
  BY <1>2, <1>5, SchedulerAssumption DEF IInv, ThreadLocalsAgree
<1> QED  BY <1>2, <1>4, <1>5, <1>6

-----------------------------------------------------------------------------
(* What a step leaves alone, and unallocated memory *)

\* A fiber_data that is not allocated is idle and has no counter.
LEMMA UnallocatedIsIdle ==
  /\ Unallocated \in FiberData
  /\ ~ Unallocated.asleep
  /\ ~ Unallocated.isComplete
  /\ Unallocated.counter = NULL
BY DEF Unallocated, FiberData, DeclPrio

\* The places a job is reached from.
LEMMA SameReach ==
  ASSUME HeldOnce, UNCHANGED <<queue, target, job>>
  PROVE  /\ HeldOnce'
         /\ \A f \in Fibers :
              /\ Queued(f)' <=> Queued(f)
              /\ Popped(f)' <=> Popped(f)
              /\ BeingMade(f)' <=> BeingMade(f)
<1>1. ASSUME NEW f \in Fibers
      PROVE  /\ Queued(f)' <=> Queued(f)
             /\ Popped(f)' <=> Popped(f)
             /\ BeingMade(f)' <=> BeingMade(f)
  BY DEF Queued, Popped, BeingMade
<1>2. HeldOnce'
  BY <1>1 DEF HeldOnce
<1> QED  BY <1>1, <1>2

\* The counters.
LEMMA SameCounters ==
  ASSUME CounterCountsJobs, m_cnt' = m_cnt,
         \A f \in Fibers : fdat'[f].counter = fdat[f].counter
  PROVE  CounterCountsJobs'
<1>1. \A c \in Counters : {f \in Fibers : fdat'[f].counter = c}
                        = {f \in Fibers : fdat[f].counter = c}
  OBVIOUS
<1> QED  BY <1>1 DEF CounterCountsJobs

-----------------------------------------------------------------------------
(* The invariant holds initially and is preserved by every action *)

LEMMA InitInv == Init => IInv
<1> SUFFICES ASSUME Init PROVE IInv
  OBVIOUS
<1>1. Shape
  BY SchedulerAssumption
  DEF Init, Shape, FiberData, Unallocated, DeclPrio, Prio, Contexts, Callers, MainPC, CallerPC
<1>2. \A p \in Prio : Len(queue[p]) = 0
  BY DEF Init
<1>3. \A f \in Fibers : ~ Queued(f) /\ ~ Popped(f) /\ ~ BeingMade(f)
  BY <1>2, SchedulerAssumption DEF Init, Queued, Popped, BeingMade
<1>4. HeldOnce
  BY <1>2, <1>3 DEF HeldOnce, Init
<1>5. \A f \in Fibers : pc[f] = "free" /\ fdat[f] = Unallocated
  BY SchedulerAssumption DEF Init, Contexts, Callers
<1>6. NeitherLostNorDangling
  BY <1>3, <1>5 DEF NeitherLostNorDangling
<1>7. ThreadLocalsAgree
  BY DEF Init, ThreadLocalsAgree
<1>8. CounterCountsJobs
  <2>1. \A c \in Counters : {f \in Fibers : fdat[f].counter = c} = {}
    BY <1>5, SchedulerAssumption DEF Unallocated
  <2> QED  BY <2>1, FS_EmptySet DEF CounterCountsJobs, Init
<1>9. MainPlaces
  BY SchedulerAssumption DEF Init, MainPlaces, Contexts
<1>10. JobPlaces
  BY <1>3, <1>5, UnallocatedIsIdle DEF JobPlaces
<1>11. CallerPlaces
  BY SchedulerAssumption DEF Init, CallerPlaces, Contexts, Callers
<1> QED  BY <1>1, <1>4, <1>6, <1>7, <1>8, <1>9, <1>10, <1>11 DEF IInv

LEMMA DoWorkInv ==
  ASSUME IInv, NEW w \in Workers, DoWork(w)
  PROVE  IInv'
<1>1. cpu[w] = w
  BY MainOfThread DEF DoWork
<1>2. Shape'
  BY <1>1, SchedulerAssumption DEF IInv, Shape, DoWork, Contexts, Callers, MainPC, Prio
<1>3. \A x \in Callers : pc'[x] = pc[x]
  BY <1>1, SchedulerAssumption DEF IInv, Shape, DoWork, Contexts, Callers
<1>5. /\ HeldOnce'
      /\ \A f \in Fibers :
           /\ Queued(f)' <=> Queued(f)
           /\ Popped(f)' <=> Popped(f)
           /\ BeingMade(f)' <=> BeingMade(f)
  BY SameReach DEF IInv, DoWork
<1>4. NeitherLostNorDangling' /\ JobPlaces' /\ CallerPlaces'
  BY <1>3, <1>5 DEF IInv, NeitherLostNorDangling, JobPlaces, CallerPlaces, DoWork, Callers
<1>8. ThreadLocalsAgree'
  BY <1>1 DEF IInv, Shape, ThreadLocalsAgree, DoWork
<1>6. CounterCountsJobs'
  BY SameCounters DEF IInv, DoWork
<1>7. MainPlaces'
  BY <1>1, <1>3, SchedulerAssumption
  DEF IInv, Shape, MainPlaces, DoWork, Contexts, Callers
<1> QED  BY <1>2, <1>4, <1>5, <1>6, <1>7, <1>8 DEF IInv

LEMMA PopEmptyInv ==
  ASSUME IInv, NEW w \in Workers, PopEmpty(w)
  PROVE  IInv'
<1>1. cpu[w] = w
  BY MainOfThread DEF PopEmpty
<1>2. pc[w] \in Prio /\ pc'[w] \in {"medium", "low", "loop"}
  BY <1>1 DEF IInv, Shape, PopEmpty, Contexts, Prio
<1>3. \A x \in Contexts : x # w => pc'[x] = pc[x]
  BY <1>1 DEF IInv, Shape, PopEmpty
<1>4. \A x \in Callers : pc'[x] = pc[x]
  BY <1>3, SchedulerAssumption DEF Contexts, Callers
<1>5. Shape'
  <2>1. pc' \in [Contexts -> MainPC \cup CallerPC]
    BY <1>1, <1>2 DEF IInv, Shape, PopEmpty, MainPC, Prio
  <2> QED  BY <1>2, <1>3, <1>4, <2>1 DEF IInv, Shape, PopEmpty, Contexts, MainPC, Prio
<1>6. /\ HeldOnce'
      /\ \A f \in Fibers :
           /\ Queued(f)' <=> Queued(f)
           /\ Popped(f)' <=> Popped(f)
           /\ BeingMade(f)' <=> BeingMade(f)
  BY SameReach DEF IInv, PopEmpty
<1>7. NeitherLostNorDangling' /\ JobPlaces' /\ CallerPlaces'
  BY <1>4, <1>6 DEF IInv, NeitherLostNorDangling, JobPlaces, CallerPlaces, PopEmpty, Callers
<1>8. ThreadLocalsAgree'
  BY DEF IInv, ThreadLocalsAgree, PopEmpty
<1>9. CounterCountsJobs'
  BY SameCounters DEF IInv, PopEmpty
<1>10. MainPlaces'
  <2>1. pc[w] \notin {"switched", "delete", "loop"}
    BY <1>2 DEF Prio
  <2>2. pc'[w] \notin {"switched", "delete"}
    BY <1>2
  <2>3. \A m \in Workers : m # w => pc'[m] = pc[m]
    BY <1>3 DEF Contexts
  <2>4. \A m \in Workers : cpu[m] # m => pc'[cpu[m]] = pc[cpu[m]]
    BY <1>4 DEF IInv, ThreadLocalsAgree, Callers
  <2>5. \A m \in Workers : target[m] # NULL => pc'[target[m]] = pc[target[m]]
    BY <1>4 DEF IInv, Shape, Callers
  <2>6. UNCHANGED <<fdat, current_main, cpu, target>>
    BY DEF PopEmpty
  <2> QED  BY <1>1, <2>1, <2>2, <2>3, <2>4, <2>5, <2>6 DEF IInv, MainPlaces
<1> QED  BY <1>5, <1>6, <1>7, <1>8, <1>9, <1>10 DEF IInv

LEMMA PopFrontInv ==
  ASSUME IInv, NEW w \in Workers, PopFront(w)
  PROVE  IInv'
<1>1. cpu[w] = w
  BY MainOfThread DEF PopFront
<1>2. PICK q \in Prio : q = pc[w] /\ queue[q] # <<>>
  BY <1>1 DEF PopFront
<1>3. QueuesDistinct /\ queue \in [Prio -> Seq(Fibers)]
  BY DEF IInv, HeldOnce, QueuesDistinct, Shape
<1>4. queue' = [queue EXCEPT ![q] = Tail(@)]
  BY <1>1, <1>2 DEF PopFront
<1>5. PICK t \in Fibers :
        /\ t = Head(queue[q])
        /\ Queued(t)
        /\ \A g \in Fibers : Queued(g)' <=> Queued(g) /\ g # t
        /\ queue' \in [Prio -> Seq(Fibers)]
        /\ QueuesDistinct'
  BY <1>2, <1>3, <1>4, PopRemoves
<1>6. /\ target' = [target EXCEPT ![w] = t]
      /\ active_fiber' = [active_fiber EXCEPT ![w] = t]
      /\ cpu' = [cpu EXCEPT ![w] = t]
      /\ pc' = [pc EXCEPT ![w] = "switched"]
      /\ UNCHANGED <<fdat, m_cnt, constructed, current_main, job, waiter, jobs>>
  BY <1>1, <1>2, <1>5 DEF PopFront, SwitchTo
<1>7. Shape'
  BY <1>5, <1>6, SchedulerAssumption DEF IInv, Shape, Contexts, Callers, MainPC
<1>8. \A x \in Callers : pc'[x] = pc[x]
  BY <1>6, SchedulerAssumption DEF IInv, Shape, Contexts, Callers
<1>9. target[w] = NULL
  BY <1>2 DEF IInv, MainPlaces, Prio
<1>10. ~ Popped(t) /\ ~ BeingMade(t) /\ t # NULL
  BY <1>5, SchedulerAssumption DEF IInv, HeldOnce
<1>11. ASSUME NEW f \in Fibers
       PROVE  /\ Popped(f)' <=> Popped(f) \/ f = t
              /\ BeingMade(f)' <=> BeingMade(f)
  <2>1. f # NULL
    BY SchedulerAssumption
  <2> QED  BY <1>6, <1>9, <2>1 DEF IInv, Shape, Popped, BeingMade
<1>12. HeldOnce'
  <2>1. \A m, n \in Workers : target'[m] = target'[n] /\ target'[m] # NULL => m = n
    BY <1>6, <1>10 DEF IInv, Shape, HeldOnce, Popped
  <2>2. \A x, y \in Callers : job'[x] = job'[y] /\ job'[x] # NULL => x = y
    BY <1>6 DEF IInv, HeldOnce
  <2>3. \A f \in Fibers :
           /\ ~(Queued(f)' /\ Popped(f)')
           /\ ~(Queued(f)' /\ BeingMade(f)')
           /\ ~(Popped(f)' /\ BeingMade(f)')
    BY <1>5, <1>10, <1>11 DEF IInv, HeldOnce
  <2> QED  BY <1>5, <2>1, <2>2, <2>3 DEF HeldOnce, QueuesDistinct
<1>13. NeitherLostNorDangling'
  BY <1>5, <1>8, <1>11 DEF IInv, NeitherLostNorDangling, Callers
<1>14. ThreadLocalsAgree'
  <2>1. \A v \in Workers : cpu[v] # t
    BY <1>10, SchedulerAssumption DEF IInv, ThreadLocalsAgree, Popped
  <2>2. current_main[w] = w
    BY <1>2 DEF IInv, MainPlaces, Prio
  <2> QED  BY <1>6, <2>1, <2>2 DEF IInv, Shape, ThreadLocalsAgree
<1>15. CounterCountsJobs'
  BY <1>6, SameCounters DEF IInv
<1>16. JobPlaces' /\ CallerPlaces'
  BY <1>5, <1>6, <1>8, <1>11 DEF IInv, JobPlaces, CallerPlaces, Callers
<1>17. MainPlaces'
  <2>1. pc[t] \in {"body", "waiting"}
    BY <1>5 DEF IInv, JobPlaces
  <2>2. \A m \in Workers :
           m # w => /\ pc'[m] = pc[m]
                    /\ target'[m] = target[m]
                    /\ cpu'[m] = cpu[m]
    BY <1>6 DEF IInv, Shape, Contexts
  <2>3. pc'[w] = "switched" /\ target'[w] = t /\ cpu'[w] = t
    BY <1>6 DEF IInv, Shape, Contexts
  <2>4. \A m \in Workers : cpu[m] # m => pc'[cpu[m]] = pc[cpu[m]]
    BY <1>8 DEF IInv, ThreadLocalsAgree, Callers
  <2>5. \A m \in Workers : target[m] # NULL => pc'[target[m]] = pc[target[m]]
    BY <1>8 DEF IInv, Shape, Callers
  <2>6. pc'[t] \in {"body", "waiting"} /\ t # w /\ t # NULL /\ current_main[w] = w
    BY <1>2, <1>8, <1>10, <2>1, SchedulerAssumption DEF IInv, MainPlaces, Prio, Callers
  <2> QED  BY <1>6, <2>2, <2>3, <2>4, <2>5, <2>6 DEF IInv, MainPlaces
<1> QED  BY <1>7, <1>12, <1>13, <1>14, <1>15, <1>16, <1>17 DEF IInv

LEMMA RescheduleInv ==
  ASSUME IInv, NEW w \in Workers, Reschedule(w)
  PROVE  IInv'
<1>1. cpu[w] = w /\ pc[w] = "switched"
  BY MainOfThread DEF Reschedule
<1>2. PICK t \in Fibers :
        /\ t = target[w]
        /\ ~ Queued(t) /\ ~ BeingMade(t)
        /\ \A m \in Workers : target[m] = t => m = w
        /\ \A v \in Workers : cpu[v] # t
  BY <1>1, JobOfMain
<1>3. /\ active_fiber' = [active_fiber EXCEPT ![w] = NULL]
      /\ target' = [target EXCEPT ![w] = NULL]
      /\ pc' = [pc EXCEPT ![w] = "high"]
      /\ Push(t)
      /\ UNCHANGED <<fdat, m_cnt, constructed, current_main, cpu, job, waiter, jobs>>
  BY <1>1, <1>2 DEF Reschedule
<1>4. ~ fdat[t].isComplete /\ ~ fdat[t].asleep /\ pc[t] \in {"body", "waiting"}
  BY <1>1, <1>2 DEF Reschedule, IInv, JobPlaces, MainPlaces
<1>5. QueuesDistinct /\ queue \in [Prio -> Seq(Fibers)]
  BY DEF IInv, HeldOnce, QueuesDistinct, Shape
<1>6. /\ queue' \in [Prio -> Seq(Fibers)]
      /\ QueuesDistinct'
      /\ \A g \in Fibers : Queued(g)' <=> Queued(g) \/ g = t
  BY <1>2, <1>3, <1>4, <1>5, PushAdds
<1>7. Shape'
  BY <1>3, <1>6, SchedulerAssumption DEF IInv, Shape, Contexts, Callers, MainPC, Prio
<1>8. \A x \in Callers : pc'[x] = pc[x]
  BY <1>3, SchedulerAssumption DEF IInv, Shape, Contexts, Callers
<1>9. ASSUME NEW f \in Fibers
      PROVE  /\ Popped(f)' <=> Popped(f) /\ f # t
             /\ BeingMade(f)' <=> BeingMade(f)
  <2>1. f # NULL
    BY SchedulerAssumption
  <2> QED  BY <1>2, <1>3, <2>1 DEF IInv, Shape, Popped, BeingMade
<1>10. HeldOnce'
  <2>1. \A m, n \in Workers : target'[m] = target'[n] /\ target'[m] # NULL => m = n
    BY <1>3 DEF IInv, Shape, HeldOnce
  <2>2. \A x, y \in Callers : job'[x] = job'[y] /\ job'[x] # NULL => x = y
    BY <1>3 DEF IInv, HeldOnce
  <2>3. \A f \in Fibers :
           /\ ~(Queued(f)' /\ Popped(f)')
           /\ ~(Queued(f)' /\ BeingMade(f)')
           /\ ~(Popped(f)' /\ BeingMade(f)')
    BY <1>2, <1>6, <1>9 DEF IInv, HeldOnce
  <2> QED  BY <1>6, <2>1, <2>2, <2>3 DEF HeldOnce, QueuesDistinct
<1>11. NeitherLostNorDangling'
  <2>1. Popped(t)
    BY <1>2 DEF Popped
  <2> QED  BY <1>6, <1>8, <1>9, <2>1 DEF IInv, NeitherLostNorDangling, Callers
<1>12. ThreadLocalsAgree'
  BY <1>1, <1>3, SchedulerAssumption DEF IInv, Shape, ThreadLocalsAgree
<1>13. CounterCountsJobs'
  BY <1>3, SameCounters DEF IInv
<1>14. JobPlaces' /\ CallerPlaces'
  BY <1>3, <1>4, <1>6, <1>8, <1>9 DEF IInv, JobPlaces, CallerPlaces, Callers
<1>15. MainPlaces'
  <2>1. \A m \in Workers :
           m # w => /\ pc'[m] = pc[m]
                    /\ target'[m] = target[m]
    BY <1>3 DEF IInv, Shape, Contexts
  <2>2. pc'[w] = "high" /\ target'[w] = NULL /\ current_main[w] = w
    BY <1>1, <1>3 DEF IInv, Shape, MainPlaces, Contexts
  <2>3. \A m \in Workers : cpu[m] # m => pc'[cpu[m]] = pc[cpu[m]]
    BY <1>8 DEF IInv, ThreadLocalsAgree, Callers
  <2>4. \A m \in Workers : target[m] # NULL => pc'[target[m]] = pc[target[m]]
    BY <1>8 DEF IInv, Shape, Callers
  <2> QED  BY <1>1, <1>3, <2>1, <2>2, <2>3, <2>4 DEF IInv, MainPlaces
<1> QED  BY <1>7, <1>10, <1>11, <1>12, <1>13, <1>14, <1>15 DEF IInv

\* The decrement and the reset of the job's counter pointer belong together:
\* between them a counter would be one too small.
LEMMA CompleteInv ==
  ASSUME IInv, NEW w \in Workers, Complete(w)
  PROVE  IInv'
<1>1. cpu[w] = w /\ pc[w] = "switched"
  BY MainOfThread DEF Complete
<1>2. PICK t \in Fibers :
        /\ t = target[w]
        /\ ~ Queued(t) /\ ~ BeingMade(t)
        /\ \A m \in Workers : target[m] = t => m = w
        /\ \A v \in Workers : cpu[v] # t
  BY <1>1, JobOfMain
<1>3. PICK c \in Counters \cup {NULL} : c = fdat[t].counter
  BY DEF IInv, Shape, FiberData
<1>4. /\ active_fiber' = [active_fiber EXCEPT ![w] = NULL]
      /\ fdat' = [fdat EXCEPT ![t].counter = NULL]
      /\ pc' = [pc EXCEPT ![w] = "delete"]
      /\ Decrement(c)
      /\ UNCHANGED <<queue, constructed, current_main, cpu, target, job, waiter, jobs>>
  BY <1>1, <1>2, <1>3 DEF Complete
<1>5. fdat[t].isComplete /\ pc[t] = "returned"
  BY <1>1, <1>2 DEF Complete, IInv, JobPlaces
<1>6. /\ \A f \in Fibers : f # t => fdat'[f] = fdat[f]
      /\ fdat'[t] \in FiberData
      /\ fdat'[t].counter = NULL
      /\ fdat'[t].isComplete
      /\ ~ fdat'[t].asleep
  <2>1. fdat[t] \in FiberData /\ ~ fdat[t].asleep
    BY DEF IInv, Shape, JobPlaces
  <2>2. /\ \A f \in Fibers : f # t => fdat'[f] = fdat[f]
        /\ fdat'[t] = [fdat[t] EXCEPT !.counter = NULL]
    BY <1>4 DEF IInv, Shape
  <2> QED  BY <1>5, <2>1, <2>2 DEF FiberData
<1>7. \A f \in Fibers : f # t => fdat'[f].counter = fdat[f].counter
  BY <1>6
<1>8. m_cnt' \in [Counters -> Int]
  BY <1>4 DEF Decrement, IInv, Shape
<1>9. Shape'
  BY <1>4, <1>6, <1>8, SchedulerAssumption DEF IInv, Shape, Contexts, Callers, MainPC, Prio
<1>10. \A x \in Callers : pc'[x] = pc[x]
  BY <1>4, SchedulerAssumption DEF IInv, Shape, Contexts, Callers
<1>11. /\ HeldOnce'
       /\ \A f \in Fibers :
            /\ Queued(f)' <=> Queued(f)
            /\ Popped(f)' <=> Popped(f)
            /\ BeingMade(f)' <=> BeingMade(f)
  BY <1>4, SameReach DEF IInv
<1>12. NeitherLostNorDangling'
  BY <1>10, <1>11 DEF IInv, NeitherLostNorDangling, Callers
<1>13. ThreadLocalsAgree'
  BY <1>1, <1>4, SchedulerAssumption DEF IInv, Shape, ThreadLocalsAgree
<1>14. CounterCountsJobs'
  <2> SUFFICES ASSUME NEW d \in Counters
               PROVE  m_cnt'[d] = Cardinality({f \in Fibers : fdat'[f].counter = d})
    BY DEF CounterCountsJobs
  <2> d # NULL
    BY SchedulerAssumption
  <2>1. CASE d = c
    <3>1. {f \in Fibers : fdat'[f].counter = d}
            = {f \in Fibers : fdat[f].counter = d} \ {t}
      BY <1>3, <1>6, <1>7
    <3>2. IsFiniteSet({f \in Fibers : fdat[f].counter = d})
      BY FS_Subset, SchedulerAssumption
    <3>3. t \in {f \in Fibers : fdat[f].counter = d}
      BY <1>3, <2>1
    <3>4. Cardinality({f \in Fibers : fdat[f].counter = d} \ {t})
            = Cardinality({f \in Fibers : fdat[f].counter = d}) - 1
      BY <3>2, <3>3, FS_RemoveElement
    <3>5. m_cnt'[d] = m_cnt[d] - 1
      BY <1>4, <2>1 DEF Decrement, IInv, Shape
    <3> QED  BY <3>1, <3>4, <3>5 DEF IInv, CounterCountsJobs
  <2>2. CASE d # c
    <3>1. {f \in Fibers : fdat'[f].counter = d} = {f \in Fibers : fdat[f].counter = d}
      BY <1>3, <1>6, <1>7, <2>2
    <3>2. m_cnt'[d] = m_cnt[d]
      BY <1>4, <2>2 DEF Decrement, IInv, Shape
    <3> QED  BY <3>1, <3>2 DEF IInv, CounterCountsJobs
  <2> QED  BY <2>1, <2>2
<1>15. JobPlaces' /\ CallerPlaces'
  BY <1>4, <1>5, <1>6, <1>10, <1>11 DEF IInv, JobPlaces, CallerPlaces, Callers
<1>16. MainPlaces'
  <2>1. \A m \in Workers : m # w => pc'[m] = pc[m]
    BY <1>4 DEF IInv, Shape, Contexts
  <2>2. pc'[w] = "delete" /\ current_main[w] = w
    BY <1>1, <1>4 DEF IInv, Shape, MainPlaces, Contexts
  <2>3. \A m \in Workers : cpu[m] # m => pc'[cpu[m]] = pc[cpu[m]]
    BY <1>10 DEF IInv, ThreadLocalsAgree, Callers
  <2>4. \A m \in Workers : target[m] # NULL => pc'[target[m]] = pc[target[m]]
    BY <1>10 DEF IInv, Shape, Callers
  <2>5. \A m \in Workers : m # w /\ target[m] # NULL => fdat'[target[m]] = fdat[target[m]]
    BY <1>2, <1>6 DEF IInv, Shape
  <2>6. pc'[t] = "returned"
    BY <1>5, <1>10 DEF Callers
  <2> QED
    BY <1>1, <1>2, <1>4, <1>6, <2>1, <2>2, <2>3, <2>4, <2>5, <2>6 DEF IInv, MainPlaces
<1> QED  BY <1>9, <1>11, <1>12, <1>13, <1>14, <1>15, <1>16 DEF IInv

LEMMA DeleteFiberInv ==
  ASSUME IInv, NEW w \in Workers, DeleteFiber(w)
  PROVE  IInv'
<1>1. cpu[w] = w /\ pc[w] = "delete"
  BY MainOfThread DEF DeleteFiber
<1>2. PICK t \in Fibers :
        /\ t = target[w]
        /\ ~ Queued(t) /\ ~ BeingMade(t)
        /\ \A m \in Workers : target[m] = t => m = w
        /\ \A v \in Workers : cpu[v] # t
  BY <1>1, JobOfMain
<1>3. /\ fdat' = [fdat EXCEPT ![t] = Unallocated]
      /\ target' = [target EXCEPT ![w] = NULL]
      /\ pc' = [pc EXCEPT ![t] = "free", ![w] = "high"]
      /\ UNCHANGED <<queue, m_cnt, constructed, current_main, active_fiber, cpu, job,
                     waiter, jobs>>
  BY <1>1, <1>2 DEF DeleteFiber
<1>4. pc[t] = "returned" /\ fdat[t].counter = NULL
  BY <1>1, <1>2 DEF IInv, MainPlaces
<1>5. t # w /\ t # NULL
  BY SchedulerAssumption
<1>6. /\ pc'[t] = "free" /\ pc'[w] = "high"
      /\ \A x \in Contexts : x # t /\ x # w => pc'[x] = pc[x]
  BY <1>3, <1>5 DEF IInv, Shape, Contexts, Callers
<1>7. \A x \in Callers : x # t => pc'[x] = pc[x]
  BY <1>6, SchedulerAssumption DEF Contexts, Callers
<1>8. /\ \A f \in Fibers : f # t => fdat'[f] = fdat[f]
      /\ fdat'[t] = Unallocated
  BY <1>3 DEF IInv, Shape
<1>9. Shape'
  <2>1. pc' \in [Contexts -> MainPC \cup CallerPC]
    BY <1>3 DEF IInv, Shape, MainPC, CallerPC, Prio
  <2>2. fdat' \in [Fibers -> FiberData]
    BY <1>3, UnallocatedIsIdle DEF IInv, Shape
  <2>3. \A m \in Workers : pc'[m] \in MainPC
    BY <1>6, SchedulerAssumption DEF IInv, Shape, Contexts, MainPC, Prio
  <2>4. \A x \in Callers : pc'[x] \in CallerPC
    BY <1>6, <1>7 DEF IInv, Shape, CallerPC
  <2> QED  BY <1>3, <2>1, <2>2, <2>3, <2>4 DEF IInv, Shape
<1>10. ASSUME NEW f \in Fibers
       PROVE  /\ Queued(f)' <=> Queued(f)
              /\ Popped(f)' <=> Popped(f) /\ f # t
              /\ BeingMade(f)' <=> BeingMade(f)
  <2>1. f # NULL
    BY SchedulerAssumption
  <2> QED  BY <1>2, <1>3, <2>1 DEF IInv, Shape, Queued, Popped, BeingMade
<1>11. HeldOnce'
  <2>1. \A m, n \in Workers : target'[m] = target'[n] /\ target'[m] # NULL => m = n
    BY <1>3 DEF IInv, Shape, HeldOnce
  <2> QED  BY <1>3, <1>10, <2>1 DEF IInv, HeldOnce
<1>12. NeitherLostNorDangling'
  BY <1>2, <1>6, <1>7, <1>10 DEF IInv, NeitherLostNorDangling, Callers
<1>13. ThreadLocalsAgree'
  BY <1>1, <1>3, SchedulerAssumption DEF IInv, Shape, ThreadLocalsAgree
<1>14. CounterCountsJobs'
  BY <1>3, <1>4, <1>8, SameCounters, UnallocatedIsIdle DEF IInv
<1>15. JobPlaces'
  BY <1>2, <1>6, <1>7, <1>8, <1>10, UnallocatedIsIdle DEF IInv, JobPlaces, Callers
<1>16. CallerPlaces'
  BY <1>3, <1>4, <1>6, <1>7 DEF IInv, CallerPlaces, Callers
<1>17. MainPlaces'
  <2>1. \A m \in Workers : m # w => pc'[m] = pc[m] /\ target'[m] = target[m]
    BY <1>3, <1>6, SchedulerAssumption DEF IInv, Shape, Contexts
  <2>2. target'[w] = NULL /\ current_main[w] = w
    BY <1>1, <1>3 DEF IInv, Shape, MainPlaces
  <2>3. \A m \in Workers : cpu[m] # m => pc'[cpu[m]] = pc[cpu[m]]
    BY <1>2, <1>7 DEF IInv, ThreadLocalsAgree, Callers
  <2>4. \A m \in Workers : m # w /\ target[m] # NULL =>
            pc'[target[m]] = pc[target[m]] /\ fdat'[target[m]] = fdat[target[m]]
    BY <1>2, <1>7, <1>8 DEF IInv, Shape, Callers
  <2>5. UNCHANGED <<cpu, current_main>> /\ pc'[w] = "high"
    BY <1>3, <1>6
  <2>6. MainPlaces
    BY DEF IInv
  <2> QED  BY <1>1, <2>1, <2>2, <2>3, <2>4, <2>5, <2>6 DEF MainPlaces
<1> QED  BY <1>9, <1>11, <1>12, <1>13, <1>14, <1>15, <1>16, <1>17 DEF IInv

LEMMA YieldInv ==
  ASSUME IInv, NEW w \in Workers, Yield(w) \/ WaitPoll(w)
  PROVE  IInv'
<1>1. PICK f \in Fibers : f = cpu[w]
  BY DEF Yield, WaitPoll
<1>2. /\ pc[f] \in {"body", "waiting"}
      /\ SwitchToMain(w)
      /\ UNCHANGED <<queue, fdat, m_cnt, constructed, current_main, active_fiber, pc,
                     target, job, waiter, jobs>>
  BY <1>1 DEF Yield, WaitPoll
<1>3. /\ target[w] = f /\ current_main[w] = w
      /\ pc[w] = "switched" /\ w # f
  BY <1>1, JobOfThread, SchedulerAssumption
<1>4. cpu' = [cpu EXCEPT ![w] = w]
  BY <1>2, <1>3 DEF SwitchToMain, SwitchTo
<1>5. Shape'
  BY <1>2, <1>4 DEF IInv, Shape
<1>6. /\ HeldOnce'
      /\ \A g \in Fibers :
           /\ Queued(g)' <=> Queued(g)
           /\ Popped(g)' <=> Popped(g)
           /\ BeingMade(g)' <=> BeingMade(g)
  BY <1>2, SameReach DEF IInv
<1>7. NeitherLostNorDangling' /\ JobPlaces' /\ CallerPlaces'
  BY <1>2, <1>6 DEF IInv, NeitherLostNorDangling, JobPlaces, CallerPlaces
<1>8. CounterCountsJobs'
  BY <1>2, SameCounters DEF IInv
<1>9. ThreadLocalsAgree'
  BY <1>2, <1>4, SchedulerAssumption DEF IInv, Shape, ThreadLocalsAgree
<1>10. MainPlaces'
  <2>1. cpu'[w] = w /\ \A m \in Workers : m # w => cpu'[m] = cpu[m]
    BY <1>4 DEF IInv, Shape
  <2> QED  BY <1>2, <1>3, <2>1 DEF IInv, MainPlaces
<1> QED  BY <1>5, <1>6, <1>7, <1>8, <1>9, <1>10 DEF IInv

LEMMA ReturnInv ==
  ASSUME IInv, NEW w \in Workers, Return(w)
  PROVE  IInv'
<1>1. PICK f \in Fibers : f = cpu[w]
  BY DEF Return
<1>2. /\ pc[f] = "body"
      /\ SwitchToMain(w)
      /\ fdat' = [fdat EXCEPT ![f].isComplete = TRUE]
      /\ waiter' = [waiter EXCEPT ![f] = NULL]
      /\ pc' = [pc EXCEPT ![f] = "returned"]
      /\ UNCHANGED <<queue, m_cnt, constructed, current_main, active_fiber, target,
                     job, jobs>>
  BY <1>1 DEF Return
<1>3. /\ target[w] = f /\ current_main[w] = w
      /\ pc[w] = "switched" /\ w # f
      /\ ~ Queued(f) /\ ~ BeingMade(f)
      /\ \A m \in Workers : target[m] = f => m = w
  BY <1>1, JobOfThread, SchedulerAssumption
<1>4. cpu' = [cpu EXCEPT ![w] = w]
  BY <1>2, <1>3 DEF SwitchToMain, SwitchTo
<1>5. /\ pc'[f] = "returned"
      /\ \A x \in Contexts : x # f => pc'[x] = pc[x]
  BY <1>2 DEF IInv, Shape, Contexts, Callers
<1>6. /\ \A g \in Fibers : g # f => fdat'[g] = fdat[g]
      /\ \A g \in Fibers : fdat'[g].counter = fdat[g].counter
      /\ fdat' \in [Fibers -> FiberData]
      /\ fdat'[f].isComplete
      /\ ~ fdat'[f].asleep
  <2>1. fdat[f] \in FiberData /\ ~ fdat[f].asleep
    BY DEF IInv, Shape, JobPlaces
  <2>2. PICK d \in FiberData : d = [fdat[f] EXCEPT !.isComplete = TRUE]
    BY <2>1 DEF FiberData
  <2>3. d.counter = fdat[f].counter /\ d.asleep = fdat[f].asleep /\ d.isComplete = TRUE
    BY <2>1, <2>2 DEF FiberData
  <2>4. fdat' = [fdat EXCEPT ![f] = d]
    BY <1>2, <2>2
  <2>5. fdat'[f] = d /\ \A g \in Fibers : g # f => fdat'[g] = fdat[g]
    BY <2>4 DEF IInv, Shape
  <2>6. fdat' \in [Fibers -> FiberData]
    BY <2>4 DEF IInv, Shape
  <2>7. \A g \in Fibers : fdat'[g].counter = fdat[g].counter
    BY <2>3, <2>5
  <2>8. fdat'[f].isComplete /\ ~ fdat'[f].asleep
    BY <2>1, <2>3, <2>5
  <2> QED  BY <2>5, <2>6, <2>7, <2>8
<1>7. Shape'
  <2>1. pc' \in [Contexts -> MainPC \cup CallerPC]
    BY <1>2 DEF IInv, Shape, CallerPC
  <2>2. \A m \in Workers : pc'[m] \in MainPC
    BY <1>5, SchedulerAssumption DEF IInv, Shape, Contexts
  <2>3. \A x \in Callers : pc'[x] \in CallerPC
    BY <1>5 DEF IInv, Shape, Contexts, CallerPC
  <2> QED  BY <1>2, <1>4, <1>6, <2>1, <2>2, <2>3 DEF IInv, Shape
<1>8. /\ HeldOnce'
      /\ \A g \in Fibers :
           /\ Queued(g)' <=> Queued(g)
           /\ Popped(g)' <=> Popped(g)
           /\ BeingMade(g)' <=> BeingMade(g)
  BY <1>2, SameReach DEF IInv
<1>9. NeitherLostNorDangling'
  BY <1>2, <1>5, <1>8 DEF IInv, NeitherLostNorDangling, Contexts, Callers
<1>10. JobPlaces'
  BY <1>3, <1>5, <1>6, <1>8 DEF IInv, JobPlaces, Contexts, Callers
<1>11. CallerPlaces'
  BY <1>2, <1>5, SchedulerAssumption DEF IInv, Shape, CallerPlaces, Contexts, Callers
<1>12. CounterCountsJobs'
  BY <1>2, <1>6, SameCounters DEF IInv
<1>13. ThreadLocalsAgree'
  BY <1>2, <1>4, SchedulerAssumption DEF IInv, Shape, ThreadLocalsAgree
<1>14. MainPlaces'
  <2>1. \A m \in Workers : pc'[m] = pc[m]
    BY <1>5, SchedulerAssumption DEF Contexts
  <2>2. \A m \in Workers : m # w => cpu'[m] = cpu[m] /\ cpu[m] # f
    BY <1>1, <1>4 DEF IInv, Shape, ThreadLocalsAgree
  <2>3. \A m \in Workers : cpu[m] # m /\ m # w => pc'[cpu[m]] = pc[cpu[m]]
    BY <1>5, <2>2 DEF IInv, ThreadLocalsAgree, Contexts, Callers
  <2>4. \A m \in Workers : m # w /\ target[m] # NULL =>
            pc'[target[m]] = pc[target[m]] /\ fdat'[target[m]] = fdat[target[m]]
    BY <1>3, <1>5, <1>6 DEF IInv, Shape, Contexts, Callers
  <2>5. cpu'[w] = w
    BY <1>4 DEF IInv, Shape
  <2> QED  BY <1>2, <1>3, <1>5, <2>1, <2>2, <2>3, <2>4, <2>5 DEF IInv, MainPlaces
<1> QED  BY <1>7, <1>8, <1>9, <1>10, <1>11, <1>12, <1>13, <1>14 DEF IInv

LEMMA ScheduleInv ==
  ASSUME IInv, NEW x \in Callers, Schedule(x)
  PROVE  IInv'
<1>1. PICK f \in Fibers : f = job[x] /\ BeingMade(f)
  <2>1. job[x] # NULL
    BY DEF Schedule, IInv, CallerPlaces
  <2> QED  BY <2>1 DEF IInv, Shape, BeingMade
<1>2. /\ pc[x] = "schedule"
      /\ Push(f)
      /\ job' = [job EXCEPT ![x] = NULL]
      /\ pc' = [pc EXCEPT ![x] = "body"]
      /\ UNCHANGED <<fdat, m_cnt, constructed, current_main, active_fiber, cpu,
                     target, waiter, jobs>>
  BY <1>1 DEF Schedule
<1>3. pc[f] = "body" /\ ~ fdat[f].asleep /\ ~ Queued(f) /\ ~ Popped(f)
  BY <1>1 DEF IInv, JobPlaces, HeldOnce
<1>4. QueuesDistinct /\ queue \in [Prio -> Seq(Fibers)]
  BY DEF IInv, HeldOnce, QueuesDistinct, Shape
<1>5. /\ queue' \in [Prio -> Seq(Fibers)]
      /\ QueuesDistinct'
      /\ \A g \in Fibers : Queued(g)' <=> Queued(g) \/ g = f
  BY <1>2, <1>3, <1>4, PushAdds
<1>6. /\ x \in Contexts /\ x # f
      /\ pc'[x] = "body"
      /\ \A y \in Contexts : y # x => pc'[y] = pc[y]
  BY <1>2, <1>3 DEF IInv, Shape, Contexts
<1>7. \A m \in Workers : pc'[m] = pc[m]
  BY <1>6, SchedulerAssumption DEF Contexts, Callers
<1>8. Shape'
  <2>1. pc' \in [Contexts -> MainPC \cup CallerPC]
    BY <1>2 DEF IInv, Shape, CallerPC
  <2>2. \A y \in Callers : pc'[y] \in CallerPC
    BY <1>6 DEF IInv, Shape, Contexts, CallerPC
  <2> QED  BY <1>2, <1>5, <1>7, <2>1, <2>2 DEF IInv, Shape
<1>9. ASSUME NEW g \in Fibers
      PROVE  /\ Popped(g)' <=> Popped(g)
             /\ BeingMade(g)' <=> BeingMade(g) /\ g # f
  <2>1. g # NULL
    BY SchedulerAssumption
  <2>2. \A y \in Callers : job[y] = f => y = x
    BY <1>1, SchedulerAssumption DEF IInv, HeldOnce
  <2> QED  BY <1>1, <1>2, <2>1, <2>2 DEF IInv, Shape, Popped, BeingMade
<1>10. HeldOnce'
  <2>1. \A y, z \in Callers : job'[y] = job'[z] /\ job'[y] # NULL => y = z
    BY <1>2 DEF IInv, Shape, HeldOnce
  <2>2. \A m, n \in Workers : target'[m] = target'[n] /\ target'[m] # NULL => m = n
    BY <1>2 DEF IInv, HeldOnce
  <2>3. \A g \in Fibers :
           /\ ~(Queued(g)' /\ Popped(g)')
           /\ ~(Queued(g)' /\ BeingMade(g)')
           /\ ~(Popped(g)' /\ BeingMade(g)')
    BY <1>3, <1>5, <1>9 DEF IInv, HeldOnce
  <2> QED  BY <1>5, <2>1, <2>2, <2>3 DEF HeldOnce, QueuesDistinct
<1>11. NeitherLostNorDangling'
  <2>1. \A g \in Fibers : pc'[g] = "free" <=> pc[g] = "free"
    BY <1>2, <1>6 DEF Contexts, Callers
  <2> QED  BY <1>1, <1>5, <1>9, <2>1 DEF IInv, NeitherLostNorDangling
<1>12. ThreadLocalsAgree'
  BY <1>2 DEF IInv, ThreadLocalsAgree
<1>13. CounterCountsJobs'
  BY <1>2, SameCounters DEF IInv
<1>14. JobPlaces'
  BY <1>2, <1>3, <1>5, <1>6, <1>9 DEF IInv, JobPlaces, Contexts, Callers
<1>15. CallerPlaces'
  BY <1>2, <1>6 DEF IInv, Shape, CallerPlaces, Contexts
<1>16. MainPlaces'
  <2>1. \A m \in Workers : cpu[m] # m =>
            pc'[cpu[m]] \in {pc[cpu[m]], "body"}
    BY <1>6 DEF IInv, ThreadLocalsAgree, Contexts, Callers
  <2>2. \A m \in Workers : target[m] # NULL => \/ pc'[target[m]] = pc[target[m]]
                                               \/ target[m] = x
    BY <1>6 DEF IInv, Shape, Contexts, Callers
  <2> QED  BY <1>2, <1>6, <1>7, <2>1, <2>2 DEF IInv, MainPlaces
<1> QED  BY <1>8, <1>10, <1>11, <1>12, <1>13, <1>14, <1>15, <1>16 DEF IInv

LEMMA WaitInv ==
  ASSUME IInv, NEW x \in Callers, StartWait(x) \/ WaitDone(x)
  PROVE  IInv'
<1>1. PICK l \in {"body", "waiting"} : pc' = [pc EXCEPT ![x] = l]
  BY DEF StartWait, WaitDone
<1>2. /\ Executing(x)
      /\ pc[x] \in {"body", "waiting"}
      /\ waiter[x] # NULL
      /\ UNCHANGED <<queue, fdat, m_cnt, constructed, current_main, active_fiber, cpu,
                     target, job, waiter, jobs>>
  BY DEF StartWait, WaitDone, IInv, CallerPlaces
<1>3. /\ x \in Contexts
      /\ pc'[x] = l
      /\ \A y \in Contexts : y # x => pc'[y] = pc[y]
  BY <1>1 DEF IInv, Shape, Contexts
<1>4. \A m \in Workers : pc'[m] = pc[m]
  BY <1>3, SchedulerAssumption DEF Contexts, Callers
<1>5. x \in Fibers => ~ BeingMade(x)
  <2> SUFFICES ASSUME x \in Fibers PROVE ~ BeingMade(x)
    OBVIOUS
  <2>1. PICK w \in Workers : cpu[w] = x
    BY <1>2, SchedulerAssumption DEF Executing
  <2> QED  BY <2>1, JobOfThread
<1>6. Shape'
  <2>1. pc' \in [Contexts -> MainPC \cup CallerPC]
    BY <1>1 DEF IInv, Shape, CallerPC
  <2>2. \A y \in Callers : pc'[y] \in CallerPC
    BY <1>3 DEF IInv, Shape, Contexts, CallerPC
  <2> QED  BY <1>2, <1>4, <2>1, <2>2 DEF IInv, Shape
<1>7. /\ HeldOnce'
      /\ \A g \in Fibers :
           /\ Queued(g)' <=> Queued(g)
           /\ Popped(g)' <=> Popped(g)
           /\ BeingMade(g)' <=> BeingMade(g)
  BY <1>2, SameReach DEF IInv
<1>8. NeitherLostNorDangling'
  BY <1>2, <1>3, <1>7 DEF IInv, NeitherLostNorDangling, Contexts, Callers
<1>9. ThreadLocalsAgree'
  BY <1>2 DEF IInv, ThreadLocalsAgree
<1>10. CounterCountsJobs'
  BY <1>2, SameCounters DEF IInv
<1>11. JobPlaces'
  BY <1>2, <1>3, <1>5, <1>7 DEF IInv, JobPlaces, Contexts, Callers
<1>12. CallerPlaces'
  BY <1>2, <1>3 DEF IInv, CallerPlaces, Contexts
<1>13. MainPlaces'
  <2>1. \A m \in Workers : cpu[m] # m =>
            \/ pc'[cpu[m]] = pc[cpu[m]]
            \/ pc'[cpu[m]] \in {"body", "waiting"}
    BY <1>3 DEF IInv, ThreadLocalsAgree, Contexts, Callers
  <2>2. \A m \in Workers : target[m] # NULL =>
            \/ pc'[target[m]] = pc[target[m]]
            \/ target[m] = x
    BY <1>3 DEF IInv, Shape, Contexts, Callers
  <2> QED  BY <1>2, <1>3, <1>4, <2>1, <2>2 DEF IInv, MainPlaces
<1> QED  BY <1>6, <1>7, <1>8, <1>9, <1>10, <1>11, <1>12, <1>13 DEF IInv

LEMMA RunJobInv ==
  ASSUME IInv, NEW x \in Callers, NEW p \in DeclPrio, NEW counted \in BOOLEAN,
         RunJob(x, p, counted)
  PROVE  IInv'
<1>1. PICK f \in Fibers, c \in Counters \cup {NULL} :
        /\ pc[f] = "free"
        /\ counted => c # NULL
        /\ constructed' = constructed \cup ({c} \ {NULL})
        /\ Increment(c)
        /\ fdat' = [fdat EXCEPT ![f] = [prio |-> p, counter |-> c,
                                       isComplete |-> FALSE, asleep |-> FALSE]]
        /\ waiter' = [waiter EXCEPT ![x] = IF counted THEN c ELSE @, ![f] = NULL]
        /\ job' = [job EXCEPT ![x] = f]
        /\ pc' = [pc EXCEPT ![x] = "schedule", ![f] = "body"]
  BY DEF RunJob
<1>2. /\ Executing(x)
      /\ pc[x] = "body"
      /\ CountJob(x, counted)
      /\ UNCHANGED <<queue, current_main, active_fiber, cpu, target>>
  BY DEF RunJob
<1>3. /\ ~ Queued(f) /\ ~ Popped(f) /\ ~ BeingMade(f)
      /\ fdat[f].counter = NULL
      /\ f # x /\ f # NULL
  BY <1>1, <1>2, UnallocatedIsIdle, SchedulerAssumption
  DEF IInv, NeitherLostNorDangling, JobPlaces
<1>4. x \in Fibers => ~ Queued(x) /\ ~ BeingMade(x)
  <2> SUFFICES ASSUME x \in Fibers PROVE ~ Queued(x) /\ ~ BeingMade(x)
    OBVIOUS
  <2>1. PICK w \in Workers : cpu[w] = x
    BY <1>2, SchedulerAssumption DEF Executing
  <2> QED  BY <2>1, JobOfThread
<1>5. job[x] = NULL
  BY <1>2 DEF IInv, CallerPlaces
<1>6. /\ x \in Contexts /\ f \in Contexts
      /\ pc'[x] = "schedule" /\ pc'[f] = "body"
      /\ \A y \in Contexts : y # x /\ y # f => pc'[y] = pc[y]
  BY <1>1, <1>3 DEF IInv, Shape, Contexts, Callers
<1>7. \A m \in Workers : pc'[m] = pc[m]
  BY <1>6, SchedulerAssumption DEF Contexts, Callers
<1>8. PICK d \in FiberData :
        /\ fdat' = [fdat EXCEPT ![f] = d]
        /\ d.counter = c
        /\ ~ d.isComplete
        /\ ~ d.asleep
  <2>1. [prio |-> p, counter |-> c, isComplete |-> FALSE, asleep |-> FALSE] \in FiberData
    BY DEF FiberData
  <2> QED  BY <1>1, <2>1
<1>9. /\ fdat' \in [Fibers -> FiberData]
      /\ fdat'[f] = d
      /\ \A g \in Fibers : g # f => fdat'[g] = fdat[g]
  BY <1>8 DEF IInv, Shape
<1>10. waiter' \in [Callers -> constructed' \cup {NULL}]
  <2>1. c \in constructed' \cup {NULL}
    BY <1>1
  <2>2. waiter \in [Callers -> constructed' \cup {NULL}]
    BY <1>1 DEF IInv, Shape
  <2>3. (IF counted THEN c ELSE waiter[x]) \in constructed' \cup {NULL}
    BY <2>1, <2>2
  <2> QED  BY <1>1, <2>2, <2>3
<1>11. Shape'
  <2>1. pc' \in [Contexts -> MainPC \cup CallerPC]
    BY <1>1 DEF IInv, Shape, CallerPC
  <2>2. \A y \in Callers : pc'[y] \in CallerPC
    BY <1>6 DEF IInv, Shape, Contexts, CallerPC
  <2>3. m_cnt' \in [Counters -> Int]
    BY <1>1 DEF Increment, IInv, Shape
  <2>4. constructed' \subseteq Counters
    BY <1>1 DEF IInv, Shape
  <2>5. job' \in [Callers -> Fibers \cup {NULL}]
    BY <1>1 DEF IInv, Shape
  <2>6. jobs' \in 0 .. MaxJobs
    BY <1>2, SchedulerAssumption DEF CountJob, IInv, Shape
  <2> QED
    BY <1>2, <1>7, <1>9, <1>10, <2>1, <2>2, <2>3, <2>4, <2>5, <2>6 DEF IInv, Shape
<1>12. ASSUME NEW g \in Fibers
       PROVE  /\ Queued(g)' <=> Queued(g)
              /\ Popped(g)' <=> Popped(g)
              /\ BeingMade(g)' <=> BeingMade(g) \/ g = f
  <2>1. g # NULL
    BY SchedulerAssumption
  <2> QED  BY <1>1, <1>2, <1>5, <2>1 DEF IInv, Shape, Queued, Popped, BeingMade
<1>13. HeldOnce'
  <2>1. \A y, z \in Callers : job'[y] = job'[z] /\ job'[y] # NULL => y = z
    BY <1>1, <1>3 DEF IInv, Shape, HeldOnce, BeingMade
  <2>2. \A m, n \in Workers : target'[m] = target'[n] /\ target'[m] # NULL => m = n
    BY <1>2 DEF IInv, HeldOnce
  <2>3. \A g \in Fibers :
           /\ ~(Queued(g)' /\ Popped(g)')
           /\ ~(Queued(g)' /\ BeingMade(g)')
           /\ ~(Popped(g)' /\ BeingMade(g)')
    BY <1>3, <1>12 DEF IInv, HeldOnce
  <2> QED  BY <1>2, <2>1, <2>2, <2>3 DEF IInv, HeldOnce
<1>14. NeitherLostNorDangling'
  <2>1. \A g \in Fibers : g # f => (pc'[g] = "free" <=> pc[g] = "free")
    BY <1>2, <1>6 DEF Contexts, Callers
  <2> QED  BY <1>6, <1>12, <2>1 DEF IInv, NeitherLostNorDangling
<1>15. ThreadLocalsAgree'
  BY <1>2 DEF IInv, ThreadLocalsAgree
<1>16. CounterCountsJobs'
  <2> SUFFICES ASSUME NEW e \in Counters
               PROVE  m_cnt'[e] = Cardinality({g \in Fibers : fdat'[g].counter = e})
    BY DEF CounterCountsJobs
  <2> e # NULL
    BY SchedulerAssumption
  <2>1. CASE e = c
    <3>1. {g \in Fibers : fdat'[g].counter = e}
            = {g \in Fibers : fdat[g].counter = e} \cup {f}
      BY <1>8, <1>9, <2>1
    <3>2. IsFiniteSet({g \in Fibers : fdat[g].counter = e})
      BY FS_Subset, SchedulerAssumption
    <3>3. f \notin {g \in Fibers : fdat[g].counter = e}
      BY <1>3
    <3>4. Cardinality({g \in Fibers : fdat[g].counter = e} \cup {f})
            = Cardinality({g \in Fibers : fdat[g].counter = e}) + 1
      BY <3>2, <3>3, FS_AddElement
    <3>5. m_cnt'[e] = m_cnt[e] + 1
      BY <1>1, <2>1 DEF Increment, IInv, Shape
    <3> QED  BY <3>1, <3>4, <3>5 DEF IInv, CounterCountsJobs
  <2>2. CASE e # c
    <3>1. {g \in Fibers : fdat'[g].counter = e} = {g \in Fibers : fdat[g].counter = e}
      BY <1>3, <1>8, <1>9, <2>2
    <3>2. m_cnt'[e] = m_cnt[e]
      BY <1>1, <2>2 DEF Increment, IInv, Shape
    <3> QED  BY <3>1, <3>2 DEF IInv, CounterCountsJobs
  <2> QED  BY <2>1, <2>2
<1>17. JobPlaces'
  <2> SUFFICES ASSUME NEW g \in Fibers
               PROVE  /\ ~ fdat'[g].asleep
                      /\ fdat'[g].isComplete <=> pc'[g] = "returned"
                      /\ pc'[g] = "free" => fdat'[g] = Unallocated
                      /\ Queued(g)' => pc'[g] \in {"body", "waiting"}
                      /\ BeingMade(g)' => pc'[g] = "body"
    BY UnallocatedIsIdle DEF JobPlaces
  <2>1. CASE g = f
    BY <1>6, <1>8, <1>9, <2>1
  <2>2. CASE g = x
    BY <1>2, <1>3, <1>4, <1>6, <1>9, <1>12, <2>2 DEF IInv, JobPlaces
  <2>3. CASE g # f /\ g # x
    BY <1>6, <1>9, <1>12, <2>3 DEF IInv, JobPlaces, Contexts, Callers
  <2> QED  BY <2>1, <2>2, <2>3
<1>18. CallerPlaces'
  <2>1. job'[x] = f /\ \A y \in Callers : y # x => job'[y] = job[y]
    BY <1>1 DEF IInv, Shape
  <2>2. job[f] = NULL
    BY <1>1 DEF IInv, CallerPlaces, Callers
  <2>3. \A y \in Callers : y # x /\ y # f => waiter'[y] = waiter[y]
    BY <1>1 DEF IInv, Shape
  <2> QED  BY <1>3, <1>6, <2>1, <2>2, <2>3 DEF IInv, CallerPlaces, Contexts, Callers
<1>19. MainPlaces'
  <2>1. \A m \in Workers : cpu[m] # m => \/ pc'[cpu[m]] = pc[cpu[m]]
                                        \/ pc'[cpu[m]] = "schedule"
    BY <1>1, <1>6 DEF IInv, ThreadLocalsAgree, MainPlaces, Contexts, Callers
  <2>2. \A m \in Workers : target[m] # NULL => target[m] # f
    BY <1>3 DEF Popped
  <2>3. \A m \in Workers : pc[m] = "switched" /\ cpu[m] = m => target[m] # x
    <3> SUFFICES ASSUME NEW m \in Workers, pc[m] = "switched", cpu[m] = m
                 PROVE  target[m] # x
      OBVIOUS
    <3>1. target[m] \in Fibers /\ \A v \in Workers : cpu[v] # target[m]
      BY JobOfMain
    <3> QED  BY <1>2, <3>1, SchedulerAssumption DEF Executing
  <2>4. \A m \in Workers : pc[m] = "delete" => target[m] # x
    BY <1>2 DEF IInv, MainPlaces
  <2>5. \A m \in Workers : target[m] # NULL /\ target[m] # x =>
            pc'[target[m]] = pc[target[m]] /\ fdat'[target[m]] = fdat[target[m]]
    BY <1>6, <1>9, <2>2 DEF IInv, Shape, Contexts, Callers
  <2> QED  BY <1>2, <1>7, <2>1, <2>3, <2>4, <2>5 DEF IInv, MainPlaces
<1> QED
  BY <1>11, <1>13, <1>14, <1>15, <1>16, <1>17, <1>18, <1>19 DEF IInv

LEMMA NextInv == IInv /\ [Next]_vars => IInv'
<1> SUFFICES ASSUME IInv, [Next]_vars PROVE IInv'
  OBVIOUS
<1>1. ASSUME NEW w \in Workers, MainStep(w)
      PROVE  IInv'
  BY <1>1, DoWorkInv, PopFrontInv, PopEmptyInv, RescheduleInv, CompleteInv, DeleteFiberInv
  DEF MainStep
<1>2. ASSUME NEW w \in Workers, SwitchStep(w)
      PROVE  IInv'
  BY <1>2, YieldInv, ReturnInv DEF SwitchStep
<1>3. ASSUME NEW x \in Callers, CallerStep(x)
      PROVE  IInv'
  <2>1. CASE \E p \in PrioOfJobs(x), counted \in BOOLEAN : RunJob(x, p, counted)
    <3>1. PICK p \in PrioOfJobs(x), counted \in BOOLEAN : RunJob(x, p, counted)
      BY <2>1
    <3>2. p \in DeclPrio
      BY <3>1, SchedulerAssumption DEF PrioOfJobs, IInv, Shape, FiberData, Callers
    <3> QED  BY <3>1, <3>2, RunJobInv
  <2>2. CASE Schedule(x)
    BY <2>2, ScheduleInv
  <2>3. CASE StartWait(x) \/ WaitDone(x)
    BY <2>3, WaitInv
  <2> QED  BY <1>3, <2>1, <2>2, <2>3 DEF CallerStep
<1>4. CASE UNCHANGED vars
  <2>1. UNCHANGED <<queue, fdat, m_cnt, constructed, current_main, active_fiber, cpu, pc,
                    target, job, waiter, jobs>>
    BY <1>4 DEF vars
  <2>2. /\ HeldOnce'
        /\ \A f \in Fibers :
             /\ Queued(f)' <=> Queued(f)
             /\ Popped(f)' <=> Popped(f)
             /\ BeingMade(f)' <=> BeingMade(f)
    BY <2>1, SameReach DEF IInv
  <2>3. Shape' /\ ThreadLocalsAgree' /\ MainPlaces' /\ CallerPlaces'
    BY <2>1 DEF IInv, Shape, ThreadLocalsAgree, MainPlaces, CallerPlaces
  <2>4. NeitherLostNorDangling' /\ JobPlaces'
    BY <2>1, <2>2 DEF IInv, NeitherLostNorDangling, JobPlaces
  <2>5. CounterCountsJobs'
    BY <2>1, SameCounters DEF IInv
  <2> QED  BY <2>2, <2>3, <2>4, <2>5 DEF IInv
<1> QED  BY <1>1, <1>2, <1>3, <1>4 DEF Next

-----------------------------------------------------------------------------
(* The theorems *)

\* The invariant holds in every reachable state.
LEMMA SpecInv == Spec => []IInv
BY InitInv, NextInv, PTL DEF Spec

\* A counter whose jobs are counted correctly is a natural number.
LEMMA CountersAreNatural == IInv => m_cnt \in [Counters -> Nat]
<1> SUFFICES ASSUME IInv, NEW c \in Counters PROVE m_cnt[c] \in Nat
  BY DEF IInv, Shape
<1>1. IsFiniteSet({f \in Fibers : fdat[f].counter = c})
  BY FS_Subset, SchedulerAssumption
<1> QED  BY <1>1, FS_CardinalityType DEF IInv, CounterCountsJobs

\* Every variable of the scheduler keeps its type; in particular no decrement
\* of do_work takes a counter below zero, where a uint32_t would wrap around
\* and every waiter wait for ever.
THEOREM TypeCorrect == Spec => []TypeOK
<1>1. IInv => TypeOK
  BY CountersAreNatural DEF IInv, Shape, TypeOK
<1> QED  BY <1>1, SpecInv, PTL

\* With any number of threads and jobs, a job is reachable from one place
\* only: do_work never queues it while a thread executes or deletes it.
THEOREM EveryJobHeldOnce == Spec => []HeldOnce
<1>1. IInv => HeldOnce
  BY DEF IInv
<1> QED  BY <1>1, SpecInv, PTL

\* With any number of threads and jobs, the queues, the threads and the calls
\* of run_job reach exactly the fiber_data that are allocated.
THEOREM NoJobLost == Spec => []NeitherLostNorDangling
<1>1. IInv => NeitherLostNorDangling
  BY DEF IInv
<1> QED  BY <1>1, SpecInv, PTL

\* However jobs migrate, task code finds its own fiber and the main fiber of
\* the thread it now runs on in the thread_locals.
THEOREM MigrationIsSafe == Spec => []ThreadLocalsAgree
<1>1. IInv => ThreadLocalsAgree
  BY DEF IInv
<1> QED  BY <1>1, SpecInv, PTL

\* The atomic increments of run_job and decrements of do_work keep every
\* counter equal to the number of live jobs that were started with it.
THEOREM CountersCount == Spec => []CounterCountsJobs
<1>1. IInv => CounterCountsJobs
  BY DEF IInv
<1> QED  BY <1>1, SpecInv, PTL

\* A step that leaves wait_for_value sees the counter at zero.
LEMMA LeavingSeesZero ==
  ASSUME IInv, [Next]_vars, NEW x \in Callers, pc[x] = "waiting", pc'[x] # "waiting"
  PROVE  waiter[x] \in Counters /\ m_cnt[waiter[x]] = 0
<1>1. WaitDone(x)
  <2>1. x \in Contexts /\ x \notin Workers
    BY SchedulerAssumption DEF Contexts, Callers
  <2>2. ASSUME NEW w \in Workers, MainStep(w)
        PROVE  pc'[x] = pc[x]
    <3>1. CASE DeleteFiber(w)
      <4>1. cpu[w] = w /\ pc[w] = "delete"
        BY <3>1, MainOfThread DEF DeleteFiber
      <4>2. pc[target[w]] = "returned"
        BY <4>1 DEF IInv, MainPlaces
      <4> QED  BY <2>1, <3>1, <4>1, <4>2 DEF DeleteFiber, IInv, Shape
    <3> QED
      BY <2>1, <2>2, <3>1
      DEF MainStep, DoWork, PopFront, PopEmpty, Reschedule, Complete, IInv, Shape
  <2>3. ASSUME NEW w \in Workers, SwitchStep(w)
        PROVE  pc'[x] = pc[x]
    BY <2>1, <2>3 DEF SwitchStep, WaitPoll, Yield, Return, IInv, Shape
  <2>4. ASSUME NEW y \in Callers, CallerStep(y), ~ WaitDone(x)
        PROVE  pc'[x] \in {pc[x], "waiting"}
    BY <2>1, <2>4 DEF CallerStep, RunJob, Schedule, StartWait, WaitDone, IInv, Shape
  <2>5. UNCHANGED vars => pc'[x] = pc[x]
    BY DEF vars
  <2> QED  BY <2>2, <2>3, <2>4, <2>5 DEF Next
<1>2. waiter[x] \in Counters
  BY DEF IInv, Shape, CallerPlaces
<1>3. m_cnt[waiter[x]] \in Nat
  BY <1>2, CountersAreNatural
<1>4. ~ (m_cnt[waiter[x]] > 0)
  BY <1>1 DEF WaitDone, Reached
<1> QED  BY <1>2, <1>3, <1>4

\* wait_for_value returns only when every job started with the counter has
\* run to its end, with any number of jobs, waiters and threads.
THEOREM JoinSound == Spec => JoinIsSound
<1>1. ASSUME IInv, [Next]_vars
      PROVE  \A x \in Callers :
               pc[x] = "waiting" /\ pc'[x] # "waiting" =>
                 \A f \in Fibers : fdat[f].counter = waiter[x] => fdat[f].isComplete
  <2> SUFFICES ASSUME NEW x \in Callers, pc[x] = "waiting", pc'[x] # "waiting",
                      NEW f \in Fibers, fdat[f].counter = waiter[x]
               PROVE  FALSE
    OBVIOUS
  <2>1. waiter[x] \in Counters /\ m_cnt[waiter[x]] = 0
    BY <1>1, LeavingSeesZero
  <2>2. IsFiniteSet({g \in Fibers : fdat[g].counter = waiter[x]})
    BY FS_Subset, SchedulerAssumption
  <2>3. Cardinality({g \in Fibers : fdat[g].counter = waiter[x]}) = 0
    BY <1>1, <2>1 DEF IInv, CounterCountsJobs
  <2>4. {g \in Fibers : fdat[g].counter = waiter[x]} = {}
    BY <2>2, <2>3, FS_EmptySet
  <2> QED  BY <2>4
<1> QED  BY <1>1, SpecInv, PTL DEF Spec, JoinIsSound

-----------------------------------------------------------------------------
(***************************************************************************)
(* Every behaviour of FiberScheduler is one of ForkJoin: each action of    *)
(* the scheduler is one action of ForkJoin or changes nothing it can see.  *)
(***************************************************************************)

LEMMA CallersOfForkJoin == FJ!Callers = Callers
BY DEF FJ!Callers, Callers

\* What only the scheduler sees: no caller moves, nothing is counted.
LEMMA Stutters ==
  ASSUME \A x \in Callers : StateOf(x)' = StateOf(x),
         \A x \in Callers : pc'[x] = "waiting" <=> pc[x] = "waiting",
         \A f \in Fibers : fdat'[f].counter = fdat[f].counter,
         \A x \in Callers : pc[x] = "waiting" => waiter'[x] = waiter[x]
  PROVE  UNCHANGED FJ!vars
BY DEF FJ!vars, AbstractState, AbstractGroup, AbstractAwaits

LEMMA InitImplements == Init => FJ!Init
<1> SUFFICES ASSUME Init PROVE FJ!Init
  OBVIOUS
<1>1. \A x \in Callers : StateOf(x) = IF x \in Clients THEN "active" ELSE "absent"
  BY SchedulerAssumption DEF Init, StateOf, Contexts, Callers
<1>2. \A f \in Fibers : fdat[f].counter = NULL
  BY UnallocatedIsIdle DEF Init
<1>3. \A x \in Callers : pc[x] # "waiting"
  BY SchedulerAssumption DEF Init, Contexts, Callers
<1> QED
  BY <1>1, <1>2, <1>3, CallersOfForkJoin
  DEF FJ!Init, AbstractState, AbstractGroup, AbstractAwaits

\* What ForkJoin sees of a caller depends on its place alone.
LEMMA SamePlace ==
  ASSUME NEW x \in Callers, pc'[x] = pc[x]
  PROVE  StateOf(x)' = StateOf(x)
BY DEF StateOf

\* Trying a queue, popping a job, pushing it again and entering do_work.
LEMMA DispatchStutters ==
  ASSUME IInv, NEW w \in Workers,
         DoWork(w) \/ PopFront(w) \/ PopEmpty(w) \/ Reschedule(w)
  PROVE  UNCHANGED FJ!vars
<1>1. \A x \in Callers : pc'[x] = pc[x]
  BY SchedulerAssumption
  DEF DoWork, PopFront, PopEmpty, Reschedule, IInv, Shape, Contexts, Callers
<1>2. UNCHANGED <<fdat, waiter>>
  BY DEF DoWork, PopFront, PopEmpty, Reschedule
<1> QED  BY <1>1, <1>2, SamePlace, Stutters

\* this_task::yield, and a poll that sees a positive counter.
LEMMA YieldStutters ==
  ASSUME IInv, NEW w \in Workers, Yield(w) \/ WaitPoll(w)
  PROVE  UNCHANGED FJ!vars
<1>1. UNCHANGED <<pc, fdat, waiter>>
  BY DEF Yield, WaitPoll
<1> QED  BY <1>1, SamePlace, Stutters

\* The decrement of do_work: the job leaves its group.
LEMMA CompleteLeaves ==
  ASSUME IInv, NEW w \in Workers, Complete(w)
  PROVE  [FJ!Next]_FJ!vars
<1>1. PICK t \in Fibers : t = target[w]
  BY JobOfMain, MainOfThread DEF Complete
<1>2. /\ fdat' = [fdat EXCEPT ![t].counter = NULL]
      /\ UNCHANGED waiter
      /\ pc[t] = "returned"
  BY <1>1, MainOfThread DEF Complete, IInv, JobPlaces
<1>3. \A x \in Callers : pc'[x] = pc[x]
  BY MainOfThread, SchedulerAssumption DEF Complete, IInv, Shape, Contexts, Callers
<1>4. /\ fdat'[t].counter = NULL
      /\ \A f \in Fibers : f # t => fdat'[f].counter = fdat[f].counter
  BY <1>2 DEF IInv, Shape, FiberData
<1>5. CASE fdat[t].counter = NULL
  BY <1>2, <1>3, <1>4, <1>5, SamePlace, Stutters
<1>6. CASE fdat[t].counter # NULL
  <2>1. t \in Callers /\ AbstractState[t] = "finished" /\ AbstractGroup[t] # NULL
    BY <1>2, <1>6 DEF AbstractState, AbstractGroup, StateOf, Callers
  <2>2. UNCHANGED <<AbstractState, AbstractAwaits>>
    BY <1>2, <1>3, SamePlace DEF AbstractState, AbstractAwaits
  <2>3. AbstractGroup' = [AbstractGroup EXCEPT ![t] = NULL]
    BY <1>4 DEF AbstractGroup
  <2>4. FJ!Leave(t)
    BY <2>1, <2>2, <2>3 DEF FJ!Leave
  <2> QED  BY <2>4 DEF FJ!Next
<1> QED  BY <1>5, <1>6

\* flDeleteFiber: the job is gone.
LEMMA DeleteVanishes ==
  ASSUME IInv, NEW w \in Workers, DeleteFiber(w)
  PROVE  [FJ!Next]_FJ!vars
<1>1. PICK t \in Fibers : t = target[w]
  BY JobOfMain, MainOfThread DEF DeleteFiber
<1>2. cpu[w] = w /\ pc[t] = "returned" /\ fdat[t].counter = NULL
  BY <1>1, MainOfThread DEF DeleteFiber, IInv, MainPlaces
<1>3. /\ fdat' = [fdat EXCEPT ![t] = Unallocated]
      /\ pc' = [pc EXCEPT ![t] = "free", ![w] = "high"]
      /\ UNCHANGED waiter
  BY <1>1, <1>2 DEF DeleteFiber
<1>4. t \in Callers /\ pc'[t] = "free" /\ \A x \in Callers : x # t => pc'[x] = pc[x]
  BY <1>3, SchedulerAssumption DEF IInv, Shape, Contexts, Callers
<1>5. \A f \in Fibers : fdat'[f].counter = fdat[f].counter
  BY <1>2, <1>3, UnallocatedIsIdle DEF IInv, Shape
<1>6. AbstractState[t] = "finished" /\ AbstractGroup[t] = NULL
  BY <1>2, <1>4 DEF AbstractState, AbstractGroup, StateOf
<1>7. AbstractState' = [AbstractState EXCEPT ![t] = "absent"]
  <2>1. StateOf(t)' = "absent"
    BY <1>4 DEF StateOf
  <2> QED  BY <1>4, <2>1, SamePlace DEF AbstractState
<1>8. UNCHANGED <<AbstractGroup, AbstractAwaits>>
  BY <1>2, <1>3, <1>4, <1>5 DEF AbstractGroup, AbstractAwaits
<1>9. FJ!Vanish(t)
  BY <1>6, <1>7, <1>8 DEF FJ!Vanish
<1> QED  BY <1>9 DEF FJ!Next

\* The return of a task function: the job finishes.
LEMMA ReturnFinishes ==
  ASSUME IInv, NEW w \in Workers, Return(w)
  PROVE  [FJ!Next]_FJ!vars
<1>1. PICK f \in Fibers : f = cpu[w]
  BY DEF Return
<1>2. /\ pc[f] = "body"
      /\ fdat' = [fdat EXCEPT ![f].isComplete = TRUE]
      /\ waiter' = [waiter EXCEPT ![f] = NULL]
      /\ pc' = [pc EXCEPT ![f] = "returned"]
  BY <1>1 DEF Return
<1>3. f \in Callers /\ pc'[f] = "returned" /\ \A x \in Callers : x # f => pc'[x] = pc[x]
  BY <1>2 DEF IInv, Shape, Contexts, Callers
<1>4. \A g \in Fibers : fdat'[g].counter = fdat[g].counter
  BY <1>2 DEF IInv, Shape, FiberData
<1>5. AbstractState[f] = "active"
  BY <1>2, <1>3 DEF AbstractState, StateOf
<1>6. AbstractState' = [AbstractState EXCEPT ![f] = "finished"]
  <2>1. StateOf(f)' = "finished"
    BY <1>3 DEF StateOf
  <2> QED  BY <1>3, <2>1, SamePlace DEF AbstractState
<1>7. UNCHANGED <<AbstractGroup, AbstractAwaits>>
  BY <1>2, <1>3, <1>4 DEF AbstractGroup, AbstractAwaits, IInv, Shape
<1>8. FJ!Finish(f)
  BY <1>5, <1>6, <1>7 DEF FJ!Finish
<1> QED  BY <1>8 DEF FJ!Next

\* run_job: a fork.
LEMMA RunJobForks ==
  ASSUME IInv, NEW x \in Callers, NEW p \in DeclPrio, NEW counted \in BOOLEAN,
         RunJob(x, p, counted)
  PROVE  [FJ!Next]_FJ!vars
<1>1. PICK f \in Fibers, c \in Counters \cup {NULL} :
        /\ pc[f] = "free"
        /\ fdat' = [fdat EXCEPT ![f] = [prio |-> p, counter |-> c,
                                       isComplete |-> FALSE, asleep |-> FALSE]]
        /\ waiter' = [waiter EXCEPT ![x] = IF counted THEN c ELSE @, ![f] = NULL]
        /\ pc' = [pc EXCEPT ![x] = "schedule", ![f] = "body"]
  BY DEF RunJob
<1>2. pc[x] = "body" /\ x # f
  BY <1>1 DEF RunJob
<1>3. /\ f \in Callers
      /\ pc'[x] = "schedule" /\ pc'[f] = "body"
      /\ \A y \in Callers : y # x /\ y # f => pc'[y] = pc[y]
  BY <1>1, <1>2 DEF IInv, Shape, Contexts, Callers
<1>4. /\ fdat'[f].counter = c
      /\ \A g \in Fibers : g # f => fdat'[g] = fdat[g]
  BY <1>1 DEF IInv, Shape
<1>5. AbstractState[x] = "active" /\ AbstractState[f] = "absent"
  BY <1>1, <1>2, <1>3 DEF AbstractState, StateOf
<1>6. AbstractState' = [AbstractState EXCEPT ![f] = "active"]
  <2>1. StateOf(f)' = "active" /\ StateOf(x)' = StateOf(x)
    BY <1>2, <1>3 DEF StateOf
  <2> QED  BY <1>3, <2>1, SamePlace DEF AbstractState
<1>7. AbstractGroup' = [AbstractGroup EXCEPT ![f] = c]
  BY <1>4 DEF AbstractGroup
<1>8. UNCHANGED AbstractAwaits
  BY <1>1, <1>2, <1>3 DEF AbstractAwaits, IInv, Shape
<1>9. FJ!Fork(x, f)
  BY <1>5, <1>6, <1>7, <1>8 DEF FJ!Fork
<1> QED  BY <1>9, CallersOfForkJoin DEF FJ!Next

\* WaitForCounter: blocking and, once the counter is zero, going on.
LEMMA WaitBlocks ==
  ASSUME IInv, NEW x \in Callers, StartWait(x)
  PROVE  [FJ!Next]_FJ!vars
<1>1. /\ pc[x] = "body" /\ waiter[x] \in Counters
      /\ pc' = [pc EXCEPT ![x] = "waiting"]
      /\ UNCHANGED <<fdat, waiter>>
  BY DEF StartWait, IInv, Shape
<1>2. pc'[x] = "waiting" /\ \A y \in Callers : y # x => pc'[y] = pc[y]
  BY <1>1 DEF IInv, Shape, Contexts
<1>3. AbstractState[x] = "active"
  BY <1>1 DEF AbstractState, StateOf
<1>4. AbstractState' = [AbstractState EXCEPT ![x] = "blocked"]
  <2>1. StateOf(x)' = "blocked"
    BY <1>2 DEF StateOf
  <2> QED  BY <1>2, <2>1, SamePlace DEF AbstractState
<1>5. AbstractAwaits' = [AbstractAwaits EXCEPT ![x] = waiter[x]]
  BY <1>1, <1>2 DEF AbstractAwaits
<1>6. UNCHANGED AbstractGroup
  BY <1>1 DEF AbstractGroup
<1>7. FJ!Block(x)
  BY <1>1, <1>3, <1>4, <1>5, <1>6 DEF FJ!Block
<1> QED  BY <1>7, CallersOfForkJoin DEF FJ!Next

LEMMA WaitUnblocks ==
  ASSUME IInv, NEW x \in Callers, WaitDone(x)
  PROVE  [FJ!Next]_FJ!vars
<1>1. /\ pc[x] = "waiting"
      /\ pc' = [pc EXCEPT ![x] = "body"]
      /\ UNCHANGED <<fdat, waiter>>
  BY DEF WaitDone
<1>2. pc'[x] = "body" /\ \A y \in Callers : y # x => pc'[y] = pc[y]
  BY <1>1 DEF IInv, Shape, Contexts
<1>3. \A f \in Fibers : fdat[f].counter # waiter[x]
  <2>1. waiter[x] \in Counters /\ m_cnt[waiter[x]] = 0
    <3>1. pc'[x] # "waiting" /\ Next
      BY <1>2 DEF WaitDone, Next, CallerStep
    <3> QED  BY <1>1, <3>1, LeavingSeesZero
  <2>2. IsFiniteSet({f \in Fibers : fdat[f].counter = waiter[x]})
    BY FS_Subset, SchedulerAssumption
  <2>3. {f \in Fibers : fdat[f].counter = waiter[x]} = {}
    BY <2>1, <2>2, FS_EmptySet DEF IInv, CounterCountsJobs
  <2> QED  BY <2>3
<1>4. AbstractState[x] = "blocked" /\ AbstractAwaits[x] = waiter[x]
  BY <1>1 DEF AbstractState, AbstractAwaits, StateOf
<1>5. AbstractState' = [AbstractState EXCEPT ![x] = "active"]
  <2>1. StateOf(x)' = "active"
    BY <1>2 DEF StateOf
  <2> QED  BY <1>2, <2>1, SamePlace DEF AbstractState
<1>6. AbstractAwaits' = [AbstractAwaits EXCEPT ![x] = NULL]
  BY <1>1, <1>2 DEF AbstractAwaits
<1>7. UNCHANGED AbstractGroup
  BY <1>1 DEF AbstractGroup
<1>8. \A j \in Fibers : AbstractGroup[j] # AbstractAwaits[x]
  BY <1>3, <1>4 DEF AbstractGroup
<1>9. FJ!Unblock(x)
  BY <1>4, <1>5, <1>6, <1>7, <1>8 DEF FJ!Unblock
<1> QED  BY <1>9, CallersOfForkJoin DEF FJ!Next

\* schedule(): a job that is already active is queued.
LEMMA ScheduleStutters ==
  ASSUME IInv, NEW x \in Callers, Schedule(x)
  PROVE  UNCHANGED FJ!vars
<1>1. /\ pc[x] = "schedule"
      /\ pc' = [pc EXCEPT ![x] = "body"]
      /\ UNCHANGED <<fdat, waiter>>
  BY DEF Schedule
<1>2. pc'[x] = "body" /\ \A y \in Callers : y # x => pc'[y] = pc[y]
  BY <1>1 DEF IInv, Shape, Contexts
<1>3. StateOf(x)' = StateOf(x)
  BY <1>1, <1>2 DEF StateOf
<1> QED  BY <1>1, <1>2, <1>3, SamePlace, Stutters

LEMMA NextImplements == IInv /\ [Next]_vars => [FJ!Next]_FJ!vars
<1> SUFFICES ASSUME IInv, [Next]_vars PROVE [FJ!Next]_FJ!vars
  OBVIOUS
<1>1. ASSUME NEW w \in Workers, MainStep(w)
      PROVE  [FJ!Next]_FJ!vars
  BY <1>1, DispatchStutters, CompleteLeaves, DeleteVanishes DEF MainStep
<1>2. ASSUME NEW w \in Workers, SwitchStep(w)
      PROVE  [FJ!Next]_FJ!vars
  BY <1>2, YieldStutters, ReturnFinishes DEF SwitchStep
<1>3. ASSUME NEW x \in Callers, CallerStep(x)
      PROVE  [FJ!Next]_FJ!vars
  <2>1. CASE \E p \in PrioOfJobs(x), counted \in BOOLEAN : RunJob(x, p, counted)
    <3>1. PICK p \in PrioOfJobs(x), counted \in BOOLEAN : RunJob(x, p, counted)
      BY <2>1
    <3>2. p \in DeclPrio
      BY <3>1, SchedulerAssumption DEF PrioOfJobs, IInv, Shape, FiberData, Callers
    <3> QED  BY <3>1, <3>2, RunJobForks
  <2> QED  BY <1>3, <2>1, ScheduleStutters, WaitBlocks, WaitUnblocks DEF CallerStep
<1>4. CASE UNCHANGED vars
  <2>1. UNCHANGED <<pc, fdat, waiter>>
    BY <1>4 DEF vars
  <2> QED  BY <2>1, SamePlace, Stutters
<1> QED  BY <1>1, <1>2, <1>3, <1>4 DEF Next

\* For any number of threads, clients, jobs, counters and priorities, the
\* scheduler of fiber_scheduler.cpp with the counters of atomic_counter.h is
\* a fork-join runtime.
THEOREM SchedulerImplementsForkJoin == Spec => ImplementsForkJoin
<1>1. Spec => FJ!Init
  BY InitImplements DEF Spec
<1>2. Spec => [][FJ!Next]_FJ!vars
  BY SpecInv, NextImplements, PTL DEF Spec
<1> QED  BY <1>1, <1>2 DEF ImplementsForkJoin, FJ!Spec

=============================================================================
