--------------------------- MODULE ThreadPoolProofs ---------------------------
(***************************************************************************)
(* Proofs about the thread pool, for any number of workers, any clients,   *)
(* any finite set of tasks and any width of the count of active threads:   *)
(* its type invariant and the safety properties that the run `pool' checks *)
(* on a small instance.                                                    *)
(***************************************************************************)
EXTENDS ThreadPool, FiniteSetTheorems, TLAPS

\* The tasks in the queue.
Queued == {tasks[i] : i \in 1 .. Len(tasks)}

\* Where a thread has a task in hand: in its wrapper, or on its way to the queue.
Carries == RunPC \cup {"allocate", "push"}

\* TypeOK without what the types follow from: m_cnt is natural because it is a
\* cardinality.  Workers and clients have places of their own.
Shape ==
  /\ tasks \in Seq(Tasks)
  /\ m_mutex \in Workers \cup {NULL}
  /\ m_cvar \subseteq Workers
  /\ m_running \in BOOLEAN
  /\ m_activeThreads \in 0 .. ActiveMod - 1
  /\ allocated \subseteq Counted
  /\ m_cnt \in Int
  /\ pc \in [Threads -> WorkerPC \cup RunPC \cup ClientPC]
  /\ held \in [Threads -> Tasks \cup {NULL}]
  /\ owner \in {"create", "spin", "open", "notify", "join", "renotify", "closed"}
  /\ iter \in 0 .. NumThreads
  /\ posted \subseteq Tasks
  /\ done \subseteq posted
  /\ \A w \in Workers : pc[w] \in WorkerPC \cup RunPC
  /\ \A c \in Clients : pc[c] \in ClientPC \cup RunPC

\* The critical section of wait_job.
Critical == {"empty", "running", "wait", "pop"}

\* m_mutex is held exactly inside the critical section of wait_job, and only
\* a thread in m_cvar.wait sleeps.
MutexPlaces ==
  /\ \A w \in Workers : m_mutex = w <=> pc[w] \in Critical
  /\ \A w \in m_cvar : pc[w] = "asleep"

\* A thread has a task in hand exactly between taking it and giving it away;
\* a task on its way is posted and not done, and done when only its start data
\* is left.
HeldPlaces ==
  \A x \in Threads :
    /\ held[x] # NULL <=> pc[x] \in Carries
    /\ pc[x] \in {"run", "allocate", "push"} => held[x] \in posted \ done
    /\ pc[x] \in {"allocate", "deallocate"} => held[x] \in Counted
    /\ pc[x] = "deallocate" => held[x] \in done

\* TaskHeldOnce, place by place.
OnePlace ==
  /\ \A i, j \in 1 .. Len(tasks) : tasks[i] = tasks[j] => i = j
  /\ \A x, y \in Threads : held[x] = held[y] /\ held[x] # NULL => x = y
  /\ \A x \in Threads : held[x] \notin Queued
  /\ Queued \subseteq posted \ done
  /\ \A t \in posted \ done : t \in Queued \/ \E x \in Threads : held[x] = t

\* StartDataAlive, and the data of a task that is about to be queued.
DataPlaces ==
  /\ \A t \in Queued : t \in Counted => t \in allocated
  /\ \A x \in Threads :
       pc[x] \in RunPC \cup {"push"} /\ held[x] \in Counted => held[x] \in allocated

\* Threads are created one after the other; clients use the pool only between
\* the constructor and the destructor; the destructor joins one thread after
\* the other.
OwnerPlaces ==
  /\ owner # "closed" => iter < NumThreads
  /\ owner \in {"spin", "open"} => iter = 0
  /\ owner = "create" => \A w \in Workers : w >= iter => pc[w] = "uncreated"
  /\ owner # "open" => \A c \in Clients : pc[c] = "idle"
  /\ owner \in {"notify", "join", "renotify"} => \A w \in Workers : w < iter => pc[w] = "exited"
  /\ owner = "renotify" => pc[iter] = "exited"
  /\ owner = "closed" => \A w \in Workers : pc[w] = "exited"

IInv ==
  /\ Shape /\ MutexPlaces /\ HeldPlaces /\ OnePlace /\ DataPlaces
  /\ CounterCountsTasks /\ OwnerPlaces

-----------------------------------------------------------------------------
(* What the invariant says *)

\* What can be in the counter, and its cardinality.
LEMMA CountedFinite ==
  ASSUME NEW S, S \subseteq Tasks
  PROVE  IsFiniteSet(S) /\ Cardinality(S) \in Nat
BY PoolAssumption, FS_Subset, FS_CardinalityType

LEMMA InvTypeOK == IInv => TypeOK
<1> SUFFICES ASSUME IInv PROVE TypeOK
  OBVIOUS
<1>1. (posted \cap Counted) \ done \subseteq Tasks
  BY DEF IInv, Shape
<1>2. m_cnt \in Nat
  BY <1>1, CountedFinite DEF IInv, CounterCountsTasks
<1> QED BY <1>2 DEF IInv, Shape, TypeOK

LEMMA InvTaskHeldOnce == IInv => TaskHeldOnce
<1> SUFFICES ASSUME IInv, NEW t \in Tasks
             PROVE  LET places == Cardinality(Positions(t)) + Cardinality(Holders(t)) IN
                    /\ places <= 1
                    /\ t \in posted \ done => places = 1
                    /\ t \in done => /\ Positions(t) = {}
                                     /\ \A x \in Holders(t) : pc[x] = "deallocate"
  BY DEF TaskHeldOnce
<1>1. t # NULL
  BY PoolAssumption
<1>2. IF t \in Queued THEN \E i : Positions(t) = {i} ELSE Positions(t) = {}
  <2>1. CASE t \in Queued
    <3>1. PICK i \in 1 .. Len(tasks) : tasks[i] = t
      BY <2>1 DEF Queued
    <3>2. Positions(t) = {i}
      BY <3>1 DEF IInv, OnePlace, Positions
    <3> QED BY <2>1, <3>2
  <2>2. CASE t \notin Queued
    BY <2>2 DEF Positions, Queued
  <2> QED BY <2>1, <2>2
<1>3. Holders(t) = {} \/ \E x \in Threads : Holders(t) = {x}
  BY <1>1 DEF IInv, OnePlace, Holders
<1>4. t \in Queued => Holders(t) = {}
  BY DEF IInv, OnePlace, Holders
<1>5. t \in posted \ done /\ t \notin Queued => Holders(t) # {}
  BY DEF IInv, OnePlace, Holders
<1>6. t \in done => t \notin Queued /\ \A x \in Holders(t) : pc[x] = "deallocate"
  BY <1>1 DEF IInv, OnePlace, HeldPlaces, Holders, Carries, RunPC
<1>7. Cardinality(Positions(t)) = IF t \in Queued THEN 1 ELSE 0
  BY <1>2, FS_EmptySet, FS_Singleton
<1>8. Cardinality(Holders(t)) = IF Holders(t) = {} THEN 0 ELSE 1
  BY <1>3, FS_EmptySet, FS_Singleton
<1> QED BY <1>2, <1>4, <1>5, <1>6, <1>7, <1>8

LEMMA InvStartDataAlive == IInv => StartDataAlive
BY DEF IInv, DataPlaces, Queued, StartDataAlive

LEMMA InvClosedIsQuiet == IInv => ClosedIsQuiet
<1> SUFFICES ASSUME IInv, owner = "closed"
             PROVE  /\ \A w \in Workers : pc[w] = "exited"
                    /\ m_mutex = NULL /\ m_cvar = {}
                    /\ posted \subseteq done \cup Queued
  BY DEF ClosedIsQuiet, Queued
<1>1. \A w \in Workers : pc[w] = "exited"
  BY DEF IInv, OwnerPlaces
<1>2. \A c \in Clients : pc[c] = "idle"
  BY DEF IInv, OwnerPlaces
<1>3. m_mutex = NULL /\ m_cvar = {}
  BY <1>1 DEF IInv, MutexPlaces, Critical, Shape
<1>4. \A x \in Threads : held[x] = NULL
  BY <1>1, <1>2 DEF IInv, HeldPlaces, Carries, RunPC, Threads
<1>5. posted \subseteq done \cup Queued
  BY <1>4, PoolAssumption DEF IInv, OnePlace, Shape
<1> QED BY <1>1, <1>3, <1>5

-----------------------------------------------------------------------------
(* Kinds of step *)

LEMMA InitInv == Init => IInv
<1> SUFFICES ASSUME Init PROVE IInv
  OBVIOUS
<1> USE PoolAssumption
<1>1. Shape
  <2>1. Workers \subseteq Int /\ 0 \in 0 .. NumThreads
    BY DEF Workers
  <2>2. <<>> \in Seq(Tasks)
    OBVIOUS
  <2> QED BY <2>1, <2>2 DEF Init, Shape, Threads, WorkerPC, ClientPC
<1>2. MutexPlaces
  BY DEF Init, MutexPlaces, Critical, Threads
<1>3. Queued = {}
  BY DEF Init, Queued
<1>4. HeldPlaces /\ OnePlace /\ DataPlaces
  BY <1>3 DEF Init, HeldPlaces, OnePlace, DataPlaces, Carries, RunPC, Threads
<1>5. CounterCountsTasks
  BY FS_EmptySet DEF Init, CounterCountsTasks
<1>6. OwnerPlaces
  BY DEF Init, OwnerPlaces, Threads
<1> QED BY <1>1, <1>2, <1>4, <1>5, <1>6 DEF IInv

\* A step that moves no task.
LEMMA QuietStep ==
  ASSUME IInv, NEW x \in Threads, NEW l, pc' = [pc EXCEPT ![x] = l],
         pc[x] \notin Carries, l \notin Carries, UNCHANGED <<tasks, held, taskVars>>
  PROVE  HeldPlaces' /\ OnePlace' /\ DataPlaces' /\ CounterCountsTasks'
<1>1. \A y \in Threads : pc'[y] = IF y = x THEN l ELSE pc[y]
  BY DEF IInv, Shape
<1>2. Queued' = Queued
  BY DEF Queued
<1>3. HeldPlaces'
  <2> SUFFICES ASSUME NEW y \in Threads
               PROVE  /\ held[y] # NULL <=> pc'[y] \in Carries
                      /\ pc'[y] \in {"run", "allocate", "push"} => held[y] \in posted \ done
                      /\ pc'[y] \in {"allocate", "deallocate"} => held[y] \in Counted
                      /\ pc'[y] = "deallocate" => held[y] \in done
    BY DEF HeldPlaces, taskVars
  <2>1. CASE y = x
    BY <1>1, <2>1 DEF IInv, HeldPlaces, Carries, RunPC
  <2>2. CASE y # x
    BY <1>1, <2>2 DEF IInv, HeldPlaces
  <2> QED BY <2>1, <2>2
<1>4. OnePlace'
  BY <1>2 DEF IInv, OnePlace, taskVars
<1>5. DataPlaces'
  BY <1>1, <1>2 DEF IInv, DataPlaces, taskVars, Carries
<1>6. CounterCountsTasks'
  BY DEF IInv, CounterCountsTasks, taskVars
<1> QED BY <1>3, <1>4, <1>5, <1>6

\* A step of nobody's program counter.
LEMMA SilentStep ==
  ASSUME IInv, UNCHANGED <<tasks, threadVars, taskVars>>
  PROVE  HeldPlaces' /\ OnePlace' /\ DataPlaces' /\ CounterCountsTasks'
<1>1. Queued' = Queued
  BY DEF Queued
<1> QED
  BY <1>1 DEF IInv, HeldPlaces, OnePlace, DataPlaces, CounterCountsTasks, taskVars, threadVars

\* The owner has a place for a worker that exists and has not exited, ...
LEMMA WorkerMoves ==
  ASSUME IInv, NEW w \in Workers, pc[w] \notin {"uncreated", "exited"},
         NEW l, pc' = [pc EXCEPT ![w] = l], UNCHANGED <<owner, iter>>
  PROVE  OwnerPlaces'
<1>1. /\ w \in Threads /\ \A y \in Threads : pc'[y] = IF y = w THEN l ELSE pc[y]
      /\ w \notin Clients
  BY PoolAssumption DEF IInv, Shape, Threads
<1> QED BY <1>1 DEF IInv, Shape, OwnerPlaces, Threads, Workers

\* ... and for a client while the pool is open.
LEMMA ClientMoves ==
  ASSUME IInv, NEW c \in Clients, owner = "open" \/ pc[c] # "idle", UNCHANGED <<owner, iter>>
  PROVE  OwnerPlaces'
<1>1. owner = "open"
  BY DEF IInv, OwnerPlaces
<1> QED BY <1>1 DEF IInv, OwnerPlaces

\* m_mutex and m_cvar change for the thread that moves.
LEMMA MutexStep ==
  ASSUME IInv, NEW w \in Workers, NEW l, pc' = [pc EXCEPT ![w] = l],
         m_mutex' = w <=> l \in Critical,
         \A v \in Workers \ {w} : m_mutex' = v <=> m_mutex = v,
         \A v \in m_cvar' : IF v = w THEN l = "asleep" ELSE v \in m_cvar
  PROVE  MutexPlaces'
<1>1. \A v \in Workers : pc'[v] = IF v = w THEN l ELSE pc[v]
  BY DEF IInv, Shape, Threads
<1>2. w \in Threads /\ pc'[w] = l
  BY DEF IInv, Shape, Threads
<1>3. \A v \in Workers : m_mutex' = v <=> pc'[v] \in Critical
  BY <1>1 DEF IInv, MutexPlaces
<1>4. \A v \in m_cvar' : pc'[v] = "asleep"
  BY <1>1, <1>2 DEF IInv, MutexPlaces, Shape
<1> QED BY <1>3, <1>4 DEF MutexPlaces

LEMMA ClientLeavesMutex ==
  ASSUME IInv, NEW c \in Clients, NEW l, pc' = [pc EXCEPT ![c] = l],
         m_mutex' = m_mutex, m_cvar' \subseteq m_cvar
  PROVE  MutexPlaces'
<1>1. \A w \in Workers : pc'[w] = pc[w]
  BY PoolAssumption DEF IInv, Shape, Threads
<1> QED BY <1>1 DEF IInv, Shape, MutexPlaces

\* Workers and clients keep to their places.
PlaceTypes ==
  /\ pc \in [Threads -> WorkerPC \cup RunPC \cup ClientPC]
  /\ \A w \in Workers : pc[w] \in WorkerPC \cup RunPC
  /\ \A c \in Clients : pc[c] \in ClientPC \cup RunPC

LEMMA PlaceStep ==
  ASSUME IInv, NEW x \in Threads, NEW l, pc' = [pc EXCEPT ![x] = l],
         x \in Workers => l \in WorkerPC \cup RunPC,
         x \in Clients => l \in ClientPC \cup RunPC
  PROVE  PlaceTypes'
<1>1. pc \in [Threads -> WorkerPC \cup RunPC \cup ClientPC]
  BY DEF IInv, Shape
<1>2. \A y \in Threads : pc'[y] = IF y = x THEN l ELSE pc[y]
  BY <1>1
<1>3. l \in WorkerPC \cup RunPC \cup ClientPC
  BY DEF Threads
<1>4. pc' \in [Threads -> WorkerPC \cup RunPC \cup ClientPC]
  BY <1>1, <1>3
<1>5. \A w \in Workers : pc'[w] \in WorkerPC \cup RunPC
  BY <1>2 DEF IInv, Shape, Threads
<1>6. \A c \in Clients : pc'[c] \in ClientPC \cup RunPC
  BY <1>2 DEF IInv, Shape, Threads
<1> QED BY <1>4, <1>5, <1>6 DEF PlaceTypes

\* Counting the active threads stays within the width of the count.
LEMMA ActiveRange ==
  ASSUME NEW n \in Int
  PROVE  n % ActiveMod \in 0 .. ActiveMod - 1
BY PoolAssumption

-----------------------------------------------------------------------------
(* The workers *)

\* What a worker does without a task.
LEMMA WorkerQuietInv ==
  ASSUME IInv, NEW w \in Workers,
         \/ Start(w) \/ Loop(w) \/ Exit(w) \/ Lock(w)
         \/ TestEmpty(w) \/ TestRunning(w) \/ Wait(w) \/ Wake(w)
  PROVE  IInv'
<1>0. w \in Threads /\ w \notin Clients
  BY PoolAssumption DEF Threads
<1>n. NULL \notin Workers
  BY PoolAssumption DEF Threads
<1>a. CASE Start(w)
  <2>1. PICK l \in WorkerPC : l \notin Carries /\ pc' = [pc EXCEPT ![w] = l]
    BY <1>a DEF Start, Goto, WorkerPC, Carries, RunPC
  <2>2. pc[w] = "start" /\ UNCHANGED <<tasks, held, taskVars, owner, iter>>
    BY <1>a DEF Start, lifeVars
  <2>3. HeldPlaces' /\ OnePlace' /\ DataPlaces' /\ CounterCountsTasks'
    BY <1>0, <2>1, <2>2, QuietStep DEF Carries, RunPC
  <2>4. Shape'
    <3>1. m_activeThreads' \in 0 .. ActiveMod - 1
      BY <1>a, ActiveRange, PoolAssumption DEF Start, IInv, Shape
    <3> QED BY <1>0, <1>a, <2>1, <2>2, <3>1 DEF Start, IInv, Shape, syncVars, lifeVars, taskVars, Workers
  <2>5. MutexPlaces'
    BY <1>0, <1>a, PoolAssumption DEF Start, Goto, Critical, IInv, Shape, MutexPlaces, syncVars, lifeVars
  <2>6. OwnerPlaces'
    BY <2>1, <2>2, WorkerMoves
  <2> QED BY <2>3, <2>4, <2>5, <2>6 DEF IInv
<1>b. CASE Loop(w)
  <2>1. PICK l \in WorkerPC : l \notin Carries /\ pc' = [pc EXCEPT ![w] = l]
    BY <1>b DEF Loop, Goto, WorkerPC, Carries, RunPC
  <2>2. pc[w] = "loop" /\ UNCHANGED <<tasks, held, taskVars, owner, iter>>
    BY <1>b DEF Loop, lifeVars
  <2>3. HeldPlaces' /\ OnePlace' /\ DataPlaces' /\ CounterCountsTasks'
    BY <1>0, <2>1, <2>2, QuietStep DEF Carries, RunPC
  <2>4. Shape'
    BY <1>0, <1>b, <2>1, <2>2 DEF Loop, IInv, Shape, syncVars, lifeVars, taskVars, Workers
  <2>5. MutexPlaces'
    BY <1>0, <1>b, PoolAssumption DEF Loop, Goto, Critical, IInv, Shape, MutexPlaces, syncVars, lifeVars
  <2>6. OwnerPlaces'
    BY <2>1, <2>2, WorkerMoves
  <2> QED BY <2>3, <2>4, <2>5, <2>6 DEF IInv
<1>c. CASE Exit(w)
  <2>1. PICK l \in WorkerPC : l \notin Carries /\ pc' = [pc EXCEPT ![w] = l]
    BY <1>c DEF Exit, Goto, WorkerPC, Carries, RunPC
  <2>2. pc[w] = "loop" /\ UNCHANGED <<tasks, held, taskVars, owner, iter>>
    BY <1>c DEF Exit, lifeVars
  <2>3. HeldPlaces' /\ OnePlace' /\ DataPlaces' /\ CounterCountsTasks'
    BY <1>0, <2>1, <2>2, QuietStep DEF Carries, RunPC
  <2>4. Shape'
    <3>1. m_activeThreads' \in 0 .. ActiveMod - 1
      BY <1>c, ActiveRange, PoolAssumption DEF Exit, IInv, Shape
    <3> QED BY <1>0, <1>c, <2>1, <2>2, <3>1 DEF Exit, IInv, Shape, syncVars, lifeVars, taskVars, Workers
  <2>5. MutexPlaces'
    BY <1>0, <1>c, PoolAssumption DEF Exit, Goto, Critical, IInv, Shape, MutexPlaces, syncVars, lifeVars
  <2>6. OwnerPlaces'
    BY <2>1, <2>2, WorkerMoves
  <2> QED BY <2>3, <2>4, <2>5, <2>6 DEF IInv
<1>d. CASE Lock(w)
  <2>1. PICK l \in WorkerPC : l \notin Carries /\ pc' = [pc EXCEPT ![w] = l]
    BY <1>d DEF Lock, Goto, WorkerPC, Carries, RunPC
  <2>2. pc[w] = "lock" /\ UNCHANGED <<tasks, held, taskVars, owner, iter>>
    BY <1>d DEF Lock, lifeVars
  <2>3. HeldPlaces' /\ OnePlace' /\ DataPlaces' /\ CounterCountsTasks'
    BY <1>0, <2>1, <2>2, QuietStep DEF Carries, RunPC
  <2>4. Shape'
    BY <1>0, <1>d, <2>1, <2>2 DEF Lock, IInv, Shape, syncVars, lifeVars, taskVars, Workers
  <2>5. MutexPlaces'
    <3>1. /\ m_mutex' = w <=> l \in Critical
          /\ \A v \in Workers \ {w} : m_mutex' = v <=> m_mutex = v
          /\ \A v \in m_cvar' : IF v = w THEN l = "asleep" ELSE v \in m_cvar
      BY <1>0, <1>d, <1>n, <2>1, <2>2 DEF Lock, Goto, Critical, IInv, Shape, MutexPlaces
    <3> QED BY <2>1, <3>1, MutexStep
  <2>6. OwnerPlaces'
    BY <2>1, <2>2, WorkerMoves
  <2> QED BY <2>3, <2>4, <2>5, <2>6 DEF IInv
<1>e. CASE TestEmpty(w)
  <2>1. PICK l \in WorkerPC : l \notin Carries /\ pc' = [pc EXCEPT ![w] = l]
    BY <1>e DEF TestEmpty, Goto, WorkerPC, Carries, RunPC
  <2>2. pc[w] = "empty" /\ UNCHANGED <<tasks, held, taskVars, owner, iter>>
    BY <1>e DEF TestEmpty, lifeVars
  <2>3. HeldPlaces' /\ OnePlace' /\ DataPlaces' /\ CounterCountsTasks'
    BY <1>0, <2>1, <2>2, QuietStep DEF Carries, RunPC
  <2>4. Shape'
    BY <1>0, <1>e, <2>1, <2>2 DEF TestEmpty, IInv, Shape, syncVars, lifeVars, taskVars, Workers
  <2>5. MutexPlaces'
    BY <1>0, <1>e, PoolAssumption DEF TestEmpty, Goto, Critical, IInv, Shape, MutexPlaces, syncVars, lifeVars
  <2>6. OwnerPlaces'
    BY <2>1, <2>2, WorkerMoves
  <2> QED BY <2>3, <2>4, <2>5, <2>6 DEF IInv
<1>f. CASE TestRunning(w)
  <2>1. PICK l \in WorkerPC : l \notin Carries /\ pc' = [pc EXCEPT ![w] = l]
    BY <1>f DEF TestRunning, Goto, WorkerPC, Carries, RunPC
  <2>2. pc[w] = "running" /\ UNCHANGED <<tasks, held, taskVars, owner, iter>>
    BY <1>f DEF TestRunning, lifeVars
  <2>3. HeldPlaces' /\ OnePlace' /\ DataPlaces' /\ CounterCountsTasks'
    BY <1>0, <2>1, <2>2, QuietStep DEF Carries, RunPC
  <2>4. Shape'
    BY <1>0, <1>f, <2>1, <2>2 DEF TestRunning, IInv, Shape, syncVars, lifeVars, taskVars, Workers
  <2>5. MutexPlaces'
    <3>1. /\ m_mutex' = w <=> l \in Critical
          /\ \A v \in Workers \ {w} : m_mutex' = v <=> m_mutex = v
          /\ \A v \in m_cvar' : IF v = w THEN l = "asleep" ELSE v \in m_cvar
      BY <1>0, <1>f, <1>n, <2>1, <2>2 DEF TestRunning, Goto, Critical, IInv, Shape, MutexPlaces
    <3> QED BY <2>1, <3>1, MutexStep
  <2>6. OwnerPlaces'
    BY <2>1, <2>2, WorkerMoves
  <2> QED BY <2>3, <2>4, <2>5, <2>6 DEF IInv
<1>g. CASE Wait(w)
  <2>1. PICK l \in WorkerPC : l \notin Carries /\ pc' = [pc EXCEPT ![w] = l]
    BY <1>g DEF Wait, Goto, WorkerPC, Carries, RunPC
  <2>2. pc[w] = "wait" /\ UNCHANGED <<tasks, held, taskVars, owner, iter>>
    BY <1>g DEF Wait, lifeVars
  <2>3. HeldPlaces' /\ OnePlace' /\ DataPlaces' /\ CounterCountsTasks'
    BY <1>0, <2>1, <2>2, QuietStep DEF Carries, RunPC
  <2>4. Shape'
    BY <1>0, <1>g, <2>1, <2>2 DEF Wait, IInv, Shape, syncVars, lifeVars, taskVars, Workers
  <2>5. MutexPlaces'
    <3>1. /\ m_mutex' = w <=> l \in Critical
          /\ \A v \in Workers \ {w} : m_mutex' = v <=> m_mutex = v
          /\ \A v \in m_cvar' : IF v = w THEN l = "asleep" ELSE v \in m_cvar
      BY <1>0, <1>g, <1>n, <2>1, <2>2 DEF Wait, Goto, Critical, IInv, Shape, MutexPlaces
    <3> QED BY <2>1, <3>1, MutexStep
  <2>6. OwnerPlaces'
    BY <2>1, <2>2, WorkerMoves
  <2> QED BY <2>3, <2>4, <2>5, <2>6 DEF IInv
<1>h. CASE Wake(w)
  <2>1. PICK l \in WorkerPC : l \notin Carries /\ pc' = [pc EXCEPT ![w] = l]
    BY <1>h DEF Wake, Goto, WorkerPC, Carries, RunPC
  <2>2. pc[w] = "asleep" /\ UNCHANGED <<tasks, held, taskVars, owner, iter>>
    BY <1>h DEF Wake, lifeVars
  <2>3. HeldPlaces' /\ OnePlace' /\ DataPlaces' /\ CounterCountsTasks'
    BY <1>0, <2>1, <2>2, QuietStep DEF Carries, RunPC
  <2>4. Shape'
    BY <1>0, <1>h, <2>1, <2>2 DEF Wake, IInv, Shape, syncVars, lifeVars, taskVars, Workers
  <2>5. MutexPlaces'
    <3>1. /\ m_mutex' = w <=> l \in Critical
          /\ \A v \in Workers \ {w} : m_mutex' = v <=> m_mutex = v
          /\ \A v \in m_cvar' : IF v = w THEN l = "asleep" ELSE v \in m_cvar
      BY <1>0, <1>h, <1>n, <2>1, <2>2 DEF Wake, Goto, Critical, IInv, Shape, MutexPlaces
    <3> QED BY <2>1, <3>1, MutexStep
  <2>6. OwnerPlaces'
    BY <2>1, <2>2, WorkerMoves
  <2> QED BY <2>3, <2>4, <2>5, <2>6 DEF IInv
<1> QED BY <1>a, <1>b, <1>c, <1>d, <1>e, <1>f, <1>g, <1>h

LEMMA SpuriousWakeupInv == ASSUME IInv, NEW w \in Workers, SpuriousWakeup(w) PROVE IInv'
<1>1. HeldPlaces' /\ OnePlace' /\ DataPlaces' /\ CounterCountsTasks'
  BY SilentStep DEF SpuriousWakeup
<1>2. Shape' /\ MutexPlaces' /\ OwnerPlaces'
  BY DEF SpuriousWakeup, IInv, Shape, MutexPlaces, OwnerPlaces, lifeVars, threadVars, taskVars
<1> QED BY <1>1, <1>2 DEF IInv

-----------------------------------------------------------------------------
(* Steps that move a task *)

\* try_pop_front, by a worker or a client: the front of the queue, which
\* nobody holds, gets into the hands of thread x.
LEMMA TakeTask ==
  ASSUME IInv, NEW x \in Threads, pc[x] \notin Carries, tasks # <<>>,
         tasks' = Tail(tasks), held' = [held EXCEPT ![x] = Head(tasks)],
         pc' = [pc EXCEPT ![x] = "run"], UNCHANGED taskVars
  PROVE  /\ HeldPlaces' /\ OnePlace' /\ DataPlaces' /\ CounterCountsTasks'
         /\ tasks' \in Seq(Tasks) /\ held' \in [Threads -> Tasks \cup {NULL}]
<1> DEFINE h == Head(tasks)
<1>0. /\ tasks \in Seq(Tasks) /\ held \in [Threads -> Tasks \cup {NULL}]
      /\ NULL \notin Tasks
      /\ UNCHANGED <<allocated, m_cnt, posted, done>>
  BY PoolAssumption DEF IInv, Shape, taskVars
<1>1. /\ Len(tasks) \in Nat \ {0} /\ h = tasks[1] /\ h \in Tasks
      /\ tasks' \in Seq(Tasks) /\ Len(tasks') = Len(tasks) - 1
      /\ \A i \in 1 .. Len(tasks') : tasks'[i] = tasks[i + 1]
  BY <1>0
<1>2. h \in Queued /\ h # NULL
  BY <1>0, <1>1 DEF Queued
<1>3. Queued' = Queued \ {h}
  <2>1. \A i \in 1 .. Len(tasks') : tasks'[i] \in Queued /\ tasks'[i] # h
    BY <1>1 DEF Queued, IInv, OnePlace
  <2>2. \A i \in 1 .. Len(tasks) : tasks[i] # h => i - 1 \in 1 .. Len(tasks') /\ tasks[i] = tasks'[i - 1]
    BY <1>1
  <2>3. Queued' \subseteq Queued \ {h}
    BY <2>1 DEF Queued
  <2>4. Queued \ {h} \subseteq Queued'
    BY <2>2 DEF Queued
  <2> QED BY <2>3, <2>4
<1> HIDE DEF h
<1>4. \A y \in Threads : /\ pc'[y] = IF y = x THEN "run" ELSE pc[y]
                         /\ held'[y] = IF y = x THEN h ELSE held[y]
  BY <1>0 DEF IInv, Shape, h
<1>5. HeldPlaces'
  <2> SUFFICES ASSUME NEW y \in Threads
               PROVE  /\ held'[y] # NULL <=> pc'[y] \in Carries
                      /\ pc'[y] \in {"run", "allocate", "push"} => held'[y] \in posted \ done
                      /\ pc'[y] \in {"allocate", "deallocate"} => held'[y] \in Counted
                      /\ pc'[y] = "deallocate" => held'[y] \in done
    BY <1>0 DEF HeldPlaces
  <2>1. h \in posted \ done
    BY <1>2 DEF IInv, OnePlace
  <2>2. CASE y = x
    BY <1>2, <1>4, <2>1, <2>2 DEF Carries, RunPC
  <2>3. CASE y # x
    BY <1>4, <2>3 DEF IInv, HeldPlaces
  <2> QED BY <2>2, <2>3
<1>6. OnePlace'
  <2>1. \A i, j \in 1 .. Len(tasks') : tasks'[i] = tasks'[j] => i = j
    BY <1>1 DEF IInv, OnePlace
  <2>2. \A y, z \in Threads : held'[y] = held'[z] /\ held'[y] # NULL => y = z
    BY <1>2, <1>4 DEF IInv, OnePlace
  <2>3. \A y \in Threads : held'[y] \notin Queued'
    BY <1>3, <1>4 DEF IInv, OnePlace
  <2>4. Queued' \subseteq posted' \ done'
    BY <1>0, <1>3 DEF IInv, OnePlace
  <2>5. ASSUME NEW t \in posted' \ done'
        PROVE  t \in Queued' \/ \E y \in Threads : held'[y] = t
    <3>1. CASE t = h
      BY <1>4, <3>1
    <3>2. CASE t # h /\ t \in Queued
      BY <1>3, <3>2
    <3>3. CASE t \notin Queued
      <4>1. PICK y \in Threads : held[y] = t
        BY <1>0, <3>3 DEF IInv, OnePlace
      <4>2. y # x
        BY <1>0, <2>5, <4>1 DEF IInv, HeldPlaces, Shape
      <4> QED BY <1>4, <4>1, <4>2
    <3> QED BY <3>1, <3>2, <3>3
  <2> QED BY <2>1, <2>2, <2>3, <2>4, <2>5 DEF OnePlace
<1>7. DataPlaces'
  <2>1. h \in Counted => h \in allocated
    BY <1>2 DEF IInv, DataPlaces
  <2> QED BY <1>0, <1>3, <1>4, <2>1 DEF IInv, DataPlaces
<1>8. CounterCountsTasks'
  BY <1>0 DEF IInv, CounterCountsTasks
<1>9. held' \in [Threads -> Tasks \cup {NULL}]
  BY <1>0, <1>1 DEF h
<1> QED BY <1>1, <1>5, <1>6, <1>7, <1>8, <1>9

\* wait_job takes a task, or none when do_work_if_available was faster.
LEMMA PopInv == ASSUME IInv, NEW w \in Workers, Pop(w) PROVE IInv'
<1>0. w \in Threads /\ NULL \notin Workers
  BY PoolAssumption DEF Threads
<1>1. pc[w] = "pop" /\ m_mutex' = NULL /\ UNCHANGED <<m_cvar, lifeVars, taskVars>>
  BY DEF Pop, Take
<1>2. PICK l \in {"loop", "run"} : pc' = [pc EXCEPT ![w] = l]
  BY DEF Pop, Take, Goto
<1>3. /\ HeldPlaces' /\ OnePlace' /\ DataPlaces' /\ CounterCountsTasks'
      /\ tasks' \in Seq(Tasks) /\ held' \in [Threads -> Tasks \cup {NULL}]
  <2>1. CASE tasks = <<>>
    <3>1. pc' = [pc EXCEPT ![w] = "loop"] /\ UNCHANGED <<tasks, held>>
      BY <2>1 DEF Pop, Take, Goto
    <3> QED BY <1>0, <1>1, <3>1, QuietStep DEF Carries, RunPC, IInv, Shape
  <2>2. CASE tasks # <<>>
    <3>1. /\ pc' = [pc EXCEPT ![w] = "run"] /\ tasks' = Tail(tasks)
          /\ held' = [held EXCEPT ![w] = Head(tasks)]
      BY <2>2 DEF Pop, Take, Goto
    <3> QED BY <1>0, <1>1, <2>2, <3>1, TakeTask DEF Carries, RunPC
  <2> QED BY <2>1, <2>2
<1>4. Shape'
  <2>1. PlaceTypes'
    BY <1>0, <1>2, PlaceStep, PoolAssumption DEF WorkerPC, RunPC
  <2> QED BY <1>1, <1>3, <2>1 DEF IInv, Shape, PlaceTypes, lifeVars, taskVars
<1>5. MutexPlaces'
  <2>1. /\ m_mutex' = w <=> l \in Critical
        /\ \A v \in Workers \ {w} : m_mutex' = v <=> m_mutex = v
        /\ \A v \in m_cvar' : IF v = w THEN l = "asleep" ELSE v \in m_cvar
    BY <1>0, <1>1, <1>2 DEF Critical, IInv, Shape, MutexPlaces
  <2> QED BY <1>2, <2>1, MutexStep
<1>6. OwnerPlaces'
  BY <1>1, <1>2, WorkerMoves DEF lifeVars
<1> QED BY <1>3, <1>4, <1>5, <1>6 DEF IInv

\* The end of a task: its function has returned, or its wrapper has given the
\* start data back.  Thread x keeps hold of the task or lets it go.
LEMMA AfterTaskPlaces ==
  ASSUME IInv, NEW x \in Threads, pc[x] \in RunPC, NEW l \in {"deallocate", AfterTask(x)},
         pc' = [pc EXCEPT ![x] = l], UNCHANGED <<syncVars, owner, iter>>
  PROVE  PlaceTypes' /\ MutexPlaces' /\ OwnerPlaces'
<1>0. l \in {"deallocate", "loop", "idle"} /\ (x \in Workers => l # "idle") /\ (x \notin Workers => l # "loop")
  BY DEF AfterTask
<1>1. PlaceTypes'
  BY <1>0, PlaceStep, PoolAssumption DEF WorkerPC, ClientPC, RunPC
<1>2. CASE x \in Workers
  <2>1. OwnerPlaces'
    BY <1>2, WorkerMoves DEF RunPC
  <2>2. /\ m_mutex' = x <=> l \in Critical
        /\ \A v \in Workers \ {x} : m_mutex' = v <=> m_mutex = v
        /\ \A v \in m_cvar' : IF v = x THEN l = "asleep" ELSE v \in m_cvar
    BY <1>0, <1>2 DEF Critical, RunPC, IInv, MutexPlaces, syncVars
  <2>3. MutexPlaces'
    BY <1>2, <2>2, MutexStep
  <2> QED BY <1>1, <2>1, <2>3
<1>3. CASE x \in Clients
  <2>1. OwnerPlaces'
    BY <1>3, ClientMoves DEF RunPC
  <2>2. MutexPlaces'
    BY <1>3, ClientLeavesMutex DEF syncVars
  <2> QED BY <1>1, <2>1, <2>2
<1> QED BY <1>2, <1>3 DEF Threads

\* The function of a task returns: the task is done, and for a counted one the
\* counter goes down.
LEMMA FinishTaskInv == ASSUME IInv, NEW x \in Threads, FinishTask(x) PROVE IInv'
<1> DEFINE h == held[x]
<1>0. /\ pc[x] = "run" /\ done' = done \cup {h}
      /\ UNCHANGED <<tasks, syncVars, lifeVars, allocated, posted>>
  BY DEF FinishTask, Finish
<1>1. h \in posted \ done /\ h \in Tasks /\ h # NULL
  BY <1>0, PoolAssumption DEF IInv, HeldPlaces, Shape
<1>2. h \notin Queued /\ Queued' = Queued
  BY <1>0 DEF IInv, OnePlace, Queued
<1>3. /\ IF h \in Counted THEN m_cnt' = m_cnt - 1 /\ held' = held
                         ELSE m_cnt' = m_cnt /\ held' = [held EXCEPT ![x] = NULL]
      /\ pc' = [pc EXCEPT ![x] = IF h \in Counted THEN "deallocate" ELSE AfterTask(x)]
  BY DEF FinishTask, Finish, Goto
<1>4. PlaceTypes' /\ MutexPlaces' /\ OwnerPlaces'
  <2>1. pc[x] \in RunPC
    BY <1>0 DEF RunPC
  <2> QED BY <1>0, <1>3, <2>1, AfterTaskPlaces DEF lifeVars
<1>5. \A y \in Threads :
        /\ held'[y] = IF y = x /\ h \notin Counted THEN NULL ELSE held[y]
        /\ pc'[y] = IF y = x THEN (IF h \in Counted THEN "deallocate" ELSE AfterTask(x)) ELSE pc[y]
  BY <1>3 DEF IInv, Shape
<1>6. \A y \in Threads : y # x => held[y] # h
  BY <1>1 DEF IInv, OnePlace
<1> HIDE DEF h
<1>7. Shape'
  <2>1. held' \in [Threads -> Tasks \cup {NULL}]
    BY <1>3 DEF IInv, Shape
  <2>2. m_cnt' \in Int
    BY <1>3 DEF IInv, Shape
  <2> QED BY <1>0, <1>1, <1>4, <2>1, <2>2 DEF IInv, Shape, PlaceTypes, syncVars, lifeVars
<1>8. HeldPlaces'
  <2> SUFFICES ASSUME NEW y \in Threads
               PROVE  /\ held'[y] # NULL <=> pc'[y] \in Carries
                      /\ pc'[y] \in {"run", "allocate", "push"} => held'[y] \in posted' \ done'
                      /\ pc'[y] \in {"allocate", "deallocate"} => held'[y] \in Counted
                      /\ pc'[y] = "deallocate" => held'[y] \in done'
    BY DEF HeldPlaces
  <2>1. CASE y = x
    BY <1>0, <1>1, <1>5, <2>1 DEF Carries, RunPC, AfterTask, h
  <2>2. CASE y # x
    BY <1>0, <1>5, <1>6, <2>2 DEF IInv, HeldPlaces
  <2> QED BY <2>1, <2>2
<1>9. OnePlace'
  <2>1. \A i, j \in 1 .. Len(tasks') : tasks'[i] = tasks'[j] => i = j
    BY <1>0 DEF IInv, OnePlace
  <2>2. \A y, z \in Threads : held'[y] = held'[z] /\ held'[y] # NULL => y = z
    BY <1>5 DEF IInv, OnePlace
  <2>3. \A y \in Threads : held'[y] \notin Queued'
    <3>1. NULL \notin Queued
      BY PoolAssumption DEF IInv, Shape, OnePlace
    <3> QED BY <1>2, <1>5, <3>1 DEF IInv, OnePlace
  <2>4. Queued' \subseteq posted' \ done'
    BY <1>0, <1>2 DEF IInv, OnePlace
  <2>5. \A t \in posted' \ done' : t \in Queued' \/ \E y \in Threads : held'[y] = t
    BY <1>0, <1>2, <1>5 DEF IInv, OnePlace, h
  <2> QED BY <2>1, <2>2, <2>3, <2>4, <2>5 DEF OnePlace
<1>10. DataPlaces'
  <2>1. \A t \in Queued' : t \in Counted => t \in allocated'
    BY <1>0, <1>2 DEF IInv, DataPlaces
  <2>2. ASSUME NEW y \in Threads, pc'[y] \in RunPC \cup {"push"}, held'[y] \in Counted
        PROVE  held'[y] \in allocated'
    <3>1. CASE y = x
      BY <1>0, <1>5, <2>2, <3>1, PoolAssumption DEF IInv, DataPlaces, RunPC, h
    <3>2. CASE y # x
      BY <1>0, <1>5, <2>2, <3>2 DEF IInv, DataPlaces
    <3> QED BY <3>1, <3>2
  <2> QED BY <2>1, <2>2 DEF DataPlaces
<1>11. CounterCountsTasks'
  <2> DEFINE S == (posted \cap Counted) \ done
  <2>1. S \subseteq Tasks /\ IsFiniteSet(S)
    BY CountedFinite DEF IInv, Shape
  <2>2. CASE h \in Counted
    <3>1. h \in S /\ S' = S \ {h}
      BY <1>0, <1>1, <2>2
    <3>2. Cardinality(S') = Cardinality(S) - 1
      BY <2>1, <3>1, FS_RemoveElement
    <3> QED BY <1>3, <2>2, <3>2 DEF IInv, CounterCountsTasks
  <2>3. CASE h \notin Counted
    <3>1. S' = S
      BY <1>0, <2>3
    <3> QED BY <1>3, <2>3, <3>1 DEF IInv, CounterCountsTasks
  <2> QED BY <2>2, <2>3
<1> QED BY <1>4, <1>7, <1>8, <1>9, <1>10, <1>11 DEF IInv

\* The wrapper gives its start data back; nobody else has the task.
LEMMA DeallocateInv == ASSUME IInv, NEW x \in Threads, Deallocate(x) PROVE IInv'
<1> DEFINE h == held[x]
<1>0. /\ pc[x] = "deallocate" /\ allocated' = allocated \ {h}
      /\ held' = [held EXCEPT ![x] = NULL]
      /\ pc' = [pc EXCEPT ![x] = AfterTask(x)]
      /\ UNCHANGED <<tasks, syncVars, lifeVars, m_cnt, posted, done>>
  BY DEF Deallocate, Goto
<1>1. h \in done /\ h # NULL
  BY <1>0 DEF IInv, HeldPlaces, Carries, RunPC
<1>2. h \notin Queued /\ Queued' = Queued /\ NULL \notin Queued
  BY <1>0, PoolAssumption DEF IInv, OnePlace, Shape, Queued
<1>3. PlaceTypes' /\ MutexPlaces' /\ OwnerPlaces'
  <2>1. pc[x] \in RunPC
    BY <1>0 DEF RunPC
  <2> QED BY <1>0, <2>1, AfterTaskPlaces DEF lifeVars
<1>4. \A y \in Threads :
        /\ held'[y] = IF y = x THEN NULL ELSE held[y]
        /\ pc'[y] = IF y = x THEN AfterTask(x) ELSE pc[y]
  BY <1>0 DEF IInv, Shape
<1>5. \A y \in Threads : y # x => held[y] # h
  BY <1>1 DEF IInv, OnePlace
<1> HIDE DEF h
<1>6. Shape'
  <2>1. held' \in [Threads -> Tasks \cup {NULL}]
    BY <1>0 DEF IInv, Shape
  <2> QED BY <1>0, <1>3, <2>1 DEF IInv, Shape, PlaceTypes, syncVars, lifeVars
<1>7. HeldPlaces'
  <2> SUFFICES ASSUME NEW y \in Threads
               PROVE  /\ held'[y] # NULL <=> pc'[y] \in Carries
                      /\ pc'[y] \in {"run", "allocate", "push"} => held'[y] \in posted \ done
                      /\ pc'[y] \in {"allocate", "deallocate"} => held'[y] \in Counted
                      /\ pc'[y] = "deallocate" => held'[y] \in done
    BY <1>0 DEF HeldPlaces
  <2>1. CASE y = x
    BY <1>4, <2>1 DEF Carries, RunPC, AfterTask
  <2>2. CASE y # x
    BY <1>4, <2>2 DEF IInv, HeldPlaces
  <2> QED BY <2>1, <2>2
<1>8. OnePlace'
  <2>1. \A t \in posted' \ done' : t \in Queued' \/ \E y \in Threads : held'[y] = t
    BY <1>0, <1>1, <1>2, <1>4 DEF IInv, OnePlace, h
  <2> QED BY <1>0, <1>2, <1>4, <2>1 DEF IInv, OnePlace
<1>9. DataPlaces'
  <2>1. \A t \in Queued' : t \in Counted => t \in allocated'
    BY <1>0, <1>2 DEF IInv, DataPlaces
  <2>2. \A y \in Threads : pc'[y] \in RunPC \cup {"push"} /\ held'[y] \in Counted => held'[y] \in allocated'
    BY <1>0, <1>4, <1>5, PoolAssumption DEF IInv, DataPlaces
  <2> QED BY <2>1, <2>2 DEF DataPlaces
<1>10. CounterCountsTasks'
  BY <1>0 DEF IInv, CounterCountsTasks
<1> QED BY <1>3, <1>6, <1>7, <1>8, <1>9, <1>10 DEF IInv

-----------------------------------------------------------------------------
(* The clients *)

\* post_job is called with a task nobody has seen before.
LEMMA PostJobInv == ASSUME IInv, NEW c \in Clients, NEW t \in Tasks, PostJob(c, t) PROVE IInv'
<1>0. /\ pc[c] = "idle" /\ owner = "open" /\ t \notin posted
      /\ posted' = posted \cup {t} /\ held' = [held EXCEPT ![c] = t]
      /\ UNCHANGED <<tasks, syncVars, lifeVars, allocated, done>>
  BY DEF PostJob
<1>1. PICK l \in {"allocate", "push"} :
        /\ pc' = [pc EXCEPT ![c] = l]
        /\ l = "allocate" <=> t \in Counted
        /\ m_cnt' = IF t \in Counted THEN m_cnt + 1 ELSE m_cnt
  BY DEF PostJob, Goto
<1>2. c \in Threads /\ t # NULL /\ t \notin done /\ t \notin Queued /\ Queued' = Queued
  BY <1>0, PoolAssumption DEF Threads, IInv, Shape, OnePlace, Queued
<1>3. \A y \in Threads : /\ held'[y] = IF y = c THEN t ELSE held[y]
                         /\ pc'[y] = IF y = c THEN l ELSE pc[y]
  BY <1>0, <1>1 DEF IInv, Shape
<1>4. \A y \in Threads : held[y] # t
  BY <1>0, <1>2 DEF IInv, HeldPlaces, Carries, RunPC, Shape
<1>5. PlaceTypes' /\ MutexPlaces' /\ OwnerPlaces'
  <2>1. PlaceTypes'
    BY <1>1, <1>2, PlaceStep, PoolAssumption DEF ClientPC
  <2>2. MutexPlaces'
    BY <1>0, <1>1, ClientLeavesMutex DEF syncVars
  <2>3. OwnerPlaces'
    BY <1>0, ClientMoves DEF lifeVars
  <2> QED BY <2>1, <2>2, <2>3
<1>6. Shape'
  <2>1. held' \in [Threads -> Tasks \cup {NULL}]
    BY <1>0 DEF IInv, Shape
  <2>2. m_cnt' \in Int
    BY <1>1 DEF IInv, Shape
  <2> QED BY <1>0, <1>5, <2>1, <2>2 DEF IInv, Shape, PlaceTypes, syncVars, lifeVars
<1>7. HeldPlaces'
  <2> SUFFICES ASSUME NEW y \in Threads
               PROVE  /\ held'[y] # NULL <=> pc'[y] \in Carries
                      /\ pc'[y] \in {"run", "allocate", "push"} => held'[y] \in posted' \ done'
                      /\ pc'[y] \in {"allocate", "deallocate"} => held'[y] \in Counted
                      /\ pc'[y] = "deallocate" => held'[y] \in done'
    BY DEF HeldPlaces
  <2>1. CASE y = c
    BY <1>0, <1>1, <1>2, <1>3, <2>1 DEF Carries
  <2>2. CASE y # c
    BY <1>0, <1>3, <2>2 DEF IInv, HeldPlaces
  <2> QED BY <2>1, <2>2
<1>8. OnePlace'
  <2>1. \A y, z \in Threads : held'[y] = held'[z] /\ held'[y] # NULL => y = z
    BY <1>3, <1>4 DEF IInv, OnePlace
  <2>2. \A u \in posted' \ done' : u \in Queued' \/ \E y \in Threads : held'[y] = u
    <3> SUFFICES ASSUME NEW u \in posted' \ done', u \notin Queued'
                 PROVE  \E y \in Threads : held'[y] = u
      OBVIOUS
    <3>1. CASE u = t
      BY <1>2, <1>3, <3>1
    <3>2. CASE u # t
      <4>1. PICK y \in Threads : held[y] = u
        BY <1>0, <1>2, <3>2 DEF IInv, OnePlace
      <4>2. held[c] = NULL
        BY <1>0, <1>2 DEF IInv, HeldPlaces, Carries, RunPC
      <4>3. u # NULL
        BY <1>0, <3>2, PoolAssumption DEF IInv, Shape
      <4> QED BY <1>3, <4>1, <4>2, <4>3
    <3> QED BY <3>1, <3>2
  <2> QED BY <1>0, <1>2, <1>3, <2>1, <2>2 DEF IInv, OnePlace
<1>9. DataPlaces'
  <2>1. ASSUME NEW y \in Threads, pc'[y] \in RunPC \cup {"push"}, held'[y] \in Counted
        PROVE  held'[y] \in allocated'
    BY <1>0, <1>1, <1>3, <2>1 DEF IInv, DataPlaces, RunPC
  <2> QED BY <1>0, <1>2, <2>1 DEF IInv, DataPlaces
<1>10. CounterCountsTasks'
  <2> DEFINE S == (posted \cap Counted) \ done
  <2>1. S \subseteq Tasks /\ IsFiniteSet(S)
    BY CountedFinite DEF IInv, Shape
  <2>2. CASE t \in Counted
    <3>1. t \notin S /\ S' = S \cup {t}
      BY <1>0, <1>2, <2>2
    <3>2. Cardinality(S') = Cardinality(S) + 1
      BY <2>1, <3>1, FS_AddElement
    <3> QED BY <1>1, <2>2, <3>2 DEF IInv, CounterCountsTasks
  <2>3. CASE t \notin Counted
    <3>1. S' = S
      BY <1>0, <2>3
    <3> QED BY <1>1, <2>3, <3>1 DEF IInv, CounterCountsTasks
  <2> QED BY <2>2, <2>3
<1> QED BY <1>5, <1>6, <1>7, <1>8, <1>9, <1>10 DEF IInv

\* The start data is there before the task is queued.
LEMMA AllocateInv == ASSUME IInv, NEW c \in Clients, Allocate(c) PROVE IInv'
<1>0. /\ pc[c] = "allocate" /\ allocated' = allocated \cup {held[c]}
      /\ pc' = [pc EXCEPT ![c] = "push"]
      /\ UNCHANGED <<tasks, syncVars, lifeVars, held, m_cnt, posted, done>>
  BY DEF Allocate, Goto
<1>1. c \in Threads /\ Queued' = Queued
  BY <1>0 DEF Threads, Queued
<1>2. held[c] \in Counted
  BY <1>0, <1>1 DEF IInv, HeldPlaces
<1>3. \A y \in Threads : pc'[y] = IF y = c THEN "push" ELSE pc[y]
  BY <1>0 DEF IInv, Shape
<1>4. PlaceTypes' /\ MutexPlaces' /\ OwnerPlaces'
  <2>1. PlaceTypes'
    BY <1>0, <1>1, PlaceStep, PoolAssumption DEF ClientPC
  <2>2. MutexPlaces'
    BY <1>0, ClientLeavesMutex DEF syncVars
  <2>3. OwnerPlaces'
    BY <1>0, ClientMoves DEF lifeVars
  <2> QED BY <2>1, <2>2, <2>3
<1>5. Shape'
  BY <1>0, <1>2, <1>4 DEF IInv, Shape, PlaceTypes, syncVars, lifeVars
<1>6. HeldPlaces'
  <2> SUFFICES ASSUME NEW y \in Threads
               PROVE  /\ held'[y] # NULL <=> pc'[y] \in Carries
                      /\ pc'[y] \in {"run", "allocate", "push"} => held'[y] \in posted' \ done'
                      /\ pc'[y] \in {"allocate", "deallocate"} => held'[y] \in Counted
                      /\ pc'[y] = "deallocate" => held'[y] \in done'
    BY DEF HeldPlaces
  <2>1. CASE y = c
    BY <1>0, <1>3, <2>1 DEF IInv, HeldPlaces, Carries
  <2>2. CASE y # c
    BY <1>0, <1>3, <2>2 DEF IInv, HeldPlaces
  <2> QED BY <2>1, <2>2
<1>7. OnePlace' /\ CounterCountsTasks'
  BY <1>0, <1>1 DEF IInv, OnePlace, CounterCountsTasks
<1>8. DataPlaces'
  <2>1. \A t \in Queued' : t \in Counted => t \in allocated'
    BY <1>0, <1>1 DEF IInv, DataPlaces
  <2>2. \A y \in Threads : pc'[y] \in RunPC \cup {"push"} /\ held'[y] \in Counted => held'[y] \in allocated'
    BY <1>0, <1>3 DEF IInv, DataPlaces
  <2> QED BY <2>1, <2>2 DEF DataPlaces
<1> QED BY <1>4, <1>5, <1>6, <1>7, <1>8 DEF IInv

\* The task goes from the hands of the client to the end of the queue.
LEMMA PushInv == ASSUME IInv, NEW c \in Clients, Push(c) PROVE IInv'
<1> DEFINE h == held[c]
<1>0. /\ pc[c] = "push" /\ tasks' = Append(tasks, h)
      /\ held' = [held EXCEPT ![c] = NULL] /\ pc' = [pc EXCEPT ![c] = "notify"]
      /\ UNCHANGED <<syncVars, lifeVars, allocated, m_cnt, posted, done>>
  BY DEF Push, Goto, taskVars
<1>1. c \in Threads /\ h \in posted \ done /\ h \in Tasks /\ h # NULL /\ NULL \notin Tasks
  BY <1>0, PoolAssumption DEF Threads, IInv, HeldPlaces, Shape
<1>2. /\ tasks' \in Seq(Tasks) /\ Len(tasks) \in Nat /\ Len(tasks') = Len(tasks) + 1
      /\ \A i \in 1 .. Len(tasks) : tasks'[i] = tasks[i]
      /\ tasks'[Len(tasks) + 1] = h
  BY <1>0, <1>1 DEF IInv, Shape
<1>3. Queued' = Queued \cup {h} /\ h \notin Queued
  <2>1. h \notin Queued
    BY <1>1 DEF IInv, OnePlace
  <2> HIDE DEF h
  <2> QED BY <1>2, <2>1 DEF Queued
<1>4. \A y \in Threads : /\ held'[y] = IF y = c THEN NULL ELSE held[y]
                         /\ pc'[y] = IF y = c THEN "notify" ELSE pc[y]
  BY <1>0 DEF IInv, Shape
<1>5. \A y \in Threads : y # c => held[y] # h
  BY <1>1 DEF IInv, OnePlace
<1>6. PlaceTypes' /\ MutexPlaces' /\ OwnerPlaces'
  <2>1. PlaceTypes'
    BY <1>0, <1>1, PlaceStep, PoolAssumption DEF ClientPC
  <2>2. MutexPlaces'
    BY <1>0, ClientLeavesMutex DEF syncVars
  <2>3. OwnerPlaces'
    BY <1>0, ClientMoves DEF lifeVars
  <2> QED BY <2>1, <2>2, <2>3
<1>7. h \in Counted => h \in allocated
  BY <1>0, <1>1 DEF IInv, DataPlaces
<1>8. \A t \in posted \ done : t = h \/ t \in Queued \/ \E y \in Threads : y # c /\ held[y] = t
  BY DEF IInv, OnePlace
<1> HIDE DEF h
<1>9. Shape'
  <2>1. held' \in [Threads -> Tasks \cup {NULL}]
    BY <1>0 DEF IInv, Shape
  <2> QED BY <1>0, <1>2, <1>6, <2>1 DEF IInv, Shape, PlaceTypes, syncVars, lifeVars
<1>10. HeldPlaces'
  <2> SUFFICES ASSUME NEW y \in Threads
               PROVE  /\ held'[y] # NULL <=> pc'[y] \in Carries
                      /\ pc'[y] \in {"run", "allocate", "push"} => held'[y] \in posted' \ done'
                      /\ pc'[y] \in {"allocate", "deallocate"} => held'[y] \in Counted
                      /\ pc'[y] = "deallocate" => held'[y] \in done'
    BY DEF HeldPlaces
  <2>1. CASE y = c
    BY <1>4, <2>1 DEF Carries, RunPC
  <2>2. CASE y # c
    BY <1>0, <1>4, <2>2 DEF IInv, HeldPlaces
  <2> QED BY <2>1, <2>2
<1>11. OnePlace'
  <2>1. ASSUME NEW i \in 1 .. Len(tasks'), NEW j \in 1 .. Len(tasks'), tasks'[i] = tasks'[j]
        PROVE  i = j
    <3>1. \A k \in 1 .. Len(tasks) : tasks[k] # h
      BY <1>3 DEF Queued
    <3> QED BY <1>2, <2>1, <3>1 DEF IInv, OnePlace
  <2>2. \A y, z \in Threads : held'[y] = held'[z] /\ held'[y] # NULL => y = z
    BY <1>4 DEF IInv, OnePlace
  <2>3. \A y \in Threads : held'[y] \notin Queued'
    <3>1. NULL \notin Queued'
      BY <1>1, <1>3 DEF IInv, Shape, OnePlace
    <3> QED BY <1>3, <1>4, <1>5, <3>1 DEF IInv, OnePlace
  <2>4. Queued' \subseteq posted' \ done'
    BY <1>0, <1>1, <1>3 DEF IInv, OnePlace
  <2>5. \A t \in posted' \ done' : t \in Queued' \/ \E y \in Threads : held'[y] = t
    BY <1>0, <1>3, <1>4, <1>8
  <2> QED BY <2>1, <2>2, <2>3, <2>4, <2>5 DEF OnePlace
<1>12. DataPlaces'
  <2>1. \A t \in Queued' : t \in Counted => t \in allocated'
    BY <1>0, <1>3, <1>7 DEF IInv, DataPlaces
  <2>2. \A y \in Threads : pc'[y] \in RunPC \cup {"push"} /\ held'[y] \in Counted => held'[y] \in allocated'
    BY <1>0, <1>4 DEF IInv, DataPlaces, RunPC
  <2> QED BY <2>1, <2>2 DEF DataPlaces
<1>13. CounterCountsTasks'
  BY <1>0 DEF IInv, CounterCountsTasks
<1> QED BY <1>6, <1>9, <1>10, <1>11, <1>12, <1>13 DEF IInv

\* notify_one moves no task, and wakes at most.
LEMMA NotifyInv == ASSUME IInv, NEW c \in Clients, Notify(c) PROVE IInv'
<1>0. /\ pc[c] = "notify" /\ pc' = [pc EXCEPT ![c] = "idle"] /\ m_cvar' \subseteq m_cvar
      /\ UNCHANGED <<tasks, m_mutex, lifeVars, held, taskVars>>
  BY DEF Notify, WakeOne, Goto
<1>1. c \in Threads
  BY DEF Threads
<1>2. HeldPlaces' /\ OnePlace' /\ DataPlaces' /\ CounterCountsTasks'
  BY <1>0, <1>1, QuietStep DEF Carries, RunPC
<1>3. PlaceTypes'
  BY <1>0, <1>1, PlaceStep, PoolAssumption DEF ClientPC
<1>4. MutexPlaces'
  BY <1>0, ClientLeavesMutex
<1>5. OwnerPlaces'
  BY <1>0, ClientMoves DEF lifeVars
<1>6. Shape'
  BY <1>0, <1>3 DEF IInv, Shape, PlaceTypes, lifeVars, taskVars
<1> QED BY <1>2, <1>4, <1>5, <1>6 DEF IInv

\* do_work_if_available takes a task without m_mutex.
LEMMA DoWorkInv == ASSUME IInv, NEW c \in Clients, DoWorkIfAvailable(c) PROVE IInv'
<1>0. /\ pc[c] = "idle" /\ owner = "open" /\ tasks # <<>> /\ tasks' = Tail(tasks)
      /\ held' = [held EXCEPT ![c] = Head(tasks)] /\ pc' = [pc EXCEPT ![c] = "run"]
      /\ UNCHANGED <<syncVars, lifeVars, taskVars>>
  BY DEF DoWorkIfAvailable, Goto
<1>1. c \in Threads
  BY DEF Threads
<1>2. /\ HeldPlaces' /\ OnePlace' /\ DataPlaces' /\ CounterCountsTasks'
      /\ tasks' \in Seq(Tasks) /\ held' \in [Threads -> Tasks \cup {NULL}]
  BY <1>0, <1>1, TakeTask DEF Carries, RunPC
<1>3. PlaceTypes'
  BY <1>0, <1>1, PlaceStep, PoolAssumption DEF RunPC
<1>4. MutexPlaces'
  BY <1>0, ClientLeavesMutex DEF syncVars
<1>5. OwnerPlaces'
  BY <1>0, ClientMoves DEF lifeVars
<1>6. Shape'
  BY <1>0, <1>2, <1>3 DEF IInv, Shape, PlaceTypes, syncVars, lifeVars, taskVars
<1> QED BY <1>2, <1>4, <1>5, <1>6 DEF IInv

-----------------------------------------------------------------------------
(* The constructor and the destructor *)

\* A thread is created at a place nobody has entered.
LEMMA CreateThreadInv == ASSUME IInv, CreateThread PROVE IInv'
<1>0. /\ owner = "create" /\ pc' = [pc EXCEPT ![iter] = "start"]
      /\ iter' = (iter + 1) % NumThreads
      /\ owner' = IF iter + 1 = NumThreads THEN "spin" ELSE "create"
      /\ UNCHANGED <<tasks, syncVars, m_running, m_activeThreads, held, taskVars>>
  BY DEF CreateThread, Goto
<1>1. iter \in Workers /\ iter \in Threads /\ pc[iter] = "uncreated"
  BY <1>0, PoolAssumption DEF IInv, Shape, OwnerPlaces, Workers, Threads
<1>2. iter' \in 0 .. NumThreads - 1 /\ (iter + 1 < NumThreads => iter' = iter + 1)
  BY <1>0, <1>1, PoolAssumption DEF Workers
<1>3. HeldPlaces' /\ OnePlace' /\ DataPlaces' /\ CounterCountsTasks'
  BY <1>0, <1>1, QuietStep DEF Carries, RunPC
<1>4. PlaceTypes'
  BY <1>0, <1>1, PlaceStep, PoolAssumption DEF WorkerPC
<1>5. MutexPlaces'
  <2>1. /\ m_mutex' = iter <=> "start" \in Critical
        /\ \A v \in Workers \ {iter} : m_mutex' = v <=> m_mutex = v
        /\ \A v \in m_cvar' : IF v = iter THEN "start" = "asleep" ELSE v \in m_cvar
    BY <1>0, <1>1 DEF Critical, IInv, MutexPlaces, syncVars
  <2> QED BY <1>0, <1>1, <2>1, MutexStep
<1>6. OwnerPlaces'
  <2>1. \A y \in Threads : pc'[y] = IF y = iter THEN "start" ELSE pc[y]
    BY <1>0 DEF IInv, Shape
  <2>2. \A c \in Clients : pc'[c] = "idle"
    BY <1>0, <1>1, <2>1, PoolAssumption DEF IInv, OwnerPlaces, Threads
  <2>3. owner' = "create" => \A w \in Workers : w >= iter' => pc'[w] = "uncreated"
    BY <1>0, <1>1, <1>2, <2>1, PoolAssumption DEF IInv, OwnerPlaces, Threads, Workers
  <2>4. iter' < NumThreads
    BY <1>2, PoolAssumption
  <2>5. iter + 1 = NumThreads => iter' = 0
    BY <1>0, PoolAssumption
  <2> QED BY <1>0, <2>2, <2>3, <2>4, <2>5 DEF OwnerPlaces
<1>7. Shape'
  <2>1. iter' \in 0 .. NumThreads
    BY <1>2, PoolAssumption
  <2> QED BY <1>0, <1>4, <2>1 DEF IInv, Shape, PlaceTypes, syncVars, taskVars
<1> QED BY <1>3, <1>5, <1>6, <1>7 DEF IInv

\* The other steps of the owner move no thread.
LEMMA OwnerInv ==
  ASSUME IInv, \/ Constructed \/ BeginDestructor \/ NotifyAll \/ Join \/ NotifyAgain
  PROVE  IInv'
<1>0. /\ UNCHANGED <<tasks, m_mutex, m_activeThreads, pc, held, allocated, m_cnt, posted, done>>
      /\ m_cvar' \subseteq m_cvar /\ m_running' \in BOOLEAN
  BY DEF Constructed, BeginDestructor, NotifyAll, Join, NotifyAgain, IInv, Shape,
         syncVars, threadVars, taskVars
<1>1. HeldPlaces' /\ OnePlace' /\ DataPlaces' /\ CounterCountsTasks'
  BY <1>0, SilentStep DEF threadVars, taskVars
<1>2. MutexPlaces'
  BY <1>0 DEF IInv, MutexPlaces
<1>3. /\ owner' \in {"create", "spin", "open", "notify", "join", "renotify", "closed"}
      /\ iter' \in 0 .. NumThreads
      /\ OwnerPlaces'
  <2>1. iter \in 0 .. NumThreads /\ NumThreads \in Nat
    BY PoolAssumption DEF IInv, Shape
  <2>2. CASE Constructed
    BY <1>0, <2>1, <2>2 DEF Constructed, IInv, OwnerPlaces
  <2>3. CASE BeginDestructor
    <3>1. owner = "open" /\ owner' = "notify" /\ iter' = iter /\ \A c \in Clients : pc[c] = "idle"
      BY <2>3 DEF BeginDestructor
    <3>2. iter = 0
      BY <3>1 DEF IInv, OwnerPlaces
    <3> QED BY <1>0, <2>1, <3>1, <3>2 DEF IInv, OwnerPlaces, Workers
  <2>4. CASE NotifyAll
    BY <1>0, <2>1, <2>4 DEF NotifyAll, IInv, OwnerPlaces
  <2>5. CASE Join
    BY <1>0, <2>1, <2>5 DEF Join, IInv, OwnerPlaces
  <2>6. CASE NotifyAgain
    <3>1. /\ owner = "renotify" /\ iter' = iter + 1
          /\ owner' = IF iter + 1 = NumThreads THEN "closed" ELSE "notify"
      BY <2>6 DEF NotifyAgain
    <3>2. iter < NumThreads /\ \A w \in Workers : w < iter' => pc[w] = "exited"
      BY <2>1, <3>1 DEF IInv, OwnerPlaces, Workers
    <3>3. iter' = NumThreads => \A w \in Workers : pc[w] = "exited"
      BY <2>1, <3>2 DEF Workers
    <3> QED BY <1>0, <2>1, <3>1, <3>2, <3>3 DEF IInv, OwnerPlaces
  <2> QED BY <2>2, <2>3, <2>4, <2>5, <2>6
<1>4. Shape'
  BY <1>0, <1>3 DEF IInv, Shape
<1> QED BY <1>1, <1>2, <1>3, <1>4 DEF IInv

-----------------------------------------------------------------------------
(* Theorems *)

LEMMA NextInv == IInv /\ [Next]_vars => IInv'
<1> SUFFICES ASSUME IInv, [Next]_vars PROVE IInv'
  OBVIOUS
<1>1. ASSUME NEW w \in Workers, WorkerStep(w) \/ WorkerAcquires(w) \/ SpuriousWakeup(w) PROVE IInv'
  <2>1. w \in Threads
    BY DEF Threads
  <2> QED BY <1>1, <2>1, WorkerQuietInv, PopInv, FinishTaskInv, DeallocateInv, SpuriousWakeupInv
          DEF WorkerStep, WorkerAcquires
<1>2. ASSUME NEW c \in Clients, ClientCompletes(c) \/ ClientAcquires(c) \/ ClientCalls(c) PROVE IInv'
  <2>1. c \in Threads
    BY DEF Threads
  <2> QED BY <1>2, <2>1, PostJobInv, AllocateInv, PushInv, NotifyInv, DoWorkInv, FinishTaskInv,
             DeallocateInv
          DEF ClientCompletes, ClientAcquires, ClientCalls
<1>3. CASE OwnerStep \/ BeginDestructor
  BY <1>3, CreateThreadInv, OwnerInv DEF OwnerStep
<1>4. CASE UNCHANGED vars
  <2>1. HeldPlaces' /\ OnePlace' /\ DataPlaces' /\ CounterCountsTasks'
    BY <1>4, SilentStep DEF vars
  <2>2. Shape' /\ MutexPlaces' /\ OwnerPlaces'
    BY <1>4 DEF vars, syncVars, lifeVars, threadVars, taskVars, IInv, Shape, MutexPlaces, OwnerPlaces
  <2> QED BY <2>1, <2>2 DEF IInv
<1> QED BY <1>1, <1>2, <1>3, <1>4 DEF Next

LEMMA Invariant == Spec => []IInv
BY InitInv, NextInv, PTL DEF Spec

\* Every variable of the pool keeps its type; the counter is never decremented
\* below zero and the count of active threads stays in its width.
THEOREM PoolTypeCorrect == Spec => []TypeOK
BY Invariant, InvTypeOK, PTL

\* thread_pool.cpp: a posted task is in the queue or in the hands of one thread
\* until it is done, whoever races for it.
THEOREM TasksHeldOnce == Spec => []TaskHeldOnce
BY Invariant, InvTaskHeldOnce, PTL

\* The start data of a counted task outlives the wrapper that uses it.
THEOREM StartDataLives == Spec => []StartDataAlive
BY Invariant, InvStartDataAlive, PTL

\* The counter given to post_job is the number of tasks posted and not done.
THEOREM CounterCounts == Spec => []CounterCountsTasks
<1>1. IInv => CounterCountsTasks
  BY DEF IInv
<1> QED BY <1>1, Invariant, PTL

\* When the destructor returns nobody uses the pool any more.
THEOREM DestructorLeavesQuiet == Spec => []ClosedIsQuiet
BY Invariant, InvClosedIsQuiet, PTL

=============================================================================
