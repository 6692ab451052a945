--------------------------- MODULE BatchJobsProofs ---------------------------
(***************************************************************************)
(* Proofs about run_jobs, for any number of workers, arrays and batches of *)
(* any sizes: joins are sound up to the first undefined behaviour, and     *)
(* with one job to a batch there is none.                                  *)
(***************************************************************************)
EXTENDS BatchJobs, FiniteSetTheorems, TLAPS

(***************************************************************************)
(* The inductive invariant.  That the counter counts the jobs rests on     *)
(* what the caller's loops have done so far: an element is counted once,   *)
(* when it is filled in, and not when it is queued.                        *)
(***************************************************************************)

Stages  == {"none", "made", "queued", "running", "complete", "delete"}
Counted == {"made", "queued", "running", "complete"}

\* The jobs that will still decrement the counter.
Live == {e \in Elements : stage[e] \in Counted}

\* TypeOK with the counter in Int.
Shape ==
  /\ allocated \subseteq Arrays
  /\ count \in [Arrays -> Counts \cup {0}]
  /\ stage \in [Elements -> Stages]
  /\ m_cnt \in Int
  /\ at \in {"body", "fill", "schedule", "waiting"}
  /\ data \in Arrays \cup {NULL}
  /\ i \in Index
  /\ target \in [Workers -> Elements \cup {NULL}]
  /\ batches \in 0 .. MaxBatches
  /\ misused \in BOOLEAN

CounterCountsLive == IsFiniteSet(Live) /\ m_cnt = Cardinality(Live)

\* The loop of run_jobs has filled in the elements before i and no other.
Filling ==
  at = "fill" =>
    /\ data \in Arrays /\ count[data] \in Counts /\ i <= count[data]
    /\ \A k \in Index : k < i => stage[<<data, k>>] = "made"
    /\ \A k \in Index : k >= i => stage[<<data, k>>] = "none"

\* The loop of batch_schedule has yet to queue the elements from i on.
Scheduling ==
  at = "schedule" =>
    /\ data \in Arrays /\ count[data] \in Counts /\ i <= count[data]
    /\ \A k \in i .. count[data] : stage[<<data, k>>] = "made"

Outside == at \notin {"fill", "schedule"} => i = 1

IInv ==
  /\ Shape
  /\ CounterCountsLive
  /\ Filling
  /\ Scheduling
  /\ Outside

\* For batches of one.  A worker holds its job alone until it has given it back.
HeldAlone ==
  \A w \in Workers : target[w] # NULL =>
    /\ stage[target[w]] \in {"running", "complete", "delete"}
    /\ \A v \in Workers : target[v] = target[w] => v = w

\* A job that exists is the first of an array that is allocated.
InUse == \A e \in Elements : stage[e] # "none" => e[2] = 1 /\ e[1] \in allocated

SingleInv ==
  /\ HeldAlone
  /\ InUse
  /\ at = "fill" => data \in allocated
  /\ ~misused

-----------------------------------------------------------------------------
(* An element changes its stage *)

\* An element is counted from when it is made until it is to be deleted.
LEMMA StageSets ==
  ASSUME stage \in [Elements -> Stages], NEW e \in Elements, NEW s \in Stages, SetStage(e, s)
  PROVE  /\ stage' \in [Elements -> Stages]
         /\ stage'[e] = s
         /\ \A d \in Elements : d # e => stage'[d] = stage[d]
         /\ Live' = IF s \in Counted THEN Live \cup {e} ELSE Live \ {e}
<1>1. /\ stage' \in [Elements -> Stages]
      /\ stage'[e] = s
      /\ \A d \in Elements : d # e => stage'[d] = stage[d]
  BY DEF SetStage
<1>2. Live' = IF s \in Counted THEN Live \cup {e} ELSE Live \ {e}
  BY <1>1 DEF Live
<1> QED  BY <1>1, <1>2

\* A step from one stage to another of the same kind is not counted.
LEMMA SameLive ==
  ASSUME stage \in [Elements -> Stages], NEW e \in Elements, NEW s \in Stages, SetStage(e, s),
         stage[e] \in Counted <=> s \in Counted
  PROVE  Live' = Live
BY StageSets DEF Live

\* The elements of an array.
LEMMA ElementOf == \A a \in Arrays, k \in Index : <<a, k>> \in Elements
BY DEF Elements

\* An array has at least one element and at most as many as Index.
LEMMA CountInIndex == \A n \in Counts : n \in Index /\ n >= 1
BY BatchAssumption DEF Index

LEMMA IndexBounds ==
  /\ MaxCount \in Nat /\ 1 \in Index
  /\ \A k : k \in Index <=> k \in Nat /\ 1 <= k /\ k <= MaxCount
BY BatchAssumption DEF Index

-----------------------------------------------------------------------------
(* The invariant *)

LEMMA InitInv == Init => IInv
<1> SUFFICES ASSUME Init PROVE IInv
  OBVIOUS
<1>1. Live = {}
  BY DEF Init, Live, Counted
<1>2. CounterCountsLive
  BY <1>1, FS_EmptySet DEF CounterCountsLive, Init
<1>3. 1 \in Index /\ 0 \in 0 .. MaxBatches
  BY IndexBounds, BatchAssumption
<1>4. Shape
  <2>1. stage \in [Elements -> Stages] /\ target \in [Workers -> Elements \cup {NULL}]
    BY DEF Init, Stages
  <2>2. count \in [Arrays -> Counts \cup {0}]
    BY DEF Init
  <2>3. /\ allocated \subseteq Arrays /\ m_cnt \in Int /\ at = "body"
        /\ data \in Arrays \cup {NULL} /\ i \in Index
        /\ batches \in 0 .. MaxBatches
    BY <1>3 DEF Init
  <2>4. misused \in BOOLEAN
    BY DEF Init
  <2> QED  BY <2>1, <2>2, <2>3, <2>4 DEF Shape
<1>5. Filling /\ Scheduling /\ Outside
  BY DEF Init, Filling, Scheduling, Outside
<1> QED  BY <1>2, <1>4, <1>5 DEF IInv

LEMMA RunJobsInv ==
  ASSUME IInv, RunJobs
  PROVE  IInv'
<1>1. PICK a \in Arrays \ allocated, n \in Counts :
        /\ \A k \in Index : stage[<<a, k>>] = "none"
        /\ allocated' = allocated \cup {a}
        /\ count' = [count EXCEPT ![a] = n]
        /\ data' = a
  BY DEF RunJobs
<1>2. /\ at = "body" /\ at' = "fill" /\ batches < MaxBatches /\ batches' = batches + 1
      /\ UNCHANGED <<stage, m_cnt, i, target, misused>>
  BY DEF RunJobs
<1>3. i = 1
  BY <1>2 DEF IInv, Outside
<1>4. batches' \in 0 .. MaxBatches
  BY <1>2, BatchAssumption DEF IInv, Shape
<1>5. Shape'
  BY <1>1, <1>2, <1>4 DEF IInv, Shape
<1>6. CounterCountsLive'
  <2>1. Live' = Live
    BY <1>2 DEF Live
  <2> QED  BY <1>2, <2>1 DEF IInv, CounterCountsLive
<1>7. Filling'
  <2>1. count'[a] = n
    BY <1>1 DEF IInv, Shape
  <2>2. i' <= n /\ \A k \in Index : ~(k < i')
    BY <1>2, <1>3, CountInIndex DEF Index
  <2> QED  BY <1>1, <1>2, <2>1, <2>2 DEF Filling
<1>8. Scheduling' /\ Outside'
  BY <1>2 DEF Scheduling, Outside
<1> QED  BY <1>5, <1>6, <1>7, <1>8 DEF IInv

\* An iteration of the loop of run_jobs: the element is counted and was not.
LEMMA FillInv ==
  ASSUME IInv, Fill
  PROVE  IInv'
<1> DEFINE e == <<data, i>>
<1>1. /\ at = "fill" /\ m_cnt' = m_cnt + 1
      /\ SetStage(e, "made")
      /\ Loop("fill", "schedule")
      /\ UNCHANGED <<allocated, count, data, target, batches, misused>>
  BY DEF Fill, Increment
<1>2. /\ data \in Arrays /\ count[data] \in Counts /\ i <= count[data] /\ i \in Index
      /\ \A k \in Index : k < i => stage[<<data, k>>] = "made"
      /\ \A k \in Index : k >= i => stage[<<data, k>>] = "none"
  BY <1>1 DEF IInv, Filling, Shape
<1>3. e \in Elements
  BY <1>2, ElementOf
<1>4. i \in Nat /\ count[data] \in Nat /\ count[data] \in Index /\ Index \subseteq Nat
  BY <1>2, CountInIndex, IndexBounds
<1>5. stage[e] = "none"
  BY <1>2, <1>4
<1>6. "made" \in Stages /\ "made" \in Counted /\ "none" \notin Counted
  BY DEF Stages, Counted
<1> HIDE DEF e
<1>7. /\ stage' \in [Elements -> Stages]
      /\ stage'[e] = "made"
      /\ \A d \in Elements : d # e => stage'[d] = stage[d]
      /\ Live' = Live \cup {e}
  BY <1>1, <1>3, <1>6, StageSets DEF IInv, Shape
<1>8. CounterCountsLive'
  <2>1. e \notin Live
    BY <1>5, <1>6 DEF Live
  <2>2. IsFiniteSet(Live) /\ m_cnt = Cardinality(Live)
    BY DEF IInv, CounterCountsLive
  <2>3. IsFiniteSet(Live \cup {e}) /\ Cardinality(Live \cup {e}) = Cardinality(Live) + 1
    BY <2>1, <2>2, FS_AddElement
  <2> QED  BY <1>1, <1>7, <2>2, <2>3 DEF CounterCountsLive
<1>9. /\ i = count[data] => i' = 1 /\ at' = "schedule"
      /\ i # count[data] => i' = i + 1 /\ at' = "fill"
  BY <1>1 DEF Loop
<1>10. i' \in Index
  BY <1>2, <1>4, <1>9, IndexBounds
<1>11. Shape'
  BY <1>1, <1>7, <1>9, <1>10 DEF IInv, Shape
<1>12. \A k \in Index : <<data, k>> \in Elements /\ (<<data, k>> = e <=> k = i)
  BY <1>2, ElementOf DEF e
<1>13. Filling'
  <2> SUFFICES ASSUME at' = "fill" PROVE Filling'
    BY DEF Filling
  <2>1. i' = i + 1 /\ i # count[data]
    BY <1>9
  <2>2. i' <= count[data]
    BY <1>2, <1>4, <2>1
  <2>3. \A k \in Index : k < i' => stage'[<<data, k>>] = "made"
    BY <1>2, <1>4, <1>7, <1>12, <2>1
  <2>4. \A k \in Index : k >= i' => stage'[<<data, k>>] = "none"
    BY <1>2, <1>4, <1>7, <1>12, <2>1
  <2> QED  BY <1>1, <1>2, <2>2, <2>3, <2>4 DEF Filling
<1>14. Scheduling'
  <2> SUFFICES ASSUME at' = "schedule" PROVE Scheduling'
    BY DEF Scheduling
  <2>1. i' = 1 /\ i = count[data]
    BY <1>9
  <2>2. 1 <= count[data]
    BY <1>2, CountInIndex
  <2>3. \A k \in 1 .. count[data] : k \in Index /\ k <= i
    BY <1>4, <2>1, IndexBounds
  <2>4. \A k \in 1 .. count[data] : stage'[<<data, k>>] = "made"
    BY <1>2, <1>4, <1>7, <1>12, <2>3
  <2> QED  BY <1>1, <1>2, <2>1, <2>2, <2>4 DEF Scheduling
<1>15. Outside'
  BY <1>9 DEF Outside
<1> QED  BY <1>8, <1>11, <1>13, <1>14, <1>15 DEF IInv

\* An iteration of batch_schedule: the element stays counted.
LEMMA BatchScheduleInv ==
  ASSUME IInv, BatchSchedule
  PROVE  IInv'
<1> DEFINE e == <<data, i>>
<1>1. /\ at = "schedule"
      /\ SetStage(e, "queued")
      /\ Loop("schedule", "body")
      /\ misused' = (data \notin allocated)
      /\ UNCHANGED <<allocated, count, m_cnt, data, target, batches>>
  BY DEF BatchSchedule, Touch
<1>2. /\ data \in Arrays /\ count[data] \in Counts /\ i <= count[data] /\ i \in Index
      /\ \A k \in i .. count[data] : stage[<<data, k>>] = "made"
  BY <1>1 DEF IInv, Scheduling, Shape
<1>3. e \in Elements
  BY <1>2, ElementOf
<1>4. i \in Nat /\ count[data] \in Nat /\ count[data] \in Index /\ Index \subseteq Nat
  BY <1>2, CountInIndex, IndexBounds
<1>5. stage[e] = "made"
  BY <1>2, <1>4
<1>6. "queued" \in Stages /\ "queued" \in Counted /\ "made" \in Counted
  BY DEF Stages, Counted
<1> HIDE DEF e
<1>7. /\ stage' \in [Elements -> Stages]
      /\ \A d \in Elements : d # e => stage'[d] = stage[d]
      /\ Live' = Live
  BY <1>1, <1>3, <1>5, <1>6, StageSets, SameLive DEF IInv, Shape
<1>8. /\ i = count[data] => i' = 1 /\ at' = "body"
      /\ i # count[data] => i' = i + 1 /\ at' = "schedule"
  BY <1>1 DEF Loop
<1>9. i' \in Index
  BY <1>2, <1>4, <1>8, IndexBounds
<1>10. Shape'
  BY <1>1, <1>7, <1>8, <1>9 DEF IInv, Shape
<1>11. CounterCountsLive'
  BY <1>1, <1>7 DEF IInv, CounterCountsLive
<1>12. Scheduling'
  <2> SUFFICES ASSUME at' = "schedule" PROVE Scheduling'
    BY DEF Scheduling
  <2>1. i' = i + 1 /\ i # count[data]
    BY <1>8
  <2>2. i' <= count[data]
    BY <1>2, <1>4, <2>1
  <2>3. ASSUME NEW k \in i' .. count[data]
        PROVE  stage'[<<data, k>>] = "made"
    <3>1. k \in i .. count[data] /\ k # i /\ k \in Index
      BY <1>4, <2>1, IndexBounds
    <3>2. <<data, k>> \in Elements /\ <<data, k>> # e
      BY <1>2, <3>1, ElementOf DEF e
    <3> QED  BY <1>2, <1>7, <3>1, <3>2
  <2> QED  BY <1>1, <1>2, <2>2, <2>3 DEF Scheduling
<1>13. Filling' /\ Outside'
  BY <1>8 DEF Filling, Outside
<1> QED  BY <1>10, <1>11, <1>12, <1>13 DEF IInv

LEMMA WaitInv ==
  ASSUME IInv, StartWait \/ WaitDone
  PROVE  IInv'
<1>1. /\ at \in {"body", "waiting"} /\ at' \in {"body", "waiting"}
      /\ UNCHANGED <<allocated, count, stage, m_cnt, data, i, target, batches, misused>>
  BY DEF StartWait, WaitDone
<1>2. Live' = Live
  BY <1>1 DEF Live
<1>3. Shape' /\ CounterCountsLive'
  BY <1>1, <1>2 DEF IInv, Shape, CounterCountsLive
<1>4. Filling' /\ Scheduling' /\ Outside'
  BY <1>1 DEF IInv, Filling, Scheduling, Outside
<1> QED  BY <1>3, <1>4 DEF IInv

\* A worker touches no element the caller's loops have still to come to.
LEMMA WorkerKeepsLoops ==
  ASSUME IInv, NEW e \in Elements,
         stage[e] \notin {"none", "made"},
         \A d \in Elements : d # e => stage'[d] = stage[d],
         UNCHANGED <<count, at, data, i>>
  PROVE  Filling' /\ Scheduling' /\ Outside'
<1>1. Filling'
  <2> SUFFICES ASSUME at = "fill" PROVE Filling'
    BY DEF Filling
  <2>1. data \in Arrays /\ i \in Nat /\ Index \subseteq Nat
    BY IndexBounds DEF IInv, Filling, Shape
  <2>2. ASSUME NEW k \in Index
        PROVE  stage'[<<data, k>>] = stage[<<data, k>>]
    BY <2>1, ElementOf DEF IInv, Filling
  <2> QED  BY <2>2 DEF IInv, Filling
<1>2. Scheduling'
  <2> SUFFICES ASSUME at = "schedule" PROVE Scheduling'
    BY DEF Scheduling
  <2>1. /\ data \in Arrays /\ count[data] \in Index /\ i \in Index
        /\ \A k \in i .. count[data] : stage[<<data, k>>] = "made"
    BY CountInIndex DEF IInv, Scheduling, Shape
  <2>2. ASSUME NEW k \in i .. count[data]
        PROVE  stage'[<<data, k>>] = "made"
    <3>1. k \in Index
      BY <2>1, IndexBounds
    <3> QED  BY <2>1, <3>1, ElementOf
  <2> QED  BY <2>2 DEF IInv, Scheduling
<1>3. Outside'
  BY DEF IInv, Outside
<1> QED  BY <1>1, <1>2, <1>3

\* What a worker does, seen from element e, which goes to stage s: it is popped,
\* queued again, returns, is counted down, and is given back.
Moves(w, e, s) ==
  /\ SetStage(e, s)
  /\ \/ /\ stage[e] = "queued" /\ s = "running"
        /\ target[w] = NULL /\ target' = [target EXCEPT ![w] = e]
     \/ /\ stage[e] = "running" /\ s = "queued"
        /\ target[w] = e /\ target' = [target EXCEPT ![w] = NULL]
     \/ /\ stage[e] = "running" /\ s = "complete"
        /\ target[w] = e /\ UNCHANGED target
     \/ /\ stage[e] = "complete" /\ s = "delete"
        /\ target[w] = e /\ UNCHANGED target
     \/ /\ stage[e] = "delete" /\ s = "none"
        /\ target[w] = e /\ target' = [target EXCEPT ![w] = NULL]
  /\ m_cnt' = IF s = "delete" THEN m_cnt - 1 ELSE m_cnt
  /\ IF s = "none" THEN Deallocate(e) ELSE Touch(e) /\ UNCHANGED allocated
  /\ UNCHANGED <<count, at, data, i, batches>>

LEMMA WorkerMoves ==
  ASSUME IInv, NEW w \in Workers, Worker(w)
  PROVE  \E e \in Elements, s \in Stages : Moves(w, e, s)
<1>1. target[w] # NULL => target[w] \in Elements
  BY DEF IInv, Shape
<1>2. CASE Pop(w)
  <2>1. PICK e \in Elements :
          /\ stage[e] = "queued"
          /\ target' = [target EXCEPT ![w] = e]
          /\ SetStage(e, "running")
          /\ Touch(e)
    BY <1>2 DEF Pop
  <2> QED  BY <1>2, <2>1 DEF Pop, Moves, Stages
<1>3. CASE Reschedule(w)
  BY <1>1, <1>3 DEF Reschedule, Step, Moves, Stages
<1>4. CASE Return(w)
  BY <1>1, <1>4 DEF Return, Step, Moves, Stages
<1>5. CASE Complete(w)
  BY <1>1, <1>5 DEF Complete, Step, Moves, Stages
<1>6. CASE DeleteFiber(w)
  BY <1>1, <1>6 DEF DeleteFiber, Discard, Moves, Stages
<1> QED  BY <1>2, <1>3, <1>4, <1>5, <1>6 DEF Worker

LEMMA WorkerInv ==
  ASSUME IInv, NEW w \in Workers, Worker(w)
  PROVE  IInv'
<1> PICK e \in Elements, s \in Stages : Moves(w, e, s)
  BY WorkerMoves
<1>1. /\ SetStage(e, s)
      /\ stage[e] \notin {"none", "made"}
      /\ UNCHANGED <<count, at, data, i, batches>>
  BY DEF Moves
<1>a. /\ m_cnt' = IF s = "delete" THEN m_cnt - 1 ELSE m_cnt
      /\ s = "delete" => stage[e] = "complete"
      /\ s # "delete" => (stage[e] \in Counted <=> s \in Counted)
  BY DEF Moves, Counted
<1>b. allocated' \subseteq allocated
  BY DEF Moves, Deallocate
<1>c. misused' \in BOOLEAN
  BY DEF Moves, Deallocate, Touch
<1>d. target' \in [Workers -> Elements \cup {NULL}]
  BY DEF Moves, IInv, Shape
<1>2. /\ stage' \in [Elements -> Stages]
      /\ \A d \in Elements : d # e => stage'[d] = stage[d]
      /\ Live' = IF s \in Counted THEN Live \cup {e} ELSE Live \ {e}
  BY <1>1, StageSets DEF IInv, Shape
<1>3. Shape'
  <2>1. m_cnt' \in Int
    BY <1>a DEF IInv, Shape
  <2> QED  BY <1>1, <1>2, <1>b, <1>c, <1>d, <2>1 DEF IInv, Shape
<1>4. CounterCountsLive'
  <2>1. IsFiniteSet(Live) /\ m_cnt = Cardinality(Live)
    BY DEF IInv, CounterCountsLive
  <2>2. CASE s = "delete"
    <3>1. e \in Live /\ Live' = Live \ {e}
      BY <1>2, <1>a, <2>2 DEF Live, Counted
    <3>2. IsFiniteSet(Live \ {e}) /\ Cardinality(Live \ {e}) = Cardinality(Live) - 1
      BY <2>1, <3>1, FS_RemoveElement
    <3> QED  BY <1>a, <2>1, <2>2, <3>1, <3>2 DEF CounterCountsLive
  <2>3. CASE s # "delete"
    <3>1. Live' = Live
      BY <1>1, <1>a, <2>3, SameLive DEF IInv, Shape
    <3> QED  BY <1>a, <2>1, <2>3, <3>1 DEF CounterCountsLive
  <2> QED  BY <2>2, <2>3
<1>5. Filling' /\ Scheduling' /\ Outside'
  BY <1>1, <1>2, WorkerKeepsLoops
<1> QED  BY <1>3, <1>4, <1>5 DEF IInv

LEMMA NextInv == IInv /\ [Next]_vars => IInv'
<1> SUFFICES ASSUME IInv, [Next]_vars PROVE IInv'
  OBVIOUS
<1>1. CASE Caller
  BY <1>1, RunJobsInv, FillInv, BatchScheduleInv, WaitInv DEF Caller
<1>2. ASSUME NEW w \in Workers, Worker(w)
      PROVE  IInv'
  BY <1>2, WorkerInv
<1>3. CASE UNCHANGED vars
  <2>1. Live' = Live
    BY <1>3 DEF Live, vars
  <2>2. Shape' /\ CounterCountsLive'
    BY <1>3, <2>1 DEF IInv, Shape, CounterCountsLive, vars
  <2>3. Filling' /\ Scheduling' /\ Outside'
    BY <1>3 DEF IInv, Filling, Scheduling, Outside, vars
  <2> QED  BY <2>2, <2>3 DEF IInv
<1> QED  BY <1>1, <1>2, <1>3 DEF Next

LEMMA SpecInv == Spec => []IInv
BY InitInv, NextInv, PTL DEF Spec

-----------------------------------------------------------------------------
(* Batches of one *)

\* No run_jobs has had more than one job so far.
AllSingle == \A a \in Arrays : count[a] <= 1

\* An array of more has left its second element in some queue or hand: it cannot
\* be given back without harm, so that the address is not used again.
ArraysRemain ==
  \A a \in Arrays : count[a] > 1 =>
    misused \/ (at = "fill" /\ data = a /\ i <= 2) \/ stage[<<a, 2>>] # "none"

LEMMA SingleInit == Init => SingleInv /\ ArraysRemain
BY DEF Init, SingleInv, HeldAlone, InUse, ArraysRemain

LEMMA SingleCount ==
  ASSUME AllSingle, NEW a \in Arrays, count[a] \in Counts
  PROVE  count[a] = 1
<1>1. count[a] \in 1 .. MaxCount /\ MaxCount \in Nat
  BY BatchAssumption
<1> QED  BY <1>1 DEF AllSingle

LEMMA CountType ==
  ASSUME IInv, NEW a \in Arrays
  PROVE  count[a] \in 0 .. MaxCount
<1>1. count[a] \in Counts \cup {0}
  BY DEF IInv, Shape
<1>2. CASE count[a] = 0
  BY <1>2, IndexBounds
<1>3. CASE count[a] \in Counts
  <2>1. count[a] \in Index
    BY <1>3, CountInIndex
  <2> QED  BY <2>1, IndexBounds
<1> QED  BY <1>1, <1>2, <1>3

\* The second element of an array is an element.
LEMMA SecondElement ==
  ASSUME IInv, NEW a \in Arrays, count[a] > 1
  PROVE  2 \in Index /\ <<a, 2>> \in Elements
<1>1. count[a] \in 0 .. MaxCount
  BY CountType
<1>2. 2 \in Index
  BY <1>1, IndexBounds
<1> QED  BY <1>2 DEF Elements

\* No step makes a batch of one out of an array.
LEMMA ArraysRemainInv ==
  ASSUME IInv, ArraysRemain, [Next]_vars
  PROVE  ArraysRemain' /\ (AllSingle' => AllSingle)
<1>1. CASE RunJobs
  <2>1. PICK a \in Arrays, n \in Counts :
          /\ \A k \in Index : stage[<<a, k>>] = "none"
          /\ count' = [count EXCEPT ![a] = n]
          /\ data' = a
    BY <1>1 DEF RunJobs
  <2>2. /\ ~misused /\ at # "fill"
        /\ at' = "fill" /\ i' = i /\ i = 1
        /\ UNCHANGED <<stage, misused>>
    BY <1>1 DEF RunJobs, IInv, Outside
  <2>3. ~(count[a] > 1)
    BY <2>1, <2>2, SecondElement DEF ArraysRemain
  <2>4. \A b \in Arrays : b # a => count'[b] = count[b]
    BY <2>1 DEF IInv, Shape
  <2>5. ArraysRemain'
    BY <2>1, <2>2, <2>4 DEF ArraysRemain
  <2>6. count[a] \in 0 .. MaxCount /\ MaxCount \in Nat
    BY CountType, IndexBounds
  <2>7. AllSingle' => AllSingle
    BY <2>3, <2>4, <2>6 DEF AllSingle
  <2> QED  BY <2>5, <2>7
<1>2. CASE Fill \/ BatchSchedule
  <2>1. /\ ~misused
        /\ data \in Arrays /\ i \in Index /\ <<data, i>> \in Elements
        /\ i <= count[data]
        /\ UNCHANGED <<count, data>>
    BY <1>2, ElementOf DEF Fill, BatchSchedule, IInv, Shape, Filling, Scheduling
  <2>2. PICK s \in {"made", "queued"} : SetStage(<<data, i>>, s)
    BY <1>2 DEF Fill, BatchSchedule
  <2>3. /\ stage'[<<data, i>>] = s
        /\ \A d \in Elements : d # <<data, i>> => stage'[d] = stage[d]
    BY <2>1, <2>2, StageSets DEF IInv, Shape, Stages
  <2>4. SUFFICES ASSUME NEW a \in Arrays, count[a] > 1
                 PROVE  \/ at' = "fill" /\ data = a /\ i' <= 2
                        \/ stage'[<<a, 2>>] # "none"
    BY <2>1 DEF ArraysRemain, AllSingle
  <2>5. <<a, 2>> \in Elements
    BY <2>4, SecondElement
  <2>6. CASE at = "fill" /\ data = a /\ i <= 2
    <3>1. CASE i = 2
      BY <2>3, <2>6, <3>1
    <3>2. CASE i = 1
      <4>1. i # count[data]
        BY <2>4, <2>6, <3>2
      <4> QED  BY <1>2, <2>6, <3>2, <4>1 DEF Fill, BatchSchedule, Loop
    <3> QED  BY <2>1, <2>6, <3>1, <3>2, IndexBounds
  <2>7. CASE stage[<<a, 2>>] # "none"
    BY <2>3, <2>5, <2>7
  <2> QED  BY <2>1, <2>4, <2>6, <2>7 DEF ArraysRemain
<1>3. ASSUME NEW w \in Workers, Worker(w)
      PROVE  ArraysRemain' /\ (AllSingle' => AllSingle)
  <2> PICK e \in Elements, s \in Stages : Moves(w, e, s)
    BY <1>3, WorkerMoves
  <2>1. /\ SetStage(e, s)
        /\ UNCHANGED <<count, at, data, i>>
        /\ ~misused
        /\ s = "none" => Deallocate(e)
    BY <1>3 DEF Moves, Worker, Pop, Reschedule, Return, Complete, DeleteFiber, Discard, Step
  <2>2. /\ stage'[e] = s
        /\ \A d \in Elements : d # e => stage'[d] = stage[d]
    BY <2>1, StageSets DEF IInv, Shape
  <2>3. s = "none" /\ e[2] # 1 => misused'
    BY <2>1 DEF Deallocate
  <2>4. ArraysRemain'
    <3> SUFFICES ASSUME NEW a \in Arrays, count[a] > 1, ~misused',
                        ~(at = "fill" /\ data = a /\ i <= 2)
                 PROVE  stage'[<<a, 2>>] # "none"
      BY <2>1 DEF ArraysRemain
    <3>1. stage[<<a, 2>>] # "none" /\ <<a, 2>> \in Elements
      BY <2>1, SecondElement DEF ArraysRemain
    <3>2. CASE e = <<a, 2>>
      BY <2>2, <2>3, <3>2
    <3> QED  BY <2>2, <3>1, <3>2
  <2>5. AllSingle' => AllSingle
    BY <2>1 DEF AllSingle
  <2> QED  BY <2>4, <2>5
<1>4. CASE StartWait \/ WaitDone \/ UNCHANGED vars
  <2>1. /\ UNCHANGED <<count, stage, data, i, misused>>
        /\ at = "fill" => at' = "fill"
    BY <1>4 DEF StartWait, WaitDone, vars
  <2> QED  BY <2>1 DEF ArraysRemain, AllSingle
<1> QED  BY <1>1, <1>2, <1>3, <1>4 DEF Next, Caller

\* The caller's steps, with one job to a batch.
LEMMA SingleCaller ==
  ASSUME IInv, SingleInv, AllSingle, Caller
  PROVE  SingleInv'
<1>1. HeldAlone /\ InUse /\ ~misused
  BY DEF SingleInv
<1>2. CASE RunJobs
  <2>1. /\ allocated \subseteq allocated' /\ data' \in allocated'
        /\ UNCHANGED <<stage, target, misused>>
    BY <1>2 DEF RunJobs
  <2> QED  BY <1>1, <2>1 DEF SingleInv, HeldAlone, InUse
<1>3. CASE Fill \/ BatchSchedule
  <2>1. /\ data \in Arrays /\ i \in Index /\ count[data] = 1 /\ i <= count[data]
        /\ stage[<<data, i>>] \in {"none", "made"}
        /\ data \in allocated
    <3>1. CASE Fill
      <4>1. /\ data \in Arrays /\ i \in Index /\ i <= count[data]
            /\ count[data] \in Counts
            /\ stage[<<data, i>>] = "none"
            /\ data \in allocated
        BY <3>1, IndexBounds DEF Fill, IInv, Filling, Shape, SingleInv
      <4> QED  BY <4>1, SingleCount
    <3>2. CASE BatchSchedule
      <4>1. /\ data \in Arrays /\ i \in Index /\ count[data] = 1 /\ i <= count[data]
            /\ stage[<<data, i>>] = "made"
        BY <3>2, IndexBounds, SingleCount DEF BatchSchedule, IInv, Scheduling, Shape
      <4>2. data \in allocated
        BY <1>1, <4>1, ElementOf DEF InUse
      <4> QED  BY <4>1, <4>2
    <3> QED  BY <1>3, <3>1, <3>2
  <2>2. i = 1
    BY <2>1, IndexBounds
  <2>3. PICK s \in {"made", "queued"} : SetStage(<<data, i>>, s)
    BY <1>3 DEF Fill, BatchSchedule
  <2>4. /\ stage' \in [Elements -> Stages]
        /\ \A d \in Elements : d # <<data, i>> => stage'[d] = stage[d]
    BY <2>1, <2>3, ElementOf, StageSets DEF IInv, Shape, Stages
  <2>5. /\ UNCHANGED <<allocated, target>>
        /\ ~misused'
        /\ at' # "fill"
    <3>1. i = count[data]
      BY <2>1, <2>2
    <3>2. UNCHANGED <<allocated, target>> /\ ~misused'
      <4>1. CASE Fill
        BY <1>1, <4>1 DEF Fill
      <4>2. CASE BatchSchedule
        BY <2>1, <4>2 DEF BatchSchedule, Touch
      <4> QED  BY <1>3, <4>1, <4>2
    <3>3. at' # "fill"
      BY <1>3, <3>1 DEF Fill, BatchSchedule, Loop
    <3> QED  BY <3>2, <3>3
  <2>6. HeldAlone'
    BY <1>1, <2>1, <2>4, <2>5 DEF HeldAlone, IInv, Shape
  <2>7. InUse'
    BY <1>1, <2>1, <2>2, <2>4, <2>5 DEF InUse
  <2> QED  BY <1>1, <2>5, <2>6, <2>7 DEF SingleInv
<1>4. CASE StartWait \/ WaitDone
  <2>1. at' # "fill" /\ UNCHANGED <<allocated, stage, target, misused>>
    BY <1>4 DEF StartWait, WaitDone
  <2> QED  BY <1>1, <2>1 DEF SingleInv, HeldAlone, InUse
<1> QED  BY <1>2, <1>3, <1>4 DEF Caller

LEMMA SingleWorker ==
  ASSUME IInv, SingleInv, NEW w \in Workers, Worker(w)
  PROVE  SingleInv'
<1> PICK e \in Elements, s \in Stages : Moves(w, e, s)
  BY WorkerMoves
<1>1. /\ SetStage(e, s)
      /\ stage[e] \notin {"none", "made"}
      /\ UNCHANGED <<at, data, i>>
  BY DEF Moves
<1>a. \/ /\ stage[e] = "queued" /\ s = "running"
         /\ target[w] = NULL /\ target' = [target EXCEPT ![w] = e]
      \/ /\ s = "queued" \/ s = "none"
         /\ target[w] = e /\ target' = [target EXCEPT ![w] = NULL]
      \/ /\ s \in {"complete", "delete"}
         /\ target[w] = e /\ UNCHANGED target
  BY DEF Moves
<1>b. allocated' = IF s = "none" THEN allocated \ {e[1]} ELSE allocated
  BY DEF Moves, Deallocate
<1>2. /\ stage'[e] = s
      /\ \A d \in Elements : d # e => stage'[d] = stage[d]
  BY <1>1, StageSets DEF IInv, Shape
<1>3. e[2] = 1 /\ e[1] \in allocated
  BY <1>1 DEF SingleInv, InUse
<1>4. ~misused'
  BY <1>3 DEF Moves, Deallocate, Touch
<1>5. HeldAlone'
  <2> SUFFICES ASSUME NEW v \in Workers, target'[v] # NULL
               PROVE  /\ stage'[target'[v]] \in {"running", "complete", "delete"}
                      /\ \A u \in Workers : target'[u] = target'[v] => u = v
    BY DEF HeldAlone
  <2>1. target \in [Workers -> Elements \cup {NULL}]
    BY DEF IInv, Shape
  <2>2. /\ \A u \in Workers : target[u] = e => u = w
        /\ \A u \in Workers : u # w => target'[u] = target[u]
    BY <1>1, <1>a, <2>1, BatchAssumption DEF SingleInv, HeldAlone
  <2>3. CASE v = w
    BY <1>2, <1>a, <2>1, <2>2, <2>3
  <2>4. CASE v # w
    <3>1. /\ target'[v] = target[v] /\ target[v] \in Elements /\ target[v] # e
          /\ target'[w] # target[v]
      BY <1>a, <2>1, <2>2, <2>4 DEF SingleInv, HeldAlone
    <3> QED  BY <1>2, <2>2, <2>4, <3>1 DEF SingleInv, HeldAlone
  <2> QED  BY <2>3, <2>4
<1>6. \A d \in Elements : d # e /\ stage[d] # "none" => d[1] # e[1]
  BY <1>3 DEF SingleInv, InUse, Elements
<1>7. InUse'
  BY <1>2, <1>3, <1>6, <1>b DEF SingleInv, InUse
<1>8. at' = "fill" => data' \in allocated'
  <2> SUFFICES ASSUME at = "fill" PROVE data \in allocated'
    BY <1>1
  <2>1. data \in Arrays /\ data \in allocated
    BY DEF SingleInv, IInv, Filling
  <2>2. data # e[1]
    <3>1. \A k \in Index : stage[<<data, k>>] \in {"none", "made"}
      BY IndexBounds DEF IInv, Filling, Shape
    <3>2. e = <<e[1], 1>>
      BY <1>3 DEF Elements
    <3> QED  BY <1>1, <3>1, <3>2, IndexBounds
  <2> QED  BY <1>1, <1>b, <2>1, <2>2
<1> QED  BY <1>4, <1>5, <1>7, <1>8 DEF SingleInv

-----------------------------------------------------------------------------
(* The theorems *)

\* The variables of run_jobs keep their types; the counter is never decremented
\* below zero, although elements are touched after their array is freed.
THEOREM BatchTypeCorrect == Spec => []TypeOK
<1>1. IInv => TypeOK
  <2> SUFFICES ASSUME IInv PROVE TypeOK
    OBVIOUS
  <2>1. m_cnt \in Nat
    BY FS_CardinalityType DEF IInv, CounterCountsLive
  <2> QED  BY <2>1 DEF IInv, Shape, TypeOK, Stages
<1> QED  BY <1>1, SpecInv, PTL

\* run_jobs, wait_for_value: the counter is incremented for a whole batch before
\* any of it is queued, so that a wait returns when all jobs of all batches have
\* returned, whatever the sizes of the batches.
THEOREM JoinSound == Spec => JoinIsSound
<1>1. ASSUME IInv, [Next]_vars
      PROVE  at = "waiting" /\ at' = "body" =>
               \A e \in Elements : stage[e] \in {"none", "complete", "delete"}
  <2> SUFFICES ASSUME at = "waiting", at' = "body"
               PROVE  \A e \in Elements : stage[e] \in {"none", "complete", "delete"}
    OBVIOUS
  <2>1. ASSUME NEW w \in Workers, Worker(w)
        PROVE  FALSE
    <3>1. UNCHANGED at
      BY <1>1, <2>1, WorkerMoves DEF Moves
    <3> QED  BY <3>1
  <2>2. m_cnt = 0
    BY <1>1, <2>1
    DEF Next, Caller, RunJobs, Fill, BatchSchedule, StartWait, WaitDone, vars
  <2>3. Live = {}
    BY <1>1, <2>2, FS_EmptySet DEF IInv, CounterCountsLive
  <2> QED  BY <1>1, <2>3 DEF IInv, Shape, Stages, Live, Counted
<1> QED  BY <1>1, SpecInv, PTL DEF Spec, JoinIsSound

\* run_jobs with one job is as good as run_job, with any number of workers,
\* arrays and batches: as long as nobody has asked for more than one, no memory
\* that has been given back is touched or given back again, and if undefined
\* behaviour is met, some run_jobs did ask for more.
THEOREM SingleBatchesAreSafe == Spec => []OnlyArraysAreMisused
<1> DEFINE BInv == ArraysRemain /\ (AllSingle => SingleInv)
<1>1. BInv /\ IInv /\ [Next]_vars => BInv'
  <2> SUFFICES ASSUME BInv, IInv, [Next]_vars PROVE BInv'
    OBVIOUS
  <2>1. ArraysRemain' /\ (AllSingle' => AllSingle)
    BY ArraysRemainInv
  <2>2. ASSUME AllSingle, SingleInv
        PROVE  SingleInv'
    <3>1. CASE UNCHANGED vars
      BY <2>2, <3>1 DEF SingleInv, HeldAlone, InUse, vars
    <3> QED  BY <2>2, <3>1, SingleCaller, SingleWorker DEF Next
  <2> QED  BY <2>1, <2>2
<1>2. BInv /\ IInv => OnlyArraysAreMisused
  <2>1. ASSUME IInv, ~AllSingle
        PROVE  \E a \in Arrays : count[a] > 1
    <3>1. PICK a \in Arrays : ~(count[a] <= 1)
      BY <2>1 DEF AllSingle
    <3>2. count[a] \in 0 .. MaxCount /\ MaxCount \in Nat
      BY <2>1, CountType, IndexBounds
    <3> QED  BY <3>1, <3>2
  <2> QED  BY <2>1 DEF SingleInv, OnlyArraysAreMisused
<1>3. Init => BInv
  BY SingleInit
<1> HIDE DEF BInv
<1> QED  BY <1>1, <1>2, <1>3, SpecInv, PTL DEF Spec

=============================================================================
