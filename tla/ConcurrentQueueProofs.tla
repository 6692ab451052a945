------------------------ MODULE ConcurrentQueueProofs ------------------------
(***************************************************************************)
(* Proof that concurrent_queue implements Fifo: for any number of threads, *)
(* any values and any length of the queue, every call takes effect at one  *)
(* instant.                                                                *)
(***************************************************************************)
EXTENDS ConcurrentQueue, TLAPS

\* Arguments and targets at each place: a push has its value, a pop has not
\* written its target, and at "front" it holds the front of the queue.
TargetPlaces ==
  \A t \in Threads :
    /\ pc[t] \in {"push", "pushing"} => tg[t] \in Values
    /\ pc[t] \in {"pop", "popping"} => tg[t] = NULL

IInv == TypeOK /\ TargetPlaces /\ FrontStays

-----------------------------------------------------------------------------
(* The invariant *)

\* Initially the queue is empty and all threads are idle.
LEMMA InitInv == Init => IInv
BY QueueAssumption DEF Init, IInv, TypeOK, Critical, TargetPlaces, FrontStays

\* A call gives its thread a place and an argument, and touches nobody else.
LEMMA CallInv == ASSUME IInv, NEW t \in Threads, Call(t) PROVE IInv'
<1>1. PICK l \in {"push", "pop", "empty"}, v \in Values \cup {NULL} :
        /\ pc' = [pc EXCEPT ![t] = l]
        /\ tg' = [tg EXCEPT ![t] = v]
        /\ l = "push" => v \in Values
        /\ l = "pop" => v = NULL
  BY DEF Call, Goto, Set
<1>2. pc[t] = "idle" /\ UNCHANGED <<m_queue, m_mutex>>
  BY DEF Call
<1>3. TypeOK'
  BY <1>1, <1>2 DEF IInv, TypeOK, Critical
<1>4. TargetPlaces'
  BY <1>1, <1>2 DEF IInv, TypeOK, TargetPlaces
<1>5. FrontStays'
  BY <1>1, <1>2 DEF IInv, TypeOK, FrontStays
<1> QED BY <1>3, <1>4, <1>5 DEF IInv

\* m_mutex is got when nobody is in the critical section.
LEMMA LockInv == ASSUME IInv, NEW t \in Threads, Lock(t) PROVE IInv'
<1>1. TypeOK'
  BY QueueAssumption DEF Lock, Goto, IInv, TypeOK, Critical
<1>2. TargetPlaces'
  BY DEF Lock, Goto, IInv, TypeOK, TargetPlaces
<1>3. FrontStays'
  BY DEF Lock, Goto, IInv, TypeOK, FrontStays
<1> QED BY <1>1, <1>2, <1>3 DEF IInv

\* Who changes the queue holds m_mutex, and so nobody else is at "front".
LEMMA InsideInv == ASSUME IInv, NEW t \in Threads, Inside(t) PROVE IInv'
<1> USE QueueAssumption
<1>a. CASE PushBack(t)
  <2>1. tg[t] \in Values /\ Append(m_queue, tg[t]) \in Seq(Values)
    BY <1>a DEF PushBack, IInv, TypeOK, TargetPlaces
  <2>2. \A u \in Threads : pc[u] \in Critical => u = t
    BY <1>a DEF PushBack, IInv, TypeOK, Critical
  <2>3. TypeOK'
    BY <1>a, <2>1 DEF PushBack, Goto, IInv, TypeOK, Critical
  <2>4. TargetPlaces'
    BY <1>a DEF PushBack, Goto, IInv, TypeOK, TargetPlaces
  <2>5. FrontStays'
    BY <1>a, <2>2 DEF PushBack, Goto, IInv, TypeOK, FrontStays, Critical
  <2> QED BY <2>3, <2>4, <2>5 DEF IInv
<1>b. CASE PopNothing(t)
  <2>1. TypeOK'
    BY <1>b DEF PopNothing, Goto, Set, IInv, TypeOK, Critical
  <2>2. TargetPlaces'
    BY <1>b DEF PopNothing, Goto, Set, IInv, TypeOK, TargetPlaces
  <2>3. FrontStays'
    BY <1>b DEF PopNothing, Goto, Set, IInv, TypeOK, FrontStays
  <2> QED BY <2>1, <2>2, <2>3 DEF IInv
<1>c. CASE Front(t)
  <2>1. Head(m_queue) \in Values
    BY <1>c DEF Front, IInv, TypeOK
  <2>2. TypeOK'
    BY <1>c, <2>1 DEF Front, Goto, Set, IInv, TypeOK, Critical
  <2>3. TargetPlaces'
    BY <1>c DEF Front, Goto, Set, IInv, TypeOK, TargetPlaces
  <2>4. FrontStays'
    BY <1>c DEF Front, Goto, Set, IInv, TypeOK, FrontStays
  <2> QED BY <2>2, <2>3, <2>4 DEF IInv
<1>d. CASE PopFront(t)
  <2>1. Tail(m_queue) \in Seq(Values)
    BY <1>d DEF PopFront, IInv, TypeOK, FrontStays
  <2>2. \A u \in Threads : pc[u] \in Critical => u = t
    BY <1>d DEF PopFront, IInv, TypeOK, Critical
  <2>3. TypeOK'
    BY <1>d, <2>1 DEF PopFront, Goto, IInv, TypeOK, Critical
  <2>4. TargetPlaces'
    BY <1>d DEF PopFront, Goto, IInv, TypeOK, TargetPlaces
  <2>5. FrontStays'
    BY <1>d, <2>2 DEF PopFront, Goto, IInv, TypeOK, FrontStays, Critical
  <2> QED BY <2>3, <2>4, <2>5 DEF IInv
<1>e. CASE Unlock(t)
  <2>1. TypeOK'
    BY <1>e DEF Unlock, Goto, IInv, TypeOK, Critical
  <2>2. TargetPlaces'
    BY <1>e DEF Unlock, Goto, IInv, TypeOK, TargetPlaces
  <2>3. FrontStays'
    BY <1>e DEF Unlock, Goto, IInv, TypeOK, FrontStays
  <2> QED BY <2>1, <2>2, <2>3 DEF IInv
<1>f. CASE Empty(t)
  <2>1. PICK b \in BOOLEAN : tg' = [tg EXCEPT ![t] = b]
    BY <1>f DEF Empty, Set
  <2>2. pc[t] = "empty" /\ pc' = [pc EXCEPT ![t] = "return"] /\ UNCHANGED <<m_queue, m_mutex>>
    BY <1>f DEF Empty, Goto
  <2>3. TypeOK'
    BY <2>1, <2>2 DEF IInv, TypeOK, Critical
  <2>4. TargetPlaces'
    BY <2>1, <2>2 DEF IInv, TypeOK, TargetPlaces
  <2>5. FrontStays'
    BY <2>1, <2>2 DEF IInv, TypeOK, FrontStays
  <2> QED BY <2>3, <2>4, <2>5 DEF IInv
<1>g. CASE Return(t)
  <2>1. TypeOK'
    BY <1>g DEF Return, Goto, IInv, TypeOK, Critical
  <2>2. TargetPlaces'
    BY <1>g DEF Return, Goto, IInv, TypeOK, TargetPlaces
  <2>3. FrontStays'
    BY <1>g DEF Return, Goto, IInv, TypeOK, FrontStays
  <2> QED BY <2>1, <2>2, <2>3 DEF IInv
<1> QED BY <1>a, <1>b, <1>c, <1>d, <1>e, <1>f, <1>g DEF Inside

LEMMA NextInv == IInv /\ [Next]_vars => IInv'
<1> SUFFICES ASSUME IInv, [Next]_vars PROVE IInv'
  OBVIOUS
<1>1. CASE UNCHANGED vars
  BY <1>1 DEF vars, IInv, TypeOK, Critical, TargetPlaces, FrontStays
<1>2. CASE Next
  BY <1>2, CallInv, LockInv, InsideInv DEF Next
<1> QED BY <1>1, <1>2

LEMMA Invariant == Spec => []IInv
BY InitInv, NextInv, PTL DEF Spec

\* The queue holds values, m_mutex is held by the one thread that is in the
\* critical section, and nobody is there without it.
THEOREM QueueTypeCorrect == Spec => []TypeOK
BY Invariant, PTL DEF IInv

\* Between front() and pop() the front of the queue stays what it was.
THEOREM FrontIsStable == Spec => []FrontStays
BY Invariant, PTL DEF IInv

-----------------------------------------------------------------------------
(* The refinement *)

LEMMA InitRefines == Init => Queue!Init
BY DEF Init, Queue!Init, Pending, Value

\* A call is a call, ...
LEMMA CallRefines == ASSUME IInv, NEW t \in Threads, Call(t) PROVE Queue!Next
<1>1. pc[t] = "idle" /\ m_queue' = m_queue
  BY DEF Call
<1>2. PICK l \in {"push", "pop", "empty"}, v \in Values \cup {NULL} :
        /\ pc' = [pc EXCEPT ![t] = l]
        /\ tg' = [tg EXCEPT ![t] = v]
        /\ IF l = "push" THEN v \in Values ELSE v = NULL
  BY DEF Call, Goto, Set
<1>3. Pending[t] = "none" /\ Pending' = [Pending EXCEPT ![t] = l]
  BY <1>1, <1>2 DEF IInv, TypeOK, Pending
<1>4. Value' = [Value EXCEPT ![t] = v]
  BY <1>1, <1>2 DEF IInv, TypeOK, Value
<1>5. Queue!Call(t, l, v)
  BY <1>1, <1>3, <1>4 DEF Queue!Call
<1> QED BY <1>2, <1>5 DEF Queue!Next

\* ... getting the lock is nothing, ...
LEMMA LockRefines == ASSUME IInv, NEW t \in Threads, Lock(t) PROVE UNCHANGED Queue!vars
<1>1. Pending' = Pending
  BY DEF Lock, Goto, IInv, TypeOK, Pending
<1>2. Value' = Value
  BY DEF Lock, Goto, IInv, TypeOK, Value
<1> QED BY <1>1, <1>2 DEF Queue!vars, Lock

\* ... and the steps of a call are its effect, its return, or nothing.
LEMMA InsideRefines ==
  ASSUME IInv, NEW t \in Threads, Inside(t) PROVE Queue!Next \/ UNCHANGED Queue!vars
<1>a. CASE PushBack(t)
  <2>1. Pending[t] = "push" /\ Pending' = [Pending EXCEPT ![t] = "done"]
    BY <1>a DEF PushBack, Goto, IInv, TypeOK, Pending
  <2>2. Value[t] = tg[t] /\ Value' = [Value EXCEPT ![t] = Value[t]]
    BY <1>a DEF PushBack, Goto, IInv, TypeOK, Value
  <2>3. Queue!Push(t)
    BY <1>a, <2>1, <2>2 DEF PushBack, Queue!Push, Queue!Done
  <2> QED BY <2>3 DEF Queue!Next
<1>b. CASE PopNothing(t)
  <2>1. Pending[t] = "pop" /\ Pending' = [Pending EXCEPT ![t] = "done"]
    BY <1>b DEF PopNothing, Goto, IInv, TypeOK, Pending
  <2>2. Value' = [Value EXCEPT ![t] = NULL]
    BY <1>b DEF PopNothing, Goto, Set, IInv, TypeOK, Value
  <2>3. Queue!Pop(t)
    BY <1>b, <2>1, <2>2 DEF PopNothing, Queue!Pop, Queue!Done
  <2> QED BY <2>3 DEF Queue!Next
<1>c. CASE Front(t)
  <2>1. Pending' = Pending
    BY <1>c DEF Front, Goto, IInv, TypeOK, Pending
  <2>2. Value' = Value
    BY <1>c DEF Front, Goto, Set, IInv, TypeOK, TargetPlaces, Value
  <2> QED BY <1>c, <2>1, <2>2 DEF Front, Queue!vars
<1>d. CASE PopFront(t)
  <2>1. Pending[t] = "pop" /\ Pending' = [Pending EXCEPT ![t] = "done"]
    BY <1>d DEF PopFront, Goto, IInv, TypeOK, Pending
  <2>2. m_queue # <<>> /\ tg[t] = Head(m_queue)
    BY <1>d DEF PopFront, IInv, FrontStays
  <2>3. Value' = [Value EXCEPT ![t] = Head(m_queue)]
    BY <1>d, <2>2 DEF PopFront, Goto, IInv, TypeOK, Value
  <2>4. Queue!Pop(t)
    BY <1>d, <2>1, <2>2, <2>3 DEF PopFront, Queue!Pop, Queue!Done
  <2> QED BY <2>4 DEF Queue!Next
<1>e. CASE Empty(t)
  <2>1. Pending[t] = "empty" /\ Pending' = [Pending EXCEPT ![t] = "done"]
    BY <1>e DEF Empty, Goto, IInv, TypeOK, Pending
  <2>2. PICK b : b = (m_queue = <<>>) /\ tg' = [tg EXCEPT ![t] = b]
    BY <1>e DEF Empty, Set
  <2>3. Value' = [Value EXCEPT ![t] = b]
    BY <1>e, <2>2 DEF Empty, Goto, IInv, TypeOK, Value
  <2>4. Queue!Empty(t)
    BY <1>e, <2>1, <2>2, <2>3 DEF Empty, Queue!Empty, Queue!Done
  <2> QED BY <2>4 DEF Queue!Next
<1>f. CASE Unlock(t) \/ Return(t)
  <2>1. Pending[t] = "done" /\ Pending' = [Pending EXCEPT ![t] = "none"]
    BY <1>f DEF Unlock, Return, Goto, IInv, TypeOK, Pending
  <2>2. Value' = Value /\ m_queue' = m_queue
    BY <1>f DEF Unlock, Return, Goto, IInv, TypeOK, Value
  <2>3. Queue!Return(t)
    BY <2>1, <2>2 DEF Queue!Return
  <2> QED BY <2>3 DEF Queue!Next
<1> QED BY <1>a, <1>b, <1>c, <1>d, <1>e, <1>f DEF Inside

\* concurrent_queue is a linearizable first-in first-out queue.
THEOREM QueueImplementsFifo == Spec => ImplementsFifo
<1>1. IInv /\ [Next]_vars => [Queue!Next]_(Queue!vars)
  <2> SUFFICES ASSUME IInv, [Next]_vars PROVE [Queue!Next]_(Queue!vars)
    OBVIOUS
  <2>1. CASE UNCHANGED vars
    BY <2>1 DEF vars, Queue!vars, Pending, Value
  <2>2. CASE Next
    BY <2>2, CallRefines, LockRefines, InsideRefines DEF Next
  <2> QED BY <2>1, <2>2
<1> QED BY <1>1, InitRefines, Invariant, PTL DEF Spec, ImplementsFifo, Queue!Spec

=============================================================================
