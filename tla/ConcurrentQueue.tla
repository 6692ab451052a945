--------------------------- MODULE ConcurrentQueue ---------------------------
(***************************************************************************)
(* concurrent_queue.h: a std::queue behind a mutex.  push and              *)
(* try_pop_front hold m_mutex, empty() does not: it reads the size of the  *)
(* std::queue in whatever state another thread has left it.                *)
(*                                                                         *)
(* A step is an access to the mutex or to the std::queue.                  *)
(***************************************************************************)
EXTENDS Integers, Sequences

CONSTANTS
  Threads,
  Values,      \* elements: pointers to fiber_data, or tasks
  NULL,        \* T(), and no thread
  MaxLength    \* bound: elements in the queue when push is called

ASSUME QueueAssumption ==
  /\ NULL \notin Threads
  /\ MaxLength \in Nat

VARIABLES
  m_queue,
  m_mutex,     \* the thread that holds it
  pc,          \* where each thread is
  tg           \* argument of push, target of try_pop_front, result of empty

vars == <<m_queue, m_mutex, pc, tg>>

\* Places where a thread holds m_mutex.
Critical == {"pushing", "popping", "front", "unlock"}

TypeOK ==
  /\ m_queue \in Seq(Values)
  /\ m_mutex \in Threads \cup {NULL}
  /\ pc \in [Threads -> {"idle", "push", "pop", "empty", "pushing", "popping",
                         "front", "unlock", "return"}]
  /\ tg \in [Threads -> Values \cup {NULL} \cup BOOLEAN]
  /\ \A t \in Threads : pc[t] \in Critical <=> m_mutex = t

Init ==
  /\ m_queue = <<>>
  /\ m_mutex = NULL
  /\ pc = [t \in Threads |-> "idle"]
  /\ tg = [t \in Threads |-> NULL]

Goto(t, l) == pc' = [pc EXCEPT ![t] = l]
Set(t, v)  == tg' = [tg EXCEPT ![t] = v]

\* A thread calls push, try_pop_front or empty.
Call(t) ==
  /\ pc[t] = "idle"
  /\ \/ Len(m_queue) < MaxLength /\ Goto(t, "push") /\ \E v \in Values : Set(t, v)
     \/ Goto(t, "pop") /\ Set(t, NULL)
     \/ Goto(t, "empty") /\ Set(t, NULL)
  /\ UNCHANGED <<m_queue, m_mutex>>

\* lock_guard<mutex> lock(m_mutex)
Lock(t) ==
  /\ m_mutex = NULL
  /\ \/ pc[t] = "push" /\ Goto(t, "pushing")
     \/ pc[t] = "pop" /\ Goto(t, "popping")
  /\ m_mutex' = t
  /\ UNCHANGED <<m_queue, tg>>

\* Faulty push: the other end.
PushInFront(t) ==
  /\ pc[t] = "pushing"
  /\ m_queue' = <<tg[t]>> \o m_queue
  /\ Goto(t, "unlock")
  /\ UNCHANGED <<m_mutex, tg>>

\* m_queue.push(value)
PushBack(t) ==
  /\ pc[t] = "pushing"
  /\ m_queue' = Append(m_queue, tg[t])
  /\ Goto(t, "unlock")
  /\ UNCHANGED <<m_mutex, tg>>

\* Faulty pop: it waits for an element with the lock held.
PopWaits(t) == pc[t] = "popping" /\ m_queue = <<>> /\ UNCHANGED vars

\* m_queue.size() == 0: tg = T(), return false
PopNothing(t) ==
  /\ pc[t] = "popping"
  /\ m_queue = <<>>
  /\ Set(t, NULL)
  /\ Goto(t, "unlock")
  /\ UNCHANGED <<m_queue, m_mutex>>

\* tg = m_queue.front()
Front(t) ==
  /\ pc[t] = "popping"
  /\ m_queue # <<>>
  /\ Set(t, Head(m_queue))
  /\ Goto(t, "front")
  /\ UNCHANGED <<m_queue, m_mutex>>

\* m_queue.pop()
PopFront(t) ==
  /\ pc[t] = "front"
  /\ m_queue' = Tail(m_queue)
  /\ Goto(t, "unlock")
  /\ UNCHANGED <<m_mutex, tg>>

\* The destructor of the lock_guard, and the return.
Unlock(t) ==
  /\ pc[t] = "unlock"
  /\ m_mutex' = NULL
  /\ Goto(t, "idle")
  /\ UNCHANGED <<m_queue, tg>>

\* m_queue.empty(), without the lock.
Empty(t) ==
  /\ pc[t] = "empty"
  /\ Set(t, m_queue = <<>>)
  /\ Goto(t, "return")
  /\ UNCHANGED <<m_queue, m_mutex>>

Return(t) ==
  /\ pc[t] = "return"
  /\ Goto(t, "idle")
  /\ UNCHANGED <<m_queue, m_mutex, tg>>

\* The rest of a call after its lock.
Inside(t) ==
  \/ PushBack(t) \/ PopNothing(t) \/ Front(t) \/ PopFront(t) \/ Unlock(t)
  \/ Empty(t) \/ Return(t)

Next == \E t \in Threads : Call(t) \/ Lock(t) \/ Inside(t)

Spec == Init /\ [][Next]_vars

\* Threads run; a mutex that is free again and again is got in the end.
FairSpec == Spec /\ \A t \in Threads : WF_vars(Inside(t)) /\ SF_vars(Lock(t))

-----------------------------------------------------------------------------
(* Properties *)

\* Between front() and pop() of try_pop_front the front of the queue is still
\* the element that was read: nobody pops it as well, although empty() and
\* pending calls of other threads go on.
FrontStays == \A t \in Threads : pc[t] = "front" => m_queue # <<>> /\ tg[t] = Head(m_queue)

\* Every call returns: no path leaves m_mutex locked.
CallsReturn == \A t \in Threads : pc[t] # "idle" ~> pc[t] = "idle"

\* The queue seen from outside: a pop takes effect when it removes the front.
Pending ==
  [t \in Threads |->
     CASE pc[t] = "idle"                        -> "none"
       [] pc[t] \in {"push", "pushing"}         -> "push"
       [] pc[t] \in {"pop", "popping", "front"} -> "pop"
       [] pc[t] = "empty"                       -> "empty"
       [] pc[t] \in {"unlock", "return"}        -> "done"]

Value == [t \in Threads |-> IF pc[t] = "front" THEN NULL ELSE tg[t]]

Queue == INSTANCE Fifo WITH NoValue <- NULL, fifo <- m_queue, call <- Pending, value <- Value

\* The queue is linearizable: each call, the unlocked empty() too, takes effect
\* at one instant, and elements come out once each, in the order they went in.
ImplementsFifo == Queue!Spec

=============================================================================
