--------------------------------- MODULE Fifo ---------------------------------
(***************************************************************************)
(* A first-in first-out queue that threads call: each call takes effect at *)
(* one instant between its call and its return.                            *)
(***************************************************************************)
EXTENDS Sequences

CONSTANTS
  Threads,
  Values,
  NoValue     \* what a pop of an empty queue yields

VARIABLES
  fifo,       \* the values in the queue
  call,       \* what each thread has called and waits for
  value       \* argument of a push, result of a call

vars == <<fifo, call, value>>

TypeOK ==
  /\ fifo \in Seq(Values)
  /\ call \in [Threads -> {"none", "push", "pop", "empty", "done"}]
  /\ value \in [Threads -> Values \cup {NoValue} \cup BOOLEAN]

Init ==
  /\ fifo = <<>>
  /\ call = [t \in Threads |-> "none"]
  /\ value = [t \in Threads |-> NoValue]

Call(t, op, v) ==
  /\ call[t] = "none"
  /\ call' = [call EXCEPT ![t] = op]
  /\ value' = [value EXCEPT ![t] = v]
  /\ UNCHANGED fifo

Done(t, v) ==
  /\ call' = [call EXCEPT ![t] = "done"]
  /\ value' = [value EXCEPT ![t] = v]

Push(t) ==
  /\ call[t] = "push"
  /\ fifo' = Append(fifo, value[t])
  /\ Done(t, value[t])

Pop(t) ==
  /\ call[t] = "pop"
  /\ \/ fifo # <<>> /\ fifo' = Tail(fifo) /\ Done(t, Head(fifo))
     \/ fifo = <<>> /\ UNCHANGED fifo /\ Done(t, NoValue)

Empty(t) ==
  /\ call[t] = "empty"
  /\ Done(t, fifo = <<>>)
  /\ UNCHANGED fifo

Return(t) ==
  /\ call[t] = "done"
  /\ call' = [call EXCEPT ![t] = "none"]
  /\ UNCHANGED <<fifo, value>>

Next ==
  \E t \in Threads :
    \/ \E v \in Values : Call(t, "push", v)
    \/ Call(t, "pop", NoValue) \/ Call(t, "empty", NoValue)
    \/ Push(t) \/ Pop(t) \/ Empty(t) \/ Return(t)

Spec == Init /\ [][Next]_vars

=============================================================================
