-------------------------- MODULE MCConcurrentQueue --------------------------
(***************************************************************************)
(* Model-checking instances of ConcurrentQueue.                            *)
(***************************************************************************)
EXTENDS ConcurrentQueue, TLC

=============================================================================
