-------------------------- MODULE MCLinearAllocator --------------------------
(***************************************************************************)
(* Model-checking instance of LinearAllocator.                             *)
(***************************************************************************)
EXTENDS LinearAllocator, TLC

Symmetry == Permutations(Threads) \cup Permutations(Blocks)

=============================================================================
