------------------------------ MODULE MCTestMain ------------------------------
(***************************************************************************)
(* Model-checking instances of TestMain: priorities as in main.cpp, a low  *)
(* frame task whose jobs are high or, like the next frame, unset.          *)
(***************************************************************************)
EXTENDS TestMain, TLC

LowRoot == {"low"}
FramePrio == [p \in DeclPrio |-> IF p = "high" THEN {"high"} ELSE {"high", "unset"}]

Symmetry == Permutations(Workers) \cup Permutations(Fibers) \cup Permutations(Counters)

=============================================================================
