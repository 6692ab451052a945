----------------------------- MODULE MCFrameLoop -----------------------------
(***************************************************************************)
(* Model-checking instances of FrameLoop.                                  *)
(***************************************************************************)
EXTENDS FrameLoop, TLC

Symmetry == Permutations(Jobs) \cup Permutations(Blocks) \cup Permutations(Workers)

=============================================================================
