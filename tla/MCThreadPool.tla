---------------------------- MODULE MCThreadPool ----------------------------
(***************************************************************************)
(* Model-checking instances of ThreadPool.                                 *)
(***************************************************************************)
EXTENDS ThreadPool, TLC

=============================================================================
