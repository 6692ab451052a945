----------------------------- MODULE MCBatchJobs -----------------------------
(***************************************************************************)
(* Model-checking instances of BatchJobs.                                  *)
(***************************************************************************)
EXTENDS BatchJobs, TLC

=============================================================================
