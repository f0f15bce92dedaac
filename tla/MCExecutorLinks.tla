-------------------------- MODULE MCExecutorLinks --------------------------
(* Instances of ExecutorLinks for TLC.                                     *)
EXTENDS ExecutorLinks
=============================================================================
