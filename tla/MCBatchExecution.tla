-------------------------- MODULE MCBatchExecution --------------------------
(* Constant values of the TLC run of BatchExecution. *)
EXTENDS BatchExecution

CONSTANT t1
=============================================================================
