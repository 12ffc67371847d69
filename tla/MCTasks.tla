------------------------------- MODULE MCTasks -------------------------------
(* Small instances of TasksClient for TLC. *)
EXTENDS TasksProps, TLC
=============================================================================
