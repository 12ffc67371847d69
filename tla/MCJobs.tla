------------------------------- MODULE MCJobs -------------------------------
(* Small instances of JobLifecycle for TLC. *)
EXTENDS JobProps, TLC
=============================================================================
