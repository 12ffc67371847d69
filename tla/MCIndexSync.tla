----------------------------- MODULE MCIndexSync -----------------------------
(* Small instances of IndexSync for TLC. *)
EXTENDS IndexSyncProps, TLC

\* All posts belong to one profile; the others, if any, have none.
MCAuthor == [q \in Posts |-> CHOOSE p \in Profiles : TRUE]
=============================================================================
