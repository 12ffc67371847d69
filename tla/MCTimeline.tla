----------------------------- MODULE MCTimeline -----------------------------
(* Small instances of Timeline for TLC. *)
EXTENDS TimelineProps, TLC
=============================================================================
