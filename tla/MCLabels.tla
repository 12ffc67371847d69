------------------------------ MODULE MCLabels ------------------------------
(* Small instances of Labels for TLC. *)
EXTENDS LabelsProps, TLC

\* "X" is another way to write "x"; "-" is no name.
MCStored(s) == CASE s = "X" -> "x" [] s = "-" -> "none" [] OTHER -> s
MCSorted(S) == SelectSeq(<<"x", "y">>, LAMBDA n : n \in S)
MCLists == {<<"x", "y">>, <<"y", "x">>}
=============================================================================
