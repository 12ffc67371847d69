-------------------------------- MODULE MCList --------------------------------
(* Small instances of ProfileList for TLC. *)
EXTENDS ListProps, TLC

CONSTANTS a1, a2, all, some    \* accounts and URLs

\* One URL lists everything, the other has a filter that a1 passes.
MCListed == all :> {a1, a2} @@ some :> {a1}

\* Writers are interchangeable.
MCSymmetry == Permutations(Writers)
=============================================================================
