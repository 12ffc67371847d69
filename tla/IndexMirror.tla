----------------------------- MODULE IndexMirror -----------------------------
(***************************************************************************)
(* What the search index promises about profiles, with no queue and no     *)
(* worker in sight: the database numbers the states of each profile row,   *)
(* and the index holds, for each profile, the number of one state the row  *)
(* has really had.  The index may lag behind the row and may skip states,  *)
(* but it never runs ahead of the row and never steps back: once a newer   *)
(* state (the last of which is the deletion) is searchable, an older one   *)
(* does not come back.                                                     *)
(***************************************************************************)
EXTENDS Naturals

CONSTANT Profiles       \* identifiers of profile rows

VARIABLES version,      \* number of the current state of each row; 0: no row yet
          doc           \* number of the state the index holds; 0: no document

mirrorVars == <<version, doc>>

MirrorInit ==
    /\ version = [p \in Profiles |-> 0]
    /\ doc = [p \in Profiles |-> 0]

\* The row of p is created, updated or deleted.
Change(p) ==
    /\ version' = [version EXCEPT ![p] = @ + 1]
    /\ UNCHANGED doc

\* The document of p catches up, fully or in part.
Reflect(p) ==
    /\ \E v \in doc[p] + 1 .. version[p] : doc' = [doc EXCEPT ![p] = v]
    /\ UNCHANGED version

MirrorNext == \E p \in Profiles : Change(p) \/ Reflect(p)

MirrorSpec == MirrorInit /\ [][MirrorNext]_mirrorVars
=============================================================================
