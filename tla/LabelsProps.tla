----------------------------- MODULE LabelsProps -----------------------------
(* What requests about labels leave behind, and what the clients show. *)
EXTENDS Labels

(***************************************************************************)
(* POST /api/label/ and PUT /api/profile/<id> announce labels before they  *)
(* commit.  When they are answered without an error all labels that they   *)
(* have announced have been stored; when they are refused, none.  What a   *)
(* submission announces is stored, be it refused or not.                   *)
(***************************************************************************)
AllOrNothing ==
    \A r \in Requests :
       /\ req[r].op = "submit" => req[r].told \subseteq was
       /\ req[r].step = "done" => req[r].told \subseteq was
       /\ req[r].step = "refused" /\ req[r].op # "submit" => req[r].told \intersect was = {}

(***************************************************************************)
(* The view of a profile.  While it shows what its last PUT has sent, the  *)
(* profile has these labels if this PUT was the last to commit, and none   *)
(* was between reading the labels of the profile and its end at the same   *)
(* time (profile.labels = labels, profile.py).  Although answers replace   *)
(* what is being edited, when everything is answered the view shows what   *)
(* is stored, unless the newest answer was lost or was replaced by an      *)
(* older one, or the PUT was refused and the edit is still there.  Labels  *)
(* renamed since go by their new names.                                    *)
(***************************************************************************)
Agree ==
    attached \intersect renamed = {} =>
       {name[i] : i \in attached} = {Stored(s) : s \in Range(shown)}

Quiet == \A r \in Requests : req[r].step \in Ended \union {"new"}

ShownIsStored ==
    /\ own /\ clean => Agree
    /\ (/\ Quiet /\ gets = 0 /\ profiles = <<>> /\ ~behind
        /\ own => req[lastPut].step # "refused") => Agree

(***************************************************************************)
(* When everything has been answered, the page lists every label that is   *)
(* stored, unless the newest answer was lost or was replaced by an older   *)
(* one, or the last fetch came before the commit; that cannot be of a      *)
(* label that a submission created.                                        *)
(***************************************************************************)
PageFollowsEvents ==
    Quiet /\ asks = 0 /\ answers = <<>> /\ ~late =>
       \A i \in rows \ listed :
          i \in early /\ \A r \in Requests : req[r].op = "submit" => i \notin req[r].told

(***************************************************************************)
(* Every request is answered, though requests wait for each other.         *)
(***************************************************************************)
RequestsEnd ==
    \A r \in Requests : (req[r].step # "new") ~> (req[r].step \in Ended)
=============================================================================
