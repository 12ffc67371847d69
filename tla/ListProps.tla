------------------------------ MODULE ListProps ------------------------------
(* What the client's list of profiles shows. *)
EXTENDS ProfileList

\* Profiles for which the chain from commit to event to list was broken.
Trouble == missed \union crossed \union undone

\* No job or request is under way, and every message has arrived.
Settled ==
    /\ wire = <<>> /\ pending = {} /\ timers = {}
    /\ \A w \in Writers : wpc[w] \in {"new", "over"}

(***************************************************************************)
(* When things have settled, the rows show what is stored, and no profile  *)
(* has two of them; every profile that the URL asks for has one, whether   *)
(* it was stored before the list was fetched or since, by whomever.        *)
(* Excepted are profiles whose last event was lost, was overtaken or was   *)
(* known to the client before an older answer replaced the list; of the    *)
(* columns shown, the interest when the list's own request for an older    *)
(* value was answered late, and the name, the location and the lock, which *)
(* no event brings, when one has brought or changed the profile since the  *)
(* list was fetched; and from completeness: lists of an earlier URL, whose *)
(* answer came last, and profiles that were removed from the list or given *)
(* to a row that an answer had thrown away (_profileListener,              *)
(* setProfileInterestAtIndex, _fetchCurrentPage).                          *)
(***************************************************************************)
ListFollows ==
    /\ \A r, q \in rows : r.known /\ q.known /\ r.name = q.name => r = q
    /\ Settled =>
          \A r \in rows : r.known /\ r.name \notin Trouble =>
             /\ r.shown = Stored[r.name]
             /\ r.name \notin setBack => interest[r.name] = valued[Stored[r.name]]
             /\ r.name \notin partial => Uncopied(r) = Stored[r.name]
    /\ Settled /\ applied = asked =>
          \A a \in Listed[url] \ (Trouble \union hidden \union removed) :
             Stored[a] # 0 => ShownAs(a) # {}

(***************************************************************************)
(* A row that was shown for the name of an added profile is filled or      *)
(* shows an error in the end, unless the name was already listed or was    *)
(* added again (such rows stay until the list is fetched again), or the    *)
(* request to add it or its job came to an end without a message, or the   *)
(* message was lost (addProfile, _newProfile, _profileListener).           *)
(***************************************************************************)
NoneWaitsInVain ==
    Settled => \A r \in rows :
       r.known \/ r.error \/ r.number \in again \/ r.name \in missed
=============================================================================
