----------------------------- MODULE NotesProps -----------------------------
(* What the client shows of the notes of a profile. *)
EXTENDS Notes

\* Notes for which the chain from commit to event to view was broken.
Trouble == missed \union crossed \union raced

\* No request is under way, and every event has arrived.
Settled == wire = <<>> /\ \A w \in Writers : wpc[w] \in {"new", "over"}

(***************************************************************************)
(* When things have settled the view shows of each note what its row has,  *)
(* unless the last event about it was lost, was published after a newer    *)
(* one (the row is read again before it is published, in two steps), or    *)
(* came while an older answer to the view's only request was on its way    *)
(* (_noteListener and _fetchNotes, view.dart).                             *)
(***************************************************************************)
ViewFollows ==
    Settled /\ vstep = "open" => \A n \in NoteIds \ Trouble : view[n] = Rows[n]

(***************************************************************************)
(* When things have settled and all answers are there, the page shows the  *)
(* rows if nothing was added to it since its last request but the answer   *)
(* to that.  If answers to earlier requests were added too, each before    *)
(* the newer ones, every row is shown as it is, though deleted notes may   *)
(* be shown as well; events that overtake each other do no harm            *)
(* (_fetchCurrentPage, notes.dart).                                        *)
(***************************************************************************)
PageFollows ==
    Settled /\ pending = {} /\ missed = {} =>
       /\ ~spoiled => page = Rows
       /\ ~stale => \A n \in NoteIds : Rows[n] # 0 => page[n] = Rows[n]

(***************************************************************************)
(* The two parts of the client that show notes follow the table of notes,  *)
(* as far as said above.                                                   *)
(***************************************************************************)
NotesFollow == ViewFollows /\ PageFollows

(***************************************************************************)
(* A note that has been deleted disappears from the view for good, unless  *)
(* the chain of events about it was broken.                                *)
(***************************************************************************)
DeletedDisappear ==
    \A n \in NoteIds :
       (Rows[n] = 0 /\ Everywhere(n) # {}) ~> [](view[n] = 0 \/ n \in Trouble)
=============================================================================
