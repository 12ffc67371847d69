-------------------------------- MODULE Notes --------------------------------
(***************************************************************************)
(* Notes of one profile: requests that create, change and delete them, the *)
(* events that the requests publish, and the two parts of the client that  *)
(* show the notes.  A request commits first, then reads the row again, and *)
(* then publishes what it has read; other requests go on in between.       *)
(*                                                                         *)
(* The view of the profile fetches the notes once and then applies events. *)
(* The page of notes fetches them again at each event.  Both empty their   *)
(* map when a request is sent and add to it what is answered.  Answers may *)
(* overtake each other; events reach the client in order, or are lost.     *)
(* View and page do not interact, so they take each event in one step.     *)
(*                                                                         *)
(* log has the contents of the table, commit by commit.  The content of a  *)
(* note is the number of the commit that wrote it; 0: there is none.       *)
(*                                                                         *)
(* What other modules call Init, Next and Spec is NotesInit, ... here: the *)
(* proofs extend this module and Labels.                                   *)
(***************************************************************************)
EXTENDS Naturals, Sequences, FiniteSets

CONSTANTS
    NoteIds,      \* identifiers of notes; they all fit on one page
    Writers,      \* requests that change notes
    Faults        \* may events and answers be lost and requests be killed?

ASSUME NotesAssumption == IsFiniteSet(Writers) /\ Faults \in BOOLEAN

VARIABLES
    log,             \* contents of the table, the latest last
    wpc, wnote,      \* request: step, note
    wread,           \* request: number of the commit that it tells about
    wire,            \* events on their way to the client
    told,            \* the newest commit that an event about each note told
    view, vstep,     \* view: notes it shows; "closed", "asked", "read", "open"
    vread,           \* view: number of commits that the answer on its way knows
    page, sent,      \* page: notes it shows; number of requests sent
    pending, pread,  \* page: requests without answer; commits each answer knows
    newest,          \* page: commits known to the answers since the last request
    missed,          \* history: notes whose last event was lost or not published
    crossed,         \* history: notes whose last event was overtaken
    raced,           \* history: notes whose last event an older answer has undone
    spoiled, stale   \* history: since its last request the page has added an answer
                     \*   to an earlier one; an answer older than one before it

writerVars == <<wpc, wnote, wread>>
noteViewVars == <<view, vstep, vread, raced>>
notePageVars == <<page, sent, pending, pread, newest, spoiled, stale>>
notesVars == <<log, writerVars, wire, told, noteViewVars, notePageVars, missed, crossed>>

Commits == 0 .. Cardinality(Writers) + 1
Fetches == 1 .. Cardinality(Writers) + 1      \* one at first, one per event
Tables == [NoteIds -> Commits]
Rows == log[Len(log)]
NoNotes == [n \in NoteIds |-> 0]

NotesTypes ==
    /\ log \in Seq(Tables) /\ Len(log) \in Commits \ {0}
    /\ wpc \in [Writers -> {"new", "reload", "publish", "publish deletion", "over"}]
    /\ wnote \in [Writers -> NoteIds] /\ wread \in [Writers -> Commits]
    /\ wire \in Seq([note : NoteIds, at : Commits, deleted : BOOLEAN])
    /\ told \in Tables
    /\ view \in Tables /\ vstep \in {"closed", "asked", "read", "open"} /\ vread \in Commits
    /\ page \in Tables /\ sent \in Fetches /\ pending \subseteq Fetches
    /\ pread \in [Fetches -> Commits] /\ newest \in Commits
    /\ missed \subseteq NoteIds /\ crossed \subseteq NoteIds /\ raced \subseteq NoteIds
    /\ spoiled \in BOOLEAN /\ stale \in BOOLEAN

\* Some notes are there; the page has just been opened.
NotesInit ==
    /\ \E N \in SUBSET NoteIds : log = <<[n \in NoteIds |-> IF n \in N THEN 1 ELSE 0]>>
    /\ wpc = [w \in Writers |-> "new"] /\ wnote \in [Writers -> NoteIds]
    /\ wread = [w \in Writers |-> 0]
    /\ wire = <<>> /\ told = NoNotes
    /\ view = NoNotes /\ vstep = "closed" /\ vread = 0
    /\ page = NoNotes /\ sent = 1 /\ pending = {1} /\ pread = [k \in Fetches |-> 0]
    /\ newest = 0
    /\ missed = {} /\ crossed = {} /\ raced = {} /\ spoiled = FALSE /\ stale = FALSE

Goto(w, step) == wpc' = [wpc EXCEPT ![w] = step]

-----------------------------------------------------------------------------
(* Requests that change notes *)

\* The table after a commit that gives note n a content, or none.
Store(n, content) == log' = Append(log, [Rows EXCEPT ![n] = content])
Everywhere(n) == {k \in 1 .. Len(log) : log[k][n] # 0}

\* POST /api/note/; identifiers are not used twice.
CreateNote(w) ==
    /\ wpc[w] = "new" /\ Everywhere(wnote[w]) = {}
    /\ Store(wnote[w], Len(log) + 1)
    /\ Goto(w, "reload")
    /\ UNCHANGED <<wnote, wread, wire, told, noteViewVars, notePageVars, missed, crossed>>

\* PUT /api/note/<id>
ChangeNote(w) ==
    /\ wpc[w] = "new" /\ Rows[wnote[w]] # 0
    /\ Store(wnote[w], Len(log) + 1)
    /\ Goto(w, "reload")
    /\ UNCHANGED <<wnote, wread, wire, told, noteViewVars, notePageVars, missed, crossed>>

\* DELETE /api/note/<id>
DeleteNote(w) ==
    /\ wpc[w] = "new" /\ Rows[wnote[w]] # 0
    /\ Store(wnote[w], 0)
    /\ wread' = [wread EXCEPT ![w] = Len(log) + 1]
    /\ Goto(w, "publish deletion")
    /\ UNCHANGED <<wnote, wire, told, noteViewVars, notePageVars, missed, crossed>>

\* The commit has expired the object: as_dict reads the row again, and fails
\* when it is gone.
Reload(w) ==
    /\ wpc[w] = "reload"
    /\ wread' = [wread EXCEPT ![w] = Rows[wnote[w]]]
    /\ Goto(w, IF Rows[wnote[w]] = 0 THEN "over" ELSE "publish")
    /\ UNCHANGED <<log, wnote, wire, told, noteViewVars, notePageVars, missed, crossed>>

\* Nothing is newer than what the request tells about its note.
Current(w) == wpc[w] = "publish deletion" \/ wread[w] = Rows[wnote[w]]

Event(w) == [note |-> wnote[w], at |-> wread[w], deleted |-> wpc[w] = "publish deletion"]

\* Mutant: the request reads and publishes its note over and over.
PublishAgain(w) ==
    /\ wpc[w] \in {"publish", "publish deletion"}
    /\ LET n == wnote[w] IN
          /\ wire' = Append(wire, Event(w))
          /\ missed' = IF Current(w) THEN missed \ {n} ELSE missed
          /\ crossed' = IF Current(w) THEN crossed \ {n}
                        ELSE crossed \union {m \in {n} : wread[w] < told[n]}
          /\ told' = [told EXCEPT ![n] = IF wread[w] < @ THEN @ ELSE wread[w]]
    /\ Goto(w, "reload")
    /\ UNCHANGED <<log, wnote, wread, noteViewVars, notePageVars>>

Publish(w) ==
    /\ wpc[w] \in {"publish", "publish deletion"}
    /\ LET n == wnote[w] IN
          \/ /\ wire' = Append(wire, Event(w))
             /\ missed' = IF Current(w) THEN missed \ {n} ELSE missed
             /\ crossed' = IF Current(w) THEN crossed \ {n}
                           ELSE crossed \union {m \in {n} : wread[w] < told[n]}
             /\ told' = [told EXCEPT ![n] = IF wread[w] < @ THEN @ ELSE wread[w]]
          \/ /\ Faults
             /\ missed' = missed \union {n}
             /\ UNCHANGED <<wire, told, crossed>>
    /\ Goto(w, "over")
    /\ UNCHANGED <<log, wnote, wread, noteViewVars, notePageVars>>

\* The web process is killed before the event is out.
Die(w) ==
    /\ Faults /\ wpc[w] \in {"reload", "publish", "publish deletion"}
    /\ missed' = missed \union {wnote[w]}
    /\ Goto(w, "over")
    /\ UNCHANGED <<log, wnote, wread, wire, told, noteViewVars, notePageVars, crossed>>

-----------------------------------------------------------------------------
(* The view of the profile *)

\* Notes of an answer are added to those in the map.
Merge(map, answer) == [n \in NoteIds |-> IF answer[n] # 0 THEN answer[n] ELSE map[n]]

\* _fetchNotes, after five other requests
ViewAsk ==
    /\ vstep = "closed"
    /\ vstep' = "asked" /\ view' = NoNotes
    /\ UNCHANGED <<log, writerVars, wire, told, vread, raced, notePageVars, missed, crossed>>

ViewRead ==
    /\ vstep = "asked"
    /\ vstep' = "read" /\ vread' = Len(log)
    /\ UNCHANGED <<log, writerVars, wire, told, view, raced, notePageVars, missed, crossed>>

ViewAnswer ==
    /\ vstep = "read"
    /\ vstep' = "open" /\ view' = Merge(view, log[vread])
    /\ UNCHANGED <<log, writerVars, wire, told, vread, raced, notePageVars, missed, crossed>>

\* Mutant: the listener only adds and changes notes.
ListenerNoDeletion(e) == IF e.deleted THEN view ELSE [view EXCEPT ![e.note] = e.at]

\* _noteListener; before the first request it fails on a map that is null.
NoteListener(e) ==
    IF vstep = "closed" THEN view
    ELSE [view EXCEPT ![e.note] = IF e.deleted THEN 0 ELSE e.at]

\* The answer on its way knows less than the event, and will undo it.
WillUndo(e) ==
    vstep = "read" /\ log[vread][e.note] # 0 /\ (e.deleted \/ log[vread][e.note] < e.at)

-----------------------------------------------------------------------------
(* The page of notes *)

\* Mutant: the map is kept when a request is sent.
SendKeep ==
    /\ sent' = sent + 1 /\ pending' = pending \union {sent + 1}
    /\ newest' = 0 /\ spoiled' = FALSE /\ stale' = FALSE
    /\ UNCHANGED <<page, pread>>

\* _fetchCurrentPage
Send ==
    /\ page' = NoNotes /\ sent' = sent + 1 /\ pending' = pending \union {sent + 1}
    /\ newest' = 0 /\ spoiled' = FALSE /\ stale' = FALSE
    /\ UNCHANGED pread

NotesRead(k) ==
    /\ k \in pending /\ pread[k] = 0
    /\ pread' = [pread EXCEPT ![k] = Len(log)]
    /\ UNCHANGED <<log, writerVars, wire, told, noteViewVars, page, sent, pending, newest,
                   spoiled, stale, missed, crossed>>

NotesAnswer(k) ==
    /\ k \in pending /\ pread[k] # 0
    /\ pending' = pending \ {k}
    /\ page' = Merge(page, log[pread[k]])
    /\ newest' = IF pread[k] < newest THEN newest ELSE pread[k]
    /\ stale' = (stale \/ pread[k] < newest) /\ spoiled' = (spoiled \/ k # sent)
    /\ UNCHANGED <<log, writerVars, wire, told, noteViewVars, sent, pread, missed, crossed>>

\* The request fails: an error is shown beside what the map has.
NotesFail(k) ==
    /\ Faults /\ k \in pending
    /\ pending' = pending \ {k}
    /\ stale' = (stale \/ k = sent) /\ spoiled' = (spoiled \/ k = sent)
    /\ UNCHANGED <<log, writerVars, wire, told, noteViewVars, page, sent, pread, newest,
                   missed, crossed>>

-----------------------------------------------------------------------------
\* The next event arrives, at the view and at the page.
Handle ==
    /\ wire # <<>>
    /\ LET e == Head(wire) IN
          /\ view' = NoteListener(e)
          /\ raced' = IF WillUndo(e) THEN raced \union {e.note}
                      ELSE IF vstep = "open" THEN raced \ {e.note} ELSE raced
    /\ wire' = Tail(wire)
    /\ Send
    /\ UNCHANGED <<log, writerVars, told, vstep, vread, missed, crossed>>

WriterStep(w) == Reload(w) \/ Publish(w)
ClientStep ==
    \/ ViewAsk \/ ViewRead \/ ViewAnswer \/ Handle
    \/ \E k \in Fetches : NotesRead(k) \/ NotesAnswer(k)

NotesNext ==
    \/ \E w \in Writers : CreateNote(w) \/ ChangeNote(w) \/ DeleteNote(w) \/ WriterStep(w) \/ Die(w)
    \/ ClientStep
    \/ \E k \in Fetches : NotesFail(k)

NotesSpec == NotesInit /\ [][NotesNext]_notesVars

\* Requests that have begun go on, and so do the streams of events and the
\* client.  Nobody has to make a request.
NotesFairSpec ==
    /\ NotesSpec
    /\ \A w \in Writers : WF_notesVars(WriterStep(w))
    /\ WF_notesVars(Handle) /\ WF_notesVars(ViewAsk \/ ViewRead \/ ViewAnswer)
=============================================================================
