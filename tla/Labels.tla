------------------------------- MODULE Labels -------------------------------
(***************************************************************************)
(* Labels: the requests that create, rename and delete them and that give  *)
(* them to a profile, the events that announce them, and two clients: the  *)
(* view of one profile, whose user edits its labels, and the page that     *)
(* lists the labels.  Each fetches what it shows again at every event on   *)
(* its channel, and replaces it by the answer.                             *)
(*                                                                         *)
(* Each request runs in a transaction of its own (READ COMMITTED).  Names  *)
(* are unique: who inserts a name that another transaction has inserted    *)
(* waits until that transaction ends, and the database ends one of the     *)
(* requests that wait for each other.  POST and PUT announce a label when  *)
(* it is flushed, before they commit; a submission of profiles commits     *)
(* each new label first.                                                   *)
(*                                                                         *)
(* Users write names in any way; Stored(s) is what the code stores of s.   *)
(* A label that is never committed keeps its identifier.                   *)
(***************************************************************************)
EXTENDS Naturals, Sequences, FiniteSets, SequencesExt

CONSTANTS
    Names,          \* names as they are stored
    Written,        \* names as users write them, those of Names among them
    Stored(_),      \* .lower().strip(); Refused when the name is not valid
    Refused,        \* not a name
    Lists,          \* names in a request that creates labels, in their order
    Sorted(_),      \* a set of names, as the list in which an answer has them
    MaxRequests,    \* bound: requests made
    MaxLabels,      \* bound: identifiers given out
    MaxHeard        \* bound: events on the channel of profiles that no PUT here sends

ASSUME LabelsAssumption ==
    /\ Names \subseteq Written /\ Refused \notin Names
    /\ \A s \in Written : Stored(s) \in Names \union {Refused}
    /\ \A s \in Names : Stored(s) = s
    /\ Lists \subseteq Seq(Written) \ {<<>>} /\ MaxRequests \in Nat /\ MaxLabels \in Nat
    /\ MaxHeard \in Nat

ASSUME SortedAssumption ==
    \A S \in SUBSET Names : Sorted(S) \in Seq(Names) /\ Range(Sorted(S)) = S

VARIABLES
    name,           \* of each label: what the last to write it stored
    rows,           \* labels that are committed
    given,          \* identifiers given out
    attached,       \* labels of the profile, committed
    req,            \* the requests
    begun,          \* number of requests made
    shown,          \* the view: the labels of the profile, as its user wrote them
    lastPut,        \* the view: its last request, 0 before it
    gets, profiles, \* the view: fetches without answer; what the answers hold, oldest first
    heard,          \* the view: events that no PUT here has sent
    asks, answers,  \* the page: fetches without answer; what the answers hold, oldest first
    listed,         \* the page: labels listed
    was,            \* history: labels that have been committed
    renamed,        \* history: labels that have been renamed
    early,          \* history: labels the last fetch came too early for
    late,           \* history: of what the page has read, the newest is not what it shows
    own,            \* history: the view shows what the last PUT has sent
    behind,         \* history: of what the view has read, the newest is not what it shows
    clean           \* history: the last PUT to commit was the last one sent, and alone

pageVars == <<asks, answers, listed, early, late>>
fetchVars == <<gets, profiles, heard, behind>>
viewVars == <<shown, lastPut, own, fetchVars>>
vars == <<name, rows, given, attached, req, begun, viewVars, pageVars, was, renamed, clean>>

Ids == 1 .. MaxLabels
Requests == 1 .. MaxRequests
Steps == {"new", "look", "insert", "announce", "assign", "flush", "write", "commit",
          "done", "refused"}
Ended == {"done", "refused"}

\* A request: what it asks for, the names still to be dealt with, the label it
\* is about; the labels it is to give to the profile, those it has inserted,
\* those the profile had, those it has announced; no other PUT beside it?
RequestRecord ==
    [op : {"none", "post", "put", "submit", "rename", "delete"}, step : Steps,
     todo : Seq(Written), target : 0 .. MaxLabels, got : SUBSET Ids, new : SUBSET Ids,
     old : SUBSET Ids, told : SUBSET Ids, alone : BOOLEAN]

TypeOK ==
    /\ name \in [Ids -> Names \union {Refused}]
    /\ rows \subseteq Ids /\ given \in 0 .. MaxLabels /\ attached \subseteq rows
    /\ req \in [Requests -> RequestRecord]
    /\ \A r, q \in Requests : r # q => req[r].new \intersect req[q].new = {}
    /\ begun \in 0 .. MaxRequests /\ lastPut \in 0 .. MaxRequests
    /\ shown \in Seq(Written) /\ asks \in Nat /\ gets \in Nat
    /\ answers \in Seq([labels : SUBSET Ids, overtaken : BOOLEAN])
    /\ profiles \in Seq([labels : Seq(Names), overtaken : BOOLEAN])
    /\ heard \in 0 .. MaxHeard /\ own \in BOOLEAN /\ behind \in BOOLEAN
    /\ listed \subseteq Ids /\ was \subseteq Ids /\ renamed \subseteq Ids
    /\ early \subseteq Ids /\ late \in BOOLEAN /\ clean \in BOOLEAN

Cleared(op, step, told) ==
    [op |-> op, step |-> step, told |-> told, todo |-> <<>>, target |-> 0,
     got |-> {}, new |-> {}, old |-> {}, alone |-> FALSE]

\* One label at most is there, and the profile may have it.  The view and
\* the page have been opened.
Init ==
    /\ \E n \in Names \union {Refused} : name = [i \in Ids |-> IF i = 1 THEN n ELSE Refused]
    /\ rows = {i \in Ids : name[i] # Refused} /\ given = Cardinality(rows)
    /\ attached \in {{}, rows} /\ shown = IF attached = {} THEN <<>> ELSE <<name[1]>>
    /\ req = [r \in Requests |-> Cleared("none", "new", {})]
    /\ begun = 0 /\ lastPut = 0 /\ own = FALSE
    /\ gets = 0 /\ profiles = <<>> /\ heard = 0 /\ behind = FALSE
    /\ asks = 0 /\ answers = <<>> /\ listed = rows
    /\ was = rows /\ renamed = {} /\ early = {} /\ late = FALSE /\ clean = FALSE

-----------------------------------------------------------------------------
(* Transactions *)

In(r, step) == req[r].step = step
Next1(r) == Stored(Head(req[r].todo))
Visible(r) == rows \union req[r].new
Called(n) == {i \in Ids : name[i] = n}

\* Transactions, other than r's, that have inserted a label of this name.
Holders(r, n) == {q \in Requests \ {r} : req[q].new \intersect Called(n) # {}}

\* The name that r is about to insert, as a set.
Wanted(r) ==
    {n \in Names : \/ In(r, "insert") /\ n = Next1(r)
                   \/ In(r, "write") /\ req[r].op = "rename" /\ n = Next1(r)}
Waits(r, q) == \E n \in Wanted(r) : q \in Holders(r, n)

\* The request is in a circle of requests that wait for each other.  Each
\* waits for one at most, so that the circle has all of C.
Deadlocked(r) ==
    \E C \in SUBSET Requests :
       /\ r \in C
       /\ \A q \in C : (\E p \in C : Waits(q, p)) /\ (\E p \in C : Waits(p, q))

\* Joins that r's transaction has inserted and deleted, and not yet committed.
Inserted(r) == IF In(r, "commit") THEN req[r].got \ req[r].old ELSE {}
Deleted(r) == IF In(r, "commit") THEN req[r].old \ req[r].got ELSE {}
Flushed(r) == UNION {Inserted(q) \union Deleted(q) : q \in Requests \ {r}}

\* What is left of a request that has been answered.
Over(r, step) == req' = [req EXCEPT ![r] = Cleared(req[r].op, step, req[r].told)]

\* Mutant: the answer is sent, the transaction stays.
RefuseNoRollback(r) ==
    /\ req' = [req EXCEPT ![r].step = "refused"]
    /\ UNCHANGED <<name, rows, given, attached, begun, viewVars, pageVars, was, renamed, clean>>

\* The request is answered with an error: rollback.
Refuse(r) ==
    /\ Over(r, "refused")
    /\ name' = [i \in Ids |-> IF i \in req[r].new THEN Refused ELSE name[i]]
    /\ UNCHANGED <<rows, given, attached, begun, viewVars, pageVars, was, renamed, clean>>

\* The request that is begun, with the names and the label it is about.
Begin(op, step, names, i) ==
    /\ begun < MaxRequests /\ begun' = begun + 1
    /\ req' = [req EXCEPT ![begun + 1].op = op, ![begun + 1].step = step,
                          ![begun + 1].todo = names, ![begun + 1].target = i]
    /\ UNCHANGED <<name, rows, given, attached, pageVars, was, renamed>>

\* The step at which r is when it has dealt with the first name.
After(r) ==
    LET more == Len(req[r].todo) > 1 IN
    CASE req[r].op = "post" -> IF more THEN "insert" ELSE "commit"
      [] req[r].op = "put" -> IF more THEN "look" ELSE "assign"
      [] OTHER -> IF more THEN "look" ELSE "done"

-----------------------------------------------------------------------------
(* Creating labels, and giving them to the profile *)

\* POST /api/label/
Post(names) == Begin("post", "insert", names, 0) /\ UNCHANGED <<viewVars, clean>>

\* POST /api/profile/, as far as labels are concerned
Submit(names) == Begin("submit", "look", names, 0) /\ UNCHANGED <<viewVars, clean>>

\* _updateProfileLabels: PUT /api/profile/<id> with all labels that are shown.
Put(labels) ==
    /\ Begin("put", IF labels = <<>> THEN "assign" ELSE "look", labels, 0)
    /\ shown' = labels /\ lastPut' = begun + 1 /\ own' = TRUE /\ clean' = FALSE
    /\ UNCHANGED fetchVars

AddLabel(s) == s \notin Range(shown) /\ Put(Append(shown, s))
RemoveLabel(k) == k \in DOMAIN shown /\ Put(RemoveAt(shown, k))

\* The same of another user, whose view is not modelled
PutElsewhere(names) == Begin("put", "look", names, 0) /\ UNCHANGED <<viewVars, clean>>

\* PUT looks for the name as it is written, a submission for the stored one.
Found(r) == {i \in Visible(r) :
               name[i] = IF req[r].op = "put" THEN Head(req[r].todo) ELSE Next1(r)}

Look(r) ==
    /\ In(r, "look")
    /\ req' = IF Found(r) = {} THEN [req EXCEPT ![r].step = "insert"]
              ELSE [req EXCEPT ![r].step = After(r), ![r].todo = Tail(@),
                      ![r].got = IF req[r].op = "put" THEN @ \union Found(r) ELSE @]
    /\ UNCHANGED <<name, rows, given, attached, begun, viewVars, pageVars, was, renamed, clean>>

Taken(r) == \E i \in Visible(r) : name[i] = Next1(r)

\* Mutant: the rollback is followed by the next name.
ClashGoOn(r) ==
    /\ In(r, "insert") /\ (Next1(r) = Refused \/ Taken(r))
    /\ name' = [i \in Ids |-> IF i \in req[r].new THEN Refused ELSE name[i]]
    /\ req' = [req EXCEPT ![r].step = After(r), ![r].todo = Tail(@), ![r].new = {}]
    /\ UNCHANGED <<rows, given, attached, begun, viewVars, pageVars, was, renamed, clean>>

\* The name is not valid, or a row has it.
Clash(r) ==
    /\ In(r, "insert") /\ (Next1(r) = Refused \/ Taken(r))
    /\ Refuse(r)

\* flush, and then the event; within the transaction
Insert(r) ==
    /\ In(r, "insert") /\ req[r].op # "submit"
    /\ Next1(r) # Refused /\ ~Taken(r) /\ Holders(r, Next1(r)) = {}
    /\ given < MaxLabels /\ given' = given + 1
    /\ name' = [name EXCEPT ![given + 1] = Next1(r)]
    /\ req' = [req EXCEPT ![r].step = After(r), ![r].todo = Tail(@),
                          ![r].new = @ \union {given + 1}, ![r].told = @ \union {given + 1},
                          ![r].got = IF req[r].op = "put" THEN @ \union {given + 1} ELSE @]
    /\ asks' = asks + 1
    /\ UNCHANGED <<rows, attached, begun, viewVars, answers, listed, early, late,
                   was, renamed, clean>>

\* Mutant: the event is sent before the commit, as POST does.
InsertAnnounced(r) ==
    /\ In(r, "insert") /\ req[r].op = "submit"
    /\ Next1(r) # Refused /\ ~Taken(r) /\ Holders(r, Next1(r)) = {}
    /\ given < MaxLabels /\ given' = given + 1
    /\ name' = [name EXCEPT ![given + 1] = Next1(r)]
    /\ req' = [req EXCEPT ![r].step = "commit", ![r].todo = <<>>,
                          ![r].new = {given + 1}, ![r].told = {given + 1}]
    /\ asks' = asks + 1
    /\ UNCHANGED <<rows, attached, begun, viewVars, answers, listed, early, late,
                   was, renamed, clean>>

\* _get_label_id: commit, in a session of its own
InsertCommit(r) ==
    /\ In(r, "insert") /\ req[r].op = "submit"
    /\ Next1(r) # Refused /\ ~Taken(r) /\ Holders(r, Next1(r)) = {}
    /\ given < MaxLabels /\ given' = given + 1
    /\ name' = [name EXCEPT ![given + 1] = Next1(r)]
    /\ rows' = rows \union {given + 1} /\ was' = was \union {given + 1}
    /\ req' = [req EXCEPT ![r].step = "announce", ![r].target = given + 1]
    /\ UNCHANGED <<attached, begun, viewVars, pageVars, renamed, clean>>

\* The commit has expired the object: as_dict reads the row again.
Announce(r) ==
    /\ In(r, "announce") /\ req[r].target \in rows
    /\ req' = [req EXCEPT ![r].step = After(r), ![r].todo = Tail(@), ![r].target = 0,
                          ![r].told = @ \union {req[r].target}]
    /\ asks' = asks + 1
    /\ UNCHANGED <<name, rows, given, attached, begun, viewVars, answers, listed, early,
                   late, was, renamed, clean>>
AnnounceGone(r) == In(r, "announce") /\ req[r].target \notin rows /\ Refuse(r)

\* profile.labels = labels loads the labels that the profile has.
Assign(r) ==
    /\ In(r, "assign")
    /\ LET others == {q \in Requests \ {r} : In(q, "flush") \/ In(q, "commit")} IN
          req' = [q \in Requests |->
             IF q = r THEN [req[r] EXCEPT !.step = "flush", !.old = attached,
                                          !.alone = others = {}]
             ELSE IF q \in others THEN [req[q] EXCEPT !.alone = FALSE] ELSE req[q]]
    /\ UNCHANGED <<name, rows, given, attached, begun, viewVars, pageVars, was, renamed, clean>>

\* Joins are gone already, are there already, or the label is gone.
Stale(r) ==
    LET del == req[r].old \ req[r].got
        add == req[r].got \ req[r].old
    IN  ~(del \subseteq attached) \/ add \intersect attached # {} \/ ~(add \subseteq Visible(r))

\* as_dict reads the notes, which flushes the labels.
Flush(r) ==
    /\ In(r, "flush")
    /\ ((req[r].old \ req[r].got) \union (req[r].got \ req[r].old)) \intersect Flushed(r) = {}
    /\ \/ Stale(r) /\ Refuse(r)
       \/ /\ ~Stale(r) /\ req' = [req EXCEPT ![r].step = "commit"]
          /\ UNCHANGED <<name, rows, given, attached, begun, viewVars, pageVars,
                         was, renamed, clean>>

Stores(r) ==
    /\ In(r, "commit")
    /\ rows' = rows \union req[r].new /\ was' = was \union req[r].new
    /\ attached' = (attached \ Deleted(r)) \union Inserted(r)
    /\ clean' = IF req[r].op = "put" THEN r = lastPut /\ req[r].alone ELSE clean
    /\ Over(r, "done")
    /\ UNCHANGED <<name, given, begun, shown, lastPut, own, profiles, heard, behind,
                   pageVars, renamed>>

\* Mutant: nobody hears of it.
CommitUntold(r) == Stores(r) /\ gets' = gets

\* What a PUT has stored is published, and the view fetches it.
Commit(r) == Stores(r) /\ gets' = IF req[r].op = "put" THEN gets + 1 ELSE gets

-----------------------------------------------------------------------------
(* Renaming and deleting a label *)

\* PUT and DELETE /api/label/<id>: the row is read
AskRename(i, s) == i \in rows /\ Begin("rename", "write", <<s>>, i) /\ UNCHANGED <<viewVars, clean>>
AskDelete(i) == i \in rows /\ Begin("delete", "write", <<>>, i) /\ UNCHANGED <<viewVars, clean>>

CanRename(r) ==
    /\ req[r].target \in rows /\ Next1(r) # Refused
    /\ \A i \in rows \ {req[r].target} : name[i] # Next1(r)

Rename(r) ==
    /\ In(r, "write") /\ req[r].op = "rename"
    /\ Holders(r, Next1(r)) = {}
    /\ \A q \in Requests : req[r].target \notin Inserted(q)
    /\ \/ ~CanRename(r) /\ Refuse(r)
       \/ /\ CanRename(r)
          /\ name' = [name EXCEPT ![req[r].target] = Next1(r)]
          /\ renamed' = renamed \union {req[r].target}
          /\ Over(r, "done")
          /\ UNCHANGED <<rows, given, attached, begun, viewVars, pageVars, was, clean>>

\* Mutant: the joins are no foreign keys.
DeleteAnyway(r) ==
    /\ In(r, "write") /\ req[r].op = "delete"
    /\ rows' = rows \ {req[r].target}
    /\ Over(r, "done")
    /\ UNCHANGED <<name, given, attached, begun, viewVars, pageVars, was, renamed, clean>>

\* The joins refer to labels: one that is attached is not deleted.
Delete(r) ==
    /\ In(r, "write") /\ req[r].op = "delete"
    /\ req[r].target \notin Flushed(r)
    /\ \/ req[r].target \in attached /\ Refuse(r)
       \/ /\ req[r].target \notin attached
          /\ rows' = rows \ {req[r].target}
          /\ Over(r, "done")
          /\ UNCHANGED <<name, given, attached, begun, viewVars, pageVars, was, renamed, clean>>

-----------------------------------------------------------------------------
(* The page that lists the labels *)

\* The k-th answer is no longer on its way; those before it are overtaken.
Without(list, k) ==
    [j \in 1 .. Len(list) - 1 |->
       IF j < k THEN [list[j] EXCEPT !.overtaken = TRUE] ELSE list[j + 1]]

PageRead ==
    /\ asks > 0 /\ asks' = asks - 1
    /\ answers' = Append(answers, [labels |-> rows, overtaken |-> FALSE])
    /\ early' = UNION {req[q].new : q \in Requests}
    /\ UNCHANGED <<name, rows, given, attached, req, begun, viewVars, listed, late,
                   was, renamed, clean>>

\* An answer replaces the list, whichever it is.
PageAnswer(k) ==
    /\ k \in DOMAIN answers
    /\ listed' = answers[k].labels /\ late' = answers[k].overtaken
    /\ answers' = Without(answers, k)
    /\ UNCHANGED <<name, rows, given, attached, req, begun, viewVars, asks, early,
                   was, renamed, clean>>

\* The fetch fails, or the event that asked for it has been lost: the list stays.
PageFail(k) ==
    /\ k \in DOMAIN answers
    /\ late' = (late \/ ~answers[k].overtaken) /\ answers' = Without(answers, k)
    /\ UNCHANGED <<name, rows, given, attached, req, begun, viewVars, asks, listed, early,
                   was, renamed, clean>>

-----------------------------------------------------------------------------
(* The view of the profile *)

\* Another PUT, of this profile or another, or a job has published a profile.
ProfileEvent ==
    /\ heard < MaxHeard /\ heard' = heard + 1 /\ gets' = gets + 1
    /\ UNCHANGED <<name, rows, given, attached, req, begun, shown, lastPut, own, profiles,
                   behind, pageVars, was, renamed, clean>>

\* GET /api/profile/<id>
ProfileRead ==
    /\ gets > 0 /\ gets' = gets - 1
    /\ profiles' = Append(profiles, [labels |-> Sorted({name[i] : i \in attached}),
                                     overtaken |-> FALSE])
    /\ UNCHANGED <<name, rows, given, attached, req, begun, shown, lastPut, own, heard,
                   behind, pageVars, was, renamed, clean>>

\* The answer replaces the profile, and with it labels that are being saved.
ProfileAnswer(k) ==
    /\ k \in DOMAIN profiles
    /\ shown' = profiles[k].labels /\ own' = FALSE /\ behind' = profiles[k].overtaken
    /\ profiles' = Without(profiles, k)
    /\ UNCHANGED <<name, rows, given, attached, req, begun, lastPut, gets, heard,
                   pageVars, was, renamed, clean>>

\* The fetch fails, or the event that asked for it has been lost.
ProfileFail(k) ==
    /\ k \in DOMAIN profiles
    /\ behind' = (behind \/ ~profiles[k].overtaken) /\ profiles' = Without(profiles, k)
    /\ UNCHANGED <<name, rows, given, attached, req, begun, shown, lastPut, own, gets, heard,
                   pageVars, was, renamed, clean>>

-----------------------------------------------------------------------------
\* The database ends one of the transactions of a circle.
Abort(r) == Deadlocked(r) /\ Refuse(r)

RequestStep(r) ==
    \/ Look(r) \/ Clash(r) \/ Insert(r) \/ InsertCommit(r) \/ Announce(r) \/ AnnounceGone(r)
    \/ Assign(r) \/ Flush(r) \/ Commit(r) \/ Rename(r) \/ Delete(r) \/ Abort(r)

Next ==
    \/ \E names \in Lists : Post(names) \/ Submit(names) \/ PutElsewhere(names)
    \/ \E s \in Written : AddLabel(s)
    \/ \E k \in 1 .. MaxRequests : RemoveLabel(k)
    \/ \E i \in rows : AskDelete(i) \/ \E s \in Written : AskRename(i, s)
    \/ \E r \in Requests : RequestStep(r)
    \/ PageRead \/ \E k \in DOMAIN answers : PageAnswer(k) \/ PageFail(k)
    \/ ProfileEvent \/ ProfileRead
    \/ \E k \in DOMAIN profiles : ProfileAnswer(k) \/ ProfileFail(k)

Spec == Init /\ [][Next]_vars

\* A request that has begun goes on.  Nobody has to make one.
FairSpec == Spec /\ \A r \in Requests : WF_vars(RequestStep(r))
=============================================================================
