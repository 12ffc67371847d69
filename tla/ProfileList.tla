------------------------------ MODULE ProfileList ------------------------------
(***************************************************************************)
(* The client's list of profiles: a URL chooses the profiles that are      *)
(* fetched; the user may add profiles by name, for which a row is shown at *)
(* once; events of the channel "profile" fill these rows, change others or *)
(* insert new ones.  On the other side are the requests and jobs that      *)
(* store profiles and publish them: each commits, reads the row again and  *)
(* publishes what it has read, in steps of their own.                      *)
(*                                                                         *)
(* A profile and its name are one.  log has the contents of the table,     *)
(* commit by commit; the content of a profile is the number of the commit  *)
(* that wrote it, 0 if it is not stored.  Of the columns, the interest is  *)
(* told apart: only requests to change a profile (PUT) set it, and a row   *)
(* takes it from the answer to the list's own request, too; its values are *)
(* the numbers of the commits that set them.  Avatars are left out, and a  *)
(* profile has at most one label (with two, the listener fails once it has *)
(* filled the row).                                                        *)
(***************************************************************************)
EXTENDS Naturals, Sequences, FiniteSets

CONSTANTS
    Accounts,     \* profiles, by their names; those of one site
    Urls,         \* URLs of the list; the client begins at any of them
    Listed,       \* the profiles that pass the filters of each URL
    Labelled,     \* URLs with a filter by labels
    Writers,      \* jobs and requests that store profiles
    MaxAsked,     \* bound: requests for the list
    Faults        \* may messages be lost, and requests and jobs fail?

ASSUME ListAssumption ==
    /\ IsFiniteSet(Writers) /\ MaxAsked \in Nat \ {0} /\ Faults \in BOOLEAN
    /\ Listed \in [Urls -> SUBSET Accounts] /\ Labelled \subseteq Urls

VARIABLES
    log,              \* contents of the table, the latest last
    wpc, wname,       \* job or request: step, profile
    wread,            \* job or request: the content it is about to publish
    valued,           \* each commit: the commit that set the interest of its profile
    wput, wcommit,    \* is it a PUT of the interest; its commit
    wown, wrow,       \* PUT of this list: the answer the list had, the number of the row
    wire,             \* events on their way to the client
    told,             \* the newest content published of each profile
    url,              \* the URL
    asked, pending,   \* number of requests sent; those without answer
    wanted, aread,    \* each request: its URL; number of commits its answer knows
    applied,          \* the request whose answer the list has, 0 if none
    rows,             \* the rows of the list; those that are not from an answer are numbered
    interest,         \* the interest that the row of each profile shows
    made,             \* how many rows have got numbers
    waiting,          \* newProfilesMap: the number of the row for each name, 0 if none
    filtering,        \* the list takes events for filtered
    timers,           \* numbers of the rows that will be removed
    missed,           \* history: profiles with a lost or refused message
    crossed,          \* history: profiles whose last event was overtaken
    heard,            \* history: the newest content the client has received of each
    undone,           \* history: profiles that the last answer knows less about
    hidden,           \* history: profiles whose event filled a row not in the list
    removed,          \* history: profiles removed since the last answer
    again,            \* history: numbers of rows for names that had one, or got another
    partial,          \* history: profiles that an event brought to the list or changed in it
    setBack           \* history: profiles whose interest was set back by a late answer

putVars == <<wput, wown, wrow>>
serverVars == <<log, wpc, wname, wread, valued, wcommit, putVars>>
rowVars == <<interest, partial, setBack>>
fetchVars == <<asked, pending, wanted, aread, applied>>
listVars == <<rows, made, waiting, filtering, timers>>
seenVars == <<heard, undone, hidden, removed, again>>
vars == <<serverVars, wire, told, url, fetchVars, listVars, rowVars, missed, crossed, seenVars>>

Commits == 0 .. Cardinality(Writers) + 1
Tables == [Accounts -> Commits]
Requests == 1 .. MaxAsked
\* Each writer publishes once and stands for at most one name that is added.
Numbers == 0 .. 2 * Cardinality(Writers)
Stored == log[Len(log)]
Row == [number : Numbers, name : Accounts, known : BOOLEAN, shown : Commits, error : BOOLEAN]

TypeOK ==
    /\ log \in Seq(Tables) /\ Len(log) \in Commits \ {0}
    /\ wpc \in [Writers -> {"new", "asked", "reload", "publish", "answer", "over"}]
    /\ wname \in [Writers -> Accounts] /\ wread \in [Writers -> Commits]
    /\ valued \in [Commits -> Commits] /\ wcommit \in [Writers -> Commits]
    /\ wput \in [Writers -> BOOLEAN]
    /\ wown \in [Writers -> Requests \union {0}] /\ wrow \in [Writers -> Numbers]
    /\ wire \in Seq([name : Accounts, at : Commits, error : BOOLEAN])
    /\ told \in Tables /\ url \in Urls
    /\ asked \in Requests /\ pending \subseteq Requests
    /\ wanted \in [Requests -> Urls] /\ aread \in [Requests -> Commits]
    /\ applied \in Requests \union {0}
    /\ rows \subseteq Row /\ made \in Numbers
    /\ waiting \in [Accounts -> Numbers] /\ filtering \in BOOLEAN /\ timers \subseteq Numbers
    /\ missed \subseteq Accounts /\ crossed \subseteq Accounts /\ heard \in Tables
    /\ undone \subseteq Accounts /\ hidden \subseteq Accounts /\ removed \subseteq Accounts
    /\ again \subseteq Numbers
    /\ interest \in Tables /\ partial \subseteq Accounts /\ setBack \subseteq Accounts

\* Some profiles are stored; the list has just been opened.
Init ==
    /\ \E A \in SUBSET Accounts : log = <<[a \in Accounts |-> IF a \in A THEN 1 ELSE 0]>>
    /\ wpc = [w \in Writers |-> "new"] /\ wname \in [Writers -> Accounts]
    /\ wread = [w \in Writers |-> 0]
    /\ valued = [c \in Commits |-> 0] /\ wcommit = [w \in Writers |-> 0]
    /\ wput = [w \in Writers |-> FALSE]
    /\ wown = [w \in Writers |-> 0] /\ wrow = [w \in Writers |-> 0]
    /\ wire = <<>> /\ told = [a \in Accounts |-> 0]
    /\ url \in Urls
    /\ asked = 1 /\ pending = {1} /\ applied = 0
    /\ wanted = [k \in Requests |-> url] /\ aread = [k \in Requests |-> 0]
    /\ rows = {} /\ made = 0 /\ waiting = [a \in Accounts |-> 0]
    /\ filtering = FALSE /\ timers = {}
    /\ missed = {} /\ crossed = {} /\ heard = [a \in Accounts |-> 0]
    /\ undone = {} /\ hidden = {} /\ removed = {} /\ again = {}
    /\ interest = [a \in Accounts |-> 0] /\ partial = {} /\ setBack = {}

Goto(w, step) == wpc' = [wpc EXCEPT ![w] = step]

-----------------------------------------------------------------------------
(* Those who store profiles *)

\* Another client adds a profile or changes one; only what is stored can be changed.
OthersAsk(w, put) ==
    /\ wpc[w] = "new" /\ (put => Stored[wname[w]] # 0)
    /\ wput' = [wput EXCEPT ![w] = put]
    /\ Goto(w, "asked")
    /\ UNCHANGED <<log, wname, wread, valued, wcommit, wown, wrow, wire, told, url, fetchVars,
                   listVars, rowVars, missed, crossed, seenVars>>

Store(w) ==
    /\ wpc[w] = "asked"
    /\ LET c == Len(log) + 1 IN
          /\ log' = Append(log, [Stored EXCEPT ![wname[w]] = c])
          /\ wcommit' = [wcommit EXCEPT ![w] = c]
          /\ valued' = [valued EXCEPT ![c] = IF wput[w] THEN c ELSE valued[Stored[wname[w]]]]
    /\ Goto(w, "reload")
    /\ UNCHANGED <<wname, wread, putVars, wire, told, url, fetchVars, listVars, rowVars, missed,
                   crossed, seenVars>>

\* The commit has expired the object: as_dict reads the row again.
Reload(w) ==
    /\ wpc[w] = "reload"
    /\ wread' = [wread EXCEPT ![w] = Stored[wname[w]]]
    /\ Goto(w, "publish")
    /\ UNCHANGED <<log, wname, valued, wcommit, putVars, wire, told, url, fetchVars, listVars,
                   rowVars, missed, crossed, seenVars>>

\* What w tells is not, or no longer, the content of its profile.
Outdated(w) == wread[w] # Stored[wname[w]]

\* The answer to a PUT comes after; the list waits for that to its own.
Publish(w) ==
    /\ wpc[w] = "publish"
    /\ LET a == wname[w] IN
          /\ wire' = Append(wire, [name |-> a, at |-> wread[w], error |-> FALSE])
          /\ missed' = IF Outdated(w) THEN missed ELSE missed \ {a}
          /\ crossed' = IF ~Outdated(w) THEN crossed \ {a}
                        ELSE crossed \union {b \in {a} : wread[w] < told[b]}
          /\ told' = [told EXCEPT ![a] = IF wread[w] < @ THEN @ ELSE wread[w]]
    /\ Goto(w, IF wown[w] # 0 THEN "answer" ELSE "over")
    /\ UNCHANGED <<log, wname, wread, valued, wcommit, putVars, url, fetchVars, listVars, rowVars,
                   seenVars>>

\* The site knows no such account, or does not answer.
Refuse(w) ==
    /\ Faults /\ wpc[w] = "asked" /\ ~wput[w]
    /\ wire' = Append(wire, [name |-> wname[w], at |-> 0, error |-> TRUE])
    /\ Goto(w, "over")
    /\ UNCHANGED <<log, wname, wread, valued, wcommit, putVars, told, url, fetchVars, listVars,
                   rowVars, missed, crossed, seenVars>>

\* The process dies, or the message does not reach the client; a PUT that fails
\* before its commit has nothing to tell.
Lose(w) ==
    /\ Faults /\ wpc[w] \in {"asked", "reload", "publish"}
    /\ missed' = missed \union {a \in {wname[w]} : wpc[w] # "asked" \/ ~wput[w]}
    /\ \/ Goto(w, "over")
       \/ wpc[w] = "publish" /\ wown[w] # 0 /\ Goto(w, "answer")
    /\ UNCHANGED <<log, wname, wread, valued, wcommit, putVars, wire, told, url, fetchVars, listVars,
                   rowVars, crossed, seenVars>>

-----------------------------------------------------------------------------
(* Fetching the list *)

\* Another URL: _fetchCurrentPage
Navigate(u) ==
    /\ u # url /\ asked < MaxAsked
    /\ url' = u
    /\ asked' = asked + 1 /\ pending' = pending \union {asked + 1}
    /\ wanted' = [wanted EXCEPT ![asked + 1] = u]
    /\ UNCHANGED <<serverVars, wire, told, aread, applied, listVars, rowVars, missed, crossed,
                   seenVars>>

Read(k) ==
    /\ k \in pending /\ aread[k] = 0
    /\ aread' = [aread EXCEPT ![k] = Len(log)]
    /\ UNCHANGED <<serverVars, wire, told, url, asked, pending, wanted, applied, listVars,
                   rowVars, missed, crossed, seenVars>>

Fetched(k) ==
    {[number |-> 0, name |-> a, known |-> TRUE, shown |-> log[aread[k]][a], error |-> FALSE] :
        a \in {b \in Listed[wanted[k]] : log[aread[k]][b] # 0}}

\* The answer replaces the list, whatever has been asked for since.
Answer(k) ==
    /\ k \in pending /\ aread[k] # 0
    /\ pending' = pending \ {k} /\ applied' = k
    /\ rows' = Fetched(k) /\ filtering' = (url \in Labelled)
    /\ undone' = {a \in Accounts : log[aread[k]][a] < heard[a]}
    /\ interest' = [a \in Accounts |-> valued[log[aread[k]][a]]]
    /\ hidden' = {} /\ removed' = {} /\ partial' = {} /\ setBack' = {}
    /\ UNCHANGED <<serverVars, wire, told, url, asked, wanted, aread, made, waiting, timers,
                   missed, crossed, heard, again>>

NoAnswer(k) ==
    /\ Faults /\ k \in pending
    /\ pending' = pending \ {k}
    /\ filtering' = (url \in Labelled)
    /\ UNCHANGED <<serverVars, wire, told, url, asked, wanted, aread, applied, rows, made,
                   waiting, timers, rowVars, missed, crossed, seenVars>>

-----------------------------------------------------------------------------
(* Adding a profile *)

NewRow(a) ==
    [number |-> made + 1, name |-> a, known |-> FALSE, shown |-> 0, error |-> FALSE]
ShownAs(a) == {r \in rows : r.known /\ r.name = a}

\* Mutant: the form takes the same request again and again.
SubmitAgain(w) ==
    /\ applied # 0
    /\ LET a == wname[w] IN
          /\ rows' = rows \union {NewRow(a)} /\ made' = made + 1
          /\ waiting' = [waiting EXCEPT ![a] = made + 1]
          /\ again' = again \union ({waiting[a]} \ {0})
                            \union {n \in {made + 1} : ShownAs(a) # {}}
    /\ Goto(w, "asked")
    /\ UNCHANGED <<log, wname, wread, valued, wcommit, putVars, wire, told, url, fetchVars, filtering,
                   timers, rowVars, missed, crossed, heard, undone, hidden, removed>>

\* Mutant: a row that waits for the name already keeps its place in the map.
SubmitKeep(w) ==
    /\ wpc[w] = "new" /\ applied # 0
    /\ LET a == wname[w] IN
          /\ rows' = rows \union {NewRow(a)} /\ made' = made + 1
          /\ waiting' = [waiting EXCEPT ![a] = IF @ = 0 THEN made + 1 ELSE @]
          /\ again' = again \union ({waiting[a]} \ {0})
                            \union {n \in {made + 1} : ShownAs(a) # {}}
    /\ Goto(w, "asked")
    /\ UNCHANGED <<log, wname, wread, valued, wcommit, putVars, wire, told, url, fetchVars, filtering,
                   timers, rowVars, missed, crossed, heard, undone, hidden, removed>>

\* addProfile; before the first answer there is no list, and this fails.
Submit(w) ==
    /\ wpc[w] = "new" /\ applied # 0
    /\ LET a == wname[w] IN
          /\ rows' = rows \union {NewRow(a)} /\ made' = made + 1
          /\ waiting' = [waiting EXCEPT ![a] = made + 1]
          /\ again' = again \union ({waiting[a]} \ {0})
                            \union {n \in {made + 1} : ShownAs(a) # {}}
    /\ Goto(w, "asked")
    /\ UNCHANGED <<log, wname, wread, valued, wcommit, putVars, wire, told, url, fetchVars, filtering,
                   timers, rowVars, missed, crossed, heard, undone, hidden, removed>>

\* dismissProfileAtIndex, offered for rows with an error
Dismiss(r) ==
    /\ r \in rows /\ r.error
    /\ rows' = rows \ {r} /\ removed' = removed \union {r.name}
    /\ UNCHANGED <<serverVars, wire, told, url, fetchVars, made, waiting, filtering, timers,
                   rowVars, missed, crossed, heard, undone, hidden, again>>

-----------------------------------------------------------------------------
(* The interest *)

\* setProfileInterestAtIndex, offered for rows with a profile: a PUT is sent.
Rate(w) ==
    /\ wpc[w] = "new"
    /\ \E r \in ShownAs(wname[w]) : wrow' = [wrow EXCEPT ![w] = r.number]
    /\ wput' = [wput EXCEPT ![w] = TRUE] /\ wown' = [wown EXCEPT ![w] = applied]
    /\ Goto(w, "asked")
    /\ UNCHANGED <<log, wname, wread, valued, wcommit, wire, told, url, fetchVars, listVars, rowVars,
                   missed, crossed, seenVars>>

\* The row that was clicked, if it is still in the list.
Clicked(w) == {r \in ShownAs(wname[w]) : applied = wown[w] /\ r.number = wrow[w]}

\* Its answer: the row shows what was asked for, whatever events have come since.
Rated(w) ==
    /\ wpc[w] = "answer"
    /\ LET a == wname[w]
           c == wcommit[w]
       IN  /\ interest' = IF Clicked(w) = {} THEN interest ELSE [interest EXCEPT ![a] = c]
           /\ setBack' = IF Clicked(w) = {} THEN setBack
                         ELSE (setBack \ {a})
                              \union {r.name : r \in {q \in Clicked(w) : /\ c <= q.shown
                                                                     /\ valued[q.shown] # c}}
    /\ Goto(w, "over")
    /\ UNCHANGED <<log, wname, wread, valued, wcommit, putVars, wire, told, url, fetchVars, listVars,
                   partial, missed, crossed, seenVars>>

\* The answer is lost; the list shows an error.
Unanswered(w) ==
    /\ Faults /\ wpc[w] = "answer"
    /\ Goto(w, "over")
    /\ UNCHANGED <<log, wname, wread, valued, wcommit, putVars, wire, told, url, fetchVars, listVars,
                   rowVars, missed, crossed, seenVars>>

-----------------------------------------------------------------------------
(* Events *)

Waiting(a) == {r \in rows : r.number = waiting[a] /\ waiting[a] # 0}

\* Of an event a row takes the description, the counts, the name of the account,
\* the interest and the score: shown tells whose these are.
Now(r, e) == [r EXCEPT !.known = TRUE, !.shown = e.at]

\* The rest (name, location, private) is from the answer: it is that of the
\* profile the list had then, and missing in rows with a number.
Uncopied(r) == IF r.number = 0 THEN log[aread[applied]][r.name] ELSE 0

\* Mutant: the row that waits for the name is looked for first.
WaitingFirst(e) == IF waiting[e.name] # 0 THEN Waiting(e.name) ELSE ShownAs(e.name)

\* The rows that an event is about: those that show the profile, else the one
\* that waits for its name.
About(e) == IF ShownAs(e.name) # {} THEN ShownAs(e.name) ELSE Waiting(e.name)

See(e) == heard' = [heard EXCEPT ![e.name] = IF e.at < @ THEN @ ELSE e.at]

\* Before the first answer there is no list, and the listener fails.
Ignore(e) ==
    /\ applied = 0
    /\ IF e.error THEN UNCHANGED heard ELSE See(e)
    /\ UNCHANGED <<listVars, rowVars, undone, hidden>>

\* An error is shown in a row that waits for the name; it goes on waiting.
ShowError(e) ==
    /\ applied # 0 /\ e.error
    /\ rows' = (rows \ Waiting(e.name)) \union {[r EXCEPT !.error = TRUE] : r \in Waiting(e.name)}
    /\ UNCHANGED <<made, waiting, filtering, timers, rowVars, heard, undone, hidden>>

\* The interest is one of the columns that a row takes.
Value(e) ==
    /\ interest' = [interest EXCEPT ![e.name] = valued[e.at]]
    /\ setBack' = setBack \ {e.name}

\* The profile is shown, or was added by this client.  The row that waits may
\* have gone with an earlier list.  What this client has added to a list that
\* is filtered will be removed again.
Fill(e) ==
    /\ applied # 0 /\ ~e.error /\ (ShownAs(e.name) # {} \/ waiting[e.name] # 0)
    /\ rows' = (rows \ About(e)) \union {Now(r, e) : r \in About(e)}
    /\ waiting' = [waiting EXCEPT ![e.name] = 0]
    /\ timers' = timers \union {n \in {waiting[e.name]} : ShownAs(e.name) = {} /\ filtering}
    /\ See(e) /\ undone' = (IF e.at < heard[e.name] THEN undone ELSE undone \ {e.name})
    /\ hidden' = hidden \union {a \in {e.name} : About(e) = {}}
    /\ Value(e) /\ partial' = partial \union {r.name : r \in {q \in About(e) : Uncopied(q) # e.at}}
    /\ UNCHANGED <<made, filtering>>

\* Any other profile gets a row, on whatever page and with whatever filters.
Insert(e) ==
    /\ applied # 0 /\ ~e.error /\ ShownAs(e.name) = {} /\ waiting[e.name] = 0
    /\ rows' = rows \union {Now(NewRow(e.name), e)} /\ made' = made + 1
    /\ See(e) /\ undone' = (IF e.at < heard[e.name] THEN undone ELSE undone \ {e.name})
    /\ hidden' = hidden \ {e.name}
    /\ Value(e) /\ partial' = partial \union {e.name}
    /\ UNCHANGED <<waiting, filtering, timers>>

\* _profileListener
Handle ==
    /\ wire # <<>> /\ wire' = Tail(wire)
    /\ LET e == Head(wire) IN Ignore(e) \/ ShowError(e) \/ Fill(e) \/ Insert(e)
    /\ UNCHANGED <<serverVars, told, url, fetchVars, missed, crossed, removed, again>>

\* Two seconds later
Timer(n) ==
    /\ n \in timers /\ timers' = timers \ {n}
    /\ rows' = {r \in rows : r.number # n}
    /\ removed' = removed \union {r.name : r \in rows \ rows'}
    /\ UNCHANGED <<serverVars, wire, told, url, fetchVars, made, waiting, filtering, rowVars,
                   missed, crossed, heard, undone, hidden, again>>

WriterStep(w) == Store(w) \/ Reload(w) \/ Publish(w)

Next ==
    \/ \E w \in Writers : \/ \E put \in BOOLEAN : OthersAsk(w, put)
                         \/ Submit(w) \/ Rate(w) \/ WriterStep(w) \/ Rated(w)
                         \/ Refuse(w) \/ Lose(w) \/ Unanswered(w)
    \/ \E u \in Urls : Navigate(u)
    \/ \E k \in Requests : Read(k) \/ Answer(k) \/ NoAnswer(k)
    \/ \E r \in rows : Dismiss(r)
    \/ \E n \in timers : Timer(n)
    \/ Handle

Spec == Init /\ [][Next]_vars
=============================================================================
