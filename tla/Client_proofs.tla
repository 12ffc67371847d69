---------------------------- MODULE Client_proofs ----------------------------
(***************************************************************************)
(* Proofs about pages of the client: the list of profiles, for any number  *)
(* of profiles, URLs, fetches, and jobs and requests that store profiles;  *)
(* and the page of background tasks, for any number of jobs, of events and *)
(* answers on their way, and any progress.                                 *)
(***************************************************************************)
EXTENDS ListProps, TasksProps, FiniteSetTheorems, TLAPS

USE DEF serverVars, putVars, fetchVars, listVars, rowVars, seenVars, vars, Goto

\* Writers begin; requests of the list come to their end.
Asks(w) == (\E put \in BOOLEAN : OthersAsk(w, put)) \/ Rate(w)
Ends(w) == Rated(w) \/ Unanswered(w)

(* The inductive invariant *)

\* Writers that have not yet done so ask, store or publish once each; made
\* counts those that added a profile and the events that inserted one.
Under(steps) == {w \in Writers : wpc[w] \in steps}
Busy == {"asked", "reload", "publish"}

Counted ==
    /\ Len(log) + Cardinality(Under({"new", "asked"})) <= Cardinality(Writers) + 1
    /\ made + Len(wire) + Cardinality(Under({"new"})) + Cardinality(Under({"new"} \union Busy))
          <= 2 * Cardinality(Writers)

\* The content of a profile only grows from commit to commit; it is 1 at most
\* until it is written.
Logged ==
    /\ \A i \in DOMAIN log : \A a \in Accounts : log[i][a] <= i
    /\ \A i, k \in DOMAIN log : \A a \in Accounts : i <= k => log[i][a] <= log[k][a]
    /\ \A i \in DOMAIN log : \A a \in Accounts : Stored[a] <= 1 => log[i][a] = Stored[a]

\* What is read, published and shown has been stored; what is published has
\* been written.
Known ==
    /\ \A w \in Writers :
          /\ wpc[w] = "reload" => Stored[wname[w]] > 1
          /\ wpc[w] = "publish" => wread[w] > 1 /\ wread[w] <= Stored[wname[w]]
    /\ \A i \in DOMAIN wire : ~wire[i].error => wire[i].at > 1 /\ wire[i].at <= told[wire[i].name]
    /\ \A a \in Accounts : heard[a] <= told[a] /\ told[a] <= Stored[a]
    /\ \A r \in rows : r.known => r.shown # 0 /\ r.shown <= Stored[r.name]

\* The values of the interest: those of commits that were made.  What a row
\* shows is the value in its content, unless it has a newer one from the
\* answer to the list's own request, or such an answer came late.
Valued ==
    /\ \A c \in Commits : valued[c] <= c
    /\ \A w \in Writers : wcommit[w] <= Stored[wname[w]]
    /\ \A r \in rows : r.known =>
          /\ interest[r.name] <= Stored[r.name]
          /\ r.name \in setBack \/ interest[r.name] = valued[r.shown] \/ r.shown < interest[r.name]

\* A writer that has not begun has no PUT.
Unasked == \A w \in Writers : wpc[w] = "new" => ~wput[w]

\* A row that no event has changed is all from one content.
Whole == \A r \in rows : r.known => r.name \in partial \/ Uncopied(r) = r.shown

\* Requests for the list.
Fetching ==
    /\ wanted[asked] = url /\ pending \subseteq 1 .. asked /\ applied <= asked
    /\ \A k \in Requests : aread[k] <= Len(log)
    /\ applied # 0 => aread[applied] # 0
    /\ applied = 0 => rows = {}

\* Rows with a number, and rows that wait for a name.
Numbered ==
    /\ \A r \in rows : r.number <= made /\ (r.known \/ r.number # 0)
    /\ \A r, q \in rows : r.number # 0 /\ r.number = q.number => r = q
    /\ \A a \in Accounts : waiting[a] <= made
    /\ \A r \in rows, a \in Accounts :
          r.number # 0 /\ waiting[a] = r.number => r.name = a /\ ~r.known
    /\ \A r \in rows : ~r.known => waiting[r.name] = r.number \/ r.number \in again
    /\ \A r, q \in rows : r.known /\ ~q.known /\ r.name = q.name => q.number \in again

\* A profile has one row.
OneRow == \A r, q \in rows : r.known /\ q.known /\ r.name = q.name => r = q

\* The events of a profile that are on their way, and those with a content.
Sent(a) == {i \in DOMAIN wire : wire[i].name = a}
News(a) == {i \in Sent(a) : ~wire[i].error}

\* A content that has been written has been published, or is about to be.
Published(a) ==
    \/ a \in missed \/ Stored[a] <= 1 \/ told[a] = Stored[a]
    \/ \E w \in Writers :
          /\ wname[w] = a
          /\ wpc[w] = "reload" \/ (wpc[w] = "publish" /\ wread[w] = Stored[a])

\* The last event tells the newest content published; when it has arrived, the
\* client has it and shows it.
Arrives(a) ==
    a \in crossed \/
    /\ \A i \in News(a) : (\A k \in News(a) : k <= i) => wire[i].at = told[a]
    /\ News(a) = {} =>
          /\ heard[a] = told[a]
          /\ a \notin undone => \A r \in ShownAs(a) : heard[a] <= r.shown

\* A profile that the list should have and has not was not there when the list
\* was fetched, and has not been heard of since.
Unshown(a) ==
    applied # 0 /\ a \in Listed[wanted[applied]] \ (hidden \union removed) /\ ShownAs(a) = {} =>
       log[aread[applied]][a] = 0 /\ (heard[a] = 0 \/ a \in undone)

\* A row that waits will hear of its profile.
Expects(a) ==
    (\E r \in rows : r.name = a /\ ~r.known /\ ~r.error /\ r.number \notin again) =>
       a \in missed \/ Sent(a) # {} \/ \E w \in Under(Busy) : wname[w] = a /\ ~wput[w]

Links == \A a \in Accounts : Published(a) /\ Arrives(a) /\ Unshown(a) /\ Expects(a)

ListInv ==
    /\ TypeOK /\ Counted /\ Logged /\ Known /\ Fetching /\ Numbered /\ OneRow /\ Links
    /\ Unasked /\ Valued /\ Whole

-----------------------------------------------------------------------------
(* Types and bounds *)

\* The number of writers, for the provers.
LEMMA Finite ==
    /\ Cardinality(Writers) \in Nat
    /\ \A S : /\ Under(S) \in SUBSET Writers /\ IsFiniteSet(Under(S))
              /\ Cardinality(Under(S)) \in Nat
              /\ Cardinality(Under(S)) <= Cardinality(Writers)
              /\ \A w \in Under(S) : Cardinality(Under(S)) > 0
<1> SUFFICES ASSUME NEW S
             PROVE  /\ Cardinality(Writers) \in Nat
                    /\ Under(S) \in SUBSET Writers /\ IsFiniteSet(Under(S))
                    /\ Cardinality(Under(S)) \in Nat
                    /\ Cardinality(Under(S)) <= Cardinality(Writers)
                    /\ \A w \in Under(S) : Cardinality(Under(S)) > 0
  OBVIOUS
<1>1. IsFiniteSet(Writers) /\ Under(S) \in SUBSET Writers
  BY ListAssumption DEF Under
<1>2. IsFiniteSet(Under(S)) /\ Cardinality(Under(S)) <= Cardinality(Writers)
  BY <1>1, FS_Subset
<1>3. Cardinality(Writers) \in Nat /\ Cardinality(Under(S)) \in Nat
  BY <1>1, <1>2, FS_CardinalityType
<1>4. ASSUME NEW w \in Under(S) PROVE Cardinality(Under(S)) > 0
  <2>1. Cardinality(Under(S)) # 0
    BY <1>2, <1>4, FS_EmptySet
  <2> QED
    BY <1>3, <2>1
<1> QED
  BY <1>1, <1>2, <1>3, <1>4

\* A writer that leaves some steps is one less there.
LEMMA Leaves ==
    ASSUME TypeOK, NEW w \in Writers, NEW step \in {"new", "asked", "reload", "publish", "answer", "over"},
           wpc' = [wpc EXCEPT ![w] = step], NEW S
    PROVE  /\ wpc[w] \in S /\ step \notin S =>
                 Cardinality(Under(S)') = Cardinality(Under(S)) - 1
           /\ (wpc[w] \in S <=> step \in S) => Cardinality(Under(S)') = Cardinality(Under(S))
<1>1. wpc'[w] = step /\ \A v \in Writers : v # w => wpc'[v] = wpc[v]
  BY DEF TypeOK
<1>2. CASE wpc[w] \in S /\ step \notin S
  <2>1. Under(S)' = Under(S) \ {w} /\ w \in Under(S)
    BY <1>1, <1>2 DEF Under
  <2> QED
    BY <1>2, <2>1, Finite, FS_RemoveElement
<1>3. CASE wpc[w] \in S <=> step \in S
  <2>1. Under(S)' = Under(S)
    BY <1>1, <1>3 DEF Under
  <2> QED
    BY <1>3, <2>1
<1> QED
  BY <1>2, <1>3

\* Appending to and taking from the sequences.
LEMMA Queues ==
    ASSUME NEW S, NEW q \in Seq(S)
    PROVE  /\ Len(q) \in Nat /\ DOMAIN q = 1 .. Len(q) /\ \A i \in DOMAIN q : q[i] \in S
           /\ \A e \in S :
                 /\ Append(q, e) \in Seq(S) /\ Len(Append(q, e)) = Len(q) + 1
                 /\ Append(q, e)[Len(q) + 1] = e
                 /\ \A i \in DOMAIN q : Append(q, e)[i] = q[i]
           /\ q # <<>> =>
                 /\ Tail(q) \in Seq(S) /\ Len(Tail(q)) = Len(q) - 1 /\ Len(q) > 0
                 /\ Head(q) = q[1] /\ Head(q) \in S
                 /\ \A i \in DOMAIN Tail(q) : Tail(q)[i] = q[i + 1]
OBVIOUS

TypeInv == TypeOK /\ Counted

\* The latest content of the table.
LEMMA StoredType == TypeOK => Len(log) \in DOMAIN log /\ Stored \in Tables
BY Queues DEF TypeOK, Stored, Commits

\* What is known of the numbers in TypeOK, for the provers.
LEMMA Sizes ==
    ASSUME TypeOK
    PROVE  /\ Cardinality(Writers) \in Nat /\ Commits = 0 .. Cardinality(Writers) + 1
           /\ Numbers = 0 .. 2 * Cardinality(Writers)
           /\ 0 \in Commits /\ 0 \in Numbers /\ Commits \subseteq Nat /\ Numbers \subseteq Nat
           /\ Len(log) \in Nat /\ Len(wire) \in Nat /\ made \in Nat
           /\ wire # <<>> => Len(wire) > 0
<1>1. Cardinality(Writers) \in Nat
  BY Finite
<1> QED
  BY <1>1, Queues DEF TypeOK, Commits, Numbers

LEMMA Bounds ==
    ASSUME TypeInv
    PROVE  /\ \A w \in Writers : wpc[w] = "new" =>
                 made + Len(wire) + 2 <= 2 * Cardinality(Writers)
           /\ \A w \in Writers : wpc[w] \in {"new", "asked"} => Len(log) <= Cardinality(Writers)
           /\ wire # <<>> => made + 1 <= 2 * Cardinality(Writers)
<1>1. /\ Cardinality(Writers) \in Nat /\ Len(log) \in Nat /\ Len(wire) \in Nat /\ made \in Nat
      /\ wire # <<>> => Len(wire) > 0
  BY Sizes DEF TypeInv
<1>2. /\ Cardinality(Under({"new"})) \in Nat
      /\ Cardinality(Under({"new", "asked"})) \in Nat
      /\ Cardinality(Under({"new"} \union Busy)) \in Nat
  BY Finite
<1>3. /\ Len(log) + Cardinality(Under({"new", "asked"})) <= Cardinality(Writers) + 1
      /\ made + Len(wire) + Cardinality(Under({"new"})) + Cardinality(Under({"new"} \union Busy))
            <= 2 * Cardinality(Writers)
  BY DEF TypeInv, Counted
<1>4. ASSUME NEW w \in Writers, wpc[w] = "new"
      PROVE  Cardinality(Under({"new"})) > 0 /\ Cardinality(Under({"new"} \union Busy)) > 0
  <2>1. w \in Under({"new"}) /\ w \in Under({"new"} \union Busy)
    BY <1>4 DEF Under
  <2> QED
    BY <2>1, Finite
<1>5. ASSUME NEW w \in Writers, wpc[w] \in {"new", "asked"}
      PROVE  Cardinality(Under({"new", "asked"})) > 0
  <2>1. w \in Under({"new", "asked"})
    BY <1>5 DEF Under
  <2> QED
    BY <2>1, Finite
<1>6. ASSUME NEW w \in Writers, wpc[w] = "new"
      PROVE  made + Len(wire) + 2 <= 2 * Cardinality(Writers)
  <2>1. Cardinality(Under({"new"})) > 0 /\ Cardinality(Under({"new"} \union Busy)) > 0
    BY <1>4, <1>6
  <2> QED
    BY <1>1, <1>2, <1>3, <2>1
<1>7. ASSUME NEW w \in Writers, wpc[w] \in {"new", "asked"}
      PROVE  Len(log) <= Cardinality(Writers)
  BY <1>1, <1>2, <1>3, <1>5, <1>7
<1>8. ASSUME wire # <<>> PROVE made + 1 <= 2 * Cardinality(Writers)
  BY <1>1, <1>2, <1>3, <1>8
<1> QED
  BY <1>6, <1>7, <1>8

LEMMA SameUnder == ASSUME UNCHANGED wpc, NEW S PROVE Under(S)' = Under(S)
BY DEF Under

\* Steps of the writers that move nothing.
LEMMA AskedStep ==
    ASSUME NEW w \in Writers, Asks(w)
    PROVE  /\ wpc[w] = "new" /\ wpc' = [wpc EXCEPT ![w] = "asked"]
           /\ UNCHANGED <<log, wname, wread, valued, wcommit, wire, told, url, fetchVars, listVars,
                          rowVars, missed, crossed, seenVars>>
BY DEF Asks, OthersAsk, Rate

LEMMA EndedStep ==
    ASSUME NEW w \in Writers, Ends(w)
    PROVE  /\ wpc[w] = "answer" /\ wpc' = [wpc EXCEPT ![w] = "over"]
           /\ UNCHANGED <<log, wname, wread, valued, wcommit, wire, told, url, fetchVars, listVars,
                          partial, missed, crossed, seenVars>>
BY DEF Ends, Rated, Unanswered

LEMMA AsksTypes ==
    ASSUME TypeInv, NEW w \in Writers, Asks(w) PROVE TypeInv'
<1>0. /\ wpc[w] = "new" /\ wpc' = [wpc EXCEPT ![w] = "asked"]
      /\ UNCHANGED <<log, wname, wread, valued, wcommit, wire, told, url, fetchVars, listVars,
                     rowVars, missed, crossed, seenVars>>
  BY AskedStep
<1>1. TypeOK'
  <2>1. /\ wput' \in [Writers -> BOOLEAN] /\ wown' \in [Writers -> Requests \union {0}]
        /\ wrow' \in [Writers -> Numbers]
    BY DEF Asks, OthersAsk, Rate, TypeInv, TypeOK, ShownAs, Row
  <2> QED
    BY <1>0, <2>1 DEF TypeInv, TypeOK, Requests, Row
<1>2. /\ Cardinality(Under({"new", "asked"})') = Cardinality(Under({"new", "asked"}))
      /\ Cardinality(Under({"new"})') = Cardinality(Under({"new"})) - 1
      /\ Cardinality(Under({"new"} \union Busy)') = Cardinality(Under({"new"} \union Busy))
  BY <1>0, Leaves DEF TypeInv, Busy
<1>3. Counted'
  BY <1>0, <1>2, Sizes, Finite DEF TypeInv, Counted
<1> QED
  BY <1>1, <1>3 DEF TypeInv

LEMMA EndsTypes ==
    ASSUME TypeInv, NEW w \in Writers, Ends(w) PROVE TypeInv'
<1>0. /\ wpc[w] = "answer" /\ wpc' = [wpc EXCEPT ![w] = "over"]
      /\ UNCHANGED <<log, wname, wread, valued, wcommit, wire, told, url, fetchVars, listVars,
                     partial, missed, crossed, seenVars>>
  BY EndedStep
<1>1. TypeOK'
  <2>1. wname[w] \in Accounts /\ wcommit[w] \in Commits /\ interest \in Tables
        /\ rows \subseteq Row
    BY DEF TypeInv, TypeOK
  <2>2. interest' \in Tables
    BY <2>1 DEF Ends, Rated, Unanswered, Tables
  <2>3. setBack' \subseteq Accounts
    BY <2>1 DEF Ends, Rated, Unanswered, TypeInv, TypeOK, Clicked, ShownAs, Row
  <2>4. UNCHANGED putVars
    BY DEF Ends, Rated, Unanswered
  <2> QED
    BY <1>0, <2>2, <2>3, <2>4 DEF TypeInv, TypeOK, Requests, Row
<1>2. /\ Cardinality(Under({"new", "asked"})') = Cardinality(Under({"new", "asked"}))
      /\ Cardinality(Under({"new"})') = Cardinality(Under({"new"}))
      /\ Cardinality(Under({"new"} \union Busy)') = Cardinality(Under({"new"} \union Busy))
  BY <1>0, Leaves DEF TypeInv, Busy
<1>3. Counted'
  BY <1>0, <1>2 DEF TypeInv, Counted
<1> QED
  BY <1>1, <1>3 DEF TypeInv

LEMMA StoreTypes ==
    ASSUME TypeInv, NEW w \in Writers, Store(w) PROVE TypeInv'
<1> USE DEF Store
<1>0. Len(log) <= Cardinality(Writers)
  BY Bounds
<1>1. /\ Stored \in Tables /\ Len(log) + 1 \in Commits \ {0}
      /\ [Stored EXCEPT ![wname[w]] = Len(log) + 1] \in Tables
  <2>1. Len(log) + 1 \in Commits \ {0}
    BY <1>0, Sizes DEF TypeInv
  <2>2. Stored \in Tables
    BY StoredType DEF TypeInv
  <2> QED
    BY <2>1, <2>2 DEF Tables
<1>2. log' \in Seq(Tables) /\ Len(log') = Len(log) + 1
  BY <1>1, Queues DEF TypeInv, TypeOK
<1>3. (log \in Seq(Tables) /\ Len(log) \in Commits \ {0})'
  BY <1>1, <1>2 DEF TypeInv, TypeOK, Tables
<1>4. TypeOK'
  <2>1. wname[w] \in Accounts /\ valued \in [Commits -> Commits] /\ wcommit \in [Writers -> Commits]
    BY DEF TypeInv, TypeOK
  <2>2. Len(log) + 1 \in Commits /\ Stored[wname[w]] \in Commits
    BY <1>1, <2>1 DEF Tables
  <2>3. valued' \in [Commits -> Commits] /\ wcommit' \in [Writers -> Commits]
    BY <2>1, <2>2
  <2> QED
    BY <1>3, <2>3 DEF TypeInv, TypeOK, Commits, Tables, Requests, Row
<1>5. /\ Cardinality(Under({"new", "asked"})') = Cardinality(Under({"new", "asked"})) - 1
      /\ Cardinality(Under({"new"})') = Cardinality(Under({"new"}))
      /\ Cardinality(Under({"new"} \union Busy)') = Cardinality(Under({"new"} \union Busy))
  BY Leaves DEF TypeInv, Busy
<1>6. Counted'
  BY <1>2, <1>5, Sizes, Finite DEF TypeInv, Counted
<1> QED
  BY <1>4, <1>6 DEF TypeInv

LEMMA ReloadTypes ==
    ASSUME TypeInv, NEW w \in Writers, Reload(w) PROVE TypeInv'
<1> USE DEF Reload
<1>1. wread' \in [Writers -> Commits]
  BY StoredType DEF TypeInv, TypeOK, Tables
<1>2. TypeOK'
  BY <1>1 DEF TypeInv, TypeOK, Requests, Row
<1>3. /\ Cardinality(Under({"new", "asked"})') = Cardinality(Under({"new", "asked"}))
      /\ Cardinality(Under({"new"})') = Cardinality(Under({"new"}))
      /\ Cardinality(Under({"new"} \union Busy)') = Cardinality(Under({"new"} \union Busy))
  BY Leaves DEF TypeInv, Busy
<1>4. Counted'
  BY <1>3 DEF TypeInv, Counted
<1> QED
  BY <1>2, <1>4 DEF TypeInv

LEMMA PublishTypes ==
    ASSUME TypeInv, NEW w \in Writers, Publish(w) PROVE TypeInv'
<1> USE DEF Publish
<1>0. wname[w] \in Accounts /\ wread[w] \in Commits
  BY DEF TypeInv, TypeOK
<1>1. /\ wire' \in Seq([name : Accounts, at : Commits, error : BOOLEAN])
      /\ Len(wire') = Len(wire) + 1
  BY <1>0, Queues DEF TypeInv, TypeOK
<1>2. told' \in Tables
  BY <1>0 DEF TypeInv, TypeOK, Tables
<1>3. missed' \subseteq Accounts /\ crossed' \subseteq Accounts
  BY <1>0 DEF TypeInv, TypeOK
<1>7. PICK step \in {"answer", "over"} : wpc' = [wpc EXCEPT ![w] = step]
  OBVIOUS
<1>4. TypeOK'
  BY <1>1, <1>2, <1>3, <1>7 DEF TypeInv, TypeOK, Requests, Row
<1>5. /\ Cardinality(Under({"new", "asked"})') = Cardinality(Under({"new", "asked"}))
      /\ Cardinality(Under({"new"})') = Cardinality(Under({"new"}))
      /\ Cardinality(Under({"new"} \union Busy)') = Cardinality(Under({"new"} \union Busy)) - 1
  BY <1>7, Leaves DEF TypeInv, Busy
<1>6. Counted'
  BY <1>1, <1>5, Sizes, Finite DEF TypeInv, Counted
<1> QED
  BY <1>4, <1>6 DEF TypeInv

LEMMA RefuseTypes ==
    ASSUME TypeInv, NEW w \in Writers, Refuse(w) PROVE TypeInv'
<1> USE DEF Refuse
<1>0. wname[w] \in Accounts /\ 0 \in Commits
  BY Sizes DEF TypeInv, TypeOK
<1>1. /\ wire' \in Seq([name : Accounts, at : Commits, error : BOOLEAN])
      /\ Len(wire') = Len(wire) + 1
  BY <1>0, Queues DEF TypeInv, TypeOK
<1>4. TypeOK'
  BY <1>1 DEF TypeInv, TypeOK, Requests, Row
<1>5. /\ Cardinality(Under({"new", "asked"})') = Cardinality(Under({"new", "asked"})) - 1
      /\ Cardinality(Under({"new"})') = Cardinality(Under({"new"}))
      /\ Cardinality(Under({"new"} \union Busy)') = Cardinality(Under({"new"} \union Busy)) - 1
  BY Leaves DEF TypeInv, Busy
<1>6. Counted'
  <2>1. /\ Cardinality(Under({"new", "asked"})) \in Nat /\ Cardinality(Under({"new"})) \in Nat
        /\ Cardinality(Under({"new"} \union Busy)) \in Nat /\ Cardinality(Writers) \in Nat
    BY Finite
  <2>2. Len(log) \in Nat /\ Len(wire) \in Nat /\ made \in Nat
    BY Sizes DEF TypeInv
  <2>3. UNCHANGED <<log, made>>
    OBVIOUS
  <2> QED
    BY <1>1, <1>5, <2>1, <2>2, <2>3 DEF TypeInv, Counted
<1> QED
  BY <1>4, <1>6 DEF TypeInv

LEMMA LoseTypes ==
    ASSUME TypeInv, NEW w \in Writers, Lose(w) PROVE TypeInv'
<1> USE DEF Lose
<1>0. PICK step \in {"answer", "over"} : wpc' = [wpc EXCEPT ![w] = step]
  OBVIOUS
<1>1. TypeOK'
  <2>1. missed' \subseteq Accounts
    BY DEF TypeInv, TypeOK
  <2> QED
    BY <1>0, <2>1 DEF TypeInv, TypeOK, Requests, Row
<1>2. /\ Cardinality(Under({"new"})') = Cardinality(Under({"new"}))
      /\ Cardinality(Under({"new"} \union Busy)') = Cardinality(Under({"new"} \union Busy)) - 1
  BY <1>0, Leaves DEF TypeInv, Busy
<1>3. \/ Cardinality(Under({"new", "asked"})') = Cardinality(Under({"new", "asked"}))
      \/ Cardinality(Under({"new", "asked"})') = Cardinality(Under({"new", "asked"})) - 1
  BY <1>0, Leaves DEF TypeInv
<1>4. Counted'
  BY <1>2, <1>3, Sizes, Finite DEF TypeInv, Counted
<1> QED
  BY <1>1, <1>4 DEF TypeInv

LEMMA SubmitTypes ==
    ASSUME TypeInv, NEW w \in Writers, Submit(w) PROVE TypeInv'
<1> USE DEF Submit
<1>0. wname[w] \in Accounts /\ 0 \in Commits /\ made + 1 \in Numbers
  <2>1. made + Len(wire) + 2 <= 2 * Cardinality(Writers)
    BY Bounds
  <2>2. made + 1 \in Numbers
    BY <2>1, Sizes DEF TypeInv
  <2> QED
    BY <2>2, Sizes DEF TypeInv, TypeOK
<1>1. NewRow(wname[w]) \in Row
  BY <1>0 DEF NewRow, Row
<1>2. rows' \subseteq Row
  BY <1>1 DEF TypeInv, TypeOK
<1>3. waiting' \in [Accounts -> Numbers] /\ made' \in Numbers
  BY <1>0 DEF TypeInv, TypeOK
<1>4. waiting[wname[w]] \in Numbers /\ again' \subseteq Numbers
  BY <1>0 DEF TypeInv, TypeOK
<1>5. TypeOK'
  BY <1>2, <1>3, <1>4 DEF TypeInv, TypeOK, Requests, Row
<1>6. /\ Cardinality(Under({"new", "asked"})') = Cardinality(Under({"new", "asked"}))
      /\ Cardinality(Under({"new"})') = Cardinality(Under({"new"})) - 1
      /\ Cardinality(Under({"new"} \union Busy)') = Cardinality(Under({"new"} \union Busy))
  BY Leaves DEF TypeInv, Busy
<1>7. Counted'
  BY <1>6, Sizes, Finite DEF TypeInv, Counted
<1> QED
  BY <1>5, <1>7 DEF TypeInv

\* A request that was answered has read a table that was stored.
LEMMA ReadTable ==
    ASSUME TypeInv, Fetching, NEW k \in Requests, aread[k] # 0
    PROVE  aread[k] \in DOMAIN log /\ aread[k] <= Len(log) /\ Len(log) \in DOMAIN log
<1>1. aread[k] \in Commits /\ aread[k] <= Len(log)
  BY DEF TypeInv, TypeOK, Fetching
<1>2. Commits \subseteq Nat /\ Len(log) \in Nat
  BY Sizes DEF TypeInv
<1>3. DOMAIN log = 1 .. Len(log)
  BY Queues DEF TypeInv, TypeOK
<1>4. aread[k] \in Nat \ {0}
  BY <1>1, <1>2
<1> QED
  BY <1>1, <1>2, <1>3, <1>4

LEMMA FetchStepTypes ==
    ASSUME TypeInv, Fetching,
           \/ \E u \in Urls : Navigate(u)
           \/ \E k \in Requests : Read(k) \/ Answer(k) \/ NoAnswer(k)
    PROVE  TypeInv'
<1>1. ASSUME NEW u \in Urls, Navigate(u) PROVE TypeOK' /\ UNCHANGED <<made, log, wire, wpc>>
  <2>1. asked + 1 \in Requests
    BY <1>1, ListAssumption DEF Navigate, TypeInv, TypeOK, Requests
  <2> QED
    BY <1>1, <2>1 DEF Navigate, TypeInv, TypeOK, Row
<1>2. ASSUME NEW k \in Requests, Read(k) PROVE TypeOK' /\ UNCHANGED <<made, log, wire, wpc>>
  BY <1>2 DEF Read, TypeInv, TypeOK, Row
<1>3. ASSUME NEW k \in Requests, Answer(k) PROVE TypeOK' /\ UNCHANGED <<made, log, wire, wpc>>
  <2>1. aread[k] \in DOMAIN log
    BY <1>3, ReadTable DEF Answer
  <2>2. log[aread[k]] \in Tables /\ Listed[wanted[k]] \subseteq Accounts
    BY <2>1, Queues, ListAssumption DEF TypeInv, TypeOK
  <2>3. Fetched(k) \subseteq Row
    <3>1. \A a \in Listed[wanted[k]] : a \in Accounts /\ log[aread[k]][a] \in Commits
      BY <2>2 DEF Tables
    <3>2. 0 \in Numbers
      BY Sizes DEF TypeInv
    <3>3. ASSUME NEW r \in Fetched(k) PROVE r \in Row
      <4>1. PICK a \in Listed[wanted[k]] :
               r = [number |-> 0, name |-> a, known |-> TRUE, shown |-> log[aread[k]][a],
                    error |-> FALSE]
        BY <3>3 DEF Fetched
      <4> QED
        BY <3>1, <3>2, <4>1 DEF Row
    <3> QED
      BY <3>3
  <2>4. interest' \in Tables
    BY <1>3, <2>2 DEF Answer, TypeInv, TypeOK, Tables
  <2> QED
    BY <1>3, <2>3, <2>4 DEF Answer, TypeInv, TypeOK, Row
<1>4. ASSUME NEW k \in Requests, NoAnswer(k) PROVE TypeOK' /\ UNCHANGED <<made, log, wire, wpc>>
  BY <1>4 DEF NoAnswer, TypeInv, TypeOK, Row
<1>5. TypeOK' /\ UNCHANGED <<made, log, wire, wpc>>
  BY <1>1, <1>2, <1>3, <1>4
<1> QED
  BY <1>5 DEF TypeInv, Counted, Under

LEMMA RemoveTypes ==
    ASSUME TypeInv, (\E r \in rows : Dismiss(r)) \/ \E n \in timers : Timer(n)
    PROVE  TypeInv'
<1>1. ASSUME NEW r \in rows, Dismiss(r) PROVE TypeOK' /\ UNCHANGED <<made, log, wire, wpc>>
  <2>1. removed' \subseteq Accounts /\ rows' \subseteq Row
    BY <1>1 DEF Dismiss, TypeInv, TypeOK, Row
  <2> QED
    BY <1>1, <2>1 DEF Dismiss, TypeInv, TypeOK, Row, Requests
<1>2. ASSUME NEW n \in timers, Timer(n) PROVE TypeOK' /\ UNCHANGED <<made, log, wire, wpc>>
  <2>1. removed' \subseteq Accounts /\ rows' \subseteq Row
    BY <1>2 DEF Timer, TypeInv, TypeOK, Row
  <2> QED
    BY <1>2, <2>1 DEF Timer, TypeInv, TypeOK, Row, Requests
<1>3. TypeOK' /\ UNCHANGED <<made, log, wire, wpc>>
  BY <1>1, <1>2
<1> QED
  BY <1>3 DEF TypeInv, Counted, Under

LEMMA HandleTypes ==
    ASSUME TypeInv, Handle PROVE TypeInv'
<1> DEFINE e == Head(wire)
<1> USE DEF Handle
<1>0. /\ e \in [name : Accounts, at : Commits, error : BOOLEAN]
      /\ wire' \in Seq([name : Accounts, at : Commits, error : BOOLEAN])
      /\ Len(wire') = Len(wire) - 1
  <2>1. wire # <<>> /\ wire \in Seq([name : Accounts, at : Commits, error : BOOLEAN])
    BY DEF TypeInv, TypeOK
  <2>2. wire' = Tail(wire)
    OBVIOUS
  <2> HIDE DEF Handle
  <2> QED
    BY <2>1, <2>2, Queues
<1>1. e.name \in Accounts /\ e.at \in Commits /\ e.error \in BOOLEAN
  BY <1>0
<1>2. /\ rows \subseteq Row /\ made \in Nat /\ made + 1 \in Numbers /\ waiting[e.name] \in Numbers
      /\ waiting \in [Accounts -> Numbers] /\ timers \subseteq Numbers /\ heard \in Tables
      /\ undone \subseteq Accounts /\ hidden \subseteq Accounts /\ 0 \in Numbers
      /\ filtering \in BOOLEAN /\ made \in Numbers
      /\ interest \in Tables /\ partial \subseteq Accounts /\ setBack \subseteq Accounts
      /\ valued[e.at] \in Commits
  <2>1. made + 1 <= 2 * Cardinality(Writers) /\ made \in Nat /\ 0 \in Numbers
    BY Sizes, Bounds DEF TypeInv
  <2>2. made + 1 \in Numbers
    BY <2>1, Sizes DEF TypeInv
  <2> HIDE DEF Handle
  <2> QED
    BY <1>1, <2>1, <2>2 DEF TypeInv, TypeOK
<1>3. /\ See(e) => heard' \in Tables
      /\ Value(e) => interest' \in Tables /\ setBack' \subseteq Accounts
  BY <1>1, <1>2 DEF See, Value, Tables
<1> DEFINE Good ==
       /\ rows' \subseteq Row /\ made' \in Numbers /\ waiting' \in [Accounts -> Numbers]
       /\ filtering' \in BOOLEAN /\ timers' \subseteq Numbers /\ heard' \in Tables
       /\ undone' \subseteq Accounts /\ hidden' \subseteq Accounts
       /\ made' = made \/ made' = made + 1
       /\ interest' \in Tables /\ partial' \subseteq Accounts /\ setBack' \subseteq Accounts
<1>4. ASSUME Ignore(e) PROVE Good
  BY <1>2, <1>3, <1>4 DEF Ignore
<1>5. ASSUME ShowError(e) PROVE Good
  <2>1. Waiting(e.name) \subseteq rows
    BY DEF Waiting
  <2>2. \A r \in Waiting(e.name) : [r EXCEPT !.error = TRUE] \in Row
    BY <1>2, <2>1 DEF Row
  <2> QED
    BY <1>2, <1>5, <2>2 DEF ShowError
<1>6. ASSUME Fill(e) PROVE Good
  <2>1. About(e) \subseteq rows
    BY DEF About, Waiting, ShownAs
  <2>2. \A r \in About(e) : Now(r, e) \in Row
    BY <1>1, <1>2, <2>1 DEF Row, Now
  <2>3. rows' \subseteq Row
    BY <1>2, <1>6, <2>2 DEF Fill
  <2>4. partial' \subseteq Accounts
    BY <1>2, <1>6, <2>1 DEF Fill, Row
  <2> QED
    BY <1>1, <1>2, <1>3, <1>6, <2>3, <2>4 DEF Fill
<1>7. ASSUME Insert(e) PROVE Good
  <2>1. Now(NewRow(e.name), e) \in Row
    BY <1>1, <1>2 DEF Row, Now, NewRow
  <2> QED
    BY <1>1, <1>2, <1>3, <1>7, <2>1 DEF Insert
<1>8. Good
  BY <1>4, <1>5, <1>6, <1>7
<1>9. TypeOK'
  BY <1>0, <1>8 DEF TypeInv, TypeOK, Requests, Row
<1>10. Counted'
  <2>1. Under({"new", "asked"})' = Under({"new", "asked"})
    BY SameUnder
  <2>2. Under({"new"})' = Under({"new"})
    BY SameUnder
  <2>3. Under({"new"} \union Busy)' = Under({"new"} \union Busy)
    BY SameUnder
  <2> QED
    <3>1. /\ Cardinality(Under({"new", "asked"})) \in Nat /\ Cardinality(Under({"new"})) \in Nat
          /\ Cardinality(Under({"new"} \union Busy)) \in Nat /\ Cardinality(Writers) \in Nat
      BY Finite
    <3>2. Len(log) \in Nat /\ Len(wire) \in Nat /\ made \in Nat
      BY Sizes DEF TypeInv
    <3>3. UNCHANGED log
      OBVIOUS
    <3> HIDE DEF Handle, Good
    <3>4. made' = made \/ made' = made + 1
      BY <1>8 DEF Good
    <3> QED
      BY <1>0, <2>1, <2>2, <2>3, <3>1, <3>2, <3>3, <3>4 DEF TypeInv, Counted
<1> QED
  BY <1>9, <1>10 DEF TypeInv

LEMMA TypeStep == ASSUME TypeInv, Fetching, [Next]_vars PROVE TypeInv'
<1>1. CASE UNCHANGED vars
  BY <1>1 DEF TypeInv, TypeOK, Counted, Under, Requests, Row
<1>2. CASE Next
  BY <1>2, AsksTypes, EndsTypes, StoreTypes, ReloadTypes, PublishTypes, RefuseTypes, LoseTypes,
     SubmitTypes, FetchStepTypes, RemoveTypes, HandleTypes DEF Next, WriterStep, Asks, Ends
<1> QED
  BY <1>1, <1>2

-----------------------------------------------------------------------------
(* What is stored, read, published and heard *)

\* The commit of a writer adds a table that differs in its profile.
LEMMA Commit ==
    ASSUME TypeInv, NEW w \in Writers, Store(w)
    PROVE  /\ Len(log) \in Nat \ {0} /\ DOMAIN log = 1 .. Len(log)
           /\ \A i \in DOMAIN log : log[i] \in Tables /\ log'[i] = log[i]
           /\ Len(log') = Len(log) + 1 /\ DOMAIN log' = 1 .. Len(log) + 1
           /\ wname[w] \in Accounts /\ Stored' = log'[Len(log) + 1]
           /\ Stored'[wname[w]] = Len(log) + 1
           /\ \A a \in Accounts : a # wname[w] => Stored'[a] = Stored[a]
<1> DEFINE new == [Stored EXCEPT ![wname[w]] = Len(log) + 1]
<1>1. log \in Seq(Tables) /\ Len(log) \in Nat \ {0} /\ wname[w] \in Accounts
  BY Sizes DEF TypeInv, TypeOK
<1>2. Stored \in Tables /\ log' = Append(log, new)
  BY StoredType DEF TypeInv, Store
<1>3. /\ new[wname[w]] = Len(log) + 1
      /\ \A a \in Accounts : a # wname[w] => new[a] = Stored[a]
  BY <1>1, <1>2 DEF Tables
<1>4. Len(log') = Len(log) + 1 /\ DOMAIN log' = 1 .. Len(log) + 1
      /\ log'[Len(log) + 1] = new /\ \A i \in DOMAIN log : log'[i] = log[i]
  BY <1>1, <1>2
<1>5. DOMAIN log = 1 .. Len(log) /\ \A i \in DOMAIN log : log[i] \in Tables
  BY <1>1
<1>6. Stored' = log'[Len(log')]
  BY DEF Stored
<1> QED
  BY <1>1, <1>3, <1>4, <1>5, <1>6

LEMMA LoggedStep == ASSUME TypeInv, Logged, [Next]_vars PROVE Logged'
<1>1. ASSUME NEW w \in Writers, Store(w) PROVE Logged'
  <2> DEFINE n == Len(log)
  <2>1. /\ n \in Nat \ {0} /\ DOMAIN log = 1 .. n /\ DOMAIN log' = 1 .. n + 1
        /\ \A i \in 1 .. n : log[i] \in Tables /\ log'[i] = log[i]
        /\ wname[w] \in Accounts /\ Stored' = log'[n + 1] /\ Stored = log[n]
        /\ Stored'[wname[w]] = n + 1
        /\ \A a \in Accounts : a # wname[w] => Stored'[a] = Stored[a]
    BY <1>1, Commit DEF Stored
  <2>2. \A i \in 1 .. n, a \in Accounts : log[i][a] \in Nat
    BY <2>1, Sizes DEF TypeInv, Tables
  <2>3. \A i \in 1 .. n, a \in Accounts : log[i][a] <= i /\ log[i][a] <= log[n][a]
    BY <2>1 DEF Logged
  <2> HIDE DEF n
  <2>4. ASSUME NEW a \in Accounts PROVE
           /\ log'[n + 1][a] \in Nat /\ log'[n + 1][a] <= n + 1 /\ log[n][a] <= log'[n + 1][a]
           /\ \A i \in 1 .. n : log[i][a] <= log'[n + 1][a]
    <3>1. CASE a = wname[w]
      BY <2>1, <2>2, <2>3, <3>1
    <3>2. CASE a # wname[w]
      <4>1. log'[n + 1][a] = log[n][a] /\ n \in 1 .. n
        BY <2>1, <3>2
      <4> QED
        BY <2>1, <2>2, <2>3, <4>1
    <3> QED
      BY <3>1, <3>2
  <2>5. ASSUME NEW i \in DOMAIN log', NEW a \in Accounts PROVE log'[i][a] <= i
    BY <2>1, <2>3, <2>4
  <2>6. ASSUME NEW i \in DOMAIN log', NEW k \in DOMAIN log', NEW a \in Accounts, i <= k
        PROVE  log'[i][a] <= log'[k][a]
    <3>1. CASE k \in 1 .. n
      <4>1. i \in 1 .. n
        BY <2>1, <2>6, <3>1
      <4> QED
        BY <2>1, <2>6, <3>1, <4>1 DEF Logged
    <3>2. CASE k = n + 1
      <4>1. CASE i = n + 1
        BY <2>4, <3>2, <4>1
      <4>2. CASE i \in 1 .. n
        BY <2>1, <2>4, <3>2, <4>2
      <4> QED
        BY <2>1, <4>1, <4>2
    <3> QED
      BY <2>1, <3>1, <3>2
  <2>7. ASSUME NEW i \in DOMAIN log', NEW a \in Accounts, Stored'[a] <= 1
        PROVE  log'[i][a] = Stored'[a]
    <3>1. a # wname[w] /\ Stored'[a] = log[n][a] /\ Stored[a] <= 1
      BY <2>1, <2>7
    <3>2. CASE i \in 1 .. n
      BY <2>1, <3>1, <3>2 DEF Logged
    <3>3. CASE i = n + 1
      BY <2>1, <3>3
    <3> QED
      BY <2>1, <3>2, <3>3
  <2> QED
    BY <2>5, <2>6, <2>7 DEF Logged
<1>2. ASSUME UNCHANGED log PROVE Logged'
  BY <1>2 DEF Logged, Stored
<1>3. (\E w \in Writers : Store(w)) \/ UNCHANGED log
  BY DEF Next, WriterStep, OthersAsk, Rate, Rated, Unanswered, Submit, Reload, Publish, Refuse,
         Lose, Navigate, Read, Answer, NoAnswer, Dismiss, Timer, Handle
<1> QED
  BY <1>1, <1>2, <1>3

\* The numbers that are compared.
LEMMA Numerals ==
    ASSUME TypeInv
    PROVE  /\ Stored \in Tables /\ Commits \subseteq Nat /\ Len(log) \in Nat \ {0}
           /\ \A a \in Accounts : Stored[a] \in Nat /\ told[a] \in Nat /\ heard[a] \in Nat
           /\ \A w \in Writers : wread[w] \in Nat /\ wname[w] \in Accounts
           /\ \A i \in DOMAIN wire :
                 wire[i].at \in Nat /\ wire[i].name \in Accounts /\ wire[i].error \in BOOLEAN
           /\ \A i \in DOMAIN log, a \in Accounts : log[i][a] \in Nat
           /\ \A r \in rows : r.number \in Nat /\ r.shown \in Nat /\ r.name \in Accounts
           /\ \A a \in Accounts : waiting[a] \in Nat
           /\ \A k \in Requests : aread[k] \in Nat
           /\ made \in Nat /\ asked \in Nat /\ applied \in Nat
           /\ Requests \subseteq Nat \ {0}
<1>1. Commits \subseteq Nat /\ Numbers \subseteq Nat /\ made \in Nat /\ Len(log) \in Nat \ {0}
  BY Sizes DEF TypeInv, TypeOK
<1>2. Stored \in Tables
  BY StoredType DEF TypeInv
<1>3. \A a \in Accounts : Stored[a] \in Nat /\ told[a] \in Nat /\ heard[a] \in Nat
  BY <1>1, <1>2 DEF TypeInv, TypeOK, Tables
<1>4. \A w \in Writers : wread[w] \in Nat /\ wname[w] \in Accounts
  BY <1>1 DEF TypeInv, TypeOK
<1>5. \A i \in DOMAIN wire :
         wire[i].at \in Nat /\ wire[i].name \in Accounts /\ wire[i].error \in BOOLEAN
  <2>1. ASSUME NEW i \in DOMAIN wire
        PROVE  wire[i] \in [name : Accounts, at : Commits, error : BOOLEAN]
    <3>1. wire \in Seq([name : Accounts, at : Commits, error : BOOLEAN])
      BY DEF TypeInv, TypeOK
    <3> QED
      BY <2>1, <3>1, Queues
  <2> QED
    BY <1>1, <2>1
<1>6. \A i \in DOMAIN log, a \in Accounts : log[i][a] \in Nat
  <2>1. \A i \in DOMAIN log : log[i] \in Tables
    BY Queues DEF TypeInv, TypeOK
  <2> QED
    BY <1>1, <2>1 DEF Tables
<1>7. \A r \in rows : r.number \in Nat /\ r.shown \in Nat /\ r.name \in Accounts
  BY <1>1 DEF TypeInv, TypeOK, Row
<1>8. \A a \in Accounts : waiting[a] \in Nat
  BY <1>1 DEF TypeInv, TypeOK
<1>9. \A k \in Requests : aread[k] \in Nat
  BY <1>1 DEF TypeInv, TypeOK
<1>10. asked \in Nat /\ applied \in Nat /\ Requests \subseteq Nat \ {0}
  BY ListAssumption DEF TypeInv, TypeOK, Requests
<1> QED
  BY <1>1, <1>2, <1>3, <1>4, <1>5, <1>6, <1>7, <1>8, <1>9, <1>10

\* What is stored never gets older.
LEMMA Newer ==
    ASSUME TypeInv, Logged, [Next]_vars, NEW a \in Accounts
    PROVE  Stored'[a] \in Nat /\ Stored[a] <= Stored'[a]
<1>1. ASSUME NEW w \in Writers, Store(w) PROVE Stored'[a] \in Nat /\ Stored[a] <= Stored'[a]
  <2>1. /\ Len(log) \in DOMAIN log /\ Stored'[wname[w]] = Len(log) + 1 /\ Len(log) \in Nat
        /\ a # wname[w] => Stored'[a] = Stored[a]
    BY <1>1, Commit
  <2>2. Stored[a] <= Len(log) /\ Stored[a] \in Nat
    BY <2>1, Numerals DEF Logged, Stored
  <2> QED
    BY <2>1, <2>2
<1>2. ASSUME UNCHANGED log PROVE Stored'[a] \in Nat /\ Stored[a] <= Stored'[a]
  BY <1>2, Numerals DEF Stored
<1>3. (\E w \in Writers : Store(w)) \/ UNCHANGED log
  BY DEF Next, WriterStep, OthersAsk, Rate, Rated, Unanswered, Submit, Reload, Publish, Refuse,
         Lose, Navigate, Read, Answer, NoAnswer, Dismiss, Timer, Handle
<1> QED
  BY <1>1, <1>2, <1>3

-----------------------------------------------------------------------------
(* What an event does *)

\* The first event goes, the others move up.
LEMMA FirstEvent ==
    ASSUME TypeInv, wire # <<>>, wire' = Tail(wire)
    PROVE  /\ Len(wire) \in Nat \ {0} /\ DOMAIN wire = 1 .. Len(wire)
           /\ DOMAIN wire' = 1 .. Len(wire) - 1
           /\ 1 \in DOMAIN wire /\ Head(wire) = wire[1]
           /\ \A i \in DOMAIN wire' : i + 1 \in DOMAIN wire /\ wire'[i] = wire[i + 1]
           /\ \A i \in DOMAIN wire : i # 1 => i - 1 \in DOMAIN wire' /\ wire'[i - 1] = wire[i]
<1>1. wire \in Seq([name : Accounts, at : Commits, error : BOOLEAN])
  BY DEF TypeInv, TypeOK
<1>2. Len(wire) \in Nat \ {0} /\ DOMAIN wire = 1 .. Len(wire)
  BY <1>1
<1>3. DOMAIN wire' = 1 .. Len(wire) - 1 /\ Head(wire) = wire[1]
  BY <1>1
<1>4. \A i \in 1 .. Len(wire) - 1 : wire'[i] = wire[i + 1]
  BY <1>1, <1>2, <1>3
<1> QED
  BY <1>2, <1>3, <1>4

\* The rows of the list when an event fills a row.
LEMMA Filled ==
    ASSUME TypeInv, Numbered, OneRow, NEW e, e.name \in Accounts, e.at \in Commits, Fill(e)
    PROVE  /\ About(e) \subseteq rows
           /\ rows' = (rows \ About(e)) \union {Now(r, e) : r \in About(e)}
           /\ \A r \in About(e) :
                 /\ r.name = e.name /\ r \in Row
                 /\ Now(r, e).number = r.number /\ Now(r, e).name = r.name
                 /\ Now(r, e).known /\ Now(r, e).shown = e.at /\ Now(r, e).error = r.error
           /\ \A r, q \in About(e) : r = q
           /\ \A r \in rows \ About(e) : r.name = e.name => ~r.known /\ r.number \in again
<1>1. rows \subseteq Row /\ About(e) \subseteq rows
  BY DEF TypeInv, TypeOK, About, ShownAs, Waiting
<1>2. ASSUME NEW r \in About(e)
      PROVE  /\ r.name = e.name /\ r \in Row
             /\ Now(r, e).number = r.number /\ Now(r, e).name = r.name
             /\ Now(r, e).known /\ Now(r, e).shown = e.at /\ Now(r, e).error = r.error
  <2>1. r.name = e.name
    BY <1>1, <1>2 DEF About, ShownAs, Waiting, Numbered
  <2> QED
    BY <1>1, <1>2, <2>1 DEF Now, Row
<1>3. ASSUME NEW r \in About(e), NEW q \in About(e) PROVE r = q
  BY <1>1, <1>3 DEF About, ShownAs, Waiting, Numbered, OneRow
<1>4. ASSUME NEW r \in rows \ About(e), r.name = e.name PROVE ~r.known /\ r.number \in again
  <2>1. CASE ShownAs(e.name) # {}
    <3>1. ~r.known
      BY <1>4, <2>1 DEF About, ShownAs
    <3>2. PICK q \in rows : q.known /\ q.name = e.name
      BY <2>1 DEF ShownAs
    <3> QED
      BY <1>4, <3>1, <3>2 DEF Numbered
  <2>2. CASE ShownAs(e.name) = {}
    <3>1. ~r.known /\ r.number # 0
      BY <1>4, <2>2 DEF ShownAs, Numbered
    <3>2. waiting[e.name] # r.number
      BY <1>4, <2>2, <3>1 DEF About, Waiting
    <3> QED
      BY <1>4, <3>1, <3>2 DEF Numbered
  <2> QED
    BY <2>1, <2>2
<1>5. rows' = (rows \ About(e)) \union {Now(r, e) : r \in About(e)}
  BY DEF Fill
<1> QED
  BY <1>1, <1>2, <1>3, <1>4, <1>5

\* The row that an event inserts.
LEMMA Inserted ==
    ASSUME TypeInv, Numbered, NEW e, e.name \in Accounts, e.at \in Commits, Insert(e)
    PROVE  LET new == Now(NewRow(e.name), e)
           IN  /\ rows' = rows \union {new}
               /\ new.number = made + 1 /\ new.name = e.name /\ new.known
               /\ new.shown = e.at /\ ~new.error
               /\ \A r \in rows : r.name = e.name => ~r.known /\ r.number \in again
               /\ \A r \in rows : r.number \in Nat /\ r.number <= made
               /\ made \in Nat
<1>1. \A r \in rows : r.name = e.name => ~r.known
  BY DEF Insert, ShownAs
<1>2. \A r \in rows : ~r.known => r.number # 0
  BY DEF Numbered
<1>3. \A r \in rows : r.name = e.name => ~r.known /\ r.number \in again
  BY <1>1, <1>2 DEF Numbered, Insert
<1>4. \A r \in rows : r.number \in Nat /\ r.number <= made
  BY Numerals DEF Numbered
<1>5. made \in Nat
  BY Numerals
<1>6. LET new == Now(NewRow(e.name), e)
      IN  /\ new.number = made + 1 /\ new.name = e.name /\ new.known
          /\ new.shown = e.at /\ ~new.error
  BY DEF Now, NewRow
<1> QED
  BY <1>3, <1>4, <1>5, <1>6 DEF Insert

\* The rows that show an error.
LEMMA Warned ==
    ASSUME TypeInv, Numbered, NEW e, e.name \in Accounts, ShowError(e)
    PROVE  LET mark(r) == [r EXCEPT !.error = TRUE]
           IN  /\ Waiting(e.name) \subseteq rows
               /\ rows' = (rows \ Waiting(e.name)) \union {mark(r) : r \in Waiting(e.name)}
               /\ \A r \in Waiting(e.name) :
                     /\ r.name = e.name /\ ~r.known /\ r \in Row
                     /\ mark(r).number = r.number /\ mark(r).name = r.name
                     /\ ~mark(r).known /\ mark(r).shown = r.shown /\ mark(r).error
               /\ \A r, q \in Waiting(e.name) : r = q
               /\ \A r \in rows \ Waiting(e.name) :
                     r.name = e.name => r.known \/ r.number \in again
<1> DEFINE mark(r) == [r EXCEPT !.error = TRUE]
<1>1. rows \subseteq Row /\ Waiting(e.name) \subseteq rows
  BY DEF TypeInv, TypeOK, Waiting
<1>2. ASSUME NEW r \in Waiting(e.name)
      PROVE  /\ r.name = e.name /\ ~r.known /\ r \in Row
             /\ mark(r).number = r.number /\ mark(r).name = r.name
             /\ ~mark(r).known /\ mark(r).shown = r.shown /\ mark(r).error
  <2>1. r.name = e.name /\ ~r.known
    BY <1>1, <1>2 DEF Waiting, Numbered
  <2> QED
    BY <1>1, <1>2, <2>1 DEF Row
<1>3. ASSUME NEW r \in Waiting(e.name), NEW q \in Waiting(e.name) PROVE r = q
  BY <1>1, <1>3 DEF Waiting, Numbered
<1>4. ASSUME NEW r \in rows \ Waiting(e.name), r.name = e.name
      PROVE  r.known \/ r.number \in again
  <2>1. ASSUME ~r.known PROVE r.number \in again
    <3>1. r.number # 0
      BY <1>4, <2>1 DEF Numbered
    <3>2. waiting[e.name] # r.number
      BY <1>4, <3>1 DEF Waiting
    <3> QED
      BY <1>4, <2>1, <3>2 DEF Numbered
  <2> QED
    BY <2>1
<1>5. rows' = (rows \ Waiting(e.name)) \union {mark(r) : r \in Waiting(e.name)}
  BY DEF ShowError
<1> QED
  BY <1>1, <1>2, <1>3, <1>4, <1>5

-----------------------------------------------------------------------------
(* Which steps change what *)

LEMMA Hops ==
    ASSUME TypeInv, [Next]_vars, NEW v \in Writers
    PROVE  /\ wname' = wname
           /\ \/ Store(v) \/ Reload(v)
              \/ wread'[v] = wread[v] /\ (wpc'[v] = wpc[v] \/ wpc'[v] \in {"asked", "answer", "over"})
<1> DEFINE Hop == /\ wname' = wname
                  /\ \/ Store(v) \/ Reload(v)
                     \/ /\ wread'[v] = wread[v]
                        /\ wpc'[v] = wpc[v] \/ wpc'[v] \in {"asked", "answer", "over"}
<1>1. ASSUME NEW w \in Writers,
             Submit(w) \/ Publish(w) \/ Refuse(w) \/ Lose(w) \/ Store(w) \/ Reload(w)
      PROVE  Hop
  BY <1>1 DEF Submit, Publish, Refuse, Lose, Store, Reload, TypeInv, TypeOK
<1>2. ASSUME NEW w \in Writers, Asks(w) \/ Ends(w) PROVE Hop
  BY <1>2, AskedStep, EndedStep DEF TypeInv, TypeOK
<1>3. \/ \E w \in Writers : \/ Submit(w) \/ Publish(w) \/ Refuse(w) \/ Lose(w)
                            \/ Store(w) \/ Reload(w) \/ Asks(w) \/ Ends(w)
      \/ UNCHANGED <<wpc, wname, wread>>
  BY DEF Next, WriterStep, Asks, Ends, Navigate, Read, Answer, NoAnswer, Dismiss, Timer, Handle
<1> QED
  BY <1>1, <1>2, <1>3

LEMMA WireChanges ==
    ASSUME [Next]_vars
    PROVE  \/ \E w \in Writers : Publish(w) \/ Refuse(w)
           \/ Handle
           \/ UNCHANGED <<wire, told, heard>>
BY DEF Next, WriterStep, OthersAsk, Rate, Rated, Unanswered, Submit, Store, Reload, Lose,
       Navigate, Read, Answer, NoAnswer, Dismiss, Timer

LEMMA RowChanges ==
    ASSUME [Next]_vars
    PROVE  \/ \E w \in Writers : Submit(w)
           \/ \E k \in Requests : Answer(k)
           \/ Handle
           \/ rows' \subseteq rows /\ UNCHANGED <<made, waiting, again>>
BY DEF Next, WriterStep, OthersAsk, Rate, Rated, Unanswered, Publish, Refuse, Store, Reload,
       Lose, Navigate, Read, NoAnswer, Dismiss, Timer

\* The last event when one is published.
LEMMA LastEvent ==
    ASSUME TypeInv, NEW x \in [name : Accounts, at : Commits, error : BOOLEAN],
           wire' = Append(wire, x)
    PROVE  /\ Len(wire) \in Nat /\ DOMAIN wire = 1 .. Len(wire)
           /\ DOMAIN wire' = 1 .. Len(wire) + 1 /\ wire'[Len(wire) + 1] = x
           /\ \A i \in DOMAIN wire : wire'[i] = wire[i]
<1>1. wire \in Seq([name : Accounts, at : Commits, error : BOOLEAN])
  BY DEF TypeInv, TypeOK
<1> QED
  BY <1>1

\* What w publishes.
LEMMA Announced ==
    ASSUME TypeInv, Known, NEW w \in Writers, Publish(w)
    PROVE  LET x == [name |-> wname[w], at |-> wread[w], error |-> FALSE]
           IN  /\ x \in [name : Accounts, at : Commits, error : BOOLEAN]
               /\ wire' = Append(wire, x) /\ wname[w] \in Accounts
               /\ x.name = wname[w] /\ x.at = wread[w] /\ ~x.error
               /\ wread[w] \in Nat /\ 1 < wread[w] /\ wread[w] <= Stored[wname[w]]
               /\ told'[wname[w]] =
                     IF wread[w] < told[wname[w]] THEN told[wname[w]] ELSE wread[w]
               /\ \A a \in Accounts : a # wname[w] => told'[a] = told[a]
               /\ UNCHANGED <<log, rows, heard>>
<1>1. wname[w] \in Accounts /\ wread[w] \in Commits /\ wread[w] \in Nat
  BY Numerals DEF TypeInv, TypeOK
<1>2. told \in Tables
  BY DEF TypeInv, TypeOK
<1>3. 1 < wread[w] /\ wread[w] <= Stored[wname[w]]
  BY <1>1, Numerals DEF Known, Publish
<1> QED
  BY <1>1, <1>2, <1>3 DEF Publish, Tables

LEMMA Failed ==
    ASSUME TypeInv, NEW w \in Writers, Refuse(w)
    PROVE  LET x == [name |-> wname[w], at |-> 0, error |-> TRUE]
           IN  /\ x \in [name : Accounts, at : Commits, error : BOOLEAN]
               /\ wire' = Append(wire, x) /\ wname[w] \in Accounts
               /\ x.name = wname[w] /\ x.error
               /\ UNCHANGED <<log, told, rows, heard>>
BY Sizes DEF TypeInv, TypeOK, Refuse

\* The event that is handled.
LEMMA Event ==
    ASSUME TypeInv, Known, Handle
    PROVE  LET e == Head(wire)
           IN  /\ wire # <<>> /\ wire' = Tail(wire)
               /\ e.name \in Accounts /\ e.at \in Commits /\ e.at \in Nat /\ e.error \in BOOLEAN
               /\ ~e.error => 1 < e.at /\ e.at <= told[e.name]
               /\ Ignore(e) \/ ShowError(e) \/ Fill(e) \/ Insert(e)
               /\ e.error \/ applied = 0 => Ignore(e) \/ ShowError(e)
               /\ UNCHANGED <<log, told, wanted, aread, applied, removed, again, wpc, wname, missed,
                              crossed>>
<1>1. wire # <<>> /\ wire' = Tail(wire)
  BY DEF Handle
<1>2. 1 \in DOMAIN wire /\ Head(wire) = wire[1]
  BY <1>1, FirstEvent
<1>3. /\ wire[1] \in [name : Accounts, at : Commits, error : BOOLEAN]
      /\ wire[1].at \in Nat
      /\ ~wire[1].error => 1 < wire[1].at /\ wire[1].at <= told[wire[1].name]
  <2>1. wire \in Seq([name : Accounts, at : Commits, error : BOOLEAN])
    BY DEF TypeInv, TypeOK
  <2>2. wire[1].at \in Nat
    BY <1>2, Numerals
  <2>3. wire[1] \in [name : Accounts, at : Commits, error : BOOLEAN]
    BY <1>2, <2>1, Queues
  <2>4. ~wire[1].error => 1 < wire[1].at /\ wire[1].at <= told[wire[1].name]
    BY <1>2, <2>2 DEF Known
  <2> QED
    BY <2>2, <2>3, <2>4
<1> QED
  BY <1>1, <1>2, <1>3 DEF Handle, Ignore, ShowError, Fill, Insert

\* What the client has received of each profile.
LEMMA Hears ==
    ASSUME TypeInv, Known, Handle
    PROVE  LET e == Head(wire)
           IN  /\ e.error => heard' = heard
               /\ ~e.error => heard'[e.name] = IF e.at < heard[e.name] THEN heard[e.name] ELSE e.at
               /\ \A a \in Accounts : a # e.name => heard'[a] = heard[a]
<1> DEFINE e == Head(wire)
<1>1. heard \in Tables /\ e.name \in Accounts
  BY Event DEF TypeInv, TypeOK
<1>2. (e.error /\ heard' = heard) \/ (~e.error /\ See(e))
  <2>1. Ignore(e) => (e.error /\ heard' = heard) \/ (~e.error /\ See(e))
    BY DEF Ignore
  <2>2. ShowError(e) => e.error /\ heard' = heard
    BY DEF ShowError
  <2>3. Fill(e) \/ Insert(e) => ~e.error /\ See(e)
    BY DEF Fill, Insert
  <2> QED
    BY <2>1, <2>2, <2>3, Event
<1> QED
  BY <1>1, <1>2 DEF See, Tables

LEMMA Rising ==
    ASSUME TypeInv, Known, [Next]_vars, NEW a \in Accounts
    PROVE  told'[a] \in Nat /\ told[a] <= told'[a]
<1>1. told[a] \in Nat
  BY Numerals
<1>2. ASSUME NEW w \in Writers, Publish(w) PROVE told'[a] \in Nat /\ told[a] <= told'[a]
  <2>1. wread[w] \in Nat /\ \/ told'[a] = told[a]
                            \/ told'[a] = IF wread[w] < told[a] THEN told[a] ELSE wread[w]
    <3>1. CASE a = wname[w]
      BY <1>2, <3>1, Announced
    <3>2. CASE a # wname[w]
      BY <1>2, <3>2, Announced
    <3> QED
      BY <3>1, <3>2
  <2> QED
    BY <1>1, <2>1
<1>3. (\E w \in Writers : Publish(w)) \/ UNCHANGED told
  BY WireChanges DEF Refuse, Handle
<1> QED
  BY <1>1, <1>2, <1>3

-----------------------------------------------------------------------------
(* The parts of the invariant, step by step *)

LEMMA KnownWriters ==
    ASSUME TypeInv, Logged, Known, [Next]_vars, NEW v \in Writers
    PROVE  /\ wpc'[v] = "reload" => Stored'[wname'[v]] > 1
           /\ wpc'[v] = "publish" => wread'[v] > 1 /\ wread'[v] <= Stored'[wname'[v]]
<1>1. /\ wname' = wname /\ wname[v] \in Accounts /\ Stored[wname[v]] \in Nat
      /\ Stored'[wname[v]] \in Nat /\ Stored[wname[v]] <= Stored'[wname[v]] /\ wread[v] \in Nat
  <2>1. wname[v] \in Accounts /\ wread[v] \in Nat /\ Stored[wname[v]] \in Nat
    BY Numerals
  <2> QED
    BY <2>1, Hops, Newer
<1>2. CASE Store(v)
  <2>1. wpc'[v] = "reload"
    BY <1>2 DEF Store, TypeInv, TypeOK
  <2>2. Stored'[wname[v]] = Len(log) + 1 /\ Len(log) \in Nat \ {0}
    BY <1>2, Commit
  <2> QED
    BY <1>1, <2>1, <2>2
<1>3. CASE Reload(v)
  <2>1. wpc'[v] = "publish" /\ wread'[v] = Stored[wname[v]] /\ wpc[v] = "reload"
    BY <1>3 DEF Reload, TypeInv, TypeOK
  <2>2. Stored[wname[v]] > 1
    BY <2>1 DEF Known
  <2> QED
    BY <1>1, <2>1, <2>2
<1>4. CASE wread'[v] = wread[v]
           /\ (wpc'[v] = wpc[v] \/ wpc'[v] \in {"asked", "answer", "over"})
  <2>1. /\ wpc[v] = "reload" => Stored[wname[v]] > 1
        /\ wpc[v] = "publish" => wread[v] > 1 /\ wread[v] <= Stored[wname[v]]
    BY DEF Known
  <2> QED
    BY <1>1, <1>4, <2>1
<1> QED
  BY <1>2, <1>3, <1>4, Hops

LEMMA KnownWire ==
    ASSUME TypeInv, Known, [Next]_vars, NEW i \in DOMAIN wire', ~wire'[i].error
    PROVE  wire'[i].at > 1 /\ wire'[i].at <= told'[wire'[i].name]
<1>1. ASSUME NEW k \in DOMAIN wire, wire'[i] = wire[k]
      PROVE  wire'[i].at > 1 /\ wire'[i].at <= told'[wire'[i].name]
  <2>1. wire[k].at \in Nat /\ wire[k].name \in Accounts
    BY Numerals
  <2>2. wire[k].at > 1 /\ wire[k].at <= told[wire[k].name]
    BY <1>1 DEF Known
  <2>3. told[wire[k].name] \in Nat /\ told'[wire[k].name] \in Nat
        /\ told[wire[k].name] <= told'[wire[k].name]
    BY <2>1, Numerals, Rising
  <2> QED
    BY <1>1, <2>1, <2>2, <2>3
<1>2. ASSUME NEW w \in Writers, Publish(w)
      PROVE  wire'[i].at > 1 /\ wire'[i].at <= told'[wire'[i].name]
  <2> DEFINE x == [name |-> wname[w], at |-> wread[w], error |-> FALSE]
  <2>1. /\ x \in [name : Accounts, at : Commits, error : BOOLEAN] /\ wire' = Append(wire, x)
        /\ x.at = wread[w] /\ x.name = wname[w] /\ wread[w] \in Nat /\ 1 < wread[w]
        /\ told'[wname[w]] = IF wread[w] < told[wname[w]] THEN told[wname[w]] ELSE wread[w]
        /\ wname[w] \in Accounts
    BY <1>2, Announced
  <2> HIDE DEF x
  <2>2. (\E k \in DOMAIN wire : wire'[i] = wire[k]) \/ wire'[i] = x
    <3>1. i \in 1 .. Len(wire) + 1 /\ DOMAIN wire = 1 .. Len(wire) /\ Len(wire) \in Nat
          /\ wire'[Len(wire) + 1] = x /\ \A k \in DOMAIN wire : wire'[k] = wire[k]
      BY <2>1, LastEvent
    <3> QED
      BY <3>1
  <2>3. ASSUME wire'[i] = x
        PROVE  wire'[i].at > 1 /\ wire'[i].at <= told'[wire'[i].name]
    <3>1. told[wname[w]] \in Nat
      BY <2>1, Numerals
    <3> QED
      BY <2>1, <2>3, <3>1
  <2> QED
    BY <1>1, <2>2, <2>3
<1>3. ASSUME NEW w \in Writers, Refuse(w) PROVE \E k \in DOMAIN wire : wire'[i] = wire[k]
  <2> DEFINE x == [name |-> wname[w], at |-> 0, error |-> TRUE]
  <2>1. x \in [name : Accounts, at : Commits, error : BOOLEAN] /\ wire' = Append(wire, x)
        /\ x.error
    BY <1>3, Failed
  <2> HIDE DEF x
  <2>2. i \in 1 .. Len(wire) + 1 /\ DOMAIN wire = 1 .. Len(wire) /\ Len(wire) \in Nat
        /\ wire'[Len(wire) + 1] = x /\ \A k \in DOMAIN wire : wire'[k] = wire[k]
    BY <2>1, LastEvent
  <2>3. i # Len(wire) + 1
    BY <2>1, <2>2
  <2> QED
    BY <2>2, <2>3
<1>4. ASSUME Handle PROVE \E k \in DOMAIN wire : wire'[i] = wire[k]
  BY <1>4, FirstEvent, Event
<1>5. ASSUME UNCHANGED wire PROVE \E k \in DOMAIN wire : wire'[i] = wire[k]
  BY <1>5
<1> QED
  BY <1>1, <1>2, <1>3, <1>4, <1>5, WireChanges

LEMMA KnownHeard ==
    ASSUME TypeInv, Logged, Known, [Next]_vars, NEW a \in Accounts
    PROVE  heard'[a] <= told'[a] /\ told'[a] <= Stored'[a]
<1>1. /\ heard[a] \in Nat /\ told[a] \in Nat /\ told'[a] \in Nat /\ told[a] <= told'[a]
      /\ Stored[a] \in Nat /\ Stored'[a] \in Nat /\ Stored[a] <= Stored'[a]
      /\ heard[a] <= told[a] /\ told[a] <= Stored[a]
  BY Numerals, Rising, Newer DEF Known
<1>2. ASSUME NEW w \in Writers, Publish(w) PROVE told'[a] <= Stored[a] /\ heard'[a] = heard[a]
  <2>1. CASE a = wname[w]
    BY <1>1, <1>2, <2>1, Announced
  <2>2. CASE a # wname[w]
    BY <1>1, <1>2, <2>2, Announced
  <2> QED
    BY <2>1, <2>2
<1>3. ASSUME NEW w \in Writers, Refuse(w) PROVE told'[a] = told[a] /\ heard'[a] = heard[a]
  BY <1>3, Failed
<1>4. ASSUME Handle PROVE told'[a] = told[a] /\ heard'[a] <= told[a]
  <2> DEFINE e == Head(wire)
  <2>1. told' = told /\ e.at \in Nat /\ (~e.error => e.at <= told[e.name])
    BY <1>4, Event
  <2>2. /\ e.error => heard' = heard
        /\ ~e.error => heard'[e.name] = IF e.at < heard[e.name] THEN heard[e.name] ELSE e.at
        /\ a # e.name => heard'[a] = heard[a]
    BY <1>4, Hears
  <2> HIDE DEF e
  <2> QED
    BY <1>1, <2>1, <2>2
<1>5. ASSUME UNCHANGED <<told, heard>> PROVE told'[a] = told[a] /\ heard'[a] = heard[a]
  BY <1>5
<1> QED
  BY <1>1, <1>2, <1>3, <1>4, <1>5, WireChanges

LEMMA KnownRows ==
    ASSUME TypeInv, Logged, Known, Fetching, Numbered, OneRow, [Next]_vars,
           NEW r \in rows', r.known
    PROVE  r.shown # 0 /\ r.shown <= Stored'[r.name]
<1>1. ASSUME NEW q \in rows, r.name = q.name, r.shown = q.shown, q.known
      PROVE  r.shown # 0 /\ r.shown <= Stored'[r.name]
  <2>1. q.name \in Accounts /\ q.shown \in Nat
    BY Numerals
  <2>2. q.shown # 0 /\ q.shown <= Stored[q.name]
    BY <1>1 DEF Known
  <2>3. Stored[q.name] \in Nat /\ Stored'[q.name] \in Nat /\ Stored[q.name] <= Stored'[q.name]
    BY <2>1, Numerals, Newer
  <2> QED
    BY <1>1, <2>1, <2>2, <2>3
<1>2. ASSUME NEW w \in Writers, Submit(w) PROVE r \in rows
  BY <1>2 DEF Submit, NewRow
<1>3. ASSUME NEW k \in Requests, Answer(k) PROVE r.shown # 0 /\ r.shown <= Stored'[r.name]
  <2>1. PICK a \in Listed[wanted[k]] : log[aread[k]][a] # 0 /\ r.name = a
                                       /\ r.shown = log[aread[k]][a]
    BY <1>3 DEF Answer, Fetched
  <2>2. a \in Accounts
    BY ListAssumption DEF TypeInv, TypeOK
  <2>3. aread[k] \in DOMAIN log /\ Len(log) \in DOMAIN log /\ aread[k] <= Len(log)
    BY <1>3, ReadTable DEF Answer
  <2>4. log[aread[k]][a] <= Stored[a] /\ Stored' = Stored
    BY <1>3, <2>2, <2>3 DEF Logged, Stored, Answer
  <2> QED
    BY <2>1, <2>4
<1>4. ASSUME Handle
      PROVE  \/ r.shown # 0 /\ r.shown <= Stored'[r.name]
             \/ \E q \in rows : r.name = q.name /\ r.shown = q.shown /\ q.known
  <2> DEFINE e == Head(wire)
  <2>1. /\ e.name \in Accounts /\ e.at \in Commits /\ e.at \in Nat
        /\ ~e.error => 1 < e.at /\ e.at <= told[e.name]
        /\ Ignore(e) \/ ShowError(e) \/ Fill(e) \/ Insert(e)
    BY <1>4, Event
  <2>2. told[e.name] \in Nat /\ Stored[e.name] \in Nat /\ told[e.name] <= Stored[e.name]
    BY <2>1, Numerals DEF Known
  <2>3. Stored'[e.name] \in Nat /\ Stored[e.name] <= Stored'[e.name]
    BY <2>1, Newer
  <2>4. ASSUME ~e.error, r.name = e.name, r.shown = e.at
        PROVE  r.shown # 0 /\ r.shown <= Stored'[r.name]
    <3> HIDE DEF e
    <3> QED
      BY <2>1, <2>2, <2>3, <2>4
  <2>5. ASSUME Ignore(e) PROVE r \in rows
    BY <2>5 DEF Ignore
  <2>6. ASSUME ShowError(e) PROVE r \in rows
    <3> HIDE DEF e
    <3>1. ASSUME NEW q \in Waiting(e.name), r = [q EXCEPT !.error = TRUE] PROVE FALSE
      BY <2>1, <2>6, <3>1, Warned
    <3>2. r \in (rows \ Waiting(e.name)) \union
                   {[q EXCEPT !.error = TRUE] : q \in Waiting(e.name)}
      BY <2>6 DEF ShowError
    <3> QED
      BY <3>1, <3>2
  <2>7. ASSUME Fill(e) PROVE r \in rows \/ (~e.error /\ r.name = e.name /\ r.shown = e.at)
    <3>1. ~e.error
      BY <2>7 DEF Fill
    <3> HIDE DEF e
    <3> QED
      BY <2>1, <2>7, <3>1, Filled
  <2>8. ASSUME Insert(e) PROVE r \in rows \/ (~e.error /\ r.name = e.name /\ r.shown = e.at)
    <3>1. ~e.error
      BY <2>8 DEF Insert
    <3> HIDE DEF e
    <3> QED
      BY <2>1, <2>8, <3>1, Inserted
  <2> HIDE DEF e
  <2> QED
    BY <2>1, <2>4, <2>5, <2>6, <2>7, <2>8
<1>5. ASSUME rows' \subseteq rows PROVE r \in rows
  BY <1>5
<1> QED
  BY <1>1, <1>2, <1>3, <1>4, <1>5, RowChanges

LEMMA KnownStep ==
    ASSUME TypeInv, Logged, Known, Fetching, Numbered, OneRow, [Next]_vars PROVE Known'
<1>1. \A v \in Writers :
         /\ wpc'[v] = "reload" => Stored'[wname'[v]] > 1
         /\ wpc'[v] = "publish" => wread'[v] > 1 /\ wread'[v] <= Stored'[wname'[v]]
  BY KnownWriters
<1>2. \A i \in DOMAIN wire' :
         ~wire'[i].error => wire'[i].at > 1 /\ wire'[i].at <= told'[wire'[i].name]
  BY KnownWire
<1>3. \A a \in Accounts : heard'[a] <= told'[a] /\ told'[a] <= Stored'[a]
  BY KnownHeard
<1>4. \A r \in rows' : r.known => r.shown # 0 /\ r.shown <= Stored'[r.name]
  BY KnownRows
<1> QED
  BY <1>1, <1>2, <1>3, <1>4 DEF Known

LEMMA FetchingStep ==
    ASSUME TypeInv, Fetching, [Next]_vars PROVE Fetching'
<1>1. /\ asked \in Nat /\ applied \in Nat /\ Len(log) \in Nat \ {0}
      /\ asked \in Requests /\ pending \subseteq 1 .. asked /\ applied <= asked
      /\ \A k \in Requests : aread[k] \in Nat /\ aread[k] <= Len(log)
      /\ wanted \in [Requests -> Urls] /\ aread \in [Requests -> Commits]
      /\ wanted[asked] = url /\ (applied # 0 => aread[applied] # 0)
      /\ applied = 0 => rows = {}
  BY Numerals DEF Fetching, TypeInv, TypeOK
<1>2. ASSUME NEW w \in Writers, Store(w) PROVE Fetching'
  <2>1. Len(log') = Len(log) + 1
    BY <1>2, Commit
  <2> QED
    BY <1>1, <1>2, <2>1 DEF Fetching, Store
<1>3. ASSUME NEW u \in Urls, Navigate(u) PROVE Fetching'
  <2>1. asked + 1 \in Requests
    BY <1>1, <1>3, ListAssumption DEF Navigate, Requests
  <2>2. wanted'[asked + 1] = u
    BY <1>1, <1>3, <2>1 DEF Navigate
  <2> QED
    BY <1>1, <1>3, <2>1, <2>2 DEF Fetching, Navigate
<1>4. ASSUME NEW k \in Requests, Read(k) PROVE Fetching'
  <2>1. aread'[k] = Len(log) /\ \A j \in Requests : j # k => aread'[j] = aread[j]
    BY <1>1, <1>4 DEF Read
  <2>2. \A j \in Requests : aread'[j] <= Len(log)
    BY <1>1, <2>1
  <2>3. applied # 0 => aread'[applied] # 0
    BY <1>1, <1>4, <2>1 DEF TypeInv, TypeOK, Read
  <2> QED
    BY <1>1, <1>4, <2>2, <2>3 DEF Fetching, Read
<1>5. ASSUME NEW k \in Requests, Answer(k) PROVE Fetching'
  <2>2. k \in pending /\ aread[k] # 0
    BY <1>5 DEF Answer
  <2>1. k \in 1 .. asked /\ k # 0 /\ aread[k] # 0
    BY <1>1, <2>2
  <2> QED
    BY <1>1, <1>5, <2>1 DEF Fetching, Answer
<1>6. ASSUME NEW k \in Requests, NoAnswer(k) PROVE Fetching'
  BY <1>1, <1>6 DEF Fetching, NoAnswer
<1>7. ASSUME UNCHANGED <<log, url, asked, pending, wanted, aread, applied>>,
             applied # 0 \/ rows' = {}
      PROVE  Fetching'
  BY <1>1, <1>7 DEF Fetching
<1>8. ASSUME Handle PROVE applied # 0 \/ rows' = {}
  BY <1>1, <1>8 DEF Handle, Ignore, ShowError, Fill, Insert
<1>9. ASSUME \/ \E w \in Writers : \/ Asks(w) \/ Ends(w) \/ Submit(w) \/ Reload(w) \/ Publish(w)
                                   \/ Refuse(w) \/ Lose(w)
             \/ \E r \in rows : Dismiss(r)
             \/ \E n \in timers : Timer(n)
             \/ UNCHANGED vars
      PROVE  /\ UNCHANGED <<log, url, asked, pending, wanted, aread, applied>>
             /\ applied # 0 \/ rows' = {}
  BY <1>1, <1>9, AskedStep, EndedStep DEF Submit, Reload, Publish, Refuse, Lose, Dismiss, Timer
<1>10. Handle => UNCHANGED <<log, url, asked, pending, wanted, aread, applied>>
  BY DEF Handle
<1> QED
  BY <1>2, <1>3, <1>4, <1>5, <1>6, <1>7, <1>8, <1>9, <1>10 DEF Next, WriterStep, Asks, Ends

\* The row that is shown for a name that the user adds.
LEMMA Added ==
    ASSUME TypeInv, Numbered, NEW w \in Writers, Submit(w)
    PROVE  LET a == wname[w]
               new == NewRow(a)
           IN  /\ a \in Accounts /\ made \in Nat /\ rows' = rows \union {new}
               /\ new.number = made + 1 /\ new.name = a /\ ~new.known /\ ~new.error
               /\ made' = made + 1 /\ waiting'[a] = made + 1
               /\ \A b \in Accounts : b # a => waiting'[b] = waiting[b]
               /\ again \subseteq again' /\ (waiting[a] # 0 => waiting[a] \in again')
               /\ ShownAs(a) # {} => made + 1 \in again'
               /\ \A r \in rows : r.number \in Nat /\ r.number <= made
               /\ \A b \in Accounts : waiting[b] \in Nat /\ waiting[b] <= made
<1>1. wname[w] \in Accounts /\ made \in Nat /\ waiting \in [Accounts -> Numbers]
  BY Numerals DEF TypeInv, TypeOK
<1>2. \A r \in rows : r.number \in Nat /\ r.number <= made
  BY Numerals DEF Numbered
<1>3. \A b \in Accounts : waiting[b] \in Nat /\ waiting[b] <= made
  BY Numerals DEF Numbered
<1> QED
  BY <1>1, <1>2, <1>3 DEF Submit, NewRow

LEMMA SubmitNumbers ==
    ASSUME TypeInv, Numbered, OneRow, NEW w \in Writers, Submit(w)
    PROVE  Numbered' /\ OneRow'
<1> DEFINE a == wname[w]
           new == NewRow(a)
<1>1. /\ a \in Accounts /\ made \in Nat /\ rows' = rows \union {new}
      /\ new.number = made + 1 /\ new.name = a /\ ~new.known /\ ~new.error
      /\ made' = made + 1 /\ waiting'[a] = made + 1
      /\ \A b \in Accounts : b # a => waiting'[b] = waiting[b]
      /\ again \subseteq again' /\ (waiting[a] # 0 => waiting[a] \in again')
      /\ ShownAs(a) # {} => made + 1 \in again'
      /\ \A r \in rows : r.number \in Nat /\ r.number <= made
      /\ \A b \in Accounts : waiting[b] \in Nat /\ waiting[b] <= made
  BY Added
<1> HIDE DEF a, new
<1>2. ASSUME NEW r \in rows' PROVE r.number <= made' /\ (r.known \/ r.number # 0)
  BY <1>1 DEF Numbered
<1>3. ASSUME NEW r \in rows', NEW q \in rows', r.number # 0, r.number = q.number PROVE r = q
  BY <1>1, <1>3 DEF Numbered
<1>4. ASSUME NEW b \in Accounts PROVE waiting'[b] <= made'
  BY <1>1
<1>5. ASSUME NEW r \in rows', NEW b \in Accounts, r.number # 0, waiting'[b] = r.number
      PROVE  r.name = b /\ ~r.known
  <2>1. CASE b = a
    <3>1. r = new
      BY <1>1, <1>5, <2>1
    <3> QED
      BY <1>1, <2>1, <3>1
  <2>2. CASE b # a
    <3>1. r \in rows /\ waiting[b] = r.number
      BY <1>1, <1>5, <2>2
    <3> QED
      BY <1>5, <3>1 DEF Numbered
  <2> QED
    BY <2>1, <2>2
<1>6. ASSUME NEW r \in rows', ~r.known PROVE waiting'[r.name] = r.number \/ r.number \in again'
  <2>1. CASE r = new
    BY <1>1, <2>1
  <2>2. CASE r \in rows
    <3>1. r.number # 0 /\ (waiting[r.name] = r.number \/ r.number \in again)
      BY <1>6, <2>2 DEF Numbered
    <3>2. r.name \in Accounts
      BY <2>2, Numerals
    <3> QED
      BY <1>1, <3>1, <3>2
  <2> QED
    BY <1>1, <2>1, <2>2
<1>7. ASSUME NEW r \in rows', NEW q \in rows', r.known, ~q.known, r.name = q.name
      PROVE  q.number \in again'
  <2>1. r \in rows
    BY <1>1, <1>7
  <2>2. CASE q = new
    <3>1. r \in ShownAs(a)
      BY <1>1, <1>7, <2>1, <2>2 DEF ShownAs
    <3> QED
      BY <1>1, <2>2, <3>1
  <2>3. CASE q \in rows
    BY <1>1, <1>7, <2>1, <2>3 DEF Numbered
  <2> QED
    BY <1>1, <2>2, <2>3
<1>8. ASSUME NEW r \in rows', NEW q \in rows', r.known, q.known, r.name = q.name PROVE r = q
  <2>1. r \in rows /\ q \in rows
    BY <1>1, <1>8
  <2> QED
    BY <1>8, <2>1 DEF OneRow
<1>9. Numbered'
  BY <1>2, <1>3, <1>4, <1>5, <1>6, <1>7 DEF Numbered
<1>10. OneRow'
  BY <1>8 DEF OneRow
<1> QED
  BY <1>9, <1>10

LEMMA AnswerNumbers ==
    ASSUME TypeInv, Numbered, NEW k \in Requests, Answer(k)
    PROVE  Numbered' /\ OneRow'
<1>1. /\ \A r \in rows' : r.number = 0 /\ r.known
      /\ \A r, q \in rows' : r.name = q.name => r = q
  <2> DEFINE row(b) == [number |-> 0, name |-> b, known |-> TRUE, shown |-> log[aread[k]][b],
                        error |-> FALSE]
  <2>1. \A r \in rows' : \E b : r = row(b)
    BY DEF Answer, Fetched
  <2>2. \A b : row(b).number = 0 /\ row(b).known /\ row(b).name = b
    OBVIOUS
  <2>3. ASSUME NEW r \in rows' PROVE r = row(r.name) /\ r.number = 0 /\ r.known
    <3>1. PICK b : r = row(b)
      BY <2>1
    <3>2. r.name = b
      BY <2>2, <3>1
    <3> QED
      BY <2>2, <3>1, <3>2
  <2> HIDE DEF row
  <2> QED
    BY <2>3
<1>2. /\ made \in Nat /\ UNCHANGED <<made, waiting, again>>
      /\ \A b \in Accounts : waiting[b] <= made
  BY Numerals DEF Answer, Numbered
<1>3. Numbered'
  BY <1>1, <1>2 DEF Numbered
<1> QED
  BY <1>1, <1>3 DEF OneRow

LEMMA FillNumbers ==
    ASSUME TypeInv, Numbered, OneRow, NEW e, e.name \in Accounts, e.at \in Commits, Fill(e),
           UNCHANGED again
    PROVE  Numbered' /\ OneRow'
<1> DEFINE S == About(e)
           a == e.name
<1>1. /\ S \subseteq rows
      /\ \A r \in rows' : r \in rows \ S \/ \E q \in S : r = Now(q, e)
      /\ \A r \in S :
            /\ r.name = a /\ Now(r, e).number = r.number /\ Now(r, e).name = a /\ Now(r, e).known
      /\ \A r, q \in S : r = q
      /\ \A r \in rows \ S : r.name = a => ~r.known /\ r.number \in again
  BY Filled
<1>2. made' = made /\ again' = again /\ a \in Accounts
      /\ waiting'[a] = 0 /\ \A b \in Accounts : b # a => waiting'[b] = waiting[b]
  BY DEF Fill, TypeInv, TypeOK
<1>3. made \in Nat /\ \A r \in rows : r.name \in Accounts /\ r.number \in Nat
  BY Numerals
<1> HIDE DEF S, a
\* Where a row comes from.
<1>4. ASSUME NEW r \in rows'
      PROVE  \E q \in rows : /\ q.number = r.number /\ q.name = r.name
                             /\ r = q \/ (q \in S /\ r = Now(q, e))
                             /\ ~r.known => r = q
                             /\ (r = q /\ q \notin S) \/ (q \in S /\ r = Now(q, e))
  BY <1>1, <1>4
<1>5. ASSUME NEW r \in rows' PROVE r.number <= made' /\ (r.known \/ r.number # 0)
  <2>1. CASE r \in rows \ S
    BY <1>2, <2>1 DEF Numbered
  <2>2. CASE \E q \in S : r = Now(q, e)
    BY <1>1, <1>2, <2>2 DEF Numbered
  <2> QED
    BY <1>1, <2>1, <2>2
<1>6. ASSUME NEW r \in rows', NEW q \in rows', r.number # 0, r.number = q.number PROVE r = q
  <2>1. PICK r0 \in rows : r0.number = r.number
                           /\ ((r = r0 /\ r0 \notin S) \/ (r0 \in S /\ r = Now(r0, e)))
    BY <1>4
  <2>2. PICK q0 \in rows : q0.number = q.number
                           /\ ((q = q0 /\ q0 \notin S) \/ (q0 \in S /\ q = Now(q0, e)))
    BY <1>4
  <2>3. r0 = q0
    BY <1>6, <2>1, <2>2 DEF Numbered
  <2> QED
    BY <2>1, <2>2, <2>3
<1>7. ASSUME NEW b \in Accounts PROVE waiting'[b] <= made'
  BY <1>2, <1>3 DEF Numbered
<1>8. ASSUME NEW r \in rows', NEW b \in Accounts, r.number # 0, waiting'[b] = r.number
      PROVE  r.name = b /\ ~r.known
  <2>1. b # a /\ waiting[b] = r.number
    BY <1>2, <1>8
  <2>2. PICK q \in rows : /\ q.number = r.number /\ q.name = r.name
                          /\ (r = q /\ q \notin S) \/ (q \in S /\ r = Now(q, e))
    BY <1>4
  <2>3. q.name = b /\ ~q.known
    BY <1>8, <2>1, <2>2 DEF Numbered
  <2>4. q \notin S
    BY <1>1, <2>1, <2>3
  <2> QED
    BY <2>2, <2>3, <2>4
\* A row that still waits.
<1>9. ASSUME NEW r \in rows', ~r.known
      PROVE  r \in rows /\ (r.name = a => r.number \in again)
  BY <1>1, <1>9
<1>10. ASSUME NEW r \in rows', ~r.known PROVE waiting'[r.name] = r.number \/ r.number \in again'
  BY <1>2, <1>3, <1>9, <1>10 DEF Numbered
<1>11. ASSUME NEW r \in rows', NEW q \in rows', r.known, ~q.known, r.name = q.name
       PROVE  q.number \in again'
  <2>1. CASE q.name = a
    BY <1>2, <1>9, <1>11, <2>1
  <2>2. CASE q.name # a
    <3>1. q \in rows
      BY <1>9, <1>11
    <3>2. r \in rows
      BY <1>1, <1>11, <2>2
    <3> QED
      BY <1>2, <1>11, <3>1, <3>2 DEF Numbered
  <2> QED
    BY <2>1, <2>2
<1>12. ASSUME NEW r \in rows', NEW q \in rows', r.known, q.known, r.name = q.name PROVE r = q
  <2>1. CASE r.name = a
    <3>1. \A x \in rows' : x.known /\ x.name = a => \E y \in S : x = Now(y, e)
      BY <1>1
    <3>2. PICK y \in S : r = Now(y, e)
      BY <1>12, <2>1, <3>1
    <3>3. PICK z \in S : q = Now(z, e)
      BY <1>12, <2>1, <3>1
    <3> QED
      BY <1>1, <3>2, <3>3
  <2>2. CASE r.name # a
    <3>1. r \in rows /\ q \in rows
      BY <1>1, <1>12, <2>2
    <3> QED
      BY <1>12, <3>1 DEF OneRow
  <2> QED
    BY <2>1, <2>2
<1>13. Numbered'
  BY <1>5, <1>6, <1>7, <1>8, <1>10, <1>11 DEF Numbered
<1>14. OneRow'
  BY <1>12 DEF OneRow
<1> QED
  BY <1>13, <1>14

LEMMA InsertNumbers ==
    ASSUME TypeInv, Numbered, OneRow, NEW e, e.name \in Accounts, e.at \in Commits, Insert(e),
           UNCHANGED again
    PROVE  Numbered' /\ OneRow'
<1> DEFINE new == Now(NewRow(e.name), e)
           a == e.name
<1>1. /\ rows' = rows \union {new}
      /\ new.number = made + 1 /\ new.name = a /\ new.known
      /\ \A r \in rows : r.name = a => ~r.known /\ r.number \in again
      /\ \A r \in rows : r.number \in Nat /\ r.number <= made
      /\ made \in Nat
  BY Inserted
<1>2. made' = made + 1 /\ UNCHANGED <<waiting, again>>
  BY DEF Insert
<1>3. \A b \in Accounts : waiting[b] \in Nat /\ waiting[b] <= made
  BY Numerals DEF Numbered
<1> HIDE DEF new, a
<1>4. ASSUME NEW r \in rows' PROVE r.number <= made' /\ (r.known \/ r.number # 0)
  BY <1>1, <1>2 DEF Numbered
<1>5. ASSUME NEW r \in rows', NEW q \in rows', r.number # 0, r.number = q.number PROVE r = q
  BY <1>1, <1>5 DEF Numbered
<1>6. ASSUME NEW b \in Accounts PROVE waiting'[b] <= made'
  BY <1>1, <1>2, <1>3
<1>7. ASSUME NEW r \in rows', NEW b \in Accounts, r.number # 0, waiting'[b] = r.number
      PROVE  r.name = b /\ ~r.known
  <2>1. r \in rows
    BY <1>1, <1>2, <1>3, <1>7
  <2> QED
    BY <1>2, <1>7, <2>1 DEF Numbered
<1>8. ASSUME NEW r \in rows', ~r.known PROVE waiting'[r.name] = r.number \/ r.number \in again'
  BY <1>1, <1>2, <1>8 DEF Numbered
<1>9. ASSUME NEW r \in rows', NEW q \in rows', r.known, ~q.known, r.name = q.name
      PROVE  q.number \in again'
  BY <1>1, <1>2, <1>9 DEF Numbered
<1>10. ASSUME NEW r \in rows', NEW q \in rows', r.known, q.known, r.name = q.name PROVE r = q
  BY <1>1, <1>10 DEF OneRow
<1>11. Numbered'
  BY <1>4, <1>5, <1>6, <1>7, <1>8, <1>9 DEF Numbered
<1>12. OneRow'
  BY <1>10 DEF OneRow
<1> QED
  BY <1>11, <1>12

LEMMA ErrorNumbers ==
    ASSUME TypeInv, Numbered, OneRow, NEW e, e.name \in Accounts, ShowError(e), UNCHANGED again
    PROVE  Numbered' /\ OneRow'
<1> DEFINE S == Waiting(e.name)
           mark(r) == [r EXCEPT !.error = TRUE]
<1>1. /\ S \subseteq rows
      /\ \A r \in rows' : r \in rows \ S \/ \E q \in S : r = mark(q)
      /\ \A r \in S : /\ mark(r).number = r.number /\ mark(r).name = r.name
                      /\ ~mark(r).known /\ ~r.known
  BY Warned
<1>2. UNCHANGED <<made, waiting, again>>
  BY DEF ShowError
<1> HIDE DEF S, mark
\* Where a row comes from.
<1>3. ASSUME NEW r \in rows'
      PROVE  \E q \in rows : /\ q.number = r.number /\ q.name = r.name /\ (r.known => r = q)
                             /\ (q.known => r = q)
                             /\ (r = q /\ q \notin S) \/ (q \in S /\ r = mark(q))
  BY <1>1, <1>3
<1>4. ASSUME NEW r \in rows' PROVE r.number <= made' /\ (r.known \/ r.number # 0)
  BY <1>1, <1>2, <1>4 DEF Numbered
<1>5. ASSUME NEW r \in rows', NEW q \in rows', r.number # 0, r.number = q.number PROVE r = q
  <2>1. PICK r0 \in rows : r0.number = r.number
                           /\ ((r = r0 /\ r0 \notin S) \/ (r0 \in S /\ r = mark(r0)))
    BY <1>3
  <2>2. PICK q0 \in rows : q0.number = q.number
                           /\ ((q = q0 /\ q0 \notin S) \/ (q0 \in S /\ q = mark(q0)))
    BY <1>3
  <2>3. r0 = q0
    BY <1>5, <2>1, <2>2 DEF Numbered
  <2> QED
    BY <2>1, <2>2, <2>3
<1>6. ASSUME NEW b \in Accounts PROVE waiting'[b] <= made'
  BY <1>2 DEF Numbered
<1>7. ASSUME NEW r \in rows', NEW b \in Accounts, r.number # 0, waiting'[b] = r.number
      PROVE  r.name = b /\ ~r.known
  <2>1. PICK q \in rows : q.number = r.number /\ q.name = r.name /\ (r.known => r = q)
    BY <1>3
  <2> QED
    BY <1>2, <1>7, <2>1 DEF Numbered
<1>8. ASSUME NEW r \in rows', ~r.known PROVE waiting'[r.name] = r.number \/ r.number \in again'
  <2>1. PICK q \in rows : q.number = r.number /\ q.name = r.name /\ (q.known => r = q)
    BY <1>3
  <2>2. ~q.known
    BY <1>8, <2>1
  <2> QED
    BY <1>2, <2>1, <2>2 DEF Numbered
<1>9. ASSUME NEW r \in rows', NEW q \in rows', r.known, ~q.known, r.name = q.name
      PROVE  q.number \in again'
  <2>1. PICK q0 \in rows : q0.number = q.number /\ q0.name = q.name /\ (q0.known => q = q0)
    BY <1>3
  <2>2. r \in rows /\ ~q0.known
    BY <1>3, <1>9, <2>1
  <2> QED
    BY <1>2, <1>9, <2>1, <2>2 DEF Numbered
<1>10. ASSUME NEW r \in rows', NEW q \in rows', r.known, q.known, r.name = q.name PROVE r = q
  <2>1. r \in rows /\ q \in rows
    BY <1>3, <1>10
  <2> QED
    BY <1>10, <2>1 DEF OneRow
<1>11. Numbered'
  BY <1>4, <1>5, <1>6, <1>7, <1>8, <1>9 DEF Numbered
<1>12. OneRow'
  BY <1>10 DEF OneRow
<1> QED
  BY <1>11, <1>12

LEMMA NumberedStep ==
    ASSUME TypeInv, Known, Numbered, OneRow, [Next]_vars PROVE Numbered' /\ OneRow'
<1>1. ASSUME Handle PROVE Numbered' /\ OneRow'
  <2> DEFINE e == Head(wire)
  <2>1. /\ e.name \in Accounts /\ e.at \in Commits /\ UNCHANGED again
        /\ Ignore(e) \/ ShowError(e) \/ Fill(e) \/ Insert(e)
    BY <1>1, Event
  <2>2. Ignore(e) => Numbered' /\ OneRow'
    <3>1. Ignore(e) => UNCHANGED <<rows, made, waiting>>
      BY DEF Ignore
    <3> HIDE DEF e
    <3> QED
      BY <2>1, <3>1 DEF Numbered, OneRow
  <2> HIDE DEF e
  <2> QED
    BY <2>1, <2>2, ErrorNumbers, FillNumbers, InsertNumbers
<1>2. ASSUME rows' \subseteq rows, UNCHANGED <<made, waiting, again>> PROVE Numbered' /\ OneRow'
  <2>1. Numbered'
    BY <1>2 DEF Numbered
  <2> QED
    BY <1>2, <2>1 DEF OneRow
<1> QED
  BY <1>1, <1>2, SubmitNumbers, AnswerNumbers, RowChanges

-----------------------------------------------------------------------------
(* From commit to list *)

\* Which profiles an event changes in the list, and what the rows then show.
LEMMA Shows ==
    ASSUME TypeInv, Known, Fetching, Numbered, OneRow, Handle
    PROVE  LET e == Head(wire)
           IN  /\ \A b \in Accounts :
                     b # e.name \/ e.error \/ applied = 0 =>
                        /\ ShownAs(b)' = ShownAs(b)
                        /\ b \in undone' <=> b \in undone
                        /\ b \in hidden => b \in hidden' \/ b = e.name
                        /\ b \in hidden /\ (e.error \/ applied = 0) => b \in hidden'
               /\ applied # 0 /\ ~e.error =>
                     \A b \in Accounts :
                        b = e.name => /\ \A r \in ShownAs(b)' : r.shown = e.at
                                      /\ ShownAs(b)' # {} \/ b \in hidden'
               /\ \A r \in rows' :
                     ~r.known /\ ~r.error =>
                        r \in rows /\ (r.name = e.name => r.number \in again)
<1> DEFINE e == Head(wire)
           Same(b) == /\ ShownAs(b)' = ShownAs(b)
                      /\ b \in undone' <=> b \in undone
                      /\ b \in hidden => b \in hidden' \/ b = e.name
                      /\ b \in hidden /\ (e.error \/ applied = 0) => b \in hidden'
           Tells(b) == /\ \A r \in ShownAs(b)' : r.shown = e.at
                       /\ ShownAs(b)' # {} \/ b \in hidden'
           Waits(r) == ~r.known /\ ~r.error =>
                          r \in rows /\ (r.name = e.name => r.number \in again)
<1>1. /\ e.name \in Accounts /\ e.at \in Commits
      /\ Ignore(e) \/ ShowError(e) \/ Fill(e) \/ Insert(e)
      /\ e.error \/ applied = 0 => Ignore(e) \/ ShowError(e)
  BY Event
<1>2. CASE Ignore(e)
  <2>1. applied = 0 /\ rows = {} /\ UNCHANGED <<rows, undone, hidden>>
    BY <1>2 DEF Ignore, Fetching
  <2>2. \A b \in Accounts : Same(b)
    BY <2>1 DEF ShownAs
  <2>3. \A r \in rows' : Waits(r)
    BY <2>1
  <2> QED
    BY <2>1, <2>2, <2>3
<1>3. CASE ShowError(e)
  <2>0. e.error /\ UNCHANGED <<undone, hidden>>
    BY <1>3 DEF ShowError
  <2> DEFINE S == Waiting(e.name)
             mark(r) == [r EXCEPT !.error = TRUE]
  <2>1. /\ S \subseteq rows
        /\ rows' = (rows \ S) \union {mark(r) : r \in S}
        /\ \A r \in S : ~r.known /\ ~mark(r).known /\ mark(r).error
        /\ \A r \in rows \ S : r.name = e.name => r.known \/ r.number \in again
    <3> HIDE DEF e
    <3> QED
      BY <1>1, <1>3, Warned
  <2> HIDE DEF S, mark
  <2>2. \A r : r \in rows' /\ r.known <=> r \in rows /\ r.known
    BY <2>1
  <2>3. ASSUME NEW b \in Accounts PROVE Same(b)
    <3>1. ShownAs(b)' = ShownAs(b)
      BY <2>2 DEF ShownAs
    <3> QED
      BY <2>0, <3>1
  <2>4. ASSUME NEW r \in rows' PROVE Waits(r)
    <3>1. ~r.error => r \in rows \ S
      BY <2>1
    <3> HIDE DEF e
    <3> QED
      BY <2>1, <3>1
  <2> QED
    BY <2>0, <2>3, <2>4
<1>4. CASE Fill(e)
  <2>0. /\ applied # 0 /\ ~e.error
        /\ \A b \in Accounts : b # e.name => (b \in undone' <=> b \in undone)
        /\ hidden' = hidden \union {a \in {e.name} : About(e) = {}}
    BY <1>4 DEF Fill
  <2> DEFINE S == About(e)
  <2>1. /\ S \subseteq rows
        /\ rows' = (rows \ S) \union {Now(r, e) : r \in S}
        /\ \A r \in S : /\ r.name = e.name /\ Now(r, e).name = e.name
                        /\ Now(r, e).known /\ Now(r, e).shown = e.at
        /\ \A r \in rows \ S : r.name = e.name => ~r.known /\ r.number \in again
    <3> HIDE DEF e
    <3> QED
      BY <1>1, <1>4, Filled
  <2>2. S = {} => e.name \in hidden'
    BY <2>0
  <2> HIDE DEF S, e
  <2>3. \A r : r.name # e.name => (r \in rows' <=> r \in rows)
    BY <2>1
  <2>4. ASSUME NEW b \in Accounts, b # e.name PROVE Same(b)
    <3>1. ShownAs(b)' = ShownAs(b)
      BY <2>3, <2>4 DEF ShownAs
    <3> QED
      BY <2>0, <2>4, <3>1
  <2>5. ASSUME NEW b \in Accounts, b = e.name PROVE Tells(b)
    <3>1. \A r \in ShownAs(b)' : r.shown = e.at
      BY <2>1, <2>5 DEF ShownAs
    <3>2. S # {} => ShownAs(b)' # {}
      BY <2>1, <2>5 DEF ShownAs
    <3> QED
      BY <2>2, <2>5, <3>1, <3>2
  <2>6. ASSUME NEW r \in rows' PROVE Waits(r)
    BY <2>1
  <2> QED
    BY <2>0, <2>4, <2>5, <2>6 DEF e
<1>5. CASE Insert(e)
  <2>0. /\ applied # 0 /\ ~e.error
        /\ \A b \in Accounts : b # e.name => (b \in undone' <=> b \in undone)
        /\ hidden' = hidden \ {e.name}
    BY <1>5 DEF Insert
  <2> DEFINE new == Now(NewRow(e.name), e)
  <2>1. /\ rows' = rows \union {new} /\ new.name = e.name /\ new.known /\ new.shown = e.at
        /\ \A r \in rows : r.name = e.name => ~r.known /\ r.number \in again
    <3> HIDE DEF e
    <3> QED
      BY <1>1, <1>5, Inserted
  <2> HIDE DEF new, e
  <2>3. \A r : r.name # e.name => (r \in rows' <=> r \in rows)
    BY <2>1
  <2>4. ASSUME NEW b \in Accounts, b # e.name PROVE Same(b)
    <3>1. ShownAs(b)' = ShownAs(b)
      BY <2>3, <2>4 DEF ShownAs
    <3> QED
      BY <2>0, <2>4, <3>1
  <2>5. ASSUME NEW b \in Accounts, b = e.name PROVE Tells(b)
    BY <2>1, <2>5 DEF ShownAs
  <2>6. ASSUME NEW r \in rows' PROVE Waits(r)
    BY <2>1
  <2> QED
    BY <2>0, <2>4, <2>5, <2>6 DEF e
<1> QED
  BY <1>1, <1>2, <1>3, <1>4, <1>5

LEMMA PublishedStep ==
    ASSUME TypeInv, Logged, Known, [Next]_vars, NEW a \in Accounts, Published(a)
    PROVE  Published(a)'
<1>1. /\ Stored[a] \in Nat /\ told[a] \in Nat /\ told[a] <= Stored[a]
      /\ Stored'[a] \in Nat /\ told'[a] \in Nat
      /\ told'[a] <= Stored'[a] /\ told[a] <= told'[a]
  BY Numerals, Newer, Rising, KnownHeard DEF Known
<1>2. ASSUME NEW w \in Writers, Asks(w) \/ Ends(w) \/ Submit(w) PROVE Published(a)'
  <2>1. /\ UNCHANGED <<log, told, missed, wname, wread>> /\ wpc[w] \in {"new", "answer"}
        /\ \A v \in Writers : v # w => wpc'[v] = wpc[v]
    BY <1>2, AskedStep, EndedStep DEF Submit, TypeInv, TypeOK
  <2> QED
    BY <2>1 DEF Published, Stored
<1>3. ASSUME NEW w \in Writers, Store(w) PROVE Published(a)'
  <2>1. /\ UNCHANGED <<told, missed, wname, wread>> /\ wpc[w] = "asked" /\ wpc'[w] = "reload"
        /\ \A v \in Writers : v # w => wpc'[v] = wpc[v]
    BY <1>3 DEF Store, TypeInv, TypeOK
  <2>2. CASE a = wname[w]
    BY <2>1, <2>2 DEF Published
  <2>3. CASE a # wname[w]
    <3>1. Stored'[a] = Stored[a]
      BY <1>3, <2>3, Commit
    <3> QED
      BY <2>1, <3>1 DEF Published
  <2> QED
    BY <2>2, <2>3
<1>4. ASSUME NEW w \in Writers, Reload(w) PROVE Published(a)'
  <2>1. /\ UNCHANGED <<log, told, missed, wname>> /\ wpc[w] = "reload" /\ wpc'[w] = "publish"
        /\ wread'[w] = Stored[wname[w]]
        /\ \A v \in Writers : v # w => wpc'[v] = wpc[v] /\ wread'[v] = wread[v]
    BY <1>4 DEF Reload, TypeInv, TypeOK
  <2>2. Stored' = Stored
    BY <2>1 DEF Stored
  <2> QED
    BY <2>1, <2>2 DEF Published
<1>5. ASSUME NEW w \in Writers, Publish(w) PROVE Published(a)'
  <2>1. /\ UNCHANGED <<log, wname, wread>> /\ wpc[w] = "publish"
        /\ \A v \in Writers : v # w => wpc'[v] = wpc[v]
        /\ missed' = IF Outdated(w) THEN missed ELSE missed \ {wname[w]}
    BY <1>5 DEF Publish, TypeInv, TypeOK
  <2>2. Stored' = Stored
    BY <2>1 DEF Stored
  <2>3. CASE a # wname[w]
    <3>1. told'[a] = told[a] /\ (a \in missed => a \in missed')
      <4>1. told'[a] = told[a]
        BY <1>5, <2>3, Announced
      <4> QED
        BY <2>1, <2>3, <4>1
    <3> QED
      BY <2>1, <2>2, <2>3, <3>1 DEF Published
  <2>4. CASE a = wname[w] /\ Outdated(w)
    <3>1. missed' = missed /\ wread[w] # Stored[a]
      BY <2>1, <2>4 DEF Outdated
    <3>2. told[a] = Stored[a] => told'[a] = Stored'[a]
      BY <1>1, <2>2
    <3> QED
      BY <2>1, <2>2, <3>1, <3>2 DEF Published
  <2>5. CASE a = wname[w] /\ ~Outdated(w)
    <3>1. /\ wread[w] = Stored[a]
          /\ told'[a] = IF wread[w] < told[a] THEN told[a] ELSE wread[w]
      BY <1>5, <2>5, Announced DEF Outdated
    <3>2. told'[a] = Stored'[a]
      BY <1>1, <2>2, <3>1
    <3> QED
      BY <3>2 DEF Published
  <2> QED
    BY <2>3, <2>4, <2>5
<1>6. ASSUME NEW w \in Writers, Refuse(w) PROVE Published(a)'
  <2>1. /\ UNCHANGED <<log, told, missed, wname, wread>> /\ wpc[w] = "asked"
        /\ \A v \in Writers : v # w => wpc'[v] = wpc[v]
    BY <1>6 DEF Refuse, TypeInv, TypeOK
  <2> QED
    BY <2>1 DEF Published, Stored
<1>7. ASSUME NEW w \in Writers, Lose(w) PROVE Published(a)'
  <2>1. /\ UNCHANGED <<log, told, wname, wread>> /\ missed \subseteq missed'
        /\ wpc[w] = "asked" \/ wname[w] \in missed'
        /\ \A v \in Writers : v # w => wpc'[v] = wpc[v]
    BY <1>7 DEF Lose, TypeInv, TypeOK
  <2> QED
    BY <2>1 DEF Published, Stored
<1>8. ASSUME UNCHANGED <<log, told, missed, wpc, wname, wread>> PROVE Published(a)'
  BY <1>8 DEF Published, Stored
<1>9. \/ \E w \in Writers : \/ Asks(w) \/ Ends(w) \/ Submit(w) \/ Publish(w) \/ Refuse(w)
                            \/ Lose(w) \/ Store(w) \/ Reload(w)
      \/ UNCHANGED <<log, told, missed, wpc, wname, wread>>
  <2>1. CASE Next
    BY <2>1 DEF Next, WriterStep, Asks, Ends, Navigate, Read, Answer, NoAnswer, Dismiss, Timer,
                Handle
  <2>2. CASE UNCHANGED vars
    BY <2>2
  <2> QED
    BY <2>1, <2>2
<1> QED
  BY <1>2, <1>3, <1>4, <1>5, <1>6, <1>7, <1>8, <1>9

\* The events of a profile after the first one has gone.
LEMMA Remain ==
    ASSUME TypeInv, wire # <<>>, wire' = Tail(wire), NEW a \in Accounts
    PROVE  /\ \A i \in Nat : (i \in Sent(a)' <=> i + 1 \in Sent(a) /\ i # 0)
                             /\ (i \in News(a)' <=> i + 1 \in News(a) /\ i # 0)
           /\ Sent(a) \subseteq Nat /\ Sent(a)' \subseteq Nat
           /\ News(a) \subseteq Sent(a) /\ News(a)' \subseteq Sent(a)'
           /\ \A i \in Sent(a) : i # 0
           /\ \A i \in Sent(a)' : wire'[i] = wire[i + 1]
           /\ 1 \in Sent(a) <=> Head(wire).name = a
           /\ 1 \in News(a) <=> Head(wire).name = a /\ ~Head(wire).error
<1>1. /\ Len(wire) \in Nat \ {0} /\ DOMAIN wire = 1 .. Len(wire)
      /\ DOMAIN wire' = 1 .. Len(wire) - 1 /\ Head(wire) = wire[1]
      /\ \A i \in DOMAIN wire' : wire'[i] = wire[i + 1]
  BY FirstEvent
<1>2. ASSUME NEW i \in Nat
      PROVE  (i \in Sent(a)' <=> i + 1 \in Sent(a) /\ i # 0)
             /\ (i \in News(a)' <=> i + 1 \in News(a) /\ i # 0)
  <2>1. i \in DOMAIN wire' <=> i + 1 \in DOMAIN wire /\ i # 0
    BY <1>1
  <2>2. i \in DOMAIN wire' => wire'[i] = wire[i + 1]
    BY <1>1
  <2> QED
    BY <2>1, <2>2 DEF Sent, News
<1>3. /\ Sent(a) \subseteq Nat /\ Sent(a)' \subseteq Nat
      /\ News(a) \subseteq Sent(a) /\ News(a)' \subseteq Sent(a)'
      /\ \A i \in Sent(a) : i # 0
      /\ \A i \in Sent(a)' : wire'[i] = wire[i + 1]
  BY <1>1 DEF Sent, News
<1>4. 1 \in DOMAIN wire
  BY <1>1
<1>5. 1 \in Sent(a) <=> Head(wire).name = a
  BY <1>1, <1>4 DEF Sent
<1>6. 1 \in News(a) <=> Head(wire).name = a /\ ~Head(wire).error
  BY <1>1, <1>4 DEF Sent, News
<1> QED
  BY <1>2, <1>3, <1>5, <1>6

\* The events of a profile when one more is sent.
LEMMA OneMore ==
    ASSUME TypeInv, NEW x \in [name : Accounts, at : Commits, error : BOOLEAN],
           wire' = Append(wire, x), NEW a \in Accounts
    PROVE  LET n == Len(wire) + 1
           IN  /\ n \in Nat /\ n \notin Sent(a) /\ wire'[n] = x
               /\ Sent(a)' = Sent(a) \union {i \in {n} : x.name = a}
               /\ News(a)' = News(a) \union {i \in {n} : x.name = a /\ ~x.error}
               /\ \A i \in Sent(a) : i \in Nat /\ i < n /\ wire'[i] = wire[i]
               /\ News(a) \subseteq Sent(a)
<1> DEFINE n == Len(wire) + 1
<1>1. /\ Len(wire) \in Nat /\ DOMAIN wire = 1 .. Len(wire) /\ DOMAIN wire' = DOMAIN wire \union {n}
      /\ wire'[n] = x /\ \A i \in DOMAIN wire : wire'[i] = wire[i]
  <2>1. /\ Len(wire) \in Nat /\ DOMAIN wire = 1 .. Len(wire) /\ DOMAIN wire' = 1 .. n
        /\ wire'[n] = x /\ \A i \in DOMAIN wire : wire'[i] = wire[i]
    BY LastEvent
  <2> QED
    BY <2>1
<1>2. n \in Nat /\ n \notin DOMAIN wire /\ \A i \in DOMAIN wire : i \in Nat /\ i < n
  BY <1>1
<1> HIDE DEF n
<1>3. Sent(a)' = Sent(a) \union {i \in {n} : x.name = a}
  BY <1>1, <1>2 DEF Sent
<1>4. News(a)' = News(a) \union {i \in {n} : x.name = a /\ ~x.error}
  BY <1>1, <1>2, <1>3 DEF Sent, News
<1>5. Sent(a) \subseteq DOMAIN wire /\ News(a) \subseteq Sent(a)
  BY DEF Sent, News
<1> QED
  BY <1>1, <1>2, <1>3, <1>4, <1>5 DEF n

\* Steps that neither send nor handle an event, for one profile.
LEMMA ArrivesQuietly ==
    ASSUME NEW a \in Accounts, Arrives(a), UNCHANGED <<wire, told, crossed, heard>>,
           a \notin undone' =>
              \A r \in ShownAs(a)' : heard[a] <= r.shown \/ (r \in ShownAs(a) /\ a \notin undone)
    PROVE  Arrives(a)'
<1>1. Sent(a)' = Sent(a) /\ News(a)' = News(a)
  BY DEF Sent, News
<1> QED
  BY <1>1 DEF Arrives

LEMMA ArrivesPublish ==
    ASSUME TypeInv, Known, NEW a \in Accounts, Arrives(a), NEW w \in Writers, Publish(w)
    PROVE  Arrives(a)'
<1> DEFINE x == [name |-> wname[w], at |-> wread[w], error |-> FALSE]
           n == Len(wire) + 1
<1>1. /\ x \in [name : Accounts, at : Commits, error : BOOLEAN] /\ wire' = Append(wire, x)
      /\ x.name = wname[w] /\ x.at = wread[w] /\ ~x.error /\ wname[w] \in Accounts
      /\ wread[w] \in Nat /\ wread[w] <= Stored[wname[w]]
      /\ told'[wname[w]] = IF wread[w] < told[wname[w]] THEN told[wname[w]] ELSE wread[w]
      /\ (a # wname[w] => told'[a] = told[a])
  BY Announced
<1>2. /\ crossed' = IF ~Outdated(w) THEN crossed \ {wname[w]}
                    ELSE crossed \union {b \in {wname[w]} : wread[w] < told[b]}
      /\ UNCHANGED <<rows, heard, undone>>
  BY DEF Publish
<1> HIDE DEF x
<1>3. /\ n \in Nat /\ n \notin Sent(a) /\ wire'[n] = x
      /\ News(a)' = News(a) \union {i \in {n} : x.name = a /\ ~x.error}
      /\ \A i \in Sent(a) : i \in Nat /\ i < n /\ wire'[i] = wire[i]
      /\ News(a) \subseteq Sent(a)
  BY <1>1, OneMore
<1>4. /\ told[a] \in Nat /\ Stored[a] \in Nat /\ told[a] <= Stored[a]
  BY Numerals DEF Known
<1> HIDE DEF n
<1>5. CASE a # wname[w]
  <2>1. News(a)' = News(a) /\ told'[a] = told[a] /\ (a \in crossed => a \in crossed')
        /\ ShownAs(a)' = ShownAs(a)
    BY <1>1, <1>2, <1>3, <1>5 DEF ShownAs
  <2> QED
    BY <1>2, <1>3, <2>1 DEF Arrives
<1>6. CASE a = wname[w] /\ a \notin crossed'
  <2>1. told'[a] = wread[w]
    <3>1. CASE Outdated(w)
      <4>1. ~(wread[w] < told[a])
        BY <1>2, <1>6, <3>1
      <4> QED
        BY <1>1, <1>6, <4>1
    <3>2. CASE ~Outdated(w)
      BY <1>1, <1>4, <1>6, <3>2 DEF Outdated
    <3> QED
      BY <3>1, <3>2
  <2>2. n \in News(a)' /\ \A i \in News(a)' : i # n => i < n /\ i \in Nat
    BY <1>1, <1>3, <1>6
  <2>3. ASSUME NEW i \in News(a)', \A k \in News(a)' : k <= i PROVE wire'[i].at = told'[a]
    <3>1. n <= i
      BY <2>2, <2>3
    <3>2. i = n
      BY <1>3, <2>2, <3>1
    <3> QED
      BY <1>1, <1>3, <2>1, <3>2
  <2> QED
    BY <2>2, <2>3 DEF Arrives
<1>7. CASE a \in crossed'
  BY <1>7 DEF Arrives
<1> QED
  BY <1>5, <1>6, <1>7

LEMMA ArrivesRefuse ==
    ASSUME TypeInv, NEW a \in Accounts, Arrives(a), NEW w \in Writers, Refuse(w)
    PROVE  Arrives(a)'
<1> DEFINE x == [name |-> wname[w], at |-> 0, error |-> TRUE]
<1>1. x \in [name : Accounts, at : Commits, error : BOOLEAN] /\ wire' = Append(wire, x) /\ x.error
      /\ UNCHANGED <<told, heard, crossed, undone, rows>>
  BY Failed DEF Refuse
<1> HIDE DEF x
<1>2. /\ News(a)' = News(a) /\ News(a) \subseteq Sent(a)
      /\ \A i \in Sent(a) : wire'[i] = wire[i]
  <2> DEFINE n == Len(wire) + 1
  <2>1. /\ News(a)' = News(a) \union {i \in {n} : x.name = a /\ ~x.error}
        /\ \A i \in Sent(a) : wire'[i] = wire[i]
        /\ News(a) \subseteq Sent(a)
    BY <1>1, OneMore
  <2> HIDE DEF n
  <2>2. {i \in {n} : x.name = a /\ ~x.error} = {}
    BY <1>1
  <2> QED
    BY <2>1, <2>2
<1>3. ShownAs(a)' = ShownAs(a)
  BY <1>1 DEF ShownAs
<1> QED
  BY <1>1, <1>2, <1>3 DEF Arrives

LEMMA ArrivesHandle ==
    ASSUME TypeInv, Known, Fetching, Numbered, OneRow, NEW a \in Accounts, Arrives(a), Handle
    PROVE  Arrives(a)'
<1> DEFINE e == Head(wire)
<1>1. /\ wire # <<>> /\ wire' = Tail(wire) /\ UNCHANGED <<told, crossed, applied>>
      /\ e.at \in Nat
  BY Event
<1>2. /\ \A i \in Nat : i \in News(a)' <=> i + 1 \in News(a) /\ i # 0
      /\ News(a) \subseteq Nat /\ News(a)' \subseteq Nat /\ \A i \in News(a) : i # 0
      /\ \A i \in News(a)' : wire'[i] = wire[i + 1]
      /\ 1 \in News(a) <=> e.name = a /\ ~e.error
  BY <1>1, Remain
<1>3. e = wire[1] /\ heard[a] \in Nat /\ told[a] \in Nat /\ heard[a] <= told[a]
  BY <1>1, FirstEvent, Numerals DEF Known
<1>4. /\ e.error => heard' = heard
      /\ ~e.error => heard'[e.name] = IF e.at < heard[e.name] THEN heard[e.name] ELSE e.at
      /\ a # e.name => heard'[a] = heard[a]
  BY Hears
<1>5. /\ a # e.name \/ e.error \/ applied = 0 =>
            ShownAs(a)' = ShownAs(a) /\ (a \in undone' <=> a \in undone)
      /\ applied # 0 /\ ~e.error /\ a = e.name => \A r \in ShownAs(a)' : r.shown = e.at
      /\ applied = 0 => ShownAs(a) = {}
  <2>1. applied = 0 => ShownAs(a) = {}
    BY DEF Fetching, ShownAs
  <2> QED
    BY <2>1, Shows
<1> HIDE DEF e
<1>6. CASE a \in crossed
  BY <1>1, <1>6 DEF Arrives
<1>7. CASE a \notin crossed
  <2>1. /\ \A i \in News(a) : (\A k \in News(a) : k <= i) => wire[i].at = told[a]
        /\ News(a) = {} =>
              /\ heard[a] = told[a]
              /\ a \notin undone => \A r \in ShownAs(a) : heard[a] <= r.shown
    BY <1>7 DEF Arrives
  <2>2. ASSUME NEW i \in News(a)', \A k \in News(a)' : k <= i PROVE wire'[i].at = told[a]
    <3>1. i \in Nat /\ i # 0 /\ i + 1 \in News(a) /\ wire'[i] = wire[i + 1]
      BY <1>2
    <3>2. ASSUME NEW k \in News(a) PROVE k <= i + 1
      <4>1. k \in Nat /\ k # 0
        BY <1>2
      <4>2. CASE k = 1
        BY <3>1, <4>2
      <4>3. CASE k # 1
        <5>1. k - 1 \in Nat /\ k - 1 # 0 /\ (k - 1) + 1 = k
          BY <4>1, <4>3
        <5>2. k - 1 \in News(a)'
          BY <1>2, <5>1
        <5>3. k - 1 <= i
          BY <2>2, <5>2
        <5> QED
          BY <3>1, <4>1, <5>3
      <4> QED
        BY <4>2, <4>3
    <3> QED
      BY <2>1, <3>1, <3>2
  <2>3. ASSUME News(a)' = {}
        PROVE  /\ heard'[a] = told[a]
               /\ a \notin undone' => \A r \in ShownAs(a)' : heard'[a] <= r.shown
    <3>1. ASSUME NEW k \in News(a) PROVE k = 1
      <4>1. k \in Nat /\ k # 0
        BY <1>2
      <4>2. ASSUME k # 1 PROVE FALSE
        <5>1. k - 1 \in Nat /\ k - 1 # 0 /\ (k - 1) + 1 = k
          BY <4>1, <4>2
        <5> QED
          BY <1>2, <2>3, <5>1
      <4> QED
        BY <4>2
    <3>2. CASE e.name = a /\ ~e.error
      <4>1. 1 \in News(a) /\ e.at = told[a]
        BY <1>2, <1>3, <2>1, <3>1, <3>2
      <4>2. heard'[a] = e.at
        BY <1>1, <1>3, <1>4, <3>2, <4>1
      <4>3. \A r \in ShownAs(a)' : r.shown = e.at
        BY <1>5, <3>2
      <4> QED
        BY <1>1, <4>1, <4>2, <4>3
    <3>3. CASE e.name # a \/ e.error
      <4>1. News(a) = {}
        BY <1>2, <3>1, <3>3
      <4>2. heard'[a] = heard[a]
        BY <1>4, <3>3
      <4> QED
        BY <1>5, <2>1, <3>3, <4>1, <4>2
    <3> QED
      BY <3>2, <3>3
  <2> QED
    BY <1>1, <2>2, <2>3 DEF Arrives
<1> QED
  BY <1>6, <1>7

LEMMA ArrivesStep ==
    ASSUME TypeInv, Logged, Known, Fetching, Numbered, OneRow, [Next]_vars, NEW a \in Accounts,
           Arrives(a)
    PROVE  Arrives(a)'
<1>1. ASSUME NEW k \in Requests, Answer(k) PROVE Arrives(a)'
  <2>1. UNCHANGED <<wire, told, crossed, heard>>
    BY <1>1 DEF Answer
  <2>2. ASSUME a \notin undone', NEW r \in ShownAs(a)' PROVE heard[a] <= r.shown
    <3>1. r.shown = log[aread[k]][a]
      <4>1. PICK b : r = [number |-> 0, name |-> b, known |-> TRUE, shown |-> log[aread[k]][b],
                          error |-> FALSE]
        BY <1>1, <2>2 DEF ShownAs, Answer, Fetched
      <4>2. r.name = b /\ r.shown = log[aread[k]][b] /\ r.name = a
        BY <2>2, <4>1 DEF ShownAs
      <4> QED
        BY <4>2
    <3>2. aread[k] \in DOMAIN log
      BY <1>1, ReadTable DEF Answer
    <3>3. ~(log[aread[k]][a] < heard[a])
      BY <1>1, <2>2 DEF Answer
    <3> QED
      BY <3>1, <3>2, <3>3, Numerals
  <2> QED
    BY <2>1, <2>2, ArrivesQuietly
<1>2. ASSUME NEW w \in Writers, Submit(w) PROVE Arrives(a)'
  <2>1. UNCHANGED <<wire, told, crossed, heard, undone>>
    BY <1>2 DEF Submit
  <2>2. ShownAs(a)' = ShownAs(a)
    BY <1>2 DEF Submit, NewRow, ShownAs
  <2>3. a \notin undone' =>
           \A r \in ShownAs(a)' : heard[a] <= r.shown \/ (r \in ShownAs(a) /\ a \notin undone)
    BY <2>1, <2>2
  <2> QED
    BY <2>1, <2>3, ArrivesQuietly
<1>3. ASSUME UNCHANGED <<wire, told, crossed, heard, undone>>, rows' \subseteq rows
      PROVE  Arrives(a)'
  <2>1. a \notin undone' =>
           \A r \in ShownAs(a)' : heard[a] <= r.shown \/ (r \in ShownAs(a) /\ a \notin undone)
    BY <1>3 DEF ShownAs
  <2> QED
    BY <1>3, <2>1, ArrivesQuietly
<1>4. \/ \E w \in Writers : Submit(w) \/ Publish(w) \/ Refuse(w)
      \/ \E k \in Requests : Answer(k)
      \/ Handle
      \/ UNCHANGED <<wire, told, crossed, heard, undone>> /\ rows' \subseteq rows
  BY DEF Next, WriterStep, OthersAsk, Rate, Rated, Unanswered, Store, Reload, Lose, Navigate,
         Read, NoAnswer, Dismiss, Timer
<1> QED
  BY <1>1, <1>2, <1>3, <1>4, ArrivesPublish, ArrivesRefuse, ArrivesHandle

LEMMA UnshownStep ==
    ASSUME TypeInv, Logged, Known, Fetching, Numbered, OneRow, [Next]_vars, NEW a \in Accounts,
           Unshown(a)
    PROVE  Unshown(a)'
<1>0. /\ asked \in Nat /\ applied \in Nat /\ applied <= asked /\ heard[a] \in Nat
      /\ applied # 0 => applied \in Requests /\ aread[applied] # 0 /\ aread[applied] \in DOMAIN log
  <2>1. asked \in Nat /\ applied \in Nat /\ applied <= asked /\ heard[a] \in Nat
    BY Numerals DEF Fetching
  <2>2. ASSUME applied # 0
        PROVE  applied \in Requests /\ aread[applied] # 0 /\ aread[applied] \in DOMAIN log
    <3>1. applied \in Requests /\ aread[applied] # 0
      BY <2>2 DEF TypeInv, TypeOK, Fetching
    <3> QED
      BY <3>1, ReadTable
  <2> QED
    BY <2>1, <2>2
<1> DEFINE Gone == applied # 0 /\ a \in Listed[wanted[applied]] \ (hidden \union removed)
                   /\ ShownAs(a) = {}
           Unheard == heard[a] = 0 \/ a \in undone
\* Most steps leave the answer alone, and do not help a profile that is gone.
<1>1. ASSUME applied # 0 => log'[aread'[applied]][a] = log[aread[applied]][a]
                            /\ wanted'[applied] = wanted[applied],
             applied' = applied,
             applied # 0 /\ a \notin hidden' \union removed' /\ ShownAs(a)' = {} =>
                /\ a \notin hidden \union removed /\ ShownAs(a) = {}
                /\ Unheard => Unheard'
      PROVE  Unshown(a)'
  BY <1>1 DEF Unshown
<1>2. ASSUME NEW w \in Writers, Store(w) PROVE Unshown(a)'
  <2>1. UNCHANGED <<applied, aread, wanted, hidden, removed, rows, heard, undone>>
    BY <1>2 DEF Store
  <2>2. applied # 0 => log'[aread[applied]] = log[aread[applied]]
    BY <1>0, <1>2, Commit
  <2>3. ShownAs(a)' = ShownAs(a)
    BY <2>1 DEF ShownAs
  <2> QED
    BY <1>1, <2>1, <2>2, <2>3
<1>3. ASSUME NEW u \in Urls, Navigate(u) PROVE Unshown(a)'
  <2>1. UNCHANGED <<log, applied, aread, hidden, removed, rows, heard, undone>>
    BY <1>3 DEF Navigate
  <2>2. applied # 0 => wanted'[applied] = wanted[applied]
    <3>1. applied # asked + 1
      BY <1>0
    <3> QED
      BY <1>0, <1>3, <3>1 DEF Navigate, TypeInv, TypeOK
  <2>3. ShownAs(a)' = ShownAs(a)
    BY <2>1 DEF ShownAs
  <2> QED
    BY <1>1, <2>1, <2>2, <2>3
<1>4. ASSUME NEW k \in Requests, Read(k) PROVE Unshown(a)'
  <2>1. UNCHANGED <<log, applied, wanted, hidden, removed, rows, heard, undone>>
    BY <1>4 DEF Read
  <2>2. applied # 0 => aread'[applied] = aread[applied]
    BY <1>0, <1>4 DEF Read, TypeInv, TypeOK
  <2>3. ShownAs(a)' = ShownAs(a)
    BY <2>1 DEF ShownAs
  <2> QED
    BY <1>1, <2>1, <2>2, <2>3
<1>5. ASSUME NEW k \in Requests, Answer(k) PROVE Unshown(a)'
  <2>1. UNCHANGED <<log, aread, wanted, heard>> /\ applied' = k /\ rows' = Fetched(k)
    BY <1>5 DEF Answer
  <2>2. a \in undone' <=> log[aread[k]][a] < heard[a]
    BY <1>5 DEF Answer
  <2>3. ASSUME a \in Listed[wanted[k]], ShownAs(a)' = {} PROVE log[aread[k]][a] = 0
    <3> DEFINE r == [number |-> 0, name |-> a, known |-> TRUE, shown |-> log[aread[k]][a],
                     error |-> FALSE]
    <3>1. log[aread[k]][a] # 0 => r \in rows'
      BY <2>1, <2>3 DEF Fetched
    <3>2. r \notin rows'
      BY <2>3 DEF ShownAs
    <3> QED
      BY <3>1, <3>2
  <2>4. log[aread[k]][a] = 0 => heard[a] = 0 \/ log[aread[k]][a] < heard[a]
    BY <1>0
  <2> QED
    BY <2>1, <2>2, <2>3, <2>4 DEF Unshown
<1>6. ASSUME NEW w \in Writers, Submit(w) PROVE Unshown(a)'
  <2>1. UNCHANGED <<log, applied, aread, wanted, hidden, removed, heard, undone>>
    BY <1>6 DEF Submit
  <2>2. ShownAs(a)' = ShownAs(a)
    BY <1>6 DEF Submit, NewRow, ShownAs
  <2> QED
    BY <1>1, <2>1, <2>2
<1>7. ASSUME UNCHANGED <<log, applied, aread, wanted, hidden, heard, undone>>,
             rows' \subseteq rows, removed' = removed \union {r.name : r \in rows \ rows'}
      PROVE  Unshown(a)'
  <2>1. a \notin removed' /\ ShownAs(a)' = {} => a \notin removed /\ ShownAs(a) = {}
    BY <1>7 DEF ShownAs
  <2> QED
    BY <1>1, <1>7, <2>1
<1>8. ASSUME NEW r \in rows, Dismiss(r)
      PROVE  /\ UNCHANGED <<log, applied, aread, wanted, hidden, heard, undone>>
             /\ rows' \subseteq rows /\ removed' = removed \union {q.name : q \in rows \ rows'}
  <2>1. rows \ rows' = {r}
    BY <1>8 DEF Dismiss
  <2> QED
    BY <1>8, <2>1 DEF Dismiss
<1>9. ASSUME NEW n \in timers, Timer(n)
      PROVE  /\ UNCHANGED <<log, applied, aread, wanted, hidden, heard, undone>>
             /\ rows' \subseteq rows /\ removed' = removed \union {r.name : r \in rows \ rows'}
  BY <1>9 DEF Timer
<1>10. ASSUME Handle PROVE Unshown(a)'
  <2> DEFINE e == Head(wire)
  <2>1. UNCHANGED <<log, applied, aread, wanted, removed>>
    BY <1>10, Event
  <2>2. /\ e.error => heard' = heard
        /\ a # e.name => heard'[a] = heard[a]
    BY <1>10, Hears
  <2>3. /\ a # e.name \/ e.error \/ applied = 0 =>
              /\ ShownAs(a)' = ShownAs(a) /\ (a \in undone' <=> a \in undone)
              /\ a \in hidden => a \in hidden' \/ a = e.name
              /\ a \in hidden /\ e.error => a \in hidden'
        /\ applied # 0 /\ ~e.error /\ a = e.name => ShownAs(a)' # {} \/ a \in hidden'
    BY <1>10, Shows
  <2> HIDE DEF e
  <2>4. CASE a # e.name \/ e.error
    BY <1>1, <2>1, <2>2, <2>3, <2>4
  <2>5. CASE a = e.name /\ ~e.error
    BY <1>1, <2>1, <2>3, <2>5
  <2> QED
    BY <2>4, <2>5
<1>11. ASSUME UNCHANGED <<log, applied, aread, wanted, hidden, removed, rows, heard, undone>>
       PROVE  Unshown(a)'
  <2>1. ShownAs(a)' = ShownAs(a)
    BY <1>11 DEF ShownAs
  <2> QED
    BY <1>1, <1>11, <2>1
<1>12. \/ \E w \in Writers : Store(w) \/ Submit(w)
       \/ \E u \in Urls : Navigate(u)
       \/ \E k \in Requests : Read(k) \/ Answer(k)
       \/ \E r \in rows : Dismiss(r)
       \/ \E n \in timers : Timer(n)
       \/ Handle
       \/ UNCHANGED <<log, applied, aread, wanted, hidden, removed, rows, heard, undone>>
  <2>1. ASSUME NEW w \in Writers, Reload(w) \/ Publish(w) \/ Refuse(w) \/ Lose(w)
        PROVE  UNCHANGED <<log, applied, aread, wanted, hidden, removed, rows, heard, undone>>
    BY <2>1 DEF Reload, Publish, Refuse, Lose
  <2>2. ASSUME NEW w \in Writers, Asks(w) \/ Ends(w)
        PROVE  UNCHANGED <<log, applied, aread, wanted, hidden, removed, rows, heard, undone>>
    BY <2>2, AskedStep, EndedStep
  <2>3. ASSUME NEW k \in Requests, NoAnswer(k)
        PROVE  UNCHANGED <<log, applied, aread, wanted, hidden, removed, rows, heard, undone>>
    BY <2>3 DEF NoAnswer
  <2> QED
    BY <2>1, <2>2, <2>3 DEF Next, WriterStep, Asks, Ends
<1> QED
  BY <1>2, <1>3, <1>4, <1>5, <1>6, <1>7, <1>8, <1>9, <1>10, <1>11, <1>12

\* A row that waits, neither filled nor doomed to wait.
Hopes(a) == \E r \in rows : r.name = a /\ ~r.known /\ ~r.error /\ r.number \notin again

LEMMA ExpectsStep ==
    ASSUME TypeInv, Logged, Known, Fetching, Numbered, OneRow, Unasked, [Next]_vars,
           NEW a \in Accounts, Expects(a)
    PROVE  Expects(a)'
<1> DEFINE Answered == \/ a \in missed \/ Sent(a) # {}
                       \/ \E w \in Under(Busy) : wname[w] = a /\ ~wput[w]
<1>0. /\ Expects(a) <=> (Hopes(a) => Answered)
      /\ Expects(a)' <=> (Hopes(a)' => Answered')
  BY DEF Expects, Hopes
<1>1. ASSUME NEW w \in Writers, Asks(w) \/ Ends(w) PROVE Expects(a)'
  <2>1. /\ UNCHANGED <<rows, again, missed, wire, wname>> /\ wpc[w] \in {"new", "answer"}
        /\ \A v \in Writers : v # w => wpc'[v] = wpc[v]
    BY <1>1, AskedStep, EndedStep DEF TypeInv, TypeOK
  <2>4. \A v \in Writers : v # w => wput'[v] = wput[v]
    BY <1>1 DEF Asks, Ends, OthersAsk, Rate, Rated, Unanswered, TypeInv, TypeOK
  <2>2. Answered => Answered'
    BY <2>1, <2>4 DEF Under, Busy, Sent
  <2>3. Hopes(a)' => Hopes(a)
    BY <2>1 DEF Hopes
  <2> QED
    BY <1>0, <2>2, <2>3
<1>2. ASSUME NEW w \in Writers, Submit(w) PROVE Expects(a)'
  <2>1. /\ UNCHANGED <<missed, wire, wname, wput>> /\ wpc[w] = "new" /\ wpc'[w] = "asked"
        /\ \A v \in Writers : v # w => wpc'[v] = wpc[v]
        /\ rows' = rows \union {NewRow(wname[w])} /\ NewRow(wname[w]).name = wname[w]
        /\ again \subseteq again'
    BY <1>2 DEF Submit, NewRow, TypeInv, TypeOK
  <2>2. Answered => Answered'
    BY <2>1 DEF Under, Busy, Sent
  <2>3. Hopes(a)' => Hopes(a) \/ a = wname[w]
    BY <2>1 DEF Hopes
  <2>4. a = wname[w] => Answered'
    BY <2>1 DEF Under, Busy, Unasked
  <2> QED
    BY <1>0, <2>2, <2>3, <2>4
<1>3. ASSUME NEW w \in Writers, Store(w) \/ Reload(w) PROVE Expects(a)'
  <2>1. /\ UNCHANGED <<rows, again, missed, wire, wname, wput>> /\ wpc'[w] \in Busy
        /\ \A v \in Writers : v # w => wpc'[v] = wpc[v]
    BY <1>3 DEF Store, Reload, TypeInv, TypeOK, Busy
  <2>2. Answered => Answered'
    BY <2>1 DEF Under, Sent
  <2>3. Hopes(a)' => Hopes(a)
    BY <2>1 DEF Hopes
  <2> QED
    BY <1>0, <2>2, <2>3
<1>4. ASSUME NEW w \in Writers, Publish(w) \/ Refuse(w) PROVE Expects(a)'
  <2>1. /\ UNCHANGED <<rows, again, wname, wput>>
        /\ \A v \in Writers : v # w => wpc'[v] = wpc[v]
        /\ \A b \in Accounts : b # wname[w] /\ b \in missed => b \in missed'
    BY <1>4 DEF Publish, Refuse, TypeInv, TypeOK
  <2>2. \E x \in [name : Accounts, at : Commits, error : BOOLEAN] :
           wire' = Append(wire, x) /\ x.name = wname[w]
    BY <1>4, Announced, Failed
  <2>3. Sent(a) # {} \/ a = wname[w] => Sent(a)' # {}
    <3>1. PICK x \in [name : Accounts, at : Commits, error : BOOLEAN] :
             wire' = Append(wire, x) /\ x.name = wname[w]
      BY <2>2
    <3> DEFINE n == Len(wire) + 1
    <3>2. Sent(a)' = Sent(a) \union {i \in {n} : x.name = a}
      BY <3>1, OneMore
    <3> HIDE DEF n
    <3> QED
      BY <3>1, <3>2
  <2>4. Answered => Answered'
    BY <2>1, <2>3 DEF Under
  <2>5. Hopes(a)' => Hopes(a)
    BY <2>1 DEF Hopes
  <2> QED
    BY <1>0, <2>4, <2>5
<1>5. ASSUME NEW w \in Writers, Lose(w) PROVE Expects(a)'
  <2>1. /\ UNCHANGED <<rows, again, wire, wname, wput>> /\ missed \subseteq missed'
        /\ wput[w] \/ wname[w] \in missed'
        /\ \A v \in Writers : v # w => wpc'[v] = wpc[v]
    BY <1>5 DEF Lose, TypeInv, TypeOK
  <2>2. Answered => Answered'
    BY <2>1 DEF Under, Sent
  <2>3. Hopes(a)' => Hopes(a)
    BY <2>1 DEF Hopes
  <2> QED
    BY <1>0, <2>2, <2>3
<1>6. ASSUME UNCHANGED <<missed, wire, wpc, wname, wput, again>>,
             rows' \subseteq rows \/ \A r \in rows' : r.known
      PROVE  Expects(a)'
  <2>1. Answered => Answered'
    BY <1>6 DEF Under, Sent
  <2>2. Hopes(a)' => Hopes(a)
    BY <1>6 DEF Hopes
  <2> QED
    BY <1>0, <2>1, <2>2
<1>7. ASSUME NEW k \in Requests, Answer(k)
      PROVE  UNCHANGED <<missed, wire, wpc, wname, wput, again>> /\ \A r \in rows' : r.known
  <2>1. \A r \in rows' : r.known
    BY <1>7 DEF Answer, Fetched
  <2> QED
    BY <1>7, <2>1 DEF Answer
<1>8. ASSUME Handle PROVE Expects(a)'
  <2> DEFINE e == Head(wire)
  <2>1. wire # <<>> /\ wire' = Tail(wire) /\ UNCHANGED <<again, wpc, wname, wput, missed>>
    BY <1>8, Event DEF Handle
  <2>2. Hopes(a)' => Hopes(a) /\ a # e.name
    <3>1. \A r \in rows' : ~r.known /\ ~r.error =>
                              r \in rows /\ (r.name = e.name => r.number \in again)
      BY <1>8, Shows
    <3> HIDE DEF e
    <3> QED
      BY <2>1, <3>1 DEF Hopes
  <2>3. a # e.name /\ Sent(a) # {} => Sent(a)' # {}
    <3>1. /\ \A i \in Nat : i \in Sent(a)' <=> i + 1 \in Sent(a) /\ i # 0
          /\ Sent(a) \subseteq Nat /\ \A i \in Sent(a) : i # 0
          /\ 1 \in Sent(a) <=> e.name = a
      BY <2>1, Remain
    <3> HIDE DEF e
    <3>2. ASSUME a # e.name, NEW i \in Sent(a) PROVE i - 1 \in Sent(a)'
      <4>1. i \in Nat /\ i # 0 /\ i # 1
        BY <3>1, <3>2
      <4>2. i - 1 \in Nat /\ i - 1 # 0 /\ (i - 1) + 1 = i
        BY <4>1
      <4> QED
        BY <3>1, <4>2
    <3> QED
      BY <3>2
  <2>4. Answered /\ a # e.name => Answered'
    BY <2>1, <2>3 DEF Under
  <2> QED
    BY <1>0, <2>2, <2>4
<1>9. \/ \E w \in Writers : \/ Asks(w) \/ Ends(w) \/ Submit(w) \/ Store(w) \/ Reload(w)
                            \/ Publish(w) \/ Refuse(w) \/ Lose(w)
      \/ \E k \in Requests : Answer(k)
      \/ Handle
      \/ UNCHANGED <<missed, wire, wpc, wname, wput, again>> /\ rows' \subseteq rows
  BY DEF Next, WriterStep, Asks, Ends, Navigate, Read, NoAnswer, Dismiss, Timer
<1> QED
  BY <1>1, <1>2, <1>3, <1>4, <1>5, <1>6, <1>7, <1>8, <1>9

LEMMA UnaskedStep == ASSUME TypeInv, Unasked, [Next]_vars PROVE Unasked'
<1>1. ASSUME NEW w \in Writers, Asks(w) PROVE Unasked'
  <2>1. wpc'[w] = "asked" /\ \A v \in Writers : v # w => wpc'[v] = wpc[v]
    BY <1>1, AskedStep DEF TypeInv, TypeOK
  <2>2. \A v \in Writers : v # w => wput'[v] = wput[v]
    BY <1>1 DEF Asks, OthersAsk, Rate, TypeInv, TypeOK
  <2> QED
    BY <2>1, <2>2 DEF Unasked
<1>2. ASSUME NEW w \in Writers, wpc'[w] # "new" /\ wput' = wput,
             \A v \in Writers : v # w => wpc'[v] = wpc[v]
      PROVE  Unasked'
  BY <1>2 DEF Unasked
<1>3. ASSUME NEW w \in Writers,
             Ends(w) \/ Submit(w) \/ WriterStep(w) \/ Refuse(w) \/ Lose(w)
      PROVE  wpc'[w] # "new" /\ wput' = wput /\ \A v \in Writers : v # w => wpc'[v] = wpc[v]
  BY <1>3 DEF Ends, Rated, Unanswered, Submit, WriterStep, Store, Reload, Publish, Refuse, Lose,
              TypeInv, TypeOK
<1>4. ASSUME UNCHANGED <<wpc, wput>> PROVE Unasked'
  BY <1>4 DEF Unasked
<1>5. \/ \E w \in Writers : \/ Asks(w) \/ Ends(w) \/ Submit(w) \/ WriterStep(w) \/ Refuse(w)
                            \/ Lose(w)
      \/ UNCHANGED <<wpc, wput>>
  BY DEF Next, Asks, Ends, Navigate, Read, Answer, NoAnswer, Dismiss, Timer, Handle
<1> QED
  BY <1>1, <1>2, <1>3, <1>4, <1>5

-----------------------------------------------------------------------------
(* What the rows show of the interest and of the rest *)

\* A row stays as it is and keeps its interest, comes with an answer, is filled
\* or inserted for an event, or takes its interest from an answer.
Stays(r) ==
    /\ r \in rows /\ interest'[r.name] = interest[r.name] /\ (r.name \in setBack => r.name \in setBack')
    /\ r.name \in partial => r.name \in partial'
Comes(r) ==
    \E k \in Requests : Answer(k) /\ r.number = 0 /\ r.shown = log[aread[k]][r.name]
FromEvent(r) ==
    /\ interest'[r.name] = valued[r.shown] /\ UNCHANGED <<log, aread, applied, valued>>
    /\ r.name \in partial' \/ \E q \in rows : /\ q.number = r.number /\ q.name = r.name
                                             /\ Uncopied(q) = r.shown
Takes(r) == \E w \in Writers : Rated(w) /\ r \in rows /\ r.name = wname[w] /\ Clicked(w) # {}

LEMMA AnswerRows ==
    ASSUME NEW k \in Requests, Answer(k), NEW r \in rows'
    PROVE  r.number = 0 /\ r.shown = log[aread[k]][r.name]
<1>1. PICK a : r = [number |-> 0, name |-> a, known |-> TRUE, shown |-> log[aread[k]][a],
                    error |-> FALSE]
  BY DEF Answer, Fetched
<1>2. r.number = 0 /\ r.name = a /\ r.shown = log[aread[k]][a]
  BY <1>1
<1> QED
  BY <1>2

LEMMA EventRows ==
    ASSUME TypeInv, Known, Fetching, Numbered, OneRow, Handle, NEW r \in rows', r.known
    PROVE  Stays(r) \/ FromEvent(r)
<1> DEFINE e == Head(wire)
<1>1. /\ e.name \in Accounts /\ e.at \in Commits
      /\ Ignore(e) \/ ShowError(e) \/ Fill(e) \/ Insert(e)
      /\ UNCHANGED <<log, aread, applied, valued>> /\ interest \in Tables
  BY Event DEF Handle, TypeInv, TypeOK
<1> HIDE DEF e
<1>2. CASE Ignore(e)
  BY <1>2 DEF Ignore, Stays
<1>3. CASE ShowError(e)
  <2> DEFINE mark(q) == [q EXCEPT !.error = TRUE]
             S == Waiting(e.name)
  <2>1. /\ rows' = (rows \ S) \union {mark(q) : q \in S}
        /\ \A q \in S : ~mark(q).known
    BY <1>1, <1>3, Warned
  <2> HIDE DEF mark, S
  <2>2. r \in rows
    BY <2>1
  <2> QED
    BY <1>3, <2>2 DEF ShowError, Stays
\* What an event tells of its own profile, and leaves of the others.
<1>4. ASSUME Value(e)
      PROVE  /\ interest'[e.name] = valued[e.at]
             /\ r.name # e.name => /\ interest'[r.name] = interest[r.name]
                                   /\ r.name \in setBack => r.name \in setBack'
  BY <1>1, <1>4 DEF Value, Tables
<1>5. CASE Fill(e)
  <2> DEFINE S == About(e)
  <2>1. /\ S \subseteq rows
        /\ rows' = (rows \ S) \union {Now(q, e) : q \in S}
        /\ \A q \in S : /\ q.name = e.name /\ Now(q, e).name = q.name
                        /\ Now(q, e).number = q.number /\ Now(q, e).shown = e.at
        /\ \A q \in rows \ S : q.name = e.name => ~q.known
    BY <1>1, <1>5, Filled
  <2>2. Value(e) /\ partial' = partial \union {x.name : x \in {q \in S : Uncopied(q) # e.at}}
    BY <1>5 DEF Fill
  <2> HIDE DEF S
  <2>3. CASE r \in rows \ S
    BY <1>4, <2>1, <2>2, <2>3 DEF Stays
  <2>4. ASSUME NEW q \in S, r = Now(q, e) PROVE FromEvent(r)
    <3>1. r.name = e.name /\ r.shown = e.at /\ q.number = r.number /\ q.name = r.name /\ q \in rows
      BY <2>1, <2>4
    <3>2. r.name \in partial' \/ Uncopied(q) = r.shown
      BY <2>2, <2>4, <3>1
    <3> QED
      BY <1>1, <1>4, <2>2, <3>1, <3>2 DEF FromEvent
  <2> QED
    BY <2>1, <2>3, <2>4
<1>6. CASE Insert(e)
  <2> DEFINE new == Now(NewRow(e.name), e)
  <2>1. /\ rows' = rows \union {new} /\ new.name = e.name /\ new.shown = e.at
        /\ \A q \in rows : q.name = e.name => ~q.known
    BY <1>1, <1>6, Inserted
  <2>2. Value(e) /\ partial' = partial \union {e.name}
    BY <1>6 DEF Insert
  <2> HIDE DEF new
  <2> QED
    BY <1>1, <1>4, <2>1, <2>2 DEF Stays, FromEvent
<1> QED
  BY <1>1, <1>2, <1>3, <1>5, <1>6

LEMMA Sources ==
    ASSUME TypeInv, Known, Fetching, Numbered, OneRow, [Next]_vars, NEW r \in rows', r.known
    PROVE  Comes(r) \/ Takes(r) \/ FromEvent(r) \/ Stays(r)
<1>1. ASSUME NEW k \in Requests, Answer(k) PROVE Comes(r)
  BY <1>1, AnswerRows DEF Comes
<1>2. ASSUME Handle PROVE Stays(r) \/ FromEvent(r)
  BY <1>2, EventRows
<1>3. ASSUME NEW w \in Writers, Rated(w) PROVE Takes(r) \/ Stays(r)
  <2>1. wname[w] \in Accounts /\ interest \in Tables /\ rows' = rows /\ partial' = partial
    BY <1>3 DEF TypeInv, TypeOK, Rated
  <2>2. CASE r.name = wname[w] /\ Clicked(w) # {}
    BY <1>3, <2>1, <2>2 DEF Takes
  <2>3. CASE r.name # wname[w] \/ Clicked(w) = {}
    <3>1. interest'[r.name] = interest[r.name] /\ (r.name \in setBack => r.name \in setBack')
      BY <1>3, <2>1, <2>3 DEF Rated, Tables
    <3> QED
      BY <2>1, <3>1 DEF Stays
  <2> QED
    BY <2>2, <2>3
<1>4. ASSUME NEW w \in Writers, Submit(w) PROVE Stays(r)
  <2>1. r \in rows
    BY <1>4 DEF Submit, NewRow
  <2> QED
    BY <1>4, <2>1 DEF Submit, Stays
<1>5. ASSUME rows' \subseteq rows, UNCHANGED rowVars PROVE Stays(r)
  BY <1>5 DEF Stays
<1>6. \/ \E k \in Requests : Answer(k)
      \/ Handle
      \/ \E w \in Writers : Rated(w) \/ Submit(w)
      \/ rows' \subseteq rows /\ UNCHANGED rowVars
  BY DEF Next, WriterStep, OthersAsk, Rate, Unanswered, Publish, Refuse, Store, Reload, Lose,
         Navigate, Read, NoAnswer, Dismiss, Timer
<1> QED
  BY <1>1, <1>2, <1>3, <1>4, <1>5, <1>6

\* The answer that the list has is what it was, until another one comes.
LEMMA SameAnswer ==
    ASSUME TypeInv, Fetching, [Next]_vars, applied # 0, NEW a \in Accounts
    PROVE  \/ \E k \in Requests : Answer(k)
           \/ applied' = applied /\ log'[aread'[applied]][a] = log[aread[applied]][a]
<1>1. applied \in Requests /\ aread[applied] # 0 /\ aread[applied] \in DOMAIN log
  <2>1. applied \in Requests /\ aread[applied] # 0
    BY DEF TypeInv, TypeOK, Fetching
  <2> QED
    BY <2>1, ReadTable
<1>2. ASSUME NEW w \in Writers, Store(w)
      PROVE  applied' = applied /\ log'[aread'[applied]][a] = log[aread[applied]][a]
  <2>1. UNCHANGED <<applied, aread>>
    BY <1>2 DEF Store
  <2> QED
    BY <1>1, <1>2, <2>1, Commit
<1>3. ASSUME NEW k \in Requests, Read(k)
      PROVE  applied' = applied /\ log'[aread'[applied]][a] = log[aread[applied]][a]
  <2>1. UNCHANGED <<applied, log>> /\ aread'[applied] = aread[applied]
    BY <1>1, <1>3 DEF Read, TypeInv, TypeOK
  <2> QED
    BY <2>1
<1>4. \/ \E w \in Writers : Store(w)
      \/ \E k \in Requests : Read(k) \/ Answer(k)
      \/ UNCHANGED <<log, applied, aread>>
  BY DEF Next, WriterStep, OthersAsk, Rate, Rated, Unanswered, Submit, Publish, Refuse, Reload,
         Lose, Navigate, NoAnswer, Dismiss, Timer, Handle
<1> QED
  BY <1>2, <1>3, <1>4

LEMMA WholeStep ==
    ASSUME TypeInv, Known, Fetching, Numbered, OneRow, Whole, [Next]_vars PROVE Whole'
<1> SUFFICES ASSUME NEW r \in rows', r.known PROVE r.name \in partial' \/ Uncopied(r)' = r.shown
  BY DEF Whole
<1>1. CASE Comes(r)
  <2>1. PICK k \in Requests : Answer(k) /\ r.number = 0 /\ r.shown = log[aread[k]][r.name]
    BY <1>1 DEF Comes
  <2> QED
    BY <2>1 DEF Answer, Uncopied
<1>2. CASE FromEvent(r)
  BY <1>2 DEF FromEvent, Uncopied
<1>3. ASSUME r \in rows, r.name \in partial => r.name \in partial', ~Comes(r)
      PROVE  r.name \in partial' \/ Uncopied(r)' = r.shown
  <2>1. applied # 0 /\ r.name \in Accounts /\ (r.name \in partial \/ Uncopied(r) = r.shown)
    BY <1>3, Numerals DEF Fetching, Whole
  <2>2. ~\E k \in Requests : Answer(k)
    BY <1>3, AnswerRows DEF Comes
  <2>3. applied' = applied /\ log'[aread'[applied]][r.name] = log[aread[applied]][r.name]
    BY <2>1, <2>2, SameAnswer
  <2> QED
    BY <1>3, <2>1, <2>3 DEF Uncopied
<1>4. CASE Takes(r)
  <2>1. r \in rows /\ UNCHANGED partial
    BY <1>4 DEF Takes, Rated
  <2> QED
    BY <1>1, <1>3, <2>1
<1>5. CASE Stays(r)
  BY <1>1, <1>3, <1>5 DEF Stays
<1> QED
  BY <1>1, <1>2, <1>4, <1>5, Sources

\* The values of commits that were made stay.
LEMMA OldValues ==
    ASSUME TypeInv, Logged, Valued, [Next]_vars
    PROVE  /\ \A c \in Commits : valued'[c] \in Nat /\ valued'[c] <= c
           /\ \A c \in Commits : c <= Len(log) => valued'[c] = valued[c]
<1>1. /\ valued \in [Commits -> Commits] /\ Commits \subseteq Nat
      /\ \A c \in Commits : valued[c] <= c
  BY Sizes DEF TypeInv, TypeOK, Valued
<1>2. ASSUME NEW w \in Writers, Store(w)
      PROVE  /\ \A c \in Commits : valued'[c] \in Nat /\ valued'[c] <= c
             /\ \A c \in Commits : c <= Len(log) => valued'[c] = valued[c]
  <2> DEFINE n == Len(log) + 1
  <2>1. /\ Len(log) \in Nat /\ Len(log) \in DOMAIN log /\ wname[w] \in Accounts
        /\ Stored \in Tables
    BY <1>2, Commit, Numerals
  <2>2. Stored[wname[w]] \in Commits /\ Stored[wname[w]] <= Len(log)
    BY <2>1 DEF Logged, Stored, Tables
  <2>3. valued[Stored[wname[w]]] \in Nat /\ valued[Stored[wname[w]]] <= Len(log)
    <3>1. valued[Stored[wname[w]]] \in Nat /\ valued[Stored[wname[w]]] <= Stored[wname[w]]
          /\ Stored[wname[w]] \in Nat
      BY <1>1, <2>2
    <3> QED
      BY <2>1, <2>2, <3>1
  <2>4. \E v \in Nat : v <= n /\ valued' = [valued EXCEPT ![n] = v]
    <3> DEFINE x == IF wput[w] THEN n ELSE valued[Stored[wname[w]]]
    <3>1. valued' = [valued EXCEPT ![n] = x]
      BY <1>2 DEF Store
    <3>2. x \in Nat /\ x <= n
      BY <2>1, <2>3
    <3> HIDE DEF x
    <3> QED
      BY <3>1, <3>2
  <2> HIDE DEF n
  <2>5. PICK v \in Nat : v <= n /\ valued' = [valued EXCEPT ![n] = v]
    BY <2>4
  <2>6. \A c \in Commits : valued'[c] = IF c = n THEN v ELSE valued[c]
    BY <1>1, <2>5
  <2>7. \A c \in Commits : c <= Len(log) => c # n
    BY <1>1, <2>1 DEF n
  <2> QED
    BY <1>1, <2>5, <2>6, <2>7
<1>3. (\E w \in Writers : Store(w)) \/ UNCHANGED valued
  BY DEF Next, WriterStep, OthersAsk, Rate, Rated, Unanswered, Submit, Publish, Refuse, Reload,
         Lose, Navigate, Read, Answer, NoAnswer, Dismiss, Timer, Handle
<1> QED
  BY <1>1, <1>2, <1>3

LEMMA ValuedStep ==
    ASSUME TypeInv, Logged, Known, Fetching, Numbered, OneRow, Valued, [Next]_vars PROVE Valued'
<1>1. /\ \A c \in Commits : valued'[c] \in Nat /\ valued'[c] <= c
      /\ \A c \in Commits : c <= Len(log) => valued'[c] = valued[c]
  BY OldValues
<1>2. ASSUME NEW v \in Writers PROVE wcommit'[v] <= Stored'[wname'[v]]
  <2>1. /\ wname' = wname /\ wname[v] \in Accounts /\ wcommit[v] \in Nat
        /\ wcommit[v] <= Stored[wname[v]] /\ wcommit \in [Writers -> Commits]
    BY Hops, Numerals DEF TypeInv, TypeOK, Valued
  <2>2. Stored[wname[v]] \in Nat /\ Stored'[wname[v]] \in Nat
        /\ Stored[wname[v]] <= Stored'[wname[v]]
    BY <2>1, Numerals, Newer
  <2>3. CASE Store(v)
    <3>1. wcommit'[v] = Len(log) + 1 /\ Stored'[wname[v]] = Len(log) + 1
      BY <2>1, <2>3, Commit DEF Store
    <3> QED
      BY <2>1, <2>2, <3>1
  <2>4. CASE wcommit'[v] = wcommit[v]
    BY <2>1, <2>2, <2>4
  <2>5. Store(v) \/ wcommit'[v] = wcommit[v]
    <3>1. ASSUME NEW w \in Writers, Store(w) PROVE Store(v) \/ wcommit'[v] = wcommit[v]
      BY <2>1, <3>1 DEF Store
    <3>2. (\E w \in Writers : Store(w)) \/ UNCHANGED wcommit
      BY DEF Next, WriterStep, OthersAsk, Rate, Rated, Unanswered, Submit, Publish, Refuse,
             Reload, Lose, Navigate, Read, Answer, NoAnswer, Dismiss, Timer, Handle
    <3> QED
      BY <3>1, <3>2
  <2> QED
    BY <2>3, <2>4, <2>5
<1>3. ASSUME NEW r \in rows', r.known
      PROVE  /\ interest'[r.name] <= Stored'[r.name]
             /\ \/ r.name \in setBack' \/ interest'[r.name] = valued'[r.shown]
                \/ r.shown < interest'[r.name]
  <2>1. r.name \in Accounts /\ r.shown \in Commits /\ r.shown \in Nat
    BY <1>3, TypeStep, Sizes DEF TypeInv, TypeOK, Row
  <2>2. Stored[r.name] \in Nat /\ Stored'[r.name] \in Nat /\ Stored[r.name] <= Stored'[r.name]
        /\ Stored[r.name] <= Len(log) /\ Len(log) \in Nat
    <3>1. Len(log) \in DOMAIN log
      BY StoredType DEF TypeInv
    <3> QED
      BY <2>1, <3>1, Numerals, Newer DEF Logged, Stored
  <2>3. r.shown <= Stored'[r.name]
    BY <1>3, KnownRows
  \* The value that belongs to what is shown.
  <2>4. ASSUME r.shown <= Len(log), interest'[r.name] = valued[r.shown]
        PROVE  interest'[r.name] <= Stored'[r.name] /\ interest'[r.name] = valued'[r.shown]
    <3>1. valued'[r.shown] = valued[r.shown] /\ valued'[r.shown] \in Nat
          /\ valued'[r.shown] <= r.shown
      BY <1>1, <2>1, <2>4
    <3> QED
      BY <2>1, <2>2, <2>3, <2>4, <3>1
  <2>5. ASSUME UNCHANGED log PROVE r.shown <= Len(log)
    BY <2>1, <2>2, <2>3, <2>5 DEF Stored
  <2>6. CASE Comes(r)
    <3>1. PICK k \in Requests : Answer(k) /\ r.shown = log[aread[k]][r.name]
      BY <2>6 DEF Comes
    <3> QED
      BY <2>1, <2>4, <2>5, <3>1 DEF Answer
  <2>7. CASE FromEvent(r)
    BY <2>4, <2>5, <2>7 DEF FromEvent
  <2>8. ASSUME r \in rows
        PROVE  /\ interest[r.name] \in Nat /\ interest[r.name] <= Stored[r.name]
               /\ \/ r.name \in setBack \/ interest[r.name] = valued[r.shown]
                  \/ r.shown < interest[r.name]
               /\ r.shown <= Len(log) /\ r.shown <= Stored[r.name]
    <3>1. interest[r.name] \in Nat
      BY <2>1, Sizes DEF TypeInv, TypeOK, Tables
    <3>2. r.shown <= Stored[r.name]
      BY <1>3, <2>8 DEF Known
    <3> QED
      BY <1>3, <2>1, <2>2, <2>8, <3>1, <3>2 DEF Valued
  <2>9. CASE Stays(r)
    <3>1. r \in rows /\ interest'[r.name] = interest[r.name]
          /\ (r.name \in setBack => r.name \in setBack')
      BY <2>9 DEF Stays
    <3>2. interest'[r.name] <= Stored'[r.name]
      BY <2>2, <2>8, <3>1
    <3> QED
      BY <2>4, <2>8, <3>1, <3>2
  <2>10. CASE Takes(r)
    <3>1. PICK w \in Writers : Rated(w) /\ r \in rows /\ r.name = wname[w] /\ Clicked(w) # {}
      BY <2>10 DEF Takes
    <3>2. /\ interest'[r.name] = wcommit[w] /\ wcommit[w] \in Nat /\ UNCHANGED <<log, valued>>
          /\ setBack' = (setBack \ {r.name})
                         \union {x.name : x \in {q \in Clicked(w) : /\ wcommit[w] <= q.shown
                                                                 /\ valued[q.shown] # wcommit[w]}}
      BY <2>1, <3>1, Sizes DEF Rated, TypeInv, TypeOK, Tables
    <3>3. r \in Clicked(w)
      <4>1. PICK q \in rows : q \in Clicked(w) /\ q.known /\ q.name = r.name
        BY <3>1 DEF Clicked, ShownAs
      <4>2. q = r
        BY <1>3, <3>1, <4>1 DEF OneRow
      <4> QED
        BY <4>1, <4>2
    <3>4. wcommit[w] <= Stored'[r.name]
      BY <2>2, <3>1, <3>2 DEF Valued, Stored
    <3>5. ASSUME wcommit[w] <= r.shown, valued[r.shown] # wcommit[w] PROVE r.name \in setBack'
      BY <3>2, <3>3, <3>5
    <3> QED
      BY <2>1, <3>2, <3>4, <3>5
  <2> QED
    BY <1>3, <2>4, <2>6, <2>7, <2>9, <2>10, Sources
<1> QED
  BY <1>1, <1>2, <1>3 DEF Valued

-----------------------------------------------------------------------------
(* The theorems *)

LEMMA InitInv == Init => TypeInv /\ ListInv
<1> SUFFICES ASSUME Init PROVE TypeInv /\ ListInv
  OBVIOUS
<1>1. PICK A \in SUBSET Accounts : log = <<[a \in Accounts |-> IF a \in A THEN 1 ELSE 0]>>
  BY DEF Init
<1>2. /\ Cardinality(Writers) \in Nat /\ IsFiniteSet(Writers)
      /\ Commits = 0 .. Cardinality(Writers) + 1 /\ Numbers = 0 .. 2 * Cardinality(Writers)
      /\ 0 \in Commits /\ 1 \in Commits /\ 0 \in Numbers
  BY Finite, ListAssumption DEF Commits, Numbers
<1>3. Len(log) = 1 /\ DOMAIN log = {1} /\ log \in Seq(Tables) /\ Stored = log[1]
      /\ \A a \in Accounts : log[1][a] \in {0, 1}
  BY <1>1, <1>2 DEF Tables, Stored
<1>4. TypeOK
  <2>1. /\ wpc \in [Writers -> {"new", "asked", "reload", "publish", "answer", "over"}]
        /\ wname \in [Writers -> Accounts] /\ wread \in [Writers -> Commits]
        /\ wire \in Seq([name : Accounts, at : Commits, error : BOOLEAN])
    BY <1>2 DEF Init
  <2>6. /\ valued \in [Commits -> Commits] /\ wcommit \in [Writers -> Commits]
        /\ wput \in [Writers -> BOOLEAN] /\ wown \in [Writers -> Requests \union {0}]
        /\ wrow \in [Writers -> Numbers] /\ interest \in Tables
        /\ partial \subseteq Accounts /\ setBack \subseteq Accounts
    BY <1>2 DEF Init, Tables
  <2>2. told \in Tables /\ heard \in Tables
    BY <1>2 DEF Init, Tables
  <2>3. /\ url \in Urls /\ asked \in Requests /\ pending \subseteq Requests
        /\ wanted \in [Requests -> Urls] /\ aread \in [Requests -> Commits]
        /\ applied \in Requests \union {0}
    BY <1>2, ListAssumption DEF Init, Requests
  <2>4. /\ rows \subseteq Row /\ made \in Numbers
        /\ waiting \in [Accounts -> Numbers] /\ filtering \in BOOLEAN /\ timers \subseteq Numbers
        /\ missed \subseteq Accounts /\ crossed \subseteq Accounts
        /\ undone \subseteq Accounts /\ hidden \subseteq Accounts /\ removed \subseteq Accounts
        /\ again \subseteq Numbers
    BY <1>2 DEF Init
  <2>5. Len(log) \in Commits \ {0}
    BY <1>2, <1>3
  <2> QED
    BY <1>3, <2>1, <2>2, <2>3, <2>4, <2>5, <2>6 DEF TypeOK
<1>5. Counted
  <2>1. Len(wire) = 0 /\ made = 0 /\ Under({"new", "asked"}) = Writers
        /\ Under({"new"}) = Writers /\ Under({"new"} \union Busy) = Writers
    BY DEF Init, Under
  <2> QED
    BY <1>2, <1>3, <2>1 DEF Counted
<1>6. Logged
  BY <1>3 DEF Logged
<1>7. Known
  BY <1>3 DEF Init, Known
<1>8. Fetching
  BY <1>3, ListAssumption DEF Init, Fetching, Requests
<1>9. Numbered /\ OneRow
  BY DEF Init, Numbered, OneRow
<1>10. ASSUME NEW a \in Accounts PROVE Published(a) /\ Arrives(a) /\ Unshown(a) /\ Expects(a)
  <2>1. Published(a)
    BY <1>3 DEF Published
  <2>2. Arrives(a)
    BY DEF Init, Arrives, News, Sent, ShownAs
  <2>3. Unshown(a) /\ Expects(a)
    BY DEF Init, Unshown, Expects
  <2> QED
    BY <2>1, <2>2, <2>3
<1>11. Links
  BY <1>10 DEF Links
<1>12. Unasked /\ Valued /\ Whole
  BY <1>2, <1>3 DEF Init, Unasked, Valued, Whole
<1> QED
  BY <1>4, <1>5, <1>6, <1>7, <1>8, <1>9, <1>11, <1>12 DEF ListInv, TypeInv

LEMMA ListStep == ListInv /\ [Next]_vars => ListInv'
<1> SUFFICES ASSUME ListInv, [Next]_vars PROVE ListInv'
  OBVIOUS
<1>1. TypeInv /\ Logged /\ Known /\ Fetching /\ Numbered /\ OneRow
      /\ Unasked /\ Valued /\ Whole
  BY DEF ListInv, TypeInv
<1>2. TypeInv'
  BY <1>1, TypeStep
<1>3. Logged' /\ Known' /\ Fetching' /\ Numbered' /\ OneRow' /\ Unasked' /\ Valued' /\ Whole'
  BY <1>1, LoggedStep, KnownStep, FetchingStep, NumberedStep, UnaskedStep, ValuedStep, WholeStep
<1>4. ASSUME NEW a \in Accounts
      PROVE  Published(a)' /\ Arrives(a)' /\ Unshown(a)' /\ Expects(a)'
  <2>1. Published(a) /\ Arrives(a) /\ Unshown(a) /\ Expects(a)
    BY DEF ListInv, Links
  <2> QED
    BY <1>1, <2>1, PublishedStep, ArrivesStep, UnshownStep, ExpectsStep
<1>5. Links'
  BY <1>4 DEF Links
<1> QED
  BY <1>2, <1>3, <1>5 DEF ListInv, TypeInv

LEMMA Invariant == Spec => []ListInv
<1>1. Init => ListInv
  BY InitInv
<1> QED
  BY <1>1, ListStep, PTL DEF Spec

\* The list's state has its type: the numbers of commits and rows stay within
\* what the writers can do, and every answer reads a table that was stored.
THEOREM ListTypesCorrect == Spec => []TypeOK
<1>1. ListInv => TypeOK
  BY DEF ListInv
<1> QED
  BY <1>1, Invariant, PTL

\* What holds of a profile when things have settled.
LEMMA AtRest ==
    ASSUME ListInv, Settled, NEW a \in Accounts, a \notin Trouble
    PROVE  /\ heard[a] = told[a] /\ (Stored[a] <= 1 \/ told[a] = Stored[a])
           /\ \A r \in ShownAs(a) : heard[a] <= r.shown
<1>1. wire = <<>> /\ \A w \in Writers : wpc[w] \in {"new", "over"}
  BY DEF Settled
<1>2. a \notin missed /\ a \notin crossed /\ a \notin undone
  BY DEF Trouble
<1>3. News(a) = {}
  BY <1>1 DEF News, Sent
<1>4. Published(a) /\ Arrives(a)
  BY DEF ListInv, Links
<1> QED
  BY <1>1, <1>2, <1>3, <1>4 DEF Published, Arrives

\* When things have settled, the rows of the list show what is stored and no
\* profile has two; every profile that the URL asks for has one, with the
\* exceptions that ListFollows names (_profileListener, _fetchCurrentPage).
THEOREM ListFollowsTable == Spec => []ListFollows
<1>1. ListInv => ListFollows
  <2> SUFFICES ASSUME ListInv PROVE ListFollows
    OBVIOUS
  <2>0. TypeInv /\ Logged /\ Known /\ Fetching /\ OneRow
    BY DEF ListInv, TypeInv
  <2>1. \A r, q \in rows : r.known /\ q.known /\ r.name = q.name => r = q
    BY <2>0 DEF OneRow
  <2>2. ASSUME Settled, NEW r \in rows, r.known, r.name \notin Trouble
        PROVE  /\ r.shown = Stored[r.name]
               /\ r.name \notin setBack => interest[r.name] = valued[Stored[r.name]]
               /\ r.name \notin partial => Uncopied(r) = Stored[r.name]
    <3> DEFINE a == r.name
    <3>1. a \in Accounts /\ r.shown \in Nat /\ Stored[a] \in Nat /\ r \in ShownAs(a)
      BY <2>0, <2>2, Numerals DEF ShownAs
    <3>2. heard[a] = told[a] /\ (Stored[a] <= 1 \/ told[a] = Stored[a]) /\ heard[a] <= r.shown
      BY <2>2, <3>1, AtRest
    <3>3. r.shown # 0 /\ r.shown <= Stored[a]
      BY <2>0, <2>2 DEF Known
    <3> HIDE DEF a
    <3>4. r.shown = Stored[a]
      BY <3>1, <3>2, <3>3
    <3>5. interest[a] \in Nat /\ interest[a] <= Stored[a]
          /\ (a \in setBack \/ interest[a] = valued[r.shown] \/ r.shown < interest[a])
          /\ (a \in partial \/ Uncopied(r) = r.shown)
      <4>1. interest[a] \in Nat
        BY <3>1, Sizes DEF ListInv, TypeOK, Tables
      <4>2. Valued /\ Whole
        BY DEF ListInv
      <4> QED
        BY <2>2, <4>1, <4>2 DEF Valued, Whole, a
    <3> QED
      BY <3>1, <3>4, <3>5 DEF a
  <2>3. ASSUME Settled, applied = asked,
               NEW a \in Listed[url] \ (Trouble \union hidden \union removed),
               Stored[a] # 0, ShownAs(a) = {}
        PROVE  FALSE
    <3>1. /\ a \in Accounts /\ applied # 0 /\ applied \in Requests /\ wanted[applied] = url
          /\ aread[applied] # 0
      BY <2>0, <2>3, Numerals, ListAssumption DEF TypeInv, TypeOK, Fetching
    <3>2. Unshown(a)
      BY <3>1 DEF ListInv, Links
    <3>3. log[aread[applied]][a] = 0 /\ (heard[a] = 0 \/ a \in undone)
      BY <2>3, <3>1, <3>2 DEF Unshown
    <3>4. heard[a] = 0
      BY <2>3, <3>3 DEF Trouble
    <3>5. heard[a] = told[a] /\ (Stored[a] <= 1 \/ told[a] = Stored[a])
      BY <2>3, <3>1, AtRest
    <3>6. Stored[a] <= 1
      BY <2>3, <3>4, <3>5
    <3>7. aread[applied] \in DOMAIN log
      BY <2>0, <3>1, ReadTable
    <3>8. log[aread[applied]][a] = Stored[a]
      BY <2>0, <3>1, <3>6, <3>7 DEF Logged
    <3> QED
      BY <2>3, <3>3, <3>8
  <2> QED
    BY <2>1, <2>2, <2>3 DEF ListFollows
<1> QED
  BY <1>1, Invariant, PTL

\* A row that was shown for an added profile is filled or shows an error in the
\* end, with the exceptions that NoneWaitsInVain names (addProfile, _newProfile,
\* _profileListener).
THEOREM NobodyWaitsInVain == Spec => []NoneWaitsInVain
<1>1. ListInv => NoneWaitsInVain
  <2> SUFFICES ASSUME ListInv, Settled, NEW r \in rows,
                      ~r.known, ~r.error, r.number \notin again, r.name \notin missed
               PROVE  FALSE
    BY DEF NoneWaitsInVain
  <2>1. r.name \in Accounts
    BY Numerals DEF ListInv, TypeInv
  <2>2. Expects(r.name)
    BY <2>1 DEF ListInv, Links
  <2>3. Sent(r.name) # {} \/ \E w \in Under(Busy) : wname[w] = r.name
    BY <2>2 DEF Expects
  <2> QED
    BY <2>3 DEF Settled, Sent, Under, Busy
<1> QED
  BY <1>1, Invariant, PTL

-----------------------------------------------------------------------------
(* The page of background tasks: what is still to come *)

USE DEF boardVars, callVars, pageVars, historyVars, tasksVars

In(l, chain) == \E i \in DOMAIN chain : chain[i] = l

\* List l will be read again: a request for it has not been read, or follows
\* an answer that is on its way.
ToCome(l) ==
    \/ \E c \in Chains : asks[c] > 0 /\ In(l, c)
    \/ \E k \in DOMAIN answers : In(l, Tail(answers[k].chain))

\* Every event but that of progress has the workers fetched.
Tells(e, j) == e.status = "progress" /\ e.job = j
WorkersToCome == ToCome("workers") \/ \E i \in DOMAIN stream : stream[i].status # "progress"
FailedToCome == ToCome("failed") \/ \E i \in DOMAIN stream : stream[i].status = "failed"

\* Answers about l that the page would not show as late ones; the one of them that
\* was read last, and that it is no error; and whether the page shows what was read
\* last.
Live(l, k) ==
    k \in DOMAIN answers /\ Head(answers[k].chain) = l /\ answers[k].overtaken = FALSE
Latest(l, k) == Live(l, k) /\ \A i \in DOMAIN answers : Live(l, i) => i <= k
Coming(l, k) == Latest(l, k) /\ answers[k].ok = TRUE
Final(l) == l \notin late \union refused /\ \A i \in DOMAIN answers : ~Live(l, i)

(* The inductive invariant *)

\* A job that has left its worker was not there when the workers were last
\* read, or has had its end published; else they will be read again.
Left(j) ==
    \/ WorkersToCome
    \/ phase[j] \in {"taken", "started", "raised"}
    \/ j \in silent \union hastyW
    \/ /\ \A k \in DOMAIN answers : Coming("workers", k) => answers[k].running[j] = NotShown
       /\ Final("workers") => running[j] = NotShown

\* A job that has been started was there when the workers were last read, and
\* its progress has not changed since, or an event tells of that.
Works(j) ==
    phase[j] = "started" =>
       \/ WorkersToCome
       \/ /\ \A k \in DOMAIN answers : Coming("workers", k) =>
                /\ answers[k].running[j] # NotShown
                /\ \/ answers[k].running[j] = count[j] \/ j \in answers[k].undoes
                   \/ \E i \in DOMAIN stream : Tells(stream[i], j)
          /\ Final("workers") =>
                /\ running[j] # NotShown
                /\ \/ running[j] = count[j] \/ j \in reverted
                   \/ \E i \in DOMAIN stream : Tells(stream[i], j)

\* The last event of a job that has been started tells its progress.
Newest(i, j) ==
    /\ i \in DOMAIN stream /\ Tells(stream[i], j)
    /\ \A k \in DOMAIN stream : k > i => stream[k].status = "progress" /\ stream[k].job # j
UpToDate(j) ==
    phase[j] = "started" =>
       \A i \in DOMAIN stream : Newest(i, j) => stream[i].current = count[j]

\* A job that has failed was listed when the failed jobs were last read, or had
\* not been moved there.
Fails(j) ==
    phase[j] \in {"failing", "failed"} =>
       \/ FailedToCome
       \/ j \in hastyF
       \/ /\ \A k \in DOMAIN answers : Coming("failed", k) => j \in answers[k].failed
          /\ Final("failed") => j \in failed

\* What is listed has failed, or there is a reason why it is still listed.
Removed(j) ==
    /\ j \in confirmed => phase[j] = "gone"
    /\ j \in failed => phase[j] = "failed" \/ j \in silent \union revived \union confirmed

\* Answers about a list that were read before an overtaken one are overtaken too.
Ordered ==
    \A i, k \in DOMAIN answers :
       /\ i < k /\ Head(answers[i].chain) = Head(answers[k].chain)
       /\ answers[k].overtaken
       => answers[i].overtaken

TasksInv ==
    TasksTypes /\ Ordered /\ \A j \in Jobs : Left(j) /\ Works(j) /\ UpToDate(j) /\ Fails(j) /\ Removed(j)

-----------------------------------------------------------------------------
(* Chains of requests *)

LEMMA ChainFacts ==
    ASSUME NEW c \in Chains
    PROVE  /\ c \in Seq(Lists) /\ Head(c) \in Lists
           /\ Len(c) > 1 => Tail(c) \in Chains
           /\ \A l : In(l, c) => l = Head(c) \/ In(l, Tail(c))
           /\ \A l : In(l, Tail(c)) => Len(c) > 1
<1>1. CASE c = <<"workers", "failed">>
  BY <1>1 DEF Chains, Lists, In
<1>2. CASE c = <<"failed">>
  BY <1>2 DEF Chains, Lists, In
<1>3. CASE c = <<"failed", "workers">>
  BY <1>3 DEF Chains, Lists, In
<1>4. CASE c = <<"workers">>
  BY <1>4 DEF Chains, Lists, In
<1> QED
  BY <1>1, <1>2, <1>3, <1>4 DEF Chains

\* The chains that the listener starts.
LEMMA ChainNames ==
    /\ <<"workers", "failed">> \in Chains /\ <<"workers">> \in Chains
    /\ <<"failed", "workers">> \in Chains
    /\ In("workers", <<"workers", "failed">>) /\ In("failed", <<"workers", "failed">>)
    /\ In("workers", <<"workers">>)
    /\ In("workers", <<"failed", "workers">>) /\ In("failed", <<"failed", "workers">>)
<1>1. In("workers", <<"workers", "failed">>) /\ In("failed", <<"workers", "failed">>)
  BY DEF In
<1>2. In("workers", <<"workers">>)
  BY DEF In
<1>3. In("workers", <<"failed", "workers">>) /\ In("failed", <<"failed", "workers">>)
  BY DEF In
<1> QED
  BY <1>1, <1>2, <1>3 DEF Chains

LEMMA FetchesChains ==
    ASSUME NEW e \in Events
    PROVE  /\ Fetches(e) \subseteq Chains
           /\ e.status # "progress" => \E c \in Fetches(e) : In("workers", c)
           /\ e.status = "failed" => \E c \in Fetches(e) : In("failed", c)
           /\ e.status = "progress" /\ loaded /\ running[e.job] = NotShown =>
                 \E c \in Fetches(e) : In("workers", c)
<1>1. CASE e.status \in {"queued", "started", "finished"}
  <2>1. Fetches(e) = {<<"workers">>}
    BY <1>1 DEF Fetches
  <2> QED
    BY <1>1, <2>1, ChainNames
<1>2. CASE e.status = "progress" /\ loaded /\ running[e.job] = NotShown
  <2>1. Fetches(e) = {<<"workers">>}
    BY <1>2 DEF Fetches
  <2> QED
    BY <1>2, <2>1, ChainNames
<1>3. CASE e.status = "progress" /\ ~(loaded /\ running[e.job] = NotShown)
  <2>1. Fetches(e) = {}
    BY <1>3 DEF Fetches
  <2> QED
    BY <1>3, <2>1
<1>4. CASE e.status = "failed"
  <2>1. Fetches(e) = {<<"failed", "workers">>}
    BY <1>4 DEF Fetches
  <2> QED
    BY <1>4, <2>1, ChainNames
<1>5. e.status \in {"queued", "started", "progress", "finished", "failed"}
  BY DEF Events
<1> QED
  BY <1>1, <1>2, <1>3, <1>4, <1>5

-----------------------------------------------------------------------------
(* Types *)

LEMMA BoardStep ==
    ASSUME BoardTypes, NEW j \in Jobs, Silent(j) \/ Told(j) \/ Empty
    PROVE  BoardTypes'
<1> USE DEF BoardTypes, Phases, AtWorker, Counts, NoCount
<1>1. CASE Silent(j)
  BY <1>1 DEF Silent, Queue, Take, Return, Swallow, Die, Raise, Quarantine, Remove, Move, Save
<1>2. CASE Told(j)
  BY <1>2 DEF Told, Describe, Start, Progress, Finish, Fail, Move, Save
<1>3. CASE Empty
  BY <1>3 DEF Empty
<1> QED
  BY <1>1, <1>2, <1>3

LEMMA MovesTypes ==
    ASSUME TasksTypes, NEW j \in Jobs, JobMoves(j) PROVE TasksTypes'
<1>1. Silent(j)
  BY DEF JobMoves, Silent
<1>2. BoardTypes'
  BY <1>1, BoardStep DEF TasksTypes
<1>3. silent' \subseteq Jobs
  BY DEF JobMoves, TasksTypes
<1> QED
  BY <1>2, <1>3 DEF JobMoves, TasksTypes

LEMMA TellTypes ==
    ASSUME TasksTypes, NEW j \in Jobs, BoardTypes', NEW status, Tell(j, status),
           status \in {"queued", "started", "progress", "finished", "failed"}
    PROVE  /\ TasksTypes'
           /\ \E e \in Events : /\ e = [job |-> j, status |-> status, current |-> count'[j]]
                                /\ stream' = Append(stream, e)
<1>1. PICK e : e = [job |-> j, status |-> status, current |-> count'[j]]
  OBVIOUS
<1>2. e \in Events
  BY <1>1 DEF Events, BoardTypes
<1>3. stream' = Append(stream, e)
  BY <1>1 DEF Tell
<1>4. \A S : stream \in Seq(S) /\ e \in S => Append(stream, e) \in Seq(S)
  OBVIOUS
<1>5. stream' \in Seq(Events)
  BY <1>2, <1>3, <1>4 DEF TasksTypes
<1> QED
  BY <1>1, <1>2, <1>3, <1>5 DEF Tell, TasksTypes

\* What the steps that publish something change, and what they publish.
LEMMA TellsEffect ==
    ASSUME TasksTypes, NEW j \in Jobs, JobTells(j)
    PROVE  \E e \in Events :
              /\ stream' = Append(stream, e) /\ e.job = j /\ TasksTypes'
              /\ UNCHANGED <<callVars, pageVars, historyVars>>
              /\ e.current = count'[j]
              /\ \A i \in Jobs : i # j => phase'[i] = phase[i] /\ count'[i] = count[i]
              /\ e.status = "progress" => phase'[j] = phase[j] /\ phase[j] = "started"
              /\ \/ e.status = "failed" \/ phase'[j] = phase[j]
                 \/ phase'[j] \notin {"failing", "failed"}
              /\ phase[j] \in {"failed", "gone"} => phase'[j] = phase[j]
<1> DEFINE Effect(status) ==
      /\ Tell(j, status)
      /\ \A i \in Jobs : i # j => phase'[i] = phase[i] /\ count'[i] = count[i]
      /\ status = "progress" => phase'[j] = phase[j] /\ phase[j] = "started"
      /\ status = "failed" \/ phase'[j] = phase[j] \/ phase'[j] \notin {"failing", "failed"}
      /\ phase[j] \in {"failed", "gone"} => phase'[j] = phase[j]
<1> USE DEF TasksTypes, BoardTypes, Move, Save
<1>0. ASSUME Told(j), NEW status \in {"queued", "started", "progress", "finished", "failed"},
             Effect(status)
      PROVE  \E e \in Events :
                /\ stream' = Append(stream, e) /\ e.job = j /\ TasksTypes'
                /\ UNCHANGED <<callVars, pageVars, historyVars>>
                /\ e.current = count'[j]
                /\ \A i \in Jobs : i # j => phase'[i] = phase[i] /\ count'[i] = count[i]
                /\ e.status = "progress" => phase'[j] = phase[j] /\ phase[j] = "started"
                /\ \/ e.status = "failed" \/ phase'[j] = phase[j]
                   \/ phase'[j] \notin {"failing", "failed"}
                /\ phase[j] \in {"failed", "gone"} => phase'[j] = phase[j]
  <2>1. BoardTypes'
    BY ONLY TasksTypes, Told(j), BoardStep DEF TasksTypes
  <2>2. PICK e \in Events : /\ e = [job |-> j, status |-> status, current |-> count'[j]]
                           /\ stream' = Append(stream, e)
    BY <1>0, <2>1, TellTypes
  <2>3. TasksTypes'
    BY <1>0, <2>1, TellTypes
  <2>4. e.job = j /\ e.status = status /\ e.current = count'[j]
    BY <2>2
  <2>5. UNCHANGED <<callVars, pageVars, historyVars>>
    BY <1>0 DEF Tell
  <2> QED
    BY <1>0, <2>2, <2>3, <2>4, <2>5
<1>1. CASE Describe(j) /\ Tell(j, "queued")
  <2>1. Effect("queued")
    BY <1>1 DEF Describe
  <2> QED
    BY <1>0, <1>1, <2>1 DEF Told
<1>2. CASE Start(j) /\ Tell(j, "started")
  <2>1. Effect("started")
    BY <1>2 DEF Start
  <2> QED
    BY <1>0, <1>2, <2>1 DEF Told
<1>3. CASE Progress(j) /\ Tell(j, "progress")
  <2>1. Effect("progress")
    BY <1>3 DEF Progress
  <2> QED
    BY <1>0, <1>3, <2>1 DEF Told
<1>4. CASE Finish(j) /\ Tell(j, "finished")
  <2>1. Effect("finished")
    BY <1>4 DEF Finish
  <2> QED
    BY <1>0, <1>4, <2>1 DEF Told
<1>5. CASE Fail(j) /\ Tell(j, "failed")
  <2>1. Effect("failed")
    BY <1>5 DEF Fail
  <2> QED
    BY <1>0, <1>5, <2>1 DEF Told
<1>6. \/ Describe(j) /\ Tell(j, "queued")
      \/ Start(j) /\ Tell(j, "started")
      \/ Progress(j) /\ Tell(j, "progress")
      \/ Finish(j) /\ Tell(j, "finished")
      \/ Fail(j) /\ Tell(j, "failed")
  BY DEF JobTells
<1> QED
  BY <1>1, <1>2, <1>3, <1>4, <1>5, <1>6

LEMMA OthersRemoveTypes ==
    ASSUME TasksTypes, OthersRemove \/ Boot
    PROVE  TasksTypes'
<1>1. BoardTypes'
  <2>1. CASE OthersRemove
    <3>1. PICK j \in Jobs : Remove(j)
      BY <2>1 DEF OthersRemove
    <3> QED
      BY <3>1, BoardStep DEF Silent, TasksTypes
  <2>2. CASE Boot
    <3>1. PICK j \in Jobs : phase[j] = "failed"
      BY <2>2 DEF Boot
    <3> QED
      BY <2>2, <3>1, BoardStep DEF Boot, TasksTypes
  <2> QED
    BY <2>1, <2>2
<1>2. silent' \subseteq Jobs
  BY DEF OthersRemove, Boot, TasksTypes
<1> QED
  BY <1>1, <1>2 DEF OthersRemove, Boot, TasksTypes

LEMMA RowTypes ==
    ASSUME TasksTypes, NEW j \in Jobs,
           RemoveFailedTask(j) \/ ServerRemoves(j) \/ RemoveRow(j)
    PROVE  TasksTypes'
<1>1. CASE RemoveFailedTask(j) \/ RemoveRow(j)
  <2>1. BoardTypes'
    BY <1>1 DEF RemoveFailedTask, RemoveRow, TasksTypes, BoardTypes
  <2> QED
    BY <1>1, <2>1 DEF RemoveFailedTask, RemoveRow, TasksTypes
<1>2. CASE ServerRemoves(j)
  <2>1. BoardTypes'
    <3>1. CASE Remove(j)
      BY <3>1, BoardStep DEF Silent, TasksTypes
    <3>2. CASE UNCHANGED boardVars
      BY <3>2 DEF TasksTypes, BoardTypes
    <3> QED
      BY <1>2, <3>1, <3>2 DEF ServerRemoves
  <2> QED
    BY <1>2, <2>1 DEF ServerRemoves, TasksTypes
<1> QED
  BY <1>1, <1>2

\* What the server answers to the first request of a chain.
Reply(chain) ==
    [chain |-> chain, ok |-> TRUE, overtaken |-> FALSE, undoes |-> {},
     running |-> [j \in Jobs |-> IF Head(chain) = "workers" /\ phase[j] \in AtWorker
                                 THEN count[j] ELSE NotShown],
     failed |-> {j \in Jobs : Head(chain) = "failed" /\ phase[j] = "failed"}]

\* What it answers when the request fails.
Refusal(chain) ==
    [chain |-> chain, ok |-> FALSE, overtaken |-> FALSE, undoes |-> {}, running |-> NoJob,
     failed |-> {}]

LEMMA ReplyType ==
    ASSUME TasksTypes, NEW c \in Chains
    PROVE  /\ Reply(c) \in Replies /\ Refusal(c) \in Replies
           /\ \A j \in Jobs :
                 Reply(c).running[j] = IF Head(c) = "workers" /\ phase[j] \in AtWorker
                                       THEN count[j] ELSE NotShown
<1>1. [j \in Jobs |-> IF Head(c) = "workers" /\ phase[j] \in AtWorker
                      THEN count[j] ELSE NotShown] \in [Jobs -> Values]
  BY DEF TasksTypes, BoardTypes, Values
<1>2. NoJob \in [Jobs -> Values]
  BY DEF NoJob, Values
<1> QED
  BY <1>1, <1>2 DEF Reply, Refusal, Replies

LEMMA ReadTypes ==
    ASSUME TasksTypes, NEW c \in Chains, TasksRead(c) \/ TasksFail(c)
    PROVE  TasksTypes'
<1>1. answers' = Append(answers, Reply(c)) \/ answers' = Append(answers, Refusal(c))
  BY DEF TasksRead, Reply, TasksFail, Refusal
<1>2. \A S, x : answers \in Seq(S) /\ x \in S => Append(answers, x) \in Seq(S)
  OBVIOUS
<1>3. answers' \in Seq(Replies)
  BY <1>1, <1>2, ReplyType DEF TasksTypes
<1>4. asks' \in [Chains -> Nat]
  BY DEF TasksRead, TasksFail, TasksTypes
<1>5. BoardTypes'
  BY DEF TasksRead, TasksFail, TasksTypes, BoardTypes
<1>6. hastyW' \subseteq Jobs /\ hastyF' \subseteq Jobs
  BY DEF TasksRead, TasksFail, TasksTypes
<1> QED
  BY <1>3, <1>4, <1>5, <1>6 DEF TasksRead, TasksFail, TasksTypes

\* An answer leaves the answers that are on their way.
LEMMA AnswerEffect ==
    ASSUME TasksTypes, NEW k, TasksAnswer(k)
    PROVE  /\ k \in 1 .. Len(answers) /\ answers[k] \in Replies
           /\ answers' \in Seq(Replies) /\ Len(answers') = Len(answers) - 1
           /\ \A i \in DOMAIN answers' :
                 LET m == IF i < k THEN i ELSE i + 1 IN
                    /\ m \in DOMAIN answers /\ m # k
                    /\ answers'[i].chain = answers[m].chain /\ answers'[i].ok = answers[m].ok
                    /\ answers'[i].running = answers[m].running
                    /\ answers'[i].failed = answers[m].failed
                    /\ answers'[i].undoes = answers[m].undoes
                    /\ i >= k => answers'[i].overtaken = answers[m].overtaken
                    /\ i < k => answers'[i].overtaken = (answers[m].overtaken \/
                                   Head(answers[m].chain) = Head(answers[k].chain))
           /\ \A m \in DOMAIN answers :
                 m # k => (IF m < k THEN m ELSE m - 1) \in DOMAIN answers'
<1>1. k \in 1 .. Len(answers) /\ Len(answers) \in Nat /\ DOMAIN answers = 1 .. Len(answers)
  BY DEF TasksAnswer, TasksTypes
<1>2. \A i \in DOMAIN answers : answers[i] \in Replies
  BY DEF TasksTypes
<1> DEFINE Later(i) == [answers[i] EXCEPT !.overtaken =
                          @ \/ Head(answers[i].chain) = Head(answers[k].chain)]
           Rest == [i \in 1 .. Len(answers) - 1 |-> IF i < k THEN Later(i) ELSE answers[i + 1]]
<1>3. answers' = Rest
  BY DEF TasksAnswer
<1>4. \A i \in DOMAIN answers :
         /\ Later(i) \in Replies
         /\ Later(i).chain = answers[i].chain /\ Later(i).ok = answers[i].ok
         /\ Later(i).running = answers[i].running
         /\ Later(i).failed = answers[i].failed
         /\ Later(i).undoes = answers[i].undoes
         /\ Later(i).overtaken = (answers[i].overtaken \/
                                    Head(answers[i].chain) = Head(answers[k].chain))
  BY <1>2 DEF Replies
<1> HIDE DEF Later
<1>5. \A i \in 1 .. Len(answers) - 1 :
         (IF i < k THEN Later(i) ELSE answers[i + 1]) \in Replies
  BY <1>1, <1>2, <1>4
<1>6. Rest \in [1 .. Len(answers) - 1 -> Replies]
  BY <1>5
<1>7. Rest \in Seq(Replies) /\ Len(Rest) = Len(answers) - 1 /\ DOMAIN Rest = 1 .. Len(answers) - 1
  <2>1. Len(answers) - 1 \in Nat
    BY <1>1
  <2>2. \A n \in Nat : \A f \in [1 .. n -> Replies] :
           f \in Seq(Replies) /\ Len(f) = n /\ DOMAIN f = 1 .. n
    OBVIOUS
  <2> QED
    BY <1>6, <2>1, <2>2
<1>8. \A i \in 1 .. Len(answers) - 1 : Rest[i] = IF i < k THEN Later(i) ELSE answers[i + 1]
  OBVIOUS
<1> HIDE DEF Rest
<1>9. ASSUME NEW i \in DOMAIN answers'
      PROVE  LET m == IF i < k THEN i ELSE i + 1 IN
                /\ m \in DOMAIN answers /\ m # k
                /\ answers'[i].chain = answers[m].chain /\ answers'[i].ok = answers[m].ok
                /\ answers'[i].running = answers[m].running
                /\ answers'[i].failed = answers[m].failed
                /\ answers'[i].undoes = answers[m].undoes
                /\ i >= k => answers'[i].overtaken = answers[m].overtaken
                /\ i < k => answers'[i].overtaken = (answers[m].overtaken \/
                               Head(answers[m].chain) = Head(answers[k].chain))
  <2>1. CASE i < k
    BY <1>1, <1>3, <1>4, <1>7, <1>8, <1>9, <2>1
  <2>2. CASE ~(i < k)
    BY <1>1, <1>3, <1>7, <1>8, <1>9, <2>2
  <2> QED
    BY <2>1, <2>2
<1>10. \A m \in DOMAIN answers : m # k => (IF m < k THEN m ELSE m - 1) \in DOMAIN answers'
  BY <1>1, <1>3, <1>7
<1> QED
  BY <1>1, <1>2, <1>3, <1>7, <1>9, <1>10

LEMMA AnswerTypes ==
    ASSUME TasksTypes, NEW k, TasksAnswer(k)
    PROVE  TasksTypes'
<1>1. answers[k] \in Replies /\ answers' \in Seq(Replies)
  BY AnswerEffect
<1>2. asks' \in [Chains -> Nat]
  <2>1. CASE Len(answers[k].chain) > 1
    <3>1. PICK c \in Chains : c = answers[k].chain
      BY <1>1 DEF Replies
    <3>2. Tail(c) \in Chains
      BY <2>1, <3>1, ChainFacts
    <3>3. asks' = [asks EXCEPT ![Tail(c)] = @ + 1]
      BY <2>1, <3>1 DEF TasksAnswer, Ask
    <3> QED
      BY <3>2, <3>3 DEF TasksTypes
  <2>2. CASE ~(Len(answers[k].chain) > 1)
    BY <2>2 DEF TasksAnswer, TasksTypes
  <2> QED
    BY <2>1, <2>2
<1>3. /\ running' \in [Jobs -> Values] /\ failed' \subseteq Jobs /\ loaded' \in BOOLEAN
      /\ reverted' \subseteq Jobs /\ revived' \subseteq Jobs /\ late' \subseteq Lists
      /\ refused' \subseteq Lists
  <2>1. Head(answers[k].chain) \in Lists
    BY <1>1, ChainFacts DEF Replies
  <2>2. answers[k].running \in [Jobs -> Values] /\ answers[k].failed \subseteq Jobs
        /\ answers[k].undoes \subseteq Jobs
    BY <1>1 DEF Replies
  <2>3. Show(answers[k]) \/ Keep(answers[k])
    BY DEF TasksAnswer
  <2>4. running' \in [Jobs -> Values] /\ failed' \subseteq Jobs /\ reverted' \subseteq Jobs
    BY <2>2, <2>3 DEF Show, Keep, TasksTypes
  <2>5. revived' \subseteq Jobs /\ late' \subseteq Lists /\ refused' \subseteq Lists
    BY <2>1, <2>2, <2>3 DEF Show, Keep, TasksTypes
  <2>6. loaded' \in BOOLEAN
    BY <2>3 DEF Show, Keep, TasksTypes
  <2> QED
    BY <2>4, <2>5, <2>6
<1>4. BoardTypes'
  BY DEF TasksAnswer, TasksTypes, BoardTypes
<1> QED
  BY <1>1, <1>2, <1>3, <1>4 DEF TasksAnswer, TasksTypes

\* The oldest event is handled.
LEMMA ListenerEffect ==
    ASSUME TasksTypes, WorkerListener
    PROVE  \E e \in Events :
              /\ e = stream[1] /\ stream' \in Seq(Events)
              /\ DOMAIN stream = 1 .. Len(stream) /\ 1 \in DOMAIN stream
              /\ DOMAIN stream' = 1 .. Len(stream) - 1
              /\ \A i \in DOMAIN stream' : i + 1 \in DOMAIN stream /\ stream'[i] = stream[i + 1]
              /\ \A i \in DOMAIN stream : i # 1 => i - 1 \in DOMAIN stream'
              /\ asks' = [c \in Chains |-> IF c \in Fetches(e) THEN asks[c] + 1 ELSE asks[c]]
              /\ IF e.status = "progress" /\ running[e.job] # NotShown
                 THEN running' = [running EXCEPT ![e.job] = e.current] /\ reverted' = reverted \ {e.job}
                 ELSE running' = running /\ reverted' = reverted
              /\ answers' \in Seq(Replies) /\ DOMAIN answers' = DOMAIN answers
              /\ \A k \in DOMAIN answers :
                    /\ answers'[k].chain = answers[k].chain /\ answers'[k].ok = answers[k].ok
                    /\ answers'[k].overtaken = answers[k].overtaken
                    /\ answers'[k].running = answers[k].running
                    /\ answers'[k].failed = answers[k].failed
                    /\ answers[k].undoes \subseteq answers'[k].undoes
                    /\ e.status = "progress" /\ answers[k].running[e.job] # NotShown =>
                          \/ answers[k].running[e.job] = e.current
                          \/ e.job \in answers'[k].undoes
<1> DEFINE e == Head(stream)
<1>1. e \in Events /\ e = stream[1] /\ stream' = Tail(stream)
      /\ DOMAIN stream = 1 .. Len(stream) /\ Len(stream) \in Nat \ {0}
  BY DEF WorkerListener, TasksTypes
<1>2. /\ stream' \in Seq(Events)
      /\ DOMAIN stream' = 1 .. Len(stream) - 1
      /\ \A i \in DOMAIN stream' : i + 1 \in DOMAIN stream /\ stream'[i] = stream[i + 1]
      /\ \A i \in DOMAIN stream : i # 1 => i - 1 \in DOMAIN stream'
  <2>1. \A S : stream \in Seq(S) /\ stream # <<>> =>
           /\ Tail(stream) \in Seq(S) /\ Len(Tail(stream)) = Len(stream) - 1
           /\ \A i \in 1 .. Len(stream) - 1 : Tail(stream)[i] = stream[i + 1]
    OBVIOUS
  <2>2. /\ Tail(stream) \in Seq(Events) /\ Len(Tail(stream)) = Len(stream) - 1
        /\ \A i \in 1 .. Len(stream) - 1 : Tail(stream)[i] = stream[i + 1]
    BY <2>1 DEF WorkerListener, TasksTypes
  <2> QED
    BY <1>1, <2>2
<1>3. PICK d \in Events : d = e
  BY <1>1
<1>4. asks' = [c \in Chains |-> IF c \in Fetches(d) THEN asks[c] + 1 ELSE asks[c]]
  BY <1>3 DEF WorkerListener
<1>5. IF d.status = "progress" /\ running[d.job] # NotShown
      THEN running' = [running EXCEPT ![d.job] = d.current] /\ reverted' = reverted \ {d.job}
      ELSE running' = running /\ reverted' = reverted
  BY <1>3 DEF WorkerListener
<1> DEFINE Undo(k) == [answers[k] EXCEPT !.undoes =
                         @ \union {j \in {d.job} : answers[k].running[j] \notin
                                                       {NotShown, d.current}}]
<1>6. answers' = IF d.status # "progress" THEN answers ELSE [k \in DOMAIN answers |-> Undo(k)]
  BY <1>3 DEF WorkerListener
<1>7. \A k \in DOMAIN answers :
         /\ Undo(k) \in Replies
         /\ Undo(k).chain = answers[k].chain /\ Undo(k).ok = answers[k].ok
         /\ Undo(k).overtaken = answers[k].overtaken
         /\ Undo(k).running = answers[k].running
         /\ Undo(k).failed = answers[k].failed
         /\ answers[k].undoes \subseteq Undo(k).undoes
         /\ answers[k].running[d.job] # NotShown =>
               answers[k].running[d.job] = d.current \/ d.job \in Undo(k).undoes
  <2> TAKE k \in DOMAIN answers
  <2>1. answers[k] \in Replies /\ d.job \in Jobs
    BY <1>3 DEF TasksTypes, Events
  <2>2. answers[k].undoes \union
           {j \in {d.job} : answers[k].running[j] \notin {NotShown, d.current}} \in SUBSET Jobs
    BY <2>1 DEF Replies
  <2> QED
    BY <2>1, <2>2 DEF Replies
<1> HIDE DEF Undo
<1>8. /\ answers' \in Seq(Replies) /\ DOMAIN answers' = DOMAIN answers
      /\ \A k \in DOMAIN answers :
            /\ answers'[k].chain = answers[k].chain /\ answers'[k].ok = answers[k].ok
            /\ answers'[k].overtaken = answers[k].overtaken
            /\ answers'[k].running = answers[k].running
            /\ answers'[k].failed = answers[k].failed
            /\ answers[k].undoes \subseteq answers'[k].undoes
            /\ d.status = "progress" /\ answers[k].running[d.job] # NotShown =>
                  \/ answers[k].running[d.job] = d.current
                  \/ d.job \in answers'[k].undoes
  <2>1. CASE d.status # "progress"
    BY <1>6, <2>1 DEF TasksTypes
  <2>2. CASE d.status = "progress"
    <3>1. answers' = [k \in DOMAIN answers |-> Undo(k)]
      BY <1>6, <2>2
    <3>2. DOMAIN answers = 1 .. Len(answers) /\ Len(answers) \in Nat
      BY DEF TasksTypes
    <3>3. answers' \in [1 .. Len(answers) -> Replies]
      BY <1>7, <3>1, <3>2
    <3>4. \A n \in Nat : \A f \in [1 .. n -> Replies] : f \in Seq(Replies) /\ DOMAIN f = 1 .. n
      OBVIOUS
    <3>5. answers' \in Seq(Replies) /\ DOMAIN answers' = DOMAIN answers
      BY <3>2, <3>3, <3>4
    <3>6. \A k \in DOMAIN answers : answers'[k] = Undo(k)
      BY <3>1
    <3> QED
      BY <1>7, <3>5, <3>6
  <2> QED
    BY <2>1, <2>2
<1>9. 1 \in DOMAIN stream
  BY <1>1
<1> HIDE DEF e
<1> QED
  BY <1>1, <1>2, <1>3, <1>4, <1>5, <1>8, <1>9

LEMMA ListenerTypes ==
    ASSUME TasksTypes, WorkerListener
    PROVE  TasksTypes'
<1>1. PICK e \in Events :
         /\ stream' \in Seq(Events) /\ answers' \in Seq(Replies)
         /\ asks' = [c \in Chains |-> IF c \in Fetches(e) THEN asks[c] + 1 ELSE asks[c]]
         /\ IF e.status = "progress" /\ running[e.job] # NotShown
            THEN running' = [running EXCEPT ![e.job] = e.current] /\ reverted' = reverted \ {e.job}
            ELSE running' = running /\ reverted' = reverted
  BY ListenerEffect
<1>2. asks' \in [Chains -> Nat]
  BY <1>1 DEF TasksTypes
<1>3. running' \in [Jobs -> Values] /\ reverted' \subseteq Jobs
  BY <1>1 DEF TasksTypes, Events, Values
<1>4. BoardTypes'
  BY DEF WorkerListener, TasksTypes, BoardTypes
<1> QED
  BY <1>1, <1>2, <1>3, <1>4 DEF WorkerListener, TasksTypes

LEMMA TasksTypeStep ==
    ASSUME TasksTypes, [TasksNext]_tasksVars PROVE TasksTypes'
<1>1. ASSUME NEW j \in Jobs, JobMoves(j) PROVE TasksTypes'
  BY <1>1, MovesTypes
<1>2. ASSUME NEW j \in Jobs, JobTells(j) PROVE TasksTypes'
  BY <1>2, TellsEffect
<1>3. ASSUME NEW j \in Jobs, RemoveFailedTask(j) \/ ServerRemoves(j) \/ RemoveRow(j)
      PROVE  TasksTypes'
  BY <1>3, RowTypes
<1>4. CASE OthersRemove \/ Boot
  BY <1>4, OthersRemoveTypes
<1>5. CASE PageStep
  BY <1>5, ReadTypes, AnswerTypes, ListenerTypes DEF PageStep
<1>6. CASE UNCHANGED tasksVars
  BY <1>6 DEF TasksTypes, BoardTypes
<1> QED
  BY <1>1, <1>2, <1>3, <1>4, <1>5, <1>6 DEF TasksNext

-----------------------------------------------------------------------------
(* Steps that the page does not learn of, and steps on its list of failed jobs *)

Quietly(i) ==
    /\ UNCHANGED <<stream, asks, answers, running, hastyW, hastyF, late, refused, reverted>>
    /\ silent \subseteq silent'
    /\ phase[i] \in {"taken", "started", "raised"} =>
          phase'[i] \in {"taken", "started", "raised"} \/ i \in silent'
    /\ phase'[i] = "started" => phase[i] = "started" /\ count'[i] = count[i]
    /\ phase'[i] \in {"failing", "failed"} => phase[i] \in {"failing", "failed"}
    /\ phase[i] = "failed" => phase'[i] = "failed" \/ i \in silent' \union confirmed'
    /\ phase[i] = "gone" => phase'[i] = "gone"
    /\ i \in failed' => i \in failed
    /\ i \in failed => i \in failed' \/ phase'[i] = "gone"
    /\ i \in confirmed' => i \in confirmed \/ phase'[i] = "gone"
    /\ i \in failed' /\ i \in confirmed => i \in confirmed'
    /\ i \in failed' /\ i \in revived => i \in revived'

LEMMA MovesQuietly ==
    ASSUME TasksTypes, NEW i \in Jobs, NEW j \in Jobs, JobMoves(j)
    PROVE  Quietly(i)
<1> USE DEF TasksTypes, BoardTypes, Move, Save
<1>1. UNCHANGED <<stream, asks, answers, running, hastyW, hastyF, late, refused, reverted>>
      /\ UNCHANGED <<failed, confirmed, revived>>
  BY DEF JobMoves
<1>2. /\ silent \subseteq silent'
      /\ phase[i] \in {"taken", "started", "raised"} =>
            phase'[i] \in {"taken", "started", "raised"} \/ i \in silent'
      /\ phase'[i] = "started" => phase[i] = "started" /\ count'[i] = count[i]
      /\ phase'[i] \in {"failing", "failed"} => phase[i] \in {"failing", "failed"}
      /\ phase[i] = "failed" => phase'[i] = "failed"
      /\ phase[i] = "gone" => phase'[i] = "gone"
  <2>1. CASE (Queue(j) \/ Take(j)) /\ UNCHANGED silent
    BY <2>1 DEF Queue, Take
  <2>2. CASE (Return(j) \/ Quarantine(j)) /\ UNCHANGED silent
    BY <2>2 DEF Return, Quarantine
  <2>3. CASE (Swallow(j) \/ Die(j)) /\ silent' = silent \union {j}
    BY <2>3 DEF Swallow, Die, AtWorker
  <2>4. CASE Raise(j) /\ UNCHANGED silent
    BY <2>4 DEF Raise
  <2> QED
    BY <2>1, <2>2, <2>3, <2>4 DEF JobMoves
<1> QED
  BY <1>1, <1>2 DEF Quietly

LEMMA OthersQuietly ==
    ASSUME TasksTypes, NEW i \in Jobs, OthersRemove \/ Boot
    PROVE  Quietly(i)
<1> USE DEF TasksTypes, BoardTypes
<1>1. UNCHANGED <<stream, asks, answers, running, hastyW, hastyF, late, refused, reverted>>
      /\ UNCHANGED <<failed, confirmed, revived>>
  BY DEF OthersRemove, Boot
<1>2. CASE OthersRemove
  <2>1. PICK j \in Jobs : Remove(j)
    BY <1>2 DEF OthersRemove
  <2> QED
    BY <1>1, <1>2, <2>1 DEF OthersRemove, Remove, Move, Quietly
<1>3. CASE Boot
  BY <1>1, <1>3 DEF Boot, Empty, Quietly
<1> QED
  BY <1>2, <1>3

LEMMA RowQuietly ==
    ASSUME TasksTypes, NEW i \in Jobs, Removed(i), NEW j \in Jobs,
           RemoveFailedTask(j) \/ ServerRemoves(j) \/ RemoveRow(j)
    PROVE  Quietly(i)
<1> USE DEF TasksTypes, BoardTypes
<1>1. CASE RemoveFailedTask(j)
  BY <1>1 DEF RemoveFailedTask, Quietly
<1>2. CASE ServerRemoves(j)
  <2>1. CASE Remove(j) /\ confirmed' = confirmed \union {j}
    BY <1>2, <2>1 DEF ServerRemoves, Remove, Move, Quietly
  <2>2. CASE UNCHANGED <<boardVars, confirmed>>
    BY <1>2, <2>2 DEF ServerRemoves, Quietly
  <2> QED
    BY <1>2, <2>1, <2>2 DEF ServerRemoves
<1>3. CASE RemoveRow(j)
  BY <1>3 DEF RemoveRow, Removed, Quietly
<1> QED
  BY <1>1, <1>2, <1>3

LEMMA QuietStep ==
    ASSUME NEW i \in Jobs, Quietly(i),
           Left(i), Works(i), UpToDate(i), Fails(i), Removed(i)
    PROVE  Left(i)' /\ Works(i)' /\ UpToDate(i)' /\ Fails(i)' /\ Removed(i)'
<1>1. UNCHANGED <<stream, asks, answers, running, hastyW, hastyF, late, refused, reverted>>
  BY DEF Quietly
<1>2. /\ WorkersToCome' = WorkersToCome /\ FailedToCome' = FailedToCome
      /\ \A l, k : Coming(l, k)' = Coming(l, k)
      /\ \A l : Final(l)' = Final(l)
      /\ \A k : Newest(k, i)' = Newest(k, i)
  BY <1>1 DEF WorkersToCome, FailedToCome, ToCome, Coming, Latest, Final, Live, Newest
<1>3. Left(i)'
  BY <1>1, <1>2 DEF Left, Quietly
<1>4. Works(i)'
  BY <1>1, <1>2 DEF Works, Quietly
<1>5. UpToDate(i)'
  BY <1>1, <1>2 DEF UpToDate, Quietly
<1>6. Fails(i)'
  BY <1>1, <1>2 DEF Fails, Quietly
<1>7. Removed(i)'
  BY DEF Removed, Quietly
<1> QED
  BY <1>3, <1>4, <1>5, <1>6, <1>7

-----------------------------------------------------------------------------
(* Steps that publish something *)

LEMMA AppendOne ==
    ASSUME TasksTypes, NEW e \in Events, stream' = Append(stream, e)
    PROVE  /\ DOMAIN stream \subseteq DOMAIN stream' /\ DOMAIN stream = 1 .. Len(stream)
           /\ Len(stream) \in Nat
           /\ \A i \in DOMAIN stream : stream'[i] = stream[i]
           /\ Len(stream) + 1 \in DOMAIN stream' /\ stream'[Len(stream) + 1] = e
           /\ \A i \in DOMAIN stream' : i \in DOMAIN stream \/ i = Len(stream) + 1
<1>1. \A S, s, x : s \in Seq(S) /\ x \in S =>
         /\ DOMAIN s = 1 .. Len(s) /\ Len(s) \in Nat
         /\ DOMAIN Append(s, x) = 1 .. Len(s) + 1
         /\ \A i \in 1 .. Len(s) : Append(s, x)[i] = s[i]
         /\ Append(s, x)[Len(s) + 1] = x
  OBVIOUS
<1>2. stream \in Seq(Events)
  BY DEF TasksTypes
<1>3. /\ DOMAIN stream = 1 .. Len(stream) /\ Len(stream) \in Nat
      /\ DOMAIN stream' = 1 .. Len(stream) + 1
      /\ \A i \in 1 .. Len(stream) : stream'[i] = stream[i]
      /\ stream'[Len(stream) + 1] = e
  BY <1>1, <1>2
<1> QED
  BY <1>3

LEMMA TellsStep ==
    ASSUME TasksTypes, NEW j \in Jobs, JobTells(j), NEW i \in Jobs,
           Left(i), Works(i), UpToDate(i), Fails(i), Removed(i)
    PROVE  Left(i)' /\ Works(i)' /\ UpToDate(i)' /\ Fails(i)' /\ Removed(i)'
<1>1. PICK e \in Events :
         /\ stream' = Append(stream, e) /\ e.job = j
         /\ UNCHANGED <<callVars, pageVars, historyVars>>
         /\ e.current = count'[j]
         /\ \A n \in Jobs : n # j => phase'[n] = phase[n] /\ count'[n] = count[n]
         /\ e.status = "progress" => phase'[j] = phase[j] /\ phase[j] = "started"
         /\ e.status = "failed" \/ phase'[j] = phase[j] \/ phase'[j] \notin {"failing", "failed"}
         /\ phase[j] \in {"failed", "gone"} => phase'[j] = phase[j]
  BY TellsEffect
<1>2. UNCHANGED <<asks, answers, running, hastyW, hastyF, late, refused, reverted, failed, confirmed,
                  silent, revived>>
  BY <1>1
<1>3. /\ DOMAIN stream \subseteq DOMAIN stream' /\ DOMAIN stream = 1 .. Len(stream)
      /\ Len(stream) \in Nat
      /\ \A k \in DOMAIN stream : stream'[k] = stream[k]
      /\ Len(stream) + 1 \in DOMAIN stream' /\ stream'[Len(stream) + 1] = e
      /\ \A k \in DOMAIN stream' : k \in DOMAIN stream \/ k = Len(stream) + 1
  BY <1>1, AppendOne
<1>4. /\ \A l : ToCome(l)' = ToCome(l)
      /\ \A l, k : Coming(l, k)' = Coming(l, k)
      /\ \A l : Final(l)' = Final(l)
  BY <1>2 DEF ToCome, Coming, Latest, Final, Live
<1>5. /\ WorkersToCome => WorkersToCome'
      /\ FailedToCome => FailedToCome'
      /\ e.status # "progress" => WorkersToCome'
      /\ e.status = "failed" => FailedToCome'
  BY <1>3, <1>4 DEF WorkersToCome, FailedToCome
<1>6. \A n : (\E k \in DOMAIN stream : Tells(stream[k], n)) =>
               (\E k \in DOMAIN stream' : Tells(stream'[k], n))
  BY <1>3
<1>7. i # j \/ e.status = "progress" => phase'[i] = phase[i]
  BY <1>1
<1>8. Left(i)'
  <2>1. CASE e.status # "progress"
    BY <1>5, <2>1 DEF Left
  <2>2. CASE e.status = "progress"
    BY <1>2, <1>4, <1>5, <1>7, <2>2 DEF Left
  <2> QED
    BY <2>1, <2>2
<1>9. Works(i)'
  <2>1. CASE e.status # "progress"
    BY <1>5, <2>1 DEF Works
  <2>2. CASE e.status = "progress" /\ i # j
    <3>1. count'[i] = count[i]
      BY <1>1, <2>2
    <3> QED
      BY <1>2, <1>4, <1>5, <1>6, <1>7, <2>2, <3>1 DEF Works
  <2>3. CASE e.status = "progress" /\ i = j
    <3>1. \E k \in DOMAIN stream' : Tells(stream'[k], i)
      BY <1>1, <1>3, <2>3 DEF Tells
    <3> QED
      BY <1>2, <1>4, <1>5, <1>7, <2>3, <3>1 DEF Works
  <2> QED
    BY <2>1, <2>2, <2>3
<1>10. UpToDate(i)'
  <2> SUFFICES ASSUME phase'[i] = "started", NEW n \in DOMAIN stream', Newest(n, i)'
               PROVE  stream'[n].current = count'[i]
    BY DEF UpToDate
  <2>1. CASE n = Len(stream) + 1
    <3>1. i = j
      BY <1>1, <1>3, <2>1 DEF Newest, Tells
    <3> QED
      BY <1>1, <1>3, <2>1, <3>1
  <2>2. CASE n \in DOMAIN stream
    <3>1. Len(stream) + 1 > n
      BY <1>3, <2>2
    <3>2. e.status = "progress" /\ e.job # i
      BY <1>3, <3>1 DEF Newest
    <3>3. Newest(n, i)
      BY <1>3, <2>2 DEF Newest
    <3>4. phase[i] = "started" /\ count'[i] = count[i]
      BY <1>1, <1>7, <3>2
    <3> QED
      BY <1>3, <2>2, <3>3, <3>4 DEF UpToDate
  <2> QED
    BY <1>3, <2>1, <2>2
<1>11. Fails(i)'
  <2>1. CASE e.status = "failed"
    BY <1>5, <2>1 DEF Fails
  <2>2. CASE e.status # "failed"
    <3>1. phase'[i] \in {"failing", "failed"} => phase[i] \in {"failing", "failed"}
      BY <1>1, <1>7, <2>2
    <3> QED
      BY <1>2, <1>4, <1>5, <2>2, <3>1 DEF Fails
  <2> QED
    BY <2>1, <2>2
<1>12. Removed(i)'
  <2>1. phase[i] \in {"failed", "gone"} => phase'[i] = phase[i]
    BY <1>1
  <2> QED
    BY <1>2, <2>1 DEF Removed
<1> QED
  BY <1>8, <1>9, <1>10, <1>11, <1>12

-----------------------------------------------------------------------------
(* The server answers *)

LEMMA ReadEffect ==
    ASSUME TasksTypes, NEW c \in Chains, NEW x \in Replies, x.chain = c, x.overtaken = FALSE,
           answers' = Append(answers, x), asks' = [asks EXCEPT ![c] = @ - 1],
           UNCHANGED <<late, refused>>
    PROVE  /\ \A l : ToCome(l) => ToCome(l)' \/ l = Head(c)
           /\ \A l, k : Coming(l, k)' /\ l # Head(c) =>
                 k \in DOMAIN answers /\ Coming(l, k) /\ answers'[k] = answers[k]
           /\ \A k : Coming(Head(c), k)' => answers'[k] = x /\ x.ok = TRUE
           /\ \A l : Final(l)' => Final(l) /\ l # Head(c)
<1>2. \A S, s, y : s \in Seq(S) /\ y \in S =>
         /\ DOMAIN s = 1 .. Len(s) /\ Len(s) \in Nat
         /\ DOMAIN Append(s, y) = 1 .. Len(s) + 1
         /\ \A i \in 1 .. Len(s) : Append(s, y)[i] = s[i]
         /\ Append(s, y)[Len(s) + 1] = y
  OBVIOUS
<1>3. answers \in Seq(Replies)
  BY DEF TasksTypes
<1>4. /\ DOMAIN answers = 1 .. Len(answers) /\ Len(answers) \in Nat
      /\ DOMAIN answers' = 1 .. Len(answers) + 1
      /\ \A i \in 1 .. Len(answers) : answers'[i] = answers[i]
      /\ answers'[Len(answers) + 1] = x
  BY <1>2, <1>3
<1>5. x.chain = c /\ x.overtaken = FALSE
  OBVIOUS
<1>6. ASSUME NEW l, ToCome(l), l # Head(c) PROVE ToCome(l)'
  <2>1. CASE \E d \in Chains : asks[d] > 0 /\ In(l, d)
    <3>1. PICK d \in Chains : asks[d] > 0 /\ In(l, d)
      BY <2>1
    <3>2. CASE d = c
      <4>1. In(l, Tail(c))
        BY <1>6, <3>1, <3>2, ChainFacts
      <4> QED
        BY <1>4, <1>5, <4>1 DEF ToCome
    <3>3. CASE d # c
      <4>1. asks'[d] = asks[d]
        BY <3>3 DEF TasksTypes
      <4> QED
        BY <3>1, <4>1 DEF ToCome
    <3> QED
      BY <3>2, <3>3
  <2>2. CASE \E k \in DOMAIN answers : In(l, Tail(answers[k].chain))
    BY <1>4, <2>2 DEF ToCome
  <2> QED
    BY <1>6, <2>1, <2>2 DEF ToCome
<1>7. \A l, k : k \in DOMAIN answers => Live(l, k)' = Live(l, k)
  BY <1>4 DEF Live
<1>8. \A l, m : m = Len(answers) + 1 => (Live(l, m)' <=> l = Head(c))
  BY <1>4, <1>5 DEF Live
<1>9. ASSUME NEW l, NEW k, Coming(l, k)', l # Head(c)
      PROVE  k \in DOMAIN answers /\ Coming(l, k) /\ answers'[k] = answers[k]
  <2>0. Latest(l, k)' /\ answers'[k].ok = TRUE
    BY <1>9 DEF Coming
  <2>1. k \in DOMAIN answers
    BY <1>4, <1>8, <1>9, <2>0 DEF Latest, Live
  <2>2. Live(l, k) /\ \A i \in DOMAIN answers : Live(l, i) => i <= k
    BY <1>4, <1>7, <2>0, <2>1 DEF Latest
  <2>3. Latest(l, k) /\ answers'[k] = answers[k]
    BY <1>4, <2>1, <2>2 DEF Latest
  <2> QED
    BY <2>0, <2>1, <2>3 DEF Coming
<1>10. ASSUME NEW k, Coming(Head(c), k)' PROVE answers'[k] = x /\ x.ok = TRUE
  <2>0. Latest(Head(c), k)' /\ answers'[k].ok = TRUE
    BY <1>10 DEF Coming
  <2>1. k \in 1 .. Len(answers) + 1 /\ Len(answers) + 1 <= k
    BY <1>4, <1>8, <2>0 DEF Latest, Live
  <2>2. k = Len(answers) + 1
    BY <1>4, <2>1
  <2> QED
    BY <1>4, <2>0, <2>2
<1>11. ASSUME NEW l, Final(l)' PROVE Final(l) /\ l # Head(c)
  <2>1. l # Head(c)
    BY <1>4, <1>8, <1>11 DEF Final
  <2>2. late' = late /\ refused' = refused
    OBVIOUS
  <2> QED
    BY <1>4, <1>7, <1>11, <2>1, <2>2 DEF Final
<1> QED
  BY <1>6, <1>9, <1>10, <1>11

LEMMA ReadStep ==
    ASSUME TasksTypes, NEW c \in Chains, TasksRead(c), NEW i \in Jobs,
           Left(i), Works(i), UpToDate(i), Fails(i), Removed(i)
    PROVE  Left(i)' /\ Works(i)' /\ UpToDate(i)' /\ Fails(i)' /\ Removed(i)'
<1>1. UNCHANGED <<phase, count, stream, running, failed, confirmed, silent, reverted, revived,
                  late, refused>>
  BY DEF TasksRead
<1>2. /\ \A l : ToCome(l) => ToCome(l)' \/ l = Head(c)
      /\ \A l, k : Coming(l, k)' /\ l # Head(c) =>
                      k \in DOMAIN answers /\ Coming(l, k) /\ answers'[k] = answers[k]
      /\ \A k : Coming(Head(c), k)' => answers'[k] = Reply(c)
      /\ \A l : Final(l)' => Final(l) /\ l # Head(c)
  <2>1. PICK x \in Replies : x = Reply(c)
    BY ReplyType
  <2>2. /\ x.chain = c /\ x.overtaken = FALSE /\ answers' = Append(answers, x)
        /\ asks' = [asks EXCEPT ![c] = @ - 1] /\ UNCHANGED <<late, refused>>
    BY <2>1 DEF TasksRead, Reply
  <2>3. /\ \A l : ToCome(l) => ToCome(l)' \/ l = Head(c)
        /\ \A l, k : Coming(l, k)' /\ l # Head(c) =>
                        k \in DOMAIN answers /\ Coming(l, k) /\ answers'[k] = answers[k]
        /\ \A k : Coming(Head(c), k)' => answers'[k] = x /\ x.ok = TRUE
        /\ \A l : Final(l)' => Final(l) /\ l # Head(c)
    BY <2>2, ReadEffect
  <2> QED
    BY <2>1, <2>3
<1>3. \A j \in Jobs :
         Reply(c).running[j] = IF Head(c) = "workers" /\ phase[j] \in AtWorker
                               THEN count[j] ELSE NotShown
  BY ReplyType
<1>4. count[i] # NotShown
  <2>1. count[i] \in Counts
    BY DEF TasksTypes, BoardTypes
  <2> QED
    BY <2>1 DEF Counts, NoCount, NotShown
<1>5. CASE Head(c) = "workers"
  <2>1. hastyW' = {j \in Jobs : phase[j] \in {"finishing", "failing"}} /\ hastyF' = hastyF
    BY <1>5 DEF TasksRead
  <2>2. /\ \A k : Coming("workers", k)' => answers'[k] = Reply(c)
        /\ ~Final("workers")'
        /\ \A k : Coming("failed", k)' =>
                 k \in DOMAIN answers /\ Coming("failed", k) /\ answers'[k] = answers[k]
        /\ Final("failed")' => Final("failed")
        /\ ToCome("failed") => ToCome("failed")'
    BY <1>2, <1>5
  <2>3. Left(i)'
    <3>1. CASE phase[i] \in {"taken", "started", "raised"}
      BY <1>1, <3>1 DEF Left
    <3>2. CASE phase[i] \in {"finishing", "failing"}
      BY <2>1, <3>2 DEF Left
    <3>3. CASE phase[i] \notin AtWorker
      <4>1. Reply(c).running[i] = NotShown
        BY <1>3, <3>3
      <4> QED
        BY <2>2, <4>1 DEF Left
    <3> QED
      BY <3>1, <3>2, <3>3 DEF AtWorker
  <2>4. Works(i)'
    <3>1. phase[i] = "started" => Reply(c).running[i] = count[i]
      BY <1>3, <1>5 DEF AtWorker
    <3> QED
      BY <1>1, <1>4, <2>2, <3>1 DEF Works
  <2>5. FailedToCome => FailedToCome'
    BY <1>1, <2>2 DEF FailedToCome
  <2>6. Fails(i)'
    BY <1>1, <2>1, <2>2, <2>5 DEF Fails
  <2> QED
    BY <1>1, <2>3, <2>4, <2>6 DEF UpToDate, Newest, Removed
<1>6. CASE Head(c) = "failed"
  <2>1. hastyF' = {j \in Jobs : phase[j] = "failing"} /\ hastyW' = hastyW
    BY <1>6 DEF TasksRead
  <2>2. /\ \A k : Coming("failed", k)' => answers'[k] = Reply(c)
        /\ ~Final("failed")'
        /\ \A k : Coming("workers", k)' =>
                 k \in DOMAIN answers /\ Coming("workers", k) /\ answers'[k] = answers[k]
        /\ Final("workers")' => Final("workers")
        /\ ToCome("workers") => ToCome("workers")'
    BY <1>2, <1>6
  <2>3. WorkersToCome => WorkersToCome'
    BY <1>1, <2>2 DEF WorkersToCome
  <2>4. Left(i)'
    BY <1>1, <2>1, <2>2, <2>3 DEF Left
  <2>5. Works(i)'
    BY <1>1, <2>2, <2>3 DEF Works
  <2>6. Fails(i)'
    <3>1. phase[i] = "failed" => i \in Reply(c).failed
      BY <1>6 DEF Reply
    <3> QED
      BY <1>1, <2>1, <2>2, <3>1 DEF Fails
  <2> QED
    BY <1>1, <2>4, <2>5, <2>6 DEF UpToDate, Newest, Removed
<1> QED
  BY <1>5, <1>6, ChainFacts DEF Lists

LEMMA FailStep ==
    ASSUME TasksTypes, NEW c \in Chains, TasksFail(c), NEW i \in Jobs,
           Left(i), Works(i), UpToDate(i), Fails(i), Removed(i)
    PROVE  Left(i)' /\ Works(i)' /\ UpToDate(i)' /\ Fails(i)' /\ Removed(i)'
<1>1. UNCHANGED <<phase, count, stream, running, failed, confirmed, silent, reverted, revived,
                  late, refused, hastyW, hastyF>>
  BY DEF TasksFail
<1>2. /\ \A l : ToCome(l) => ToCome(l)' \/ l = Head(c)
      /\ \A l, k : Coming(l, k)' =>
            k \in DOMAIN answers /\ Coming(l, k) /\ answers'[k] = answers[k]
      /\ \A l : Final(l)' => Final(l) /\ l # Head(c)
      /\ \A k : ~Coming(Head(c), k)'
  <2>1. PICK x \in Replies : x = Refusal(c)
    BY ReplyType
  <2>2. /\ x.chain = c /\ x.overtaken = FALSE /\ answers' = Append(answers, x)
        /\ asks' = [asks EXCEPT ![c] = @ - 1] /\ UNCHANGED <<late, refused>>
        /\ x.ok # TRUE
    BY <2>1 DEF TasksFail, Refusal
  <2>3. /\ \A l : ToCome(l) => ToCome(l)' \/ l = Head(c)
        /\ \A l, k : Coming(l, k)' /\ l # Head(c) =>
              k \in DOMAIN answers /\ Coming(l, k) /\ answers'[k] = answers[k]
        /\ \A k : Coming(Head(c), k)' => answers'[k] = x /\ x.ok = TRUE
        /\ \A l : Final(l)' => Final(l) /\ l # Head(c)
    BY <2>2, ReadEffect
  <2> QED
    BY <2>2, <2>3
<1>3. Left(i)'
  BY <1>1, <1>2 DEF Left, WorkersToCome
<1>4. Works(i)'
  BY <1>1, <1>2 DEF Works, WorkersToCome
<1>5. Fails(i)'
  BY <1>1, <1>2 DEF Fails, FailedToCome
<1> QED
  BY <1>1, <1>3, <1>4, <1>5 DEF UpToDate, Newest, Removed

-----------------------------------------------------------------------------
(* An answer arrives *)

LEMMA LiveAfterAnswer ==
    ASSUME TasksTypes, NEW k, TasksAnswer(k), NEW l
    PROVE  /\ \A i : Live(l, i)' /\ i < k =>
                 /\ Live(l, i) /\ l # Head(answers[k].chain)
                 /\ answers'[i].running = answers[i].running
                 /\ answers'[i].ok = answers[i].ok
                 /\ answers'[i].failed = answers[i].failed
                 /\ answers'[i].undoes = answers[i].undoes
           /\ \A i : Live(l, i)' /\ ~(i < k) =>
                 /\ Live(l, i + 1) /\ i + 1 # k
                 /\ answers'[i].running = answers[i + 1].running
                 /\ answers'[i].ok = answers[i + 1].ok
                 /\ answers'[i].failed = answers[i + 1].failed
                 /\ answers'[i].undoes = answers[i + 1].undoes
           /\ \A m : Live(l, m) /\ m < k /\ l # Head(answers[k].chain) => Live(l, m)'
           /\ \A m, i : Live(l, m) /\ ~(m < k) /\ m # k /\ i = m - 1 => Live(l, i)'
<1>1. /\ k \in DOMAIN answers /\ DOMAIN answers = 1 .. Len(answers) /\ Len(answers) \in Nat
      /\ DOMAIN answers' = 1 .. Len(answers) - 1
      /\ \A i \in DOMAIN answers' :
                 LET m == IF i < k THEN i ELSE i + 1 IN
                    /\ m \in DOMAIN answers /\ m # k
                    /\ answers'[i].chain = answers[m].chain /\ answers'[i].ok = answers[m].ok
                    /\ answers'[i].running = answers[m].running
                    /\ answers'[i].failed = answers[m].failed
                    /\ answers'[i].undoes = answers[m].undoes
                    /\ i >= k => answers'[i].overtaken = answers[m].overtaken
                    /\ i < k => answers'[i].overtaken = (answers[m].overtaken \/
                                   Head(answers[m].chain) = Head(answers[k].chain))
      /\ \A m \in DOMAIN answers :
                 m # k => (IF m < k THEN m ELSE m - 1) \in DOMAIN answers'
  BY AnswerEffect DEF TasksTypes
<1>2. \A m \in DOMAIN answers : answers[m].overtaken \in BOOLEAN
  <2>1. \A m \in DOMAIN answers : answers[m] \in Replies
    BY DEF TasksTypes
  <2> QED
    BY <2>1 DEF Replies
<1>3. ASSUME NEW i, Live(l, i)', i < k
      PROVE  /\ Live(l, i) /\ l # Head(answers[k].chain)
             /\ answers'[i].running = answers[i].running
             /\ answers'[i].ok = answers[i].ok
             /\ answers'[i].failed = answers[i].failed
             /\ answers'[i].undoes = answers[i].undoes
  <2>1. i \in DOMAIN answers'
    BY <1>3 DEF Live
  <2>2. /\ i \in DOMAIN answers /\ answers'[i].chain = answers[i].chain
        /\ answers'[i].running = answers[i].running
        /\ answers'[i].ok = answers[i].ok
        /\ answers'[i].failed = answers[i].failed
        /\ answers'[i].undoes = answers[i].undoes
        /\ answers'[i].overtaken = (answers[i].overtaken \/
                                       Head(answers[i].chain) = Head(answers[k].chain))
    BY <1>1, <1>3, <2>1
  <2> QED
    BY <1>2, <1>3, <2>2 DEF Live
<1>4. ASSUME NEW i, Live(l, i)', ~(i < k)
      PROVE  /\ Live(l, i + 1) /\ i + 1 # k
             /\ answers'[i].running = answers[i + 1].running
             /\ answers'[i].ok = answers[i + 1].ok
             /\ answers'[i].failed = answers[i + 1].failed
             /\ answers'[i].undoes = answers[i + 1].undoes
  <2>1. i \in DOMAIN answers'
    BY <1>4 DEF Live
  <2>2. i >= k
    BY <1>1, <1>4, <2>1
  <2>3. /\ i + 1 \in DOMAIN answers /\ answers'[i].chain = answers[i + 1].chain
        /\ i + 1 # k
        /\ answers'[i].running = answers[i + 1].running
        /\ answers'[i].ok = answers[i + 1].ok
        /\ answers'[i].failed = answers[i + 1].failed
        /\ answers'[i].undoes = answers[i + 1].undoes
        /\ answers'[i].overtaken = answers[i + 1].overtaken
    BY <1>1, <1>4, <2>1, <2>2
  <2> QED
    BY <1>4, <2>3 DEF Live
<1>5. ASSUME NEW m, Live(l, m), m < k, l # Head(answers[k].chain)
      PROVE  Live(l, m)'
  <2>1. m \in DOMAIN answers /\ m # k
    BY <1>1, <1>5 DEF Live
  <2>2. m \in DOMAIN answers'
    BY <1>1, <1>5, <2>1
  <2>3. /\ answers'[m].chain = answers[m].chain
        /\ answers'[m].overtaken = (answers[m].overtaken \/
                                       Head(answers[m].chain) = Head(answers[k].chain))
    BY <1>1, <1>5, <2>2
  <2> QED
    BY <1>5, <2>2, <2>3 DEF Live
<1>6. ASSUME NEW m, Live(l, m), ~(m < k), m # k, NEW i, i = m - 1
      PROVE  Live(l, i)'
  <2>1. m \in DOMAIN answers
    BY <1>6 DEF Live
  <2>2. i \in DOMAIN answers' /\ i >= k /\ ~(i < k) /\ i + 1 = m
    BY <1>1, <1>6, <2>1
  <2>3. /\ answers'[i].chain = answers[m].chain /\ answers'[i].ok = answers[m].ok
        /\ answers'[i].overtaken = answers[m].overtaken
    BY <1>1, <2>2
  <2> QED
    BY <1>6, <2>2, <2>3 DEF Live
<1> QED
  BY <1>3, <1>4, <1>5, <1>6

\* What will be shown last remains so, or is shown now.
LEMMA AnswerViews ==
    ASSUME TasksTypes, Ordered, NEW k, TasksAnswer(k), NEW l
    PROVE  /\ \A i : Coming(l, i)' =>
                 \E m \in DOMAIN answers :
                    /\ Coming(l, m)
                    /\ answers'[i].running = answers[m].running
                    /\ answers'[i].ok = answers[m].ok
                    /\ answers'[i].failed = answers[m].failed
                    /\ answers'[i].undoes = answers[m].undoes
           /\ Final(l)' /\ l # Head(answers[k].chain) => Final(l)
           /\ Final(l)' /\ l = Head(answers[k].chain) =>
                 (Coming(l, k) /\ answers[k].ok) \/ (~answers[k].ok /\ Final(l))
<1>1. k \in DOMAIN answers /\ k \in Nat /\ DOMAIN answers \subseteq Nat
      /\ DOMAIN answers' \subseteq Nat
  BY AnswerEffect DEF TasksTypes
<1>2. /\ \A i : Live(l, i)' /\ i < k =>
            /\ Live(l, i) /\ l # Head(answers[k].chain)
            /\ answers'[i].running = answers[i].running
            /\ answers'[i].ok = answers[i].ok
            /\ answers'[i].failed = answers[i].failed
            /\ answers'[i].undoes = answers[i].undoes
      /\ \A i : Live(l, i)' /\ ~(i < k) =>
            /\ Live(l, i + 1) /\ i + 1 # k
            /\ answers'[i].running = answers[i + 1].running
            /\ answers'[i].ok = answers[i + 1].ok
            /\ answers'[i].failed = answers[i + 1].failed
            /\ answers'[i].undoes = answers[i + 1].undoes
      /\ \A m : Live(l, m) /\ m < k /\ l # Head(answers[k].chain) => Live(l, m)'
      /\ \A m, i : Live(l, m) /\ ~(m < k) /\ m # k /\ i = m - 1 => Live(l, i)'
  BY LiveAfterAnswer
<1>3. \A m : Live(l, m) => m \in DOMAIN answers /\ m \in Nat
  BY <1>1 DEF Live
<1>4. \A m : Live(l, m)' => m \in DOMAIN answers' /\ m \in Nat
  BY <1>1 DEF Live
<1>5. ASSUME NEW i, Coming(l, i)'
      PROVE  \E m \in DOMAIN answers :
                /\ Coming(l, m)
                /\ answers'[i].running = answers[m].running
                /\ answers'[i].ok = answers[m].ok
                /\ answers'[i].failed = answers[m].failed
                /\ answers'[i].undoes = answers[m].undoes
  <2>1. Live(l, i)' /\ i \in Nat
    BY <1>4, <1>5 DEF Coming, Latest
  <2>2. \A n : Live(l, n)' => n <= i
    BY <1>4, <1>5 DEF Coming, Latest
  <2>3. CASE i < k
    <3>1. Live(l, i) /\ l # Head(answers[k].chain)
      BY <1>2, <2>1, <2>3
    <3>2. ASSUME NEW n, Live(l, n) PROVE n <= i
      <4>1. n \in Nat
        BY <1>3, <3>2
      <4>2. n # k
        <5>1. Head(answers[k].chain) # l
          BY <3>1
        <5> QED
          BY <3>2, <5>1 DEF Live
      <4>3. CASE n < k
        BY <1>2, <2>2, <3>1, <3>2, <4>3
      <4>4. CASE ~(n < k)
        <5>1. PICK d : d = n - 1
          OBVIOUS
        <5>2. Live(l, d)'
          BY <1>2, <3>2, <4>2, <4>4, <5>1
        <5>3. d <= i
          BY <2>2, <5>2
        <5> QED
          BY <1>1, <2>1, <2>3, <4>1, <4>2, <4>4, <5>1, <5>3
      <4> QED
        BY <4>3, <4>4
    <3> QED
      BY <1>2, <1>3, <1>5, <2>1, <2>3, <3>1, <3>2 DEF Coming, Latest
  <2>4. CASE ~(i < k)
    <3>1. Live(l, i + 1)
      BY <1>2, <2>1, <2>4
    <3>2. ASSUME NEW n, Live(l, n) PROVE n <= i + 1
      <4>1. n \in Nat
        BY <1>3, <3>2
      <4>2. CASE n <= k
        BY <1>1, <2>1, <2>4, <4>1, <4>2
      <4>3. CASE ~(n <= k)
        <5>1. PICK d : d = n - 1
          OBVIOUS
        <5>2. ~(n < k) /\ n # k
          BY <1>1, <4>1, <4>3
        <5>3. Live(l, d)'
          BY <1>2, <3>2, <5>1, <5>2
        <5>4. d <= i
          BY <2>2, <5>3
        <5> QED
          BY <2>1, <4>1, <5>1, <5>4
      <4> QED
        BY <4>2, <4>3
    <3>3. Latest(l, i + 1) /\ i + 1 \in DOMAIN answers
      BY <1>3, <3>1, <3>2 DEF Latest
    <3>4. /\ answers'[i].running = answers[i + 1].running
          /\ answers'[i].ok = answers[i + 1].ok
          /\ answers'[i].failed = answers[i + 1].failed
          /\ answers'[i].undoes = answers[i + 1].undoes
      BY <1>2, <2>1, <2>4
    <3>5. Coming(l, i + 1)
      BY <1>5, <3>3, <3>4 DEF Coming
    <3> QED
      BY <3>3, <3>4, <3>5
  <2> QED
    BY <2>3, <2>4
<1>6. Final(l)' => \A n : ~Live(l, n)'
  BY <1>4 DEF Final
<1>7. ASSUME Final(l)', l # Head(answers[k].chain) PROVE Final(l)
  <2>1. l \notin late \union refused
    BY <1>7 DEF Final, TasksAnswer, Show, Keep
  <2>2. ASSUME NEW n \in DOMAIN answers, Live(l, n) PROVE FALSE
    <3>1. n # k
      BY <1>7, <2>2 DEF Live
    <3>2. PICK d : d = n - 1
      OBVIOUS
    <3> QED
      BY <1>2, <1>6, <1>7, <2>2, <3>1, <3>2
  <2> QED
    BY <2>1, <2>2 DEF Final
<1>8. ASSUME Final(l)', l = Head(answers[k].chain)
      PROVE  (Coming(l, k) /\ answers[k].ok) \/ (~answers[k].ok /\ Final(l))
  <2>1. answers[k].overtaken \in BOOLEAN /\ answers[k].ok \in BOOLEAN
    BY AnswerEffect DEF Replies
  <2>2. l \notin late' /\ l \notin refused'
    BY <1>8 DEF Final
  <2>3. ASSUME NEW n \in DOMAIN answers, Live(l, n) PROVE n <= k
    <3>1. PICK d : d = n - 1
      OBVIOUS
    <3>2. n < k \/ n = k
      BY <1>2, <1>6, <1>8, <2>3, <3>1
    <3> QED
      BY <1>1, <1>3, <2>3, <3>2
  <2>4. CASE answers[k].ok
    <3>1. late' = IF answers[k].overtaken THEN late \union {l} ELSE late \ {l}
      BY <1>8, <2>4 DEF TasksAnswer, Show
    <3>2. Live(l, k)
      BY <1>1, <1>8, <2>1, <2>2, <3>1 DEF Live
    <3> QED
      BY <2>1, <2>3, <2>4, <3>2 DEF Coming, Latest
  <2>5. CASE ~answers[k].ok
    <3>1. late' = late /\ refused' = refused \union {m \in {l} : ~answers[k].overtaken}
      BY <1>8, <2>5 DEF TasksAnswer, Keep
    <3>2. answers[k].overtaken /\ l \notin late \union refused
      BY <2>2, <3>1
    <3>3. ASSUME NEW n \in DOMAIN answers, Live(l, n) PROVE FALSE
      <4>1. n # k /\ n <= k
        BY <2>3, <3>2, <3>3 DEF Live
      <4>2. n < k
        BY <1>1, <1>3, <4>1
      <4>3. answers[n].overtaken
        BY <1>1, <1>8, <3>2, <3>3, <4>2 DEF Ordered, Live
      <4> QED
        BY <3>3, <4>3 DEF Live
    <3> QED
      BY <2>1, <2>5, <3>2, <3>3 DEF Final
  <2> QED
    BY <2>4, <2>5
<1> QED
  BY <1>5, <1>7, <1>8

LEMMA AnswerToCome ==
    ASSUME TasksTypes, NEW k, TasksAnswer(k), NEW l, ToCome(l)
    PROVE  ToCome(l)'
<1>1. /\ k \in DOMAIN answers /\ DOMAIN answers = 1 .. Len(answers)
      /\ answers[k] \in Replies
      /\ DOMAIN answers' = 1 .. Len(answers) - 1
  BY AnswerEffect DEF TasksTypes
<1>2. PICK c \in Chains : c = answers[k].chain
  BY <1>1 DEF Replies
<1>3. asks' = IF Len(c) > 1 THEN [asks EXCEPT ![Tail(c)] = @ + 1] ELSE asks
  BY <1>2 DEF TasksAnswer, Ask
<1>4. \A d \in Chains : asks[d] > 0 => asks'[d] > 0
  <2>1. CASE Len(c) > 1
    BY <1>3, <2>1, ChainFacts DEF TasksTypes
  <2>2. CASE ~(Len(c) > 1)
    BY <1>3, <2>2
  <2> QED
    BY <2>1, <2>2
<1>5. CASE \E d \in Chains : asks[d] > 0 /\ In(l, d)
  BY <1>4, <1>5 DEF ToCome
<1>6. CASE \E m \in DOMAIN answers : In(l, Tail(answers[m].chain))
  <2>1. PICK m \in DOMAIN answers : In(l, Tail(answers[m].chain))
    BY <1>6
  <2>2. CASE m = k
    <3>1. Len(c) > 1 /\ Tail(c) \in Chains
      BY <1>2, <2>1, <2>2, ChainFacts
    <3>2. asks'[Tail(c)] > 0
      BY <1>3, <3>1 DEF TasksTypes
    <3> QED
      BY <1>2, <2>1, <2>2, <3>1, <3>2 DEF ToCome
  <2>3. CASE m # k
    <3>1. PICK i : i = IF m < k THEN m ELSE m - 1
      OBVIOUS
    <3>2. i \in DOMAIN answers'
      BY <2>3, <3>1, AnswerEffect
    <3>3. m = IF i < k THEN i ELSE i + 1
      BY <1>1, <2>3, <3>1
    <3>4. answers'[i].chain = answers[m].chain
      BY <3>2, <3>3, AnswerEffect
    <3> QED
      BY <2>1, <3>2, <3>4 DEF ToCome
  <2> QED
    BY <2>2, <2>3
<1> QED
  BY <1>5, <1>6 DEF ToCome

LEMMA AnswerStep ==
    ASSUME TasksTypes, Ordered, NEW k, TasksAnswer(k), NEW i \in Jobs,
           Left(i), Works(i), UpToDate(i), Fails(i), Removed(i)
    PROVE  Left(i)' /\ Works(i)' /\ UpToDate(i)' /\ Fails(i)' /\ Removed(i)'
<1>1. UNCHANGED <<phase, count, stream, confirmed, silent, hastyW, hastyF>>
  BY DEF TasksAnswer
<1>2. k \in DOMAIN answers /\ answers[k] \in Replies
  BY AnswerEffect DEF TasksTypes
<1>3. WorkersToCome => WorkersToCome'
  BY <1>1, AnswerToCome DEF WorkersToCome
<1>4. FailedToCome => FailedToCome'
  BY <1>1, AnswerToCome DEF FailedToCome
<1>5. /\ answers[k].ok /\ Head(answers[k].chain) = "workers" =>
            running' = answers[k].running /\ reverted' = answers[k].undoes
      /\ ~answers[k].ok \/ Head(answers[k].chain) # "workers" =>
            running' = running /\ reverted' = reverted
      /\ answers[k].ok /\ Head(answers[k].chain) = "failed" =>
            /\ failed' = answers[k].failed
            /\ revived' = {j \in answers[k].failed : phase[j] # "failed"}
      /\ ~answers[k].ok \/ Head(answers[k].chain) # "failed" =>
            failed' = failed /\ revived' = revived
  BY DEF TasksAnswer, Show, Keep
<1>6. \A l : /\ \A n : Coming(l, n)' =>
                  \E m \in DOMAIN answers :
                     /\ Coming(l, m)
                     /\ answers'[n].running = answers[m].running
                     /\ answers'[n].ok = answers[m].ok
                     /\ answers'[n].failed = answers[m].failed
                     /\ answers'[n].undoes = answers[m].undoes
             /\ Final(l)' /\ l # Head(answers[k].chain) => Final(l)
             /\ Final(l)' /\ l = Head(answers[k].chain) =>
                   (Coming(l, k) /\ answers[k].ok) \/ (~answers[k].ok /\ Final(l))
  BY AnswerViews
<1>7. Left(i)'
  <2> SUFFICES ASSUME ~WorkersToCome, phase[i] \notin {"taken", "started", "raised"},
                      i \notin silent \union hastyW
               PROVE  /\ \A n \in DOMAIN answers' : Coming("workers", n)' =>
                            answers'[n].running[i] = NotShown
                      /\ Final("workers")' => running'[i] = NotShown
    BY <1>1, <1>3 DEF Left
  <2>1. /\ \A n \in DOMAIN answers : Coming("workers", n) => answers[n].running[i] = NotShown
        /\ Final("workers") => running[i] = NotShown
    BY DEF Left
  <2>2. Final("workers")' => running'[i] = NotShown
    BY <1>2, <1>5, <1>6, <2>1
  <2>3. \A n \in DOMAIN answers' : Coming("workers", n)' => answers'[n].running[i] = NotShown
    BY <1>6, <2>1
  <2> QED
    BY <2>2, <2>3
<1>8. Works(i)'
  <2> DEFINE Same(v, u) == /\ v # NotShown
                           /\ \/ v = count[i] \/ i \in u
                              \/ \E n \in DOMAIN stream : Tells(stream[n], i)
  <2>1. SUFFICES ASSUME ~WorkersToCome, phase[i] = "started"
                 PROVE  /\ \A n \in DOMAIN answers' : Coming("workers", n)' =>
                              Same(answers'[n].running[i], answers'[n].undoes)
                        /\ Final("workers")' => Same(running'[i], reverted')
    BY <1>1, <1>3 DEF Works
  <2>2. /\ \A n \in DOMAIN answers : Coming("workers", n) =>
              Same(answers[n].running[i], answers[n].undoes)
        /\ Final("workers") => Same(running[i], reverted)
    BY <2>1 DEF Works
  <2> HIDE DEF Same
  <2>3. Final("workers")' => Same(running'[i], reverted')
    BY <1>2, <1>5, <1>6, <2>2
  <2>4. \A n \in DOMAIN answers' : Coming("workers", n)' =>
           Same(answers'[n].running[i], answers'[n].undoes)
    BY <1>6, <2>2
  <2> QED
    BY <2>3, <2>4
<1>9. Fails(i)'
  <2>1. SUFFICES ASSUME ~FailedToCome, phase[i] \in {"failing", "failed"}, i \notin hastyF
                 PROVE  /\ \A n \in DOMAIN answers' :
                              Coming("failed", n)' => i \in answers'[n].failed
                        /\ Final("failed")' => i \in failed'
    BY <1>1, <1>4 DEF Fails
  <2>2. /\ \A n \in DOMAIN answers : Coming("failed", n) => i \in answers[n].failed
        /\ Final("failed") => i \in failed
    BY <2>1 DEF Fails
  <2>3. Final("failed")' => i \in failed'
    BY <1>2, <1>5, <1>6, <2>2
  <2>4. \A n \in DOMAIN answers' : Coming("failed", n)' => i \in answers'[n].failed
    BY <1>6, <2>2
  <2> QED
    BY <2>3, <2>4
<1>10. Removed(i)'
  BY <1>1, <1>5 DEF Removed
<1> QED
  BY <1>1, <1>7, <1>8, <1>9, <1>10 DEF UpToDate, Newest

-----------------------------------------------------------------------------
(* An event is handled *)

LEMMA ListenerToCome ==
    ASSUME TasksTypes, WorkerListener
    PROVE  /\ \A l : ToCome(l) => ToCome(l)'
           /\ WorkersToCome => WorkersToCome'
           /\ FailedToCome => FailedToCome'
           /\ \A l, k : Coming(l, k)' <=> Coming(l, k)
           /\ \A l : Final(l)' <=> Final(l)
<1>1. PICK e \in Events :
         /\ e = stream[1] /\ 1 \in DOMAIN stream
         /\ \A i \in DOMAIN stream' : i + 1 \in DOMAIN stream /\ stream'[i] = stream[i + 1]
         /\ \A i \in DOMAIN stream : i # 1 => i - 1 \in DOMAIN stream'
         /\ asks' = [c \in Chains |-> IF c \in Fetches(e) THEN asks[c] + 1 ELSE asks[c]]
         /\ DOMAIN answers' = DOMAIN answers
         /\ \A k \in DOMAIN answers :
               /\ answers'[k].chain = answers[k].chain /\ answers'[k].ok = answers[k].ok
               /\ answers'[k].overtaken = answers[k].overtaken
  BY ListenerEffect
<1>2. \A c \in Chains : asks[c] \in Nat /\ (asks[c] > 0 => asks'[c] > 0)
  BY <1>1 DEF TasksTypes
<1>3. \A c \in Fetches(e) : c \in Chains /\ asks'[c] > 0
  BY <1>1, <1>2, FetchesChains
<1>4. ASSUME NEW l, ToCome(l) PROVE ToCome(l)'
  BY <1>1, <1>2, <1>4 DEF ToCome
<1>5. e.status # "progress" => ToCome("workers")'
  BY <1>3, FetchesChains DEF ToCome
<1>6. e.status = "failed" => ToCome("failed")'
  BY <1>3, FetchesChains DEF ToCome
<1>7. \A i \in DOMAIN stream : i # 1 => \E n \in DOMAIN stream' : stream'[n] = stream[i]
  <2> TAKE i \in DOMAIN stream
  <2> HAVE i # 1
  <2>1. PICK n : n = i - 1
    OBVIOUS
  <2>2. n \in DOMAIN stream' /\ n + 1 = i
    <3>1. i \in Int
      BY DEF TasksTypes
    <3> QED
      BY <1>1, <2>1, <3>1
  <2> QED
    BY <1>1, <2>2
<1>8. WorkersToCome => WorkersToCome'
  <2>1. ASSUME NEW i \in DOMAIN stream, stream[i].status # "progress" PROVE WorkersToCome'
    <3>1. CASE i = 1
      BY <1>1, <1>5, <2>1, <3>1 DEF WorkersToCome
    <3>2. CASE i # 1
      BY <1>7, <2>1, <3>2 DEF WorkersToCome
    <3> QED
      BY <3>1, <3>2
  <2> QED
    BY <1>4, <2>1 DEF WorkersToCome
<1>9. FailedToCome => FailedToCome'
  <2>1. ASSUME NEW i \in DOMAIN stream, stream[i].status = "failed" PROVE FailedToCome'
    <3>1. CASE i = 1
      BY <1>1, <1>6, <2>1, <3>1 DEF FailedToCome
    <3>2. CASE i # 1
      BY <1>7, <2>1, <3>2 DEF FailedToCome
    <3> QED
      BY <3>1, <3>2
  <2> QED
    BY <1>4, <2>1 DEF FailedToCome
<1>10. \A l, k : Live(l, k)' <=> Live(l, k)
  BY <1>1 DEF Live
<1>11. late' = late /\ refused' = refused
  BY DEF WorkerListener
<1>12. \A l, k : Live(l, k) => answers'[k].ok = answers[k].ok
  BY <1>1 DEF Live
<1> QED
  BY <1>1, <1>4, <1>8, <1>9, <1>10, <1>11, <1>12 DEF Coming, Latest, Final

LEMMA ListenerStep ==
    ASSUME TasksTypes, WorkerListener, NEW i \in Jobs,
           Left(i), Works(i), UpToDate(i), Fails(i), Removed(i)
    PROVE  Left(i)' /\ Works(i)' /\ UpToDate(i)' /\ Fails(i)' /\ Removed(i)'
<1>1. UNCHANGED <<phase, count, failed, loaded, confirmed, silent, hastyW, hastyF, late, refused, revived>>
  BY DEF WorkerListener
<1>2. PICK e \in Events :
         /\ e = stream[1] /\ 1 \in DOMAIN stream
         /\ \A n \in DOMAIN stream' : n + 1 \in DOMAIN stream /\ stream'[n] = stream[n + 1]
         /\ \A n \in DOMAIN stream : n # 1 => n - 1 \in DOMAIN stream'
         /\ asks' = [c \in Chains |-> IF c \in Fetches(e) THEN asks[c] + 1 ELSE asks[c]]
         /\ IF e.status = "progress" /\ running[e.job] # NotShown
            THEN running' = [running EXCEPT ![e.job] = e.current] /\ reverted' = reverted \ {e.job}
            ELSE running' = running /\ reverted' = reverted
         /\ DOMAIN answers' = DOMAIN answers
         /\ \A k \in DOMAIN answers :
               /\ answers'[k].running = answers[k].running
               /\ answers'[k].failed = answers[k].failed
               /\ answers[k].undoes \subseteq answers'[k].undoes
               /\ e.status = "progress" /\ answers[k].running[e.job] # NotShown =>
                     \/ answers[k].running[e.job] = e.current
                     \/ e.job \in answers'[k].undoes
  BY ListenerEffect
<1>3. /\ WorkersToCome => WorkersToCome'
      /\ FailedToCome => FailedToCome'
      /\ \A l, k : Coming(l, k)' <=> Coming(l, k)
      /\ \A l : Final(l)' <=> Final(l)
  BY ListenerToCome
<1>4. DOMAIN stream \subseteq Int /\ running \in [Jobs -> Values] /\ e.current # NotShown
  <2>1. e.current \in Counts
    BY DEF Events
  <2> QED
    BY <2>1 DEF TasksTypes, Counts, NoCount, NotShown
<1>5. \A j \in Jobs : j # e.job => running'[j] = running[j] /\ (j \in reverted' <=> j \in reverted)
  BY <1>2, <1>4
<1>6. \A j \in Jobs : running'[j] = NotShown <=> running[j] = NotShown
  BY <1>2, <1>4
<1>7. Left(i)'
  BY <1>1, <1>2, <1>3, <1>6 DEF Left
<1>8. UpToDate(i)'
  <2> SUFFICES ASSUME phase[i] = "started", NEW n \in DOMAIN stream', Newest(n, i)'
               PROVE  stream'[n].current = count[i]
    BY <1>1 DEF UpToDate
  <2>1. n + 1 \in DOMAIN stream /\ stream'[n] = stream[n + 1] /\ n \in Int /\ n + 1 # 1
    <3>1. n \in Int /\ n # 0
      <4>1. n \in 1 .. Len(stream) - 1
        BY ListenerEffect
      <4> QED
        BY <4>1 DEF TasksTypes
    <3> QED
      BY <1>2, <3>1
  <2>2. ASSUME NEW k \in DOMAIN stream, k > n + 1
        PROVE  stream[k].status = "progress" /\ stream[k].job # i
    <3>1. PICK m : m = k - 1
      OBVIOUS
    <3>2. k \in Int /\ k # 1
      <4>1. k \in Int /\ n \in 1 .. Len(stream) - 1
        BY <1>4, ListenerEffect
      <4> QED
        BY <2>2, <4>1 DEF TasksTypes
    <3>3. m \in DOMAIN stream' /\ m + 1 = k /\ m > n
      BY <1>2, <2>1, <2>2, <3>1, <3>2
    <3>4. stream'[m] = stream[k]
      BY <1>2, <3>3
    <3> QED
      BY <3>3, <3>4 DEF Newest
  <2>3. Newest(n + 1, i)
    BY <2>1, <2>2 DEF Newest
  <2> QED
    BY <2>1, <2>3 DEF UpToDate
<1>9. Works(i)'
  <2> DEFINE Word == \E n \in DOMAIN stream : Tells(stream[n], i)
  <2>1. SUFFICES ASSUME ~WorkersToCome', phase[i] = "started"
                 PROVE  /\ \A k \in DOMAIN answers : Coming("workers", k) =>
                              /\ answers[k].running[i] # NotShown
                              /\ \/ answers[k].running[i] = count[i]
                                 \/ i \in answers'[k].undoes \/ Word'
                        /\ Final("workers") =>
                              /\ running'[i] # NotShown
                              /\ running'[i] = count[i] \/ i \in reverted' \/ Word'
    BY <1>1, <1>2, <1>3 DEF Works
  <2>2. /\ \A k \in DOMAIN answers : Coming("workers", k) =>
              /\ answers[k].running[i] # NotShown
              /\ answers[k].running[i] = count[i] \/ i \in answers[k].undoes \/ Word
        /\ Final("workers") =>
              /\ running[i] # NotShown
              /\ running[i] = count[i] \/ i \in reverted \/ Word
    BY <1>3, <2>1 DEF Works
  <2>3. \A n \in DOMAIN stream : n # 1 => n - 1 \in DOMAIN stream' /\ stream'[n - 1] = stream[n]
    <3> TAKE n \in DOMAIN stream
    <3> HAVE n # 1
    <3>1. PICK m : m = n - 1
      OBVIOUS
    <3>2. m \in DOMAIN stream' /\ m + 1 = n
      BY <1>2, <1>4, <3>1
    <3> QED
      BY <1>2, <3>1, <3>2
  <2>4. \A n \in DOMAIN stream : n # 1 => stream[n].status = "progress"
    BY <2>1, <2>3 DEF WorkersToCome
  <2>5. CASE Tells(e, i)
    <3>1. e.status = "progress" /\ e.job = i
      BY <2>5 DEF Tells
    <3>2. CASE Word'
      BY <1>6, <2>2, <3>2
    <3>3. CASE ~Word'
      <4>1. \A n \in DOMAIN stream : n # 1 => stream[n].job # i
        BY <2>3, <2>4, <3>3 DEF Tells
      <4>2. \A n \in DOMAIN stream : n > 1 => stream[n].status = "progress" /\ stream[n].job # i
        BY <1>4, <2>4, <4>1
      <4>3. Newest(1, i)
        BY <1>2, <2>5, <4>2 DEF Newest
      <4>4. e.current = count[i]
        BY <1>2, <2>1, <4>3 DEF UpToDate
      <4>5. \A k \in DOMAIN answers : Coming("workers", k) =>
               /\ answers[k].running[i] # NotShown
               /\ answers[k].running[i] = count[i] \/ i \in answers'[k].undoes
        BY <1>2, <2>2, <3>1, <4>4
      <4>6. Final("workers") => running'[i] # NotShown /\ running'[i] = count[i]
        BY <1>2, <1>4, <2>2, <3>1, <4>4
      <4> QED
        BY <4>5, <4>6
    <3> QED
      BY <3>2, <3>3
  <2>6. CASE ~Tells(e, i)
    <3>1. Word => Word'
      <4>1. ASSUME NEW n \in DOMAIN stream, Tells(stream[n], i) PROVE Word'
        <5>1. n # 1
          BY <1>2, <2>6, <4>1
        <5> QED
          BY <2>3, <4>1, <5>1
      <4> QED
        BY <4>1
    <3>2. running'[i] = running[i] /\ (i \in reverted' <=> i \in reverted)
      BY <1>2, <1>5, <2>6 DEF Tells
    <3>3. \A k \in DOMAIN answers : i \in answers[k].undoes => i \in answers'[k].undoes
      BY <1>2
    <3> QED
      BY <2>2, <3>1, <3>2, <3>3
  <2> QED
    BY <2>5, <2>6
<1>10. Fails(i)'
  BY <1>1, <1>2, <1>3 DEF Fails
<1>11. Removed(i)'
  BY <1>1 DEF Removed
<1> QED
  BY <1>7, <1>8, <1>9, <1>10, <1>11

-----------------------------------------------------------------------------
(* The order of the answers *)

LEMMA OrderedRead ==
    ASSUME TasksTypes, Ordered, NEW c \in Chains, TasksRead(c) \/ TasksFail(c)
    PROVE  Ordered'
<1>1. PICK x \in Replies : answers' = Append(answers, x) /\ x.overtaken = FALSE
  <2>1. CASE TasksRead(c)
    <3>1. answers' = Append(answers, Reply(c)) /\ Reply(c).overtaken = FALSE
      BY <2>1 DEF TasksRead, Reply
    <3> QED
      BY <3>1, ReplyType
  <2>2. CASE TasksFail(c)
    <3>1. answers' = Append(answers, Refusal(c)) /\ Refusal(c).overtaken = FALSE
      BY <2>2 DEF TasksFail, Refusal
    <3> QED
      BY <3>1, ReplyType
  <2> QED
    BY <2>1, <2>2
<1>2. \A S, s, y : s \in Seq(S) /\ y \in S =>
         /\ DOMAIN s = 1 .. Len(s) /\ Len(s) \in Nat
         /\ DOMAIN Append(s, y) = 1 .. Len(s) + 1
         /\ \A i \in 1 .. Len(s) : Append(s, y)[i] = s[i]
         /\ Append(s, y)[Len(s) + 1] = y
  OBVIOUS
<1>3. answers \in Seq(Replies)
  BY DEF TasksTypes
<1>4. /\ DOMAIN answers = 1 .. Len(answers) /\ Len(answers) \in Nat
      /\ DOMAIN answers' = 1 .. Len(answers) + 1
      /\ \A i \in 1 .. Len(answers) : answers'[i] = answers[i]
      /\ answers'[Len(answers) + 1] = x
  BY <1>1, <1>2, <1>3
<1> SUFFICES ASSUME NEW i \in DOMAIN answers', NEW k \in DOMAIN answers', i < k,
                    Head(answers'[i].chain) = Head(answers'[k].chain), answers'[k].overtaken
             PROVE  answers'[i].overtaken
  BY DEF Ordered
<1>5. k \in DOMAIN answers /\ i \in DOMAIN answers
  BY <1>1, <1>4
<1> QED
  BY <1>4, <1>5 DEF Ordered

LEMMA OrderedAnswer ==
    ASSUME TasksTypes, Ordered, NEW k, TasksAnswer(k)
    PROVE  Ordered'
<1>1. k \in Nat /\ DOMAIN answers \subseteq Nat /\ DOMAIN answers' \subseteq Nat
  BY AnswerEffect DEF TasksTypes
<1>0. \A m \in DOMAIN answers : answers[m].overtaken \in BOOLEAN
  <2>1. \A m \in DOMAIN answers : answers[m] \in Replies
    BY DEF TasksTypes
  <2> QED
    BY <2>1 DEF Replies
<1> DEFINE From(i) == IF i < k THEN i ELSE i + 1
<1>2. \A i \in DOMAIN answers' :
         /\ From(i) \in DOMAIN answers
         /\ answers'[i].chain = answers[From(i)].chain
         /\ i >= k => answers'[i].overtaken = answers[From(i)].overtaken
         /\ i < k => answers'[i].overtaken = (answers[From(i)].overtaken \/
                        Head(answers[From(i)].chain) = Head(answers[k].chain))
  BY AnswerEffect
<1> SUFFICES ASSUME NEW i \in DOMAIN answers', NEW n \in DOMAIN answers', i < n,
                    Head(answers'[i].chain) = Head(answers'[n].chain), answers'[n].overtaken
             PROVE  answers'[i].overtaken
  BY DEF Ordered
<1>3. From(i) < From(n) /\ i \in Nat /\ n \in Nat
  BY <1>1
<1>6. \A m \in {i, n} : ~(m < k) => m >= k
  BY <1>1, <1>3
<1> HIDE DEF From
<1>4. CASE answers[From(n)].overtaken = TRUE
  <2>1. answers[From(i)].overtaken = TRUE
    BY <1>0, <1>2, <1>3, <1>4 DEF Ordered
  <2> QED
    BY <1>2, <1>6, <2>1
<1>5. CASE answers[From(n)].overtaken = FALSE
  <2>1. n < k /\ Head(answers[From(n)].chain) = Head(answers[k].chain)
    BY <1>2, <1>5, <1>6
  <2>2. i < k
    BY <1>1, <1>3, <2>1
  <2>3. Head(answers[From(i)].chain) = Head(answers[k].chain)
    BY <1>2, <2>1
  <2> QED
    BY <1>2, <2>2, <2>3
<1> QED
  BY <1>0, <1>2, <1>4, <1>5

LEMMA OrderedStep ==
    ASSUME TasksTypes, Ordered, [TasksNext]_tasksVars
    PROVE  Ordered'
<1>1. CASE UNCHANGED answers
  BY <1>1 DEF Ordered
<1>2. ASSUME NEW j \in Jobs,
             \/ JobMoves(j) \/ JobTells(j)
             \/ RemoveFailedTask(j) \/ ServerRemoves(j) \/ RemoveRow(j)
      PROVE  UNCHANGED answers
  <2>1. CASE JobTells(j)
    BY <2>1, TellsEffect
  <2>2. CASE ~JobTells(j)
    BY <1>2, <2>2 DEF JobMoves, RemoveFailedTask, ServerRemoves, RemoveRow
  <2> QED
    BY <2>1, <2>2
<1>3. CASE OthersRemove \/ Boot \/ UNCHANGED tasksVars
  BY <1>1, <1>3 DEF OthersRemove, Boot
<1>4. CASE PageStep
  <2>1. CASE \E c \in Chains : TasksRead(c) \/ TasksFail(c)
    BY <2>1, OrderedRead
  <2>2. CASE \E k \in 1 .. MaxCalls + 1 : TasksAnswer(k)
    BY <2>2, OrderedAnswer
  <2>3. CASE WorkerListener
    <3>1. /\ DOMAIN answers' = DOMAIN answers
          /\ \A k \in DOMAIN answers :
                /\ answers'[k].chain = answers[k].chain
                /\ answers'[k].overtaken = answers[k].overtaken
      BY <2>3, ListenerEffect
    <3> QED
      BY <3>1 DEF Ordered
  <2> QED
    BY <1>4, <2>1, <2>2, <2>3 DEF PageStep
<1> QED
  BY <1>1, <1>2, <1>3, <1>4 DEF TasksNext

-----------------------------------------------------------------------------
(* The theorems *)

LEMMA TasksInvInit ==
    ASSUME TasksInit PROVE TasksInv
<1>1. PICK start \in Chains : start = <<"workers", "failed">>
  BY DEF Chains
<1>2. asks = [c \in Chains |-> IF c = start THEN 1 ELSE 0]
  BY <1>1 DEF TasksInit
<1>3. asks \in [Chains -> Nat] /\ asks[start] = 1
  BY <1>2
<1>4. ToCome("workers") /\ ToCome("failed")
  BY <1>1, <1>3, ChainNames DEF ToCome
<1>5. \A S : <<>> \in Seq(S) /\ DOMAIN <<>> = {}
  OBVIOUS
<1>6. stream \in Seq(Events) /\ answers \in Seq(Replies) /\ DOMAIN stream = {}
  BY <1>5 DEF TasksInit
<1>7. running \in [Jobs -> Values]
  BY DEF TasksInit, NoJob, Values
<1>8. BoardTypes
  BY DEF TasksInit, BoardInit, BoardTypes, Phases, Counts, NoCount
<1>9. TasksTypes
  BY <1>3, <1>6, <1>7, <1>8 DEF TasksInit, TasksTypes
<1>10. ASSUME NEW j \in Jobs
       PROVE  Left(j) /\ Works(j) /\ UpToDate(j) /\ Fails(j) /\ Removed(j)
  BY <1>4, <1>6 DEF TasksInit, Left, Works, UpToDate, Fails, Removed, WorkersToCome, FailedToCome
<1>11. Ordered
  BY <1>5 DEF TasksInit, Ordered
<1> QED
  BY <1>9, <1>10, <1>11 DEF TasksInv

LEMMA TasksInvStep ==
    ASSUME TasksInv, [TasksNext]_tasksVars PROVE TasksInv'
<1>1. TasksTypes /\ TasksTypes' /\ Ordered /\ Ordered'
  BY TasksTypeStep, OrderedStep DEF TasksInv
<1>2. ASSUME NEW i \in Jobs
      PROVE  Left(i)' /\ Works(i)' /\ UpToDate(i)' /\ Fails(i)' /\ Removed(i)'
  <2>1. Left(i) /\ Works(i) /\ UpToDate(i) /\ Fails(i) /\ Removed(i)
    BY DEF TasksInv
  <2>2. ASSUME NEW j \in Jobs, JobTells(j)
        PROVE  Left(i)' /\ Works(i)' /\ UpToDate(i)' /\ Fails(i)' /\ Removed(i)'
    BY <1>1, <2>1, <2>2, TellsStep
  <2>3. CASE Quietly(i)
    BY <2>1, <2>3, QuietStep
  <2>4. CASE \E j \in Jobs : JobMoves(j)
    BY <1>1, <2>3, <2>4, MovesQuietly
  <2>5. CASE \E j \in Jobs : RemoveFailedTask(j) \/ ServerRemoves(j) \/ RemoveRow(j)
    BY <1>1, <2>1, <2>3, <2>5, RowQuietly
  <2>6. CASE OthersRemove \/ Boot
    BY <1>1, <2>3, <2>6, OthersQuietly
  <2>7. CASE \E c \in Chains : TasksRead(c) \/ TasksFail(c)
    BY <1>1, <2>1, <2>7, ReadStep, FailStep
  <2>8. CASE \E k \in 1 .. MaxCalls + 1 : TasksAnswer(k)
    BY <1>1, <2>1, <2>8, AnswerStep
  <2>9. CASE WorkerListener
    BY <1>1, <2>1, <2>9, ListenerStep
  <2>10. CASE UNCHANGED tasksVars
    BY <2>3, <2>10 DEF Quietly
  <2> QED
    BY <2>2, <2>4, <2>5, <2>6, <2>7, <2>8, <2>9, <2>10 DEF TasksNext, PageStep
<1> QED
  BY <1>1, <1>2 DEF TasksInv

THEOREM TasksInvariant == TasksSpec => []TasksInv
<1>1. TasksInit => TasksInv
  BY TasksInvInit
<1>2. TasksInv /\ [TasksNext]_tasksVars => TasksInv'
  BY TasksInvStep
<1> QED
  BY <1>1, <1>2, PTL DEF TasksSpec

(***************************************************************************)
(* What the page shows, what it has asked for, and what is on its way to   *)
(* it, are of their types (BackgroundTasksComponent).                      *)
(***************************************************************************)
THEOREM TaskTypesCorrect == TasksSpec => []TasksTypes
<1>1. TasksInv => TasksTypes
  BY DEF TasksInv
<1> QED
  BY <1>1, TasksInvariant, PTL

(***************************************************************************)
(* When every event has been handled and every request answered, the page  *)
(* shows the jobs that are with workers, with their progress, and the jobs *)
(* that have failed, but for the named exceptions, whatever has overtaken  *)
(* what on the way (_workerListener, _fetchWorkers, _fetchFailedTasks,     *)
(* removeFailedTask).                                                      *)
(***************************************************************************)
THEOREM TasksAgree == TasksSpec => []TasksFollow
<1>1. TasksInv => TasksFollow
  <2> SUFFICES ASSUME TasksInv PROVE TasksFollow
    OBVIOUS
  <2>1. AllAnswered =>
           /\ ~WorkersToCome /\ ~FailedToCome /\ DOMAIN stream = {} /\ DOMAIN answers = {}
           /\ \A l : Final(l) <=> l \notin late \union refused
    <3>1. DOMAIN <<>> = {} /\ \A n \in Nat : n = 0 => ~(n > 0)
      OBVIOUS
    <3> QED
      BY <3>1 DEF AllAnswered, WorkersToCome, FailedToCome, ToCome, Final
  <2>2. WorkersFollow
    BY <2>1 DEF WorkersFollow, TasksInv, Left, Works, AtWorker
  <2>3. FailedFollow
    BY <2>1 DEF FailedFollow, TasksInv, Fails, Removed
  <2> QED
    BY <2>2, <2>3 DEF TasksFollow
<1> QED
  BY <1>1, TasksInvariant, PTL
=============================================================================
