--------------------------- MODULE Relations_proofs ---------------------------
(***************************************************************************)
(* Proofs about the scraping of relations, for every graph, every number   *)
(* of concurrent jobs, and all limits.                                     *)
(***************************************************************************)
EXTENDS RelationsProps, FiniteSetTheorems, TLAPS

USE DEF Goto, vars, jobVars

Ends(j) == FriendsOf(who[j]) \union FollowersOf(who[j])

\* What is known of job j, by step: it deals with relations of its profile
\* only, and the two ends of the relation in hand have rows.
Facts(j) ==
    /\ friends[j] \subseteq FriendsOf(who[j]) /\ friends[j] \subseteq wanted[j]
    /\ followers[j] \subseteq FollowersOf(who[j]) /\ followers[j] \subseteq wanted[j]
    /\ batch[j] \subseteq wanted[j] /\ wanted[j] \subseteq Ends(j)
    /\ pc[j] = "new" => batch[j] = {} /\ pend[j] = {}
    /\ pc[j] # "new" => who[j] \in rows
    /\ pc[j] \in {"append", "commit"} =>
          /\ cur[j] \in wanted[j] /\ Other(j, cur[j]) \in rows
          /\ Twitter => cur[j] \in batch[j]

GraphInv == TypeOK /\ EdgesTrue /\ \A j \in Jobs : Facts(j)

-----------------------------------------------------------------------------
\* A step does not change the site, and rows and edges only grow.
LEMMA Grows ==
    ASSUME [Next]_vars
    PROVE  site' = site /\ Twitter' = Twitter /\ rows \subseteq rows' /\ edges \subseteq edges'
<1>1. site' = site /\ rows \subseteq rows' /\ edges \subseteq edges'
  BY DEF Next, JobStep, Begin, LookUp, TwitterInsert, InstagramInsert, InstagramRollback, Append,
     Commit, CommitConflict, Interrupt
<1> QED
  BY <1>1 DEF Twitter

LEMMA PrefixSubset == ASSUME NEW S, NEW n, NEW T \in Prefixes(S, n) PROVE T \subseteq S
BY DEF Prefixes

\* The two ends of a relation of p are p and the other account.
LEMMA TwoEnds ==
    ASSUME NEW j \in Jobs, NEW e \in Ends(j), who[j] \in rows, Other(j, e) \in rows
    PROVE  e \in Follows /\ e[1] \in rows /\ e[2] \in rows
BY DEF Ends, FriendsOf, FollowersOf, Other

LEMMA OtherIsUser ==
    ASSUME NEW j \in Jobs, NEW e \in Edges PROVE Other(j, e) \in Users
BY DEF Other, Edges

(* Types and edges *)

LEMMA GraphInit == Init => GraphInv
<1> SUFFICES ASSUME Init PROVE GraphInv
  OBVIOUS
<1>1. AnyUser \in Users
  BY GraphAssumption DEF AnyUser
<1>2. TypeOK
  BY <1>1, GraphAssumption DEF Init, TypeOK, Edges, Running, Ended
<1>3. EdgesTrue
  BY DEF Init, EdgesTrue
<1>4. ASSUME NEW j \in Jobs PROVE Facts(j)
  BY DEF Init, Facts
<1> QED
  BY <1>2, <1>3, <1>4 DEF GraphInv

LEMMA TypeNext == GraphInv /\ [Next]_vars => TypeOK'
<1> SUFFICES ASSUME GraphInv, [Next]_vars PROVE TypeOK'
  OBVIOUS
<1>0. TypeOK /\ \A j \in Jobs : Facts(j)
  BY DEF GraphInv
<1> USE <1>0 DEF TypeOK, Running, Ended
<1>1. ASSUME NEW j \in Jobs, NEW p \in Users, Begin(j, p) PROVE TypeOK'
  <2>1. PICK fr \in Prefixes(FriendsOf(p) \ edges, MaxResults),
             fo \in Prefixes(FollowersOf(p) \ edges, MaxResults) :
           /\ friends' = [friends EXCEPT ![j] = fr]
           /\ followers' = [followers EXCEPT ![j] = fo]
           /\ wanted' = [wanted EXCEPT ![j] = fr \union fo]
           /\ pc' = [pc EXCEPT ![j] = IF fr \union fo = {} THEN "done"
                                      ELSE IF Twitter THEN "lookup" ELSE "insert"]
    BY <1>1 DEF Begin
  <2>2. fr \subseteq Edges /\ fo \subseteq Edges
    BY PrefixSubset, GraphAssumption DEF FriendsOf, FollowersOf, Edges
  <2> QED
    BY <1>1, <2>1, <2>2 DEF Begin
<1>2. ASSUME NEW j \in Jobs, LookUp(j) PROVE TypeOK'
  <2>1. PICK fr \in Prefixes(friends[j], ChunkSize) :
        \E fo \in Prefixes(followers[j], ChunkSize - Cardinality(fr)) :
          LET described == {e \in ChunkRelations(j, fr, fo) : Other(j, e) \notin Suspended} IN
          /\ friends' = [friends EXCEPT ![j] = @ \ fr]
          /\ followers' = [followers EXCEPT ![j] = @ \ fo]
          /\ batch' = [batch EXCEPT ![j] = described]
          /\ pc' = [pc EXCEPT ![j] = IF described = {} THEN "failed" ELSE "insert"]
    BY <1>2 DEF LookUp
  <2>2. PICK fo \in Prefixes(followers[j], ChunkSize - Cardinality(fr)) :
          LET described == {e \in ChunkRelations(j, fr, fo) : Other(j, e) \notin Suspended} IN
          /\ friends' = [friends EXCEPT ![j] = @ \ fr]
          /\ followers' = [followers EXCEPT ![j] = @ \ fo]
          /\ batch' = [batch EXCEPT ![j] = described]
          /\ pc' = [pc EXCEPT ![j] = IF described = {} THEN "failed" ELSE "insert"]
    BY <2>1
  <2>3. ChunkRelations(j, fr, fo) \subseteq Edges
    BY PrefixSubset DEF ChunkRelations
  <2> QED
    BY <1>2, <2>2, <2>3 DEF LookUp
<1>3. ASSUME NEW j \in Jobs, NEW e \in Edges, TwitterInsert(j, e) PROVE TypeOK'
  BY <1>3, OtherIsUser DEF TwitterInsert, Facts
<1>4. ASSUME NEW j \in Jobs, NEW e \in Edges, InstagramInsert(j, e) PROVE TypeOK'
  BY <1>4, OtherIsUser DEF InstagramInsert, Facts, Listed
<1>5. ASSUME NEW j \in Jobs, NEW e \in Edges, InstagramRollback(j, e) PROVE TypeOK'
  BY <1>5 DEF InstagramRollback, Facts, Listed
<1>6. ASSUME NEW j \in Jobs, Append(j) PROVE TypeOK'
  BY <1>6 DEF Append
<1>7. ASSUME NEW j \in Jobs, Commit(j) PROVE TypeOK'
  BY <1>7 DEF Commit, AfterRelation
<1>8. ASSUME NEW j \in Jobs, CommitConflict(j) PROVE TypeOK'
  BY <1>8 DEF CommitConflict
<1>9. ASSUME NEW j \in Jobs, Interrupt(j) PROVE TypeOK'
  BY <1>9 DEF Interrupt
<1> QED
  BY <1>1, <1>2, <1>3, <1>4, <1>5, <1>6, <1>7, <1>8, <1>9 DEF Next, JobStep

\* What a job appends can be inserted: both of its accounts have rows.
LEMMA EdgesNext == GraphInv /\ [Next]_vars => EdgesTrue'
<1> SUFFICES ASSUME GraphInv, [Next]_vars PROVE EdgesTrue'
  OBVIOUS
<1>0. TypeOK /\ EdgesTrue /\ (\A j \in Jobs : Facts(j)) /\ rows \subseteq rows'
  BY Grows DEF GraphInv
<1> USE <1>0 DEF TypeOK, EdgesTrue
<1>1. ASSUME NEW j \in Jobs, Append(j) PROVE EdgesTrue'
  <2>1. cur[j] \in Follows /\ cur[j][1] \in rows /\ cur[j][2] \in rows
    <3>1. cur[j] \in Ends(j) /\ Other(j, cur[j]) \in rows /\ who[j] \in rows
      BY <1>1 DEF Append, Facts
    <3> QED
      BY <3>1, TwoEnds
  <2>2. pend' = [pend EXCEPT ![j] = {cur[j]} \ edges] /\ edges' = edges /\ rows' = rows
    BY <1>1 DEF Append
  <2> QED
    BY <2>1, <2>2
<1>2. ASSUME NEW j \in Jobs,
             Commit(j) \/ \E e \in Edges : InstagramInsert(j, e)
      PROVE  EdgesTrue'
  <2>1. edges' = edges \union pend[j] /\ pend' = [pend EXCEPT ![j] = {}]
    BY <1>2 DEF Commit, InstagramInsert
  <2> QED
    BY <2>1
<1>3. ASSUME NEW j \in Jobs,
             \/ CommitConflict(j) \/ Interrupt(j)
             \/ \E e \in Edges : InstagramRollback(j, e)
      PROVE  EdgesTrue'
  <2>1. edges' = edges /\ pend' = [pend EXCEPT ![j] = {}]
    BY <1>3 DEF CommitConflict, Interrupt, InstagramRollback
  <2> QED
    BY <2>1
<1>4. ASSUME NEW j \in Jobs,
             \/ LookUp(j)
             \/ \E e \in Edges : TwitterInsert(j, e)
             \/ \E p \in Users : Begin(j, p)
      PROVE  EdgesTrue'
  <2>1. edges' = edges /\ pend' = pend
    BY <1>4 DEF LookUp, TwitterInsert, Begin
  <2> QED
    BY <2>1
<1>5. CASE UNCHANGED vars
  BY <1>5
<1> QED
  BY <1>1, <1>2, <1>3, <1>4, <1>5 DEF Next, JobStep

OthersKept(i) ==
    /\ pc'[i] = pc[i] /\ who'[i] = who[i] /\ friends'[i] = friends[i]
    /\ followers'[i] = followers[i] /\ batch'[i] = batch[i] /\ cur'[i] = cur[i]
    /\ pend'[i] = pend[i] /\ wanted'[i] = wanted[i]

\* The steps of one job leave the variables of another one as they are.
LEMMA Untouched ==
    ASSUME TypeOK, NEW i \in Jobs, NEW j \in Jobs \ {i},
           \/ JobStep(j) \/ Interrupt(j) \/ \E p \in Users : Begin(j, p)
    PROVE  OthersKept(i)
<1> USE DEF TypeOK, OthersKept
<1>1. ASSUME NEW p \in Users, Begin(j, p) PROVE OthersKept(i)
  BY <1>1 DEF Begin
<1>2. ASSUME LookUp(j) PROVE OthersKept(i)
  BY <1>2 DEF LookUp
<1>3. ASSUME NEW e \in Edges,
             TwitterInsert(j, e) \/ InstagramInsert(j, e) \/ InstagramRollback(j, e)
      PROVE  OthersKept(i)
  BY <1>3 DEF TwitterInsert, InstagramInsert, InstagramRollback
<1>4. ASSUME Append(j) PROVE OthersKept(i)
  BY <1>4 DEF Append
<1>5. ASSUME Commit(j) \/ CommitConflict(j) \/ Interrupt(j) PROVE OthersKept(i)
  BY <1>5 DEF Commit, CommitConflict, Interrupt
<1> QED
  BY <1>1, <1>2, <1>3, <1>4, <1>5 DEF JobStep

\* The steps of one job leave what is known of another one as it is.
LEMMA OthersFacts ==
    ASSUME GraphInv, NEW i \in Jobs, rows \subseteq rows', Twitter' = Twitter,
           pc'[i] = pc[i], who'[i] = who[i], friends'[i] = friends[i],
           followers'[i] = followers[i], batch'[i] = batch[i], cur'[i] = cur[i],
           pend'[i] = pend[i], wanted'[i] = wanted[i]
    PROVE  Facts(i)'
BY DEF GraphInv, Facts, Ends, FriendsOf, FollowersOf, Other

LEMMA FactsNext == GraphInv /\ [Next]_vars => \A j \in Jobs : Facts(j)'
<1> SUFFICES ASSUME GraphInv, [Next]_vars, NEW i \in Jobs PROVE Facts(i)'
  OBVIOUS
<1>0. TypeOK /\ Facts(i) /\ rows \subseteq rows' /\ Twitter' = Twitter
  BY Grows DEF GraphInv
<1> USE <1>0
<1>1. ASSUME NEW p \in Users, Begin(i, p) PROVE Facts(i)'
  <2>1. PICK fr \in Prefixes(FriendsOf(p) \ edges, MaxResults),
             fo \in Prefixes(FollowersOf(p) \ edges, MaxResults) :
           /\ friends' = [friends EXCEPT ![i] = fr]
           /\ followers' = [followers EXCEPT ![i] = fo]
           /\ wanted' = [wanted EXCEPT ![i] = fr \union fo]
           /\ pc' = [pc EXCEPT ![i] = IF fr \union fo = {} THEN "done"
                                      ELSE IF Twitter THEN "lookup" ELSE "insert"]
    BY <1>1 DEF Begin
  <2>2. fr \subseteq FriendsOf(p) /\ fo \subseteq FollowersOf(p)
    BY PrefixSubset
  <2>3. /\ who'[i] = p /\ friends'[i] = fr /\ followers'[i] = fo /\ wanted'[i] = fr \union fo
        /\ batch'[i] = {} /\ p \in rows' /\ pc'[i] \notin {"new", "append", "commit"}
    BY <1>1, <2>1 DEF Begin, TypeOK, Facts
  <2> QED
    BY <2>2, <2>3 DEF Facts, Ends, FriendsOf, FollowersOf
<1>2. ASSUME LookUp(i) PROVE Facts(i)'
  <2>1. PICK fr \in Prefixes(friends[i], ChunkSize) :
        \E fo \in Prefixes(followers[i], ChunkSize - Cardinality(fr)) :
          LET described == {e \in ChunkRelations(i, fr, fo) : Other(i, e) \notin Suspended} IN
          /\ friends' = [friends EXCEPT ![i] = @ \ fr]
          /\ followers' = [followers EXCEPT ![i] = @ \ fo]
          /\ batch' = [batch EXCEPT ![i] = described]
          /\ pc' = [pc EXCEPT ![i] = IF described = {} THEN "failed" ELSE "insert"]
    BY <1>2 DEF LookUp
  <2>2. PICK fo \in Prefixes(followers[i], ChunkSize - Cardinality(fr)) :
          LET described == {e \in ChunkRelations(i, fr, fo) : Other(i, e) \notin Suspended} IN
          /\ friends' = [friends EXCEPT ![i] = @ \ fr]
          /\ followers' = [followers EXCEPT ![i] = @ \ fo]
          /\ batch' = [batch EXCEPT ![i] = described]
          /\ pc' = [pc EXCEPT ![i] = IF described = {} THEN "failed" ELSE "insert"]
    BY <2>1
  <2>3. ChunkRelations(i, fr, fo) \subseteq wanted[i]
    BY PrefixSubset DEF ChunkRelations, Facts
  <2>4. /\ friends'[i] \subseteq friends[i] /\ followers'[i] \subseteq followers[i]
        /\ batch'[i] \subseteq wanted[i] /\ pc'[i] \in {"failed", "insert"} /\ pc[i] # "new"
        /\ who' = who /\ wanted' = wanted
    BY <1>2, <2>2, <2>3 DEF LookUp, TypeOK
  <2> QED
    BY <2>4 DEF Facts, Ends, FriendsOf, FollowersOf
<1>3. ASSUME NEW e \in Edges, TwitterInsert(i, e) PROVE Facts(i)'
  <2>1. /\ cur'[i] = e /\ e \in batch[i] /\ Other(i, e) \in rows' /\ pc'[i] = "append"
        /\ pc[i] = "insert"
    BY <1>3 DEF TwitterInsert, TypeOK
  <2> QED
    BY <1>3, <2>1 DEF TwitterInsert, Facts, Ends, FriendsOf, FollowersOf, Other
<1>4. ASSUME NEW e \in Edges, InstagramInsert(i, e) PROVE Facts(i)'
  <2>1. /\ cur'[i] = e /\ e \in wanted[i] /\ Other(i, e) \in rows' /\ pc'[i] = "append"
        /\ pc[i] = "insert" /\ ~Twitter
    BY <1>4 DEF InstagramInsert, TypeOK, Facts, Listed
  <2> QED
    BY <1>4, <2>1 DEF InstagramInsert, Facts, Ends, FriendsOf, FollowersOf, Other
<1>5. ASSUME NEW e \in Edges, InstagramRollback(i, e) PROVE Facts(i)'
  <2>1. /\ cur'[i] = e /\ e \in wanted[i] /\ ~Twitter /\ pc[i] = "insert"
        /\ pc'[i] \in {"append", "failed"} /\ (pc'[i] = "append" => Other(i, e) \in rows)
    BY <1>5 DEF InstagramRollback, TypeOK, Facts, Listed
  <2> QED
    BY <1>5, <2>1 DEF InstagramRollback, Facts, Ends, FriendsOf, FollowersOf, Other
<1>6. ASSUME Append(i) PROVE Facts(i)'
  <2>1. /\ friends'[i] \subseteq friends[i] /\ followers'[i] \subseteq followers[i]
        /\ pc[i] = "append" /\ pc'[i] \in {"commit", "done", "insert"}
        /\ pc'[i] = "commit" => Twitter
        /\ who' = who /\ wanted' = wanted /\ batch' = batch /\ cur' = cur /\ rows' = rows
    BY <1>6 DEF Append, TypeOK
  <2> QED
    BY <2>1 DEF Facts, Ends, FriendsOf, FollowersOf, Other
<1>7. ASSUME Commit(i) PROVE Facts(i)'
  <2>1. /\ batch'[i] \subseteq batch[i] /\ pc[i] = "commit"
        /\ pc'[i] \in {"lookup", "done", "insert"}
        /\ who' = who /\ wanted' = wanted /\ friends' = friends /\ followers' = followers
    BY <1>7 DEF Commit, AfterRelation, TypeOK
  <2> QED
    BY <2>1 DEF Facts, Ends, FriendsOf, FollowersOf
<1>8. ASSUME CommitConflict(i) \/ Interrupt(i) PROVE Facts(i)'
  <2>1. pc'[i] = "failed" /\ pc[i] # "new"
    BY <1>8 DEF CommitConflict, Interrupt, TypeOK, Running
  <2> QED
    BY <1>8, <2>1 DEF CommitConflict, Interrupt, Facts, Ends, FriendsOf, FollowersOf
<1>9. ASSUME NEW j \in Jobs \ {i},
             \/ JobStep(j) \/ Interrupt(j) \/ \E p \in Users : Begin(j, p)
      PROVE  Facts(i)'
  BY <1>9, Untouched, OthersFacts DEF OthersKept
<1>10. CASE UNCHANGED vars
  BY <1>10, OthersFacts
<1> QED
  BY <1>1, <1>2, <1>3, <1>4, <1>5, <1>6, <1>7, <1>8, <1>9, <1>10 DEF Next, JobStep

LEMMA GraphHolds == Spec => []GraphInv
<1>1. GraphInv /\ [Next]_vars => GraphInv'
  BY TypeNext, EdgesNext, FactsNext DEF GraphInv
<1> QED
  BY GraphInit, <1>1, PTL DEF Spec

(***************************************************************************)
(* Every reachable state is well typed; the relation in hand is one of     *)
(* those the job set out to store.                                         *)
(***************************************************************************)
THEOREM RelationTypesCorrect == Spec => []TypeOK
<1>1. GraphInv => TypeOK
  BY DEF GraphInv
<1> QED
  BY GraphHolds, <1>1, PTL

(***************************************************************************)
(* Stored relations, and those about to be inserted, are relations of the  *)
(* site between two profiles that have rows, at both sites, whatever the   *)
(* jobs do to each other.                                                  *)
(***************************************************************************)
THEOREM EdgesAreTrue == Spec => []EdgesTrue
<1>1. GraphInv => EdgesTrue
  BY DEF GraphInv
<1> QED
  BY GraphHolds, <1>1, PTL

(* What becomes of the relations that a Twitter job sets out to store *)

\* The relation the other way round.
Reverse(e) == <<e[2], e[1]>>

\* Relations that are stored, or that job j has still to deal with.
Reach(j) ==
    edges \union IF pc[j] = "done" THEN {} ELSE friends[j] \union followers[j] \union batch[j]

\* A chunk is dealt with before the next one is looked up, and a commit stores
\* the relation in hand unless it is stored already.
Chunked(j) ==
    Twitter => /\ pc[j] = "lookup" => batch[j] = {}
               /\ pc[j] = "commit" => cur[j] \in edges \union pend[j]

Active(j) == Twitter /\ pc[j] \notin {"new", "failed"}

\* Only mutual relations and suspended accounts may drop out of reach ...
AllReached(j) ==
    Active(j) => \A e \in wanted[j] :
       e \in Reach(j) \/ Other(j, e) \in Suspended \/ Mutual(j, e)

\* ... and of mutual relations one stays.
OneReached(j) ==
    Active(j) => \A e \in wanted[j] :
       Other(j, e) \in Suspended \/ \E f \in {e, Reverse(e)} : f \in Reach(j)

ReachInv ==
    \A j \in Jobs : Chunked(j) /\ AllReached(j) /\ OneReached(j)

LEMMA ReversePair ==
    ASSUME NEW j \in Jobs, NEW e \in Ends(j)
    PROVE  /\ e \in Follows /\ Reverse(Reverse(e)) = e
           /\ Other(j, Reverse(e)) = Other(j, e)
BY GraphAssumption DEF Ends, FriendsOf, FollowersOf, Other, Reverse

\* If two relations of a profile join it to the same account, in the one it is
\* the friend and in the other the follower.
LEMMA SameOther ==
    ASSUME NEW j \in Jobs, NEW e \in FriendsOf(who[j]), NEW f \in FollowersOf(who[j]),
           Other(j, e) = Other(j, f)
    PROVE  f = e \/ f = Reverse(e)
<1>1. e \in Users \X Users /\ f \in Users \X Users /\ e[1] = who[j] /\ f[2] = who[j]
  BY GraphAssumption DEF FriendsOf, FollowersOf
<1>2. e = <<e[1], e[2]>> /\ f = <<f[1], f[2]>>
  BY <1>1
<1> QED
  BY <1>1, <1>2 DEF Other, Reverse

\* Whoever has been looked up is in the batch, or his other relation is.
LEMMA ChunkReach ==
    ASSUME NEW j \in Jobs, NEW fr \in SUBSET FriendsOf(who[j]),
           NEW fo \in SUBSET FollowersOf(who[j]), NEW e \in fr \union fo
    PROVE  \E f \in {e, Reverse(e)} :
              f \in fr \union fo /\ f \in ChunkRelations(j, fr, fo)
<1>1. CASE e \in ChunkRelations(j, fr, fo)
  BY <1>1
<1>2. CASE e \notin ChunkRelations(j, fr, fo)
  <2>1. e \in fr /\ e \notin fo /\ \E f \in fo : Other(j, f) = Other(j, e)
    BY <1>2 DEF ChunkRelations
  <2>2. PICK f \in fo : Other(j, f) = Other(j, e)
    BY <2>1
  <2>3. f = Reverse(e)
    BY <2>1, <2>2, SameOther
  <2> QED
    BY <2>2, <2>3 DEF ChunkRelations
<1> QED
  BY <1>1, <1>2

LEMMA LookUpReach ==
    ASSUME GraphInv, NEW i \in Jobs, Chunked(i), LookUp(i), pc'[i] # "failed",
           NEW e \in Reach(i)
    PROVE  \/ e \in Reach(i)' \/ Other(i, e) \in Suspended
           \/ Reverse(e) # e /\ Reverse(e) \in Reach(i)' /\ Reverse(e) \in wanted[i]
<1>0. TypeOK /\ Facts(i) /\ Twitter /\ pc[i] = "lookup" /\ batch[i] = {} /\ edges' = edges
  BY DEF GraphInv, Chunked, LookUp
<1>1. PICK fr \in Prefixes(friends[i], ChunkSize) :
      \E fo \in Prefixes(followers[i], ChunkSize - Cardinality(fr)) :
        LET described == {d \in ChunkRelations(i, fr, fo) : Other(i, d) \notin Suspended} IN
        /\ friends' = [friends EXCEPT ![i] = @ \ fr]
        /\ followers' = [followers EXCEPT ![i] = @ \ fo]
        /\ batch' = [batch EXCEPT ![i] = described]
        /\ pc' = [pc EXCEPT ![i] = IF described = {} THEN "failed" ELSE "insert"]
  BY DEF LookUp
<1>2. PICK fo \in Prefixes(followers[i], ChunkSize - Cardinality(fr)) :
        LET described == {d \in ChunkRelations(i, fr, fo) : Other(i, d) \notin Suspended} IN
        /\ friends' = [friends EXCEPT ![i] = @ \ fr]
        /\ followers' = [followers EXCEPT ![i] = @ \ fo]
        /\ batch' = [batch EXCEPT ![i] = described]
        /\ pc' = [pc EXCEPT ![i] = IF described = {} THEN "failed" ELSE "insert"]
  BY <1>1
<1>3. /\ friends'[i] = friends[i] \ fr /\ followers'[i] = followers[i] \ fo
      /\ batch'[i] = {d \in ChunkRelations(i, fr, fo) : Other(i, d) \notin Suspended}
      /\ pc'[i] = "insert"
  BY <1>0, <1>2 DEF TypeOK
<1>4. fr \subseteq friends[i] /\ fo \subseteq followers[i]
  BY PrefixSubset
<1>5. Reach(i)' = edges \union friends'[i] \union followers'[i] \union batch'[i]
  BY <1>0, <1>3 DEF Reach
<1>6. CASE e \notin fr \union fo
  BY <1>0, <1>3, <1>5, <1>6 DEF Reach
<1>7. CASE e \in fr \union fo
  <2>1. fr \subseteq FriendsOf(who[i]) /\ fo \subseteq FollowersOf(who[i]) /\ e \in Ends(i)
    BY <1>0, <1>4, <1>7 DEF Facts, Ends
  <2>2. PICK f \in {e, Reverse(e)} : f \in fr \union fo /\ f \in ChunkRelations(i, fr, fo)
    BY <1>7, <2>1, ChunkReach
  <2>3. Other(i, f) = Other(i, e)
    BY <2>1, <2>2, ReversePair
  <2>4. f \in Reach(i)' \/ Other(i, e) \in Suspended
    BY <1>3, <1>5, <2>2, <2>3
  <2>5. f \in wanted[i]
    BY <1>0, <1>4, <2>2 DEF Facts
  <2> QED
    BY <2>2, <2>4, <2>5
<1> QED
  BY <1>6, <1>7

\* The other steps of a Twitter job lose nothing.
LEMMA StepReach ==
    ASSUME GraphInv, NEW i \in Jobs, Chunked(i), Twitter,
           \/ Append(i) \/ Commit(i) \/ \E e \in Edges : TwitterInsert(i, e)
    PROVE  Reach(i) \subseteq Reach(i)'
<1>0. TypeOK
  BY DEF GraphInv
<1>1. CASE Append(i) \/ \E e \in Edges : TwitterInsert(i, e)
  BY <1>0, <1>1 DEF Append, TwitterInsert, Reach, TypeOK
<1>2. CASE Commit(i)
  <2>1. cur[i] \in edges' /\ edges \subseteq edges'
    BY <1>2 DEF Commit, Chunked
  <2>2. /\ batch'[i] = batch[i] \ {cur[i]} /\ friends' = friends /\ followers' = followers
        /\ pc'[i] = AfterRelation(i) /\ pc[i] = "commit"
    BY <1>0, <1>2 DEF Commit, TypeOK
  <2>3. pc'[i] = "done" => batch[i] = {cur[i]} /\ friends[i] = {} /\ followers[i] = {}
    BY <2>2 DEF AfterRelation
  <2> QED
    BY <2>1, <2>2, <2>3 DEF Reach
<1> QED
  BY <1>1, <1>2

\* What a step can be to a job at Twitter.
LEMMA StepKinds ==
    ASSUME TypeOK, NEW i \in Jobs, [Next]_vars, Twitter
    PROVE  \/ \E p \in Users : Begin(i, p)
           \/ LookUp(i)
           \/ Append(i) \/ Commit(i) \/ \E e \in Edges : TwitterInsert(i, e)
           \/ CommitConflict(i) \/ Interrupt(i)
           \/ OthersKept(i)
<1>1. ASSUME NEW j \in Jobs \ {i},
             \/ JobStep(j) \/ Interrupt(j) \/ \E p \in Users : Begin(j, p)
      PROVE  OthersKept(i)
  BY <1>1, Untouched
<1>2. CASE UNCHANGED vars
  BY <1>2 DEF OthersKept
<1>3. \A e \in Edges : ~InstagramInsert(i, e) /\ ~InstagramRollback(i, e)
  BY DEF InstagramInsert, InstagramRollback
<1> QED
  BY <1>1, <1>2, <1>3 DEF Next, JobStep

\* A job becomes active when it begins, and then keeps its profile and list.
LEMMA ActiveKeeps ==
    ASSUME TypeOK, NEW i \in Jobs, [Next]_vars, Active(i)'
    PROVE  IF Active(i) THEN who'[i] = who[i] /\ wanted'[i] = wanted[i]
           ELSE \E p \in Users : Begin(i, p)
<1>1. Twitter /\ pc'[i] \notin {"new", "failed"}
  BY Grows DEF Active
<1>2. CASE \E p \in Users : Begin(i, p)
  BY <1>2 DEF Begin, Active
<1>3. CASE LookUp(i)
  BY <1>1, <1>3 DEF LookUp, Active
<1>4. CASE Append(i) \/ Commit(i) \/ \E e \in Edges : TwitterInsert(i, e)
  BY <1>1, <1>4 DEF Append, Commit, TwitterInsert, Active
<1>5. ~(CommitConflict(i) \/ Interrupt(i))
  BY <1>1 DEF CommitConflict, Interrupt, TypeOK
<1>6. CASE OthersKept(i)
  BY <1>1, <1>6 DEF OthersKept, Active
<1> QED
  BY <1>1, <1>2, <1>3, <1>4, <1>5, <1>6, StepKinds

\* An active job loses a relation only if the account is suspended or if the
\* other relation to it stays.
LEMMA ActiveStep ==
    ASSUME GraphInv, NEW i \in Jobs, Chunked(i), [Next]_vars, Active(i), Active(i)',
           NEW e \in Reach(i)
    PROVE  \/ e \in Reach(i)' \/ Other(i, e) \in Suspended
           \/ Reverse(e) # e /\ Reverse(e) \in Reach(i)' /\ Reverse(e) \in wanted[i]
<1>0. TypeOK /\ Twitter /\ edges \subseteq edges' /\ pc[i] # "new" /\ pc'[i] # "failed"
  BY Grows DEF GraphInv, Active
<1>1. ~(CommitConflict(i) \/ Interrupt(i) \/ \E p \in Users : Begin(i, p))
  BY <1>0 DEF CommitConflict, Interrupt, Begin, TypeOK
<1>2. CASE LookUp(i)
  BY <1>0, <1>2, LookUpReach
<1>3. CASE Append(i) \/ Commit(i) \/ \E d \in Edges : TwitterInsert(i, d)
  BY <1>0, <1>3, StepReach
<1>4. CASE OthersKept(i)
  BY <1>0, <1>4 DEF OthersKept, Reach
<1> QED
  BY <1>0, <1>1, <1>2, <1>3, <1>4, StepKinds

\* When a job begins, all it has to store is on its lists.
LEMMA BeginReach ==
    ASSUME GraphInv, NEW i \in Jobs, NEW p \in Users, Begin(i, p)
    PROVE  wanted'[i] \subseteq Reach(i)' /\ Chunked(i)'
<1>0. TypeOK /\ batch[i] = {} /\ batch' = batch
  BY DEF GraphInv, Facts, Begin
<1>1. PICK fr \in Prefixes(FriendsOf(p) \ edges, MaxResults),
           fo \in Prefixes(FollowersOf(p) \ edges, MaxResults) :
         /\ friends' = [friends EXCEPT ![i] = fr]
         /\ followers' = [followers EXCEPT ![i] = fo]
         /\ wanted' = [wanted EXCEPT ![i] = fr \union fo]
         /\ pc' = [pc EXCEPT ![i] = IF fr \union fo = {} THEN "done"
                                    ELSE IF Twitter THEN "lookup" ELSE "insert"]
  BY DEF Begin
<1>2. /\ friends'[i] = fr /\ followers'[i] = fo /\ wanted'[i] = fr \union fo
      /\ pc'[i] # "commit" /\ (pc'[i] = "done" => fr \union fo = {})
  BY <1>0, <1>1 DEF TypeOK
<1> QED
  BY <1>0, <1>2 DEF Reach, Chunked

LEMMA ChunkedNext ==
    ASSUME GraphInv, NEW i \in Jobs, Chunked(i), [Next]_vars
    PROVE  Chunked(i)'
<1>0. TypeOK /\ edges \subseteq edges' /\ Twitter' = Twitter
  BY Grows DEF GraphInv
<1> SUFFICES ASSUME Twitter
    PROVE  /\ pc'[i] = "lookup" => batch'[i] = {}
           /\ pc'[i] = "commit" => cur'[i] \in edges' \union pend'[i]
  BY <1>0 DEF Chunked
<1> USE <1>0 DEF TypeOK
<1>1. ASSUME NEW p \in Users, Begin(i, p) PROVE Chunked(i)'
  BY <1>1, BeginReach
<1>2. CASE LookUp(i)
  <2>1. pc'[i] \in {"failed", "insert"}
    BY <1>2 DEF LookUp
  <2> QED
    BY <2>1
<1>3. CASE Append(i)
  BY <1>3 DEF Append
<1>4. CASE Commit(i)
  <2>1. pc'[i] = "lookup" => batch[i] = {cur[i]}
    BY <1>4 DEF Commit, AfterRelation
  <2>2. pc'[i] # "commit" /\ batch'[i] = batch[i] \ {cur[i]}
    BY <1>4 DEF Commit, AfterRelation
  <2> QED
    BY <2>1, <2>2
<1>5. CASE \E e \in Edges : TwitterInsert(i, e)
  BY <1>5 DEF TwitterInsert
<1>6. CASE CommitConflict(i) \/ Interrupt(i)
  BY <1>6 DEF CommitConflict, Interrupt
<1>7. CASE OthersKept(i)
  BY <1>7 DEF OthersKept, Chunked
<1> QED
  BY <1>1, <1>2, <1>3, <1>4, <1>5, <1>6, <1>7, StepKinds DEF Chunked

LEMMA ReachNext == GraphInv /\ ReachInv /\ [Next]_vars => ReachInv'
<1> SUFFICES ASSUME GraphInv, ReachInv, [Next]_vars, NEW i \in Jobs
             PROVE  Chunked(i)' /\ AllReached(i)' /\ OneReached(i)'
  BY DEF ReachInv
<1>0. Chunked(i) /\ AllReached(i) /\ OneReached(i) /\ Twitter' = Twitter /\ Facts(i) /\ TypeOK
  BY Grows DEF ReachInv, GraphInv
<1>1. Chunked(i)'
  BY <1>0, ChunkedNext
<1>2. CASE ~Active(i)'
  BY <1>1, <1>2 DEF AllReached, OneReached
<1>3. CASE Active(i)' /\ Active(i)
  <2>1. \A e \in Reach(i) :
          \/ e \in Reach(i)' \/ Other(i, e) \in Suspended
          \/ Reverse(e) # e /\ Reverse(e) \in Reach(i)' /\ Reverse(e) \in wanted[i]
    BY <1>0, <1>3, ActiveStep
  <2>2. who'[i] = who[i] /\ wanted'[i] = wanted[i]
    BY <1>0, <1>3, ActiveKeeps
  <2>3. \A e \in wanted[i] : e \in Ends(i)
    BY <1>0 DEF Facts
  <2>4. \A e : Other(i, e)' = Other(i, e)
    BY <2>2 DEF Other
  <2>5. \A e : Mutual(i, e)' <=> Mutual(i, e)
    BY <2>2 DEF Mutual, Other
  <2>6. ASSUME NEW e \in wanted[i]
        PROVE  e \in Reach(i)' \/ Other(i, e) \in Suspended \/ Mutual(i, e)
    <3>1. CASE e \in Reach(i)
      BY <2>1, <2>3, <3>1, ReversePair DEF Mutual
    <3>2. CASE e \notin Reach(i)
      BY <1>0, <1>3, <3>2 DEF AllReached
    <3> QED
      BY <3>1, <3>2
  <2>7. ASSUME NEW e \in wanted[i]
        PROVE  Other(i, e) \in Suspended \/ \E f \in {e, Reverse(e)} : f \in Reach(i)'
    <3>1. CASE Other(i, e) \in Suspended
      BY <3>1
    <3>2. CASE Other(i, e) \notin Suspended
      <4>1. PICK f \in {e, Reverse(e)} : f \in Reach(i)
        BY <1>0, <1>3, <3>2 DEF OneReached
      <4>2. Other(i, f) = Other(i, e) /\ Reverse(f) \in {e, Reverse(e)}
        BY <2>3, ReversePair
      <4> QED
        BY <2>1, <3>2, <4>1, <4>2
    <3> QED
      BY <3>1, <3>2
  <2> QED
    BY <1>1, <2>2, <2>4, <2>5, <2>6, <2>7 DEF AllReached, OneReached
<1>4. CASE Active(i)' /\ ~Active(i)
  <2>1. \E p \in Users : Begin(i, p)
    BY <1>0, <1>4, ActiveKeeps
  <2>2. wanted'[i] \subseteq Reach(i)'
    BY <2>1, BeginReach
  <2> QED
    BY <1>1, <2>2 DEF AllReached, OneReached
<1> QED
  BY <1>2, <1>3, <1>4

LEMMA ReachInit == Init => ReachInv
BY DEF Init, ReachInv, Chunked, AllReached, OneReached, Active

LEMMA ReachHolds == Spec => []ReachInv
BY GraphHolds, ReachInit, ReachNext, PTL DEF Spec

(***************************************************************************)
(* A Twitter job that ends well has stored every relation it set out to    *)
(* store, up to suspended accounts and mutual relations.                   *)
(***************************************************************************)
THEOREM FetchedAreStored == Spec => []FetchedIsStored
<1>1. ReachInv => FetchedIsStored
  BY DEF ReachInv, AllReached, Active, Reach, FetchedIsStored
<1> QED
  BY ReachHolds, <1>1, PTL

(***************************************************************************)
(* Of mutual relations it has stored at least one.                         *)
(***************************************************************************)
THEOREM AccountsLinked == Spec => []AccountsAreLinked
<1>1. ReachInv => AccountsAreLinked
  BY DEF ReachInv, OneReached, Active, Reach, Reverse, AccountsAreLinked
<1> QED
  BY ReachHolds, <1>1, PTL

-----------------------------------------------------------------------------
(* What a job at Instagram stores that is alone and knows none of its accounts *)

\* The relations that a job has on its lists.
Todo(j) == friends[j] \union followers[j]

\* No other job has begun; j found none of its accounts, and no two relations
\* to the same one.
Alone(j) ==
    /\ ~Twitter /\ Others(j) \intersect known[j] = {}
    /\ \A e \in wanted[j] : ~Mutual(j, e)
    /\ \A i \in Jobs \ {j} : pc[i] = "new"

\* Then an account has no row until its relation is in hand, and what is
\* neither stored nor pending is on a list.
Orderly(j) ==
    pc[j] \in {"insert", "append", "done"} =>
       /\ wanted[j] \ edges \subseteq Todo(j) \union pend[j]
       /\ \A e \in Todo(j) : Other(j, e) \notin rows \/ (pc[j] = "append" /\ e = cur[j])
       /\ pc[j] = "insert" => pend[j] \intersect edges = {}
       /\ pc[j] = "append" => pend[j] = {} /\ cur[j] \in Listed(j)
       /\ pc[j] = "done" => Todo(j) = {}

AloneInv ==
    \A j \in Jobs :
       /\ ~Twitter => pc[j] \notin {"lookup", "commit"}
       /\ pc[j] # "new" => who[j] \in known[j]
       /\ Alone(j) => Orderly(j)

\* A job is on one list with each of its relations, and with no other relation
\* to the same account.
LEMMA OneList ==
    ASSUME TypeOK, NEW j \in Jobs, Facts(j), Alone(j), who[j] \in known[j]
    PROVE  /\ friends[j] \intersect followers[j] = {}
           /\ \A e, f \in Todo(j) : Other(j, e) = Other(j, f) => e = f
<1>1. Todo(j) \subseteq wanted[j]
  BY DEF Facts, Todo
<1>2. \A e \in wanted[j] : Other(j, e) # who[j]
  BY DEF Alone, Others
<1>3. ASSUME NEW e \in friends[j], e \in followers[j] PROVE FALSE
  <2>1. e[1] = who[j] /\ e[2] = who[j]
    BY <1>3 DEF Facts, FriendsOf, FollowersOf
  <2>2. Other(j, e) = who[j]
    BY <2>1 DEF Other
  <2> QED
    BY <1>1, <1>2, <2>2 DEF Todo
<1>4. ASSUME NEW e \in Todo(j), NEW f \in Todo(j), Other(j, e) = Other(j, f), e # f PROVE FALSE
  BY <1>1, <1>4 DEF Alone, Mutual
<1> QED
  BY <1>3, <1>4

\* Whoever takes a step has begun.
LEMMA MoverHasBegun ==
    ASSUME TypeOK, NEW j \in Jobs, JobStep(j) \/ Interrupt(j) \/ \E p \in Users : Begin(j, p)
    PROVE  pc'[j] # "new"
<1>1. ASSUME NEW p \in Users, Begin(j, p) PROVE pc'[j] # "new"
  BY <1>1 DEF Begin, TypeOK
<1>2. CASE LookUp(j) \/ Append(j) \/ Commit(j) \/ CommitConflict(j) \/ Interrupt(j)
  BY <1>2 DEF LookUp, Append, Commit, CommitConflict, Interrupt, AfterRelation, TypeOK
<1>3. ASSUME NEW e \in Edges,
             TwitterInsert(j, e) \/ InstagramInsert(j, e) \/ InstagramRollback(j, e)
      PROVE  pc'[j] # "new"
  BY <1>3 DEF TwitterInsert, InstagramInsert, InstagramRollback, TypeOK
<1> QED
  BY <1>1, <1>2, <1>3 DEF JobStep

\* A job that begins alone has none of its relations stored, and none of its
\* accounts has a row.
LEMMA BeginOrderly ==
    ASSUME GraphInv, NEW j \in Jobs, NEW p \in Users, Begin(j, p)
    PROVE  /\ ~Twitter => pc'[j] \notin {"lookup", "commit"}
           /\ who'[j] \in known'[j]
           /\ Alone(j)' => Orderly(j)'
<1>0. TypeOK /\ pend[j] = {} /\ pend' = pend /\ rows' = rows /\ edges' = edges /\ site' = site
  BY DEF GraphInv, Facts, Begin
<1>1. PICK fr \in Prefixes(FriendsOf(p) \ edges, MaxResults),
           fo \in Prefixes(FollowersOf(p) \ edges, MaxResults) :
         /\ friends' = [friends EXCEPT ![j] = fr]
         /\ followers' = [followers EXCEPT ![j] = fo]
         /\ wanted' = [wanted EXCEPT ![j] = fr \union fo]
         /\ pc' = [pc EXCEPT ![j] = IF fr \union fo = {} THEN "done"
                                    ELSE IF Twitter THEN "lookup" ELSE "insert"]
  BY DEF Begin
<1>2. /\ friends'[j] = fr /\ followers'[j] = fo /\ wanted'[j] = fr \union fo
      /\ who'[j] = p /\ known'[j] = rows /\ p \in rows
      /\ pc'[j] = IF fr \union fo = {} THEN "done" ELSE IF Twitter THEN "lookup" ELSE "insert"
  BY <1>0, <1>1 DEF TypeOK, Begin
<1>3. Alone(j)' => \A e \in wanted'[j] : Other(j, e)' \notin rows
  BY <1>2 DEF Alone, Others
<1>4. Alone(j)' => Orderly(j)'
  BY <1>0, <1>2, <1>3 DEF Orderly, Todo
<1> QED
  BY <1>2, <1>4

\* A stub is inserted only for the relation in hand, with what was pending.
LEMMA InsertOrderly ==
    ASSUME GraphInv, NEW j \in Jobs, who[j] \in known[j], Alone(j), Orderly(j), NEW e \in Edges,
           InstagramInsert(j, e) \/ InstagramRollback(j, e)
    PROVE  Orderly(j)'
<1>0. TypeOK /\ Facts(j) /\ pc[j] = "insert" /\ e \in Listed(j) /\ e \in Todo(j)
  BY DEF GraphInv, InstagramInsert, InstagramRollback, Listed, Todo
<1>1. Other(j, e) \notin rows /\ pend[j] \intersect edges = {}
  BY <1>0 DEF Orderly
<1>2. InstagramInsert(j, e)
  BY <1>1 DEF InstagramRollback
<1>3. /\ cur'[j] = e /\ rows' = rows \union {Other(j, e)} /\ edges' = edges \union pend[j]
      /\ pend'[j] = {} /\ pc'[j] = "append"
      /\ UNCHANGED <<who, friends, followers, wanted>>
  BY <1>0, <1>2 DEF InstagramInsert, TypeOK
<1>4. wanted[j] \ edges' \subseteq Todo(j)
  BY <1>0, <1>3 DEF Orderly
<1>5. \A f \in Todo(j) : Other(j, f) \notin rows' \/ f = e
  BY <1>0, <1>3, OneList DEF Orderly
<1> QED
  BY <1>0, <1>3, <1>4, <1>5 DEF Orderly, Todo, Other, Listed

\* Then it is pending and on no list.
LEMMA AppendOrderly ==
    ASSUME GraphInv, NEW j \in Jobs, who[j] \in known[j], Alone(j), Orderly(j), Append(j)
    PROVE  Orderly(j)'
<1>0. TypeOK /\ Facts(j) /\ pc[j] = "append" /\ ~Twitter
  BY DEF GraphInv, Append, Alone
<1>1. /\ pend'[j] = {cur[j]} \ edges
      /\ friends'[j] = friends[j] \ {cur[j]}
      /\ followers'[j] = IF friends[j] = {} THEN followers[j] \ {cur[j]} ELSE followers[j]
      /\ pc'[j] = IF friends'[j] \union followers'[j] = {} THEN "done" ELSE "insert"
      /\ UNCHANGED <<who, wanted, rows, edges>>
  BY <1>0 DEF Append, TypeOK
<1>2. cur[j] \in Listed(j) /\ pend[j] = {}
  BY <1>0 DEF Orderly
<1>3. friends'[j] \union followers'[j] = Todo(j) \ {cur[j]}
  BY <1>0, <1>1, <1>2, OneList DEF Todo, Listed
<1>4. wanted[j] \ edges \subseteq (Todo(j) \ {cur[j]}) \union pend'[j]
  BY <1>0, <1>1, <1>2 DEF Orderly
<1>5. \A f \in Todo(j) \ {cur[j]} : Other(j, f) \notin rows
  BY <1>0 DEF Orderly
<1> QED
  BY <1>1, <1>3, <1>4, <1>5 DEF Orderly, Todo, Other

LEMMA AloneNext == GraphInv /\ AloneInv /\ [Next]_vars => AloneInv'
<1> SUFFICES ASSUME GraphInv, AloneInv, [Next]_vars, NEW j \in Jobs
             PROVE  /\ ~Twitter => pc'[j] \notin {"lookup", "commit"}
                    /\ pc'[j] # "new" => who'[j] \in known'[j]
                    /\ Alone(j)' => Orderly(j)'
  BY Grows DEF AloneInv
<1>0. /\ TypeOK /\ Facts(j) /\ Twitter' = Twitter
      /\ ~Twitter => pc[j] \notin {"lookup", "commit"}
      /\ pc[j] # "new" => who[j] \in known[j]
      /\ Alone(j) => Orderly(j)
  BY Grows DEF GraphInv, AloneInv
<1>1. ASSUME NEW p \in Users, Begin(j, p)
      PROVE  /\ ~Twitter => pc'[j] \notin {"lookup", "commit"}
             /\ pc'[j] # "new" => who'[j] \in known'[j]
             /\ Alone(j)' => Orderly(j)'
  BY <1>1, BeginOrderly
<1>2. CASE JobStep(j) \/ Interrupt(j)
  <2>1. /\ UNCHANGED <<who, wanted, known>> /\ pc[j] # "new"
        /\ pc' = [pc EXCEPT ![j] = pc'[j]]
        /\ ~Twitter => pc'[j] \notin {"lookup", "commit"}
    <3>1. CASE LookUp(j)
      BY <1>0, <3>1 DEF LookUp, TypeOK
    <3>2. CASE Append(j)
      BY <1>0, <3>2 DEF Append, TypeOK
    <3>3. CASE Commit(j) \/ CommitConflict(j)
      BY <1>0, <3>3 DEF Commit, CommitConflict, TypeOK
    <3>4. CASE Interrupt(j)
      BY <1>0, <3>4 DEF Interrupt, TypeOK, Running
    <3>5. ASSUME NEW e \in Edges,
                 TwitterInsert(j, e) \/ InstagramInsert(j, e) \/ InstagramRollback(j, e)
          PROVE  /\ UNCHANGED <<who, wanted, known>> /\ pc[j] # "new"
                 /\ pc' = [pc EXCEPT ![j] = pc'[j]]
                 /\ ~Twitter => pc'[j] \notin {"lookup", "commit"}
      BY <1>0, <3>5 DEF TwitterInsert, InstagramInsert, InstagramRollback, TypeOK
    <3> QED
      BY <1>2, <3>1, <3>2, <3>3, <3>4, <3>5 DEF JobStep
  <2>2. ASSUME Alone(j)' PROVE Orderly(j)'
    <3>1. Alone(j)
      <4>1. \A e : Other(j, e)' = Other(j, e)
        BY <2>1 DEF Other
      <4>2. \A e : Mutual(j, e)' <=> Mutual(j, e)
        BY <2>1, <4>1 DEF Mutual
      <4>3. Others(j)' = Others(j)
        BY <2>1, <4>1 DEF Others
      <4>4. \A i \in Jobs \ {j} : pc'[i] = pc[i]
        BY <1>0, <2>1 DEF TypeOK
      <4> QED
        BY <1>0, <2>1, <2>2, <4>2, <4>3, <4>4 DEF Alone
    <3>2. Orderly(j) /\ who[j] \in known[j] /\ ~Twitter /\ pc[j] \notin {"lookup", "commit"}
      BY <1>0, <2>1, <3>1 DEF Alone
    <3>3. CASE Append(j)
      BY <3>1, <3>2, <3>3, AppendOrderly
    <3>4. ASSUME NEW e \in Edges, InstagramInsert(j, e) \/ InstagramRollback(j, e)
          PROVE  Orderly(j)'
      BY <3>1, <3>2, <3>4, InsertOrderly
    <3>5. CASE Interrupt(j)
      <4>1. pc'[j] = "failed"
        BY <1>0, <3>5 DEF Interrupt, TypeOK
      <4> QED
        BY <4>1 DEF Orderly
    <3>6. ~LookUp(j) /\ ~Commit(j) /\ ~CommitConflict(j) /\ \A e \in Edges : ~TwitterInsert(j, e)
      BY <3>2 DEF LookUp, Commit, CommitConflict, TwitterInsert
    <3> QED
      BY <1>2, <3>3, <3>4, <3>5, <3>6 DEF JobStep
  <2> QED
    BY <1>0, <2>1, <2>2
<1>3. ASSUME NEW i \in Jobs \ {j}, JobStep(i) \/ Interrupt(i) \/ \E p \in Users : Begin(i, p)
      PROVE  /\ ~Twitter => pc'[j] \notin {"lookup", "commit"}
             /\ pc'[j] # "new" => who'[j] \in known'[j]
             /\ ~Alone(j)'
  <2>1. pc'[i] # "new" /\ OthersKept(j)
    BY <1>0, <1>3, MoverHasBegun, Untouched
  <2>2. known'[j] = known[j]
    <3>1. CASE \E p \in Users : Begin(i, p)
      BY <1>0, <3>1 DEF Begin, TypeOK
    <3>2. CASE JobStep(i) \/ Interrupt(i)
      BY <3>2 DEF JobStep, Interrupt, LookUp, Append, Commit, CommitConflict,
                  TwitterInsert, InstagramInsert, InstagramRollback
    <3> QED
      BY <1>3, <3>1, <3>2
  <2> QED
    BY <1>0, <2>1, <2>2 DEF OthersKept, Alone
<1>4. CASE UNCHANGED vars
  BY <1>0, <1>4 DEF Alone, Orderly, Others, Mutual, Other, Todo, Listed
<1> QED
  BY <1>1, <1>2, <1>3, <1>4 DEF Next

\* At the end of a job on its own all is stored but what is pending.
LEMMA AloneStored == GraphInv /\ AloneInv => NewAccountsStored
<1> SUFFICES ASSUME GraphInv, AloneInv, NEW j \in Jobs, Alone(j), pc[j] = "done"
             PROVE  Cardinality(wanted[j] \ edges) <= 1
  BY DEF NewAccountsStored, Alone
<1>1. wanted[j] \ edges \subseteq pend[j] /\ \A e, f \in pend[j] : e = f
  BY DEF AloneInv, Orderly, GraphInv, TypeOK
<1>2. CASE wanted[j] \ edges = {}
  BY <1>2, FS_EmptySet
<1>3. ASSUME NEW e \in wanted[j] \ edges PROVE Cardinality(wanted[j] \ edges) <= 1
  <2>1. wanted[j] \ edges = {e}
    BY <1>1
  <2> QED
    <3>1. Cardinality({e}) = 1
      BY FS_Singleton
    <3> QED
      BY <2>1, <3>1
<1> QED
  BY <1>2, <1>3

LEMMA AloneInit == Init => AloneInv
BY DEF Init, AloneInv, Orderly

(***************************************************************************)
(* An Instagram job on its own, none of whose accounts had a row before,   *)
(* stores all of its relations but the last one, for every graph and every *)
(* order in which the site lists them.                                     *)
(***************************************************************************)
THEOREM NewAccountsAreStored == Spec => []NewAccountsStored
<1>1. Spec => []AloneInv
  BY GraphHolds, AloneInit, AloneNext, PTL DEF Spec
<1> QED
  BY GraphHolds, AloneStored, <1>1, PTL
-----------------------------------------------------------------------------
(* The loops of the jobs come to an end *)

\* A job that has not ended has something to do at each step of its loop.
HasWork(j) ==
    /\ pc[j] = "lookup" => Twitter /\ Todo(j) # {}
    /\ pc[j] = "insert" => IF Twitter THEN batch[j] # {} ELSE Listed(j) # {}
    /\ pc[j] = "append" => IF Twitter THEN cur[j] \in batch[j] ELSE cur[j] \in Listed(j)
    /\ pc[j] = "commit" => Twitter /\ cur[j] \in batch[j]

EverybodyHasWork == \A j \in Jobs : HasWork(j)

\* The steps of the loop for one relation, which are taken in this order.
Rank(step) == IF step = "insert" THEN 3 ELSE IF step = "append" THEN 2
              ELSE IF step = "commit" THEN 1 ELSE 0

\* Job j comes nearer to its end: its lists lose relations, or the chunk does,
\* or it goes on with the relation in hand, or it ends.
Shorter(j) ==
    /\ friends'[j] \subseteq friends[j] /\ followers'[j] \subseteq followers[j]
    /\ friends'[j] # friends[j] \/ followers'[j] # followers[j]
SameLists(j) == friends'[j] = friends[j] /\ followers'[j] = followers[j]
ChunkShorter(j) == batch'[j] \subseteq batch[j] /\ batch'[j] # batch[j]
ComesNearer(j) ==
    \/ pc'[j] \in Ended
    \/ Shorter(j)
    \/ SameLists(j) /\ ChunkShorter(j)
    \/ SameLists(j) /\ batch'[j] = batch[j] /\ Rank(pc'[j]) < Rank(pc[j])

\* Whatever happens, a running job comes nearer to its end or stays where it is;
\* its own steps bring it nearer.
Onward ==
    \A j \in Jobs :
       /\ JobStep(j) => ComesNearer(j)
       /\ pc[j] \in Running => ComesNearer(j) \/ OthersKept(j)

LEMMA FiniteLists ==
    ASSUME TypeOK, NEW j \in Jobs
    PROVE  IsFiniteSet(friends[j]) /\ IsFiniteSet(followers[j])
<1>1. IsFiniteSet(Edges)
  BY FiniteAssumption, FS_Product DEF Edges
<1>2. friends[j] \in SUBSET Edges /\ followers[j] \in SUBSET Edges
  BY DEF TypeOK
<1> QED
  BY <1>1, <1>2, FS_Subset

\* A chunk of a list that has relations is not empty.
LEMMA ChunkNotEmpty ==
    ASSUME NEW S, IsFiniteSet(S), S # {}, NEW n \in Nat \ {0}, NEW T \in Prefixes(S, n)
    PROVE  T # {}
<1>1. Cardinality(S) \in Nat /\ Cardinality(S) # 0
  BY FS_CardinalityType, FS_EmptySet
<1>2. Cardinality(T) # 0
  BY <1>1 DEF Prefixes
<1> QED
  BY <1>2, FS_EmptySet

LEMMA LookUpShortens ==
    ASSUME TypeOK, NEW j \in Jobs, HasWork(j), LookUp(j)
    PROVE  Shorter(j)
<1>1. PICK fr \in Prefixes(friends[j], ChunkSize) :
      \E fo \in Prefixes(followers[j], ChunkSize - Cardinality(fr)) :
         /\ friends' = [friends EXCEPT ![j] = @ \ fr]
         /\ followers' = [followers EXCEPT ![j] = @ \ fo]
  BY DEF LookUp
<1>2. PICK fo \in Prefixes(followers[j], ChunkSize - Cardinality(fr)) :
         /\ friends' = [friends EXCEPT ![j] = @ \ fr]
         /\ followers' = [followers EXCEPT ![j] = @ \ fo]
  BY <1>1
<1>3. friends'[j] = friends[j] \ fr /\ followers'[j] = followers[j] \ fo
  BY <1>2 DEF TypeOK
<1>4. fr \subseteq friends[j] /\ fo \subseteq followers[j]
  BY PrefixSubset
<1>5. ChunkSize \in Nat \ {0}
  BY LimitAssumption
<1>6. CASE friends[j] # {}
  <2>1. fr # {}
    BY <1>5, <1>6, FiniteLists, ChunkNotEmpty
  <2> QED
    BY <1>3, <1>4, <2>1 DEF Shorter
<1>7. CASE friends[j] = {}
  <2>1. Cardinality(fr) = 0
    BY <1>4, <1>7, FS_EmptySet
  <2>2. ChunkSize - Cardinality(fr) = ChunkSize
    BY <1>5, <2>1
  <2>3. followers[j] # {}
    BY <1>7 DEF HasWork, LookUp, Todo
  <2>4. fo # {}
    BY <1>5, <2>2, <2>3, FiniteLists, ChunkNotEmpty
  <2> QED
    BY <1>3, <1>4, <2>4 DEF Shorter
<1> QED
  BY <1>6, <1>7

LEMMA StepComesNearer ==
    ASSUME TypeOK, NEW j \in Jobs, HasWork(j), JobStep(j)
    PROVE  ComesNearer(j)
<1> USE DEF TypeOK
<1>1. CASE LookUp(j)
  BY <1>1, LookUpShortens DEF ComesNearer
<1>2. ASSUME NEW e \in Edges,
             TwitterInsert(j, e) \/ InstagramInsert(j, e) \/ InstagramRollback(j, e)
      PROVE  ComesNearer(j)
  <2>1. SameLists(j) /\ batch'[j] = batch[j] /\ pc[j] = "insert" /\ pc'[j] \in {"append", "failed"}
    BY <1>2 DEF TwitterInsert, InstagramInsert, InstagramRollback, SameLists
  <2> QED
    BY <2>1 DEF ComesNearer, Rank, Ended
<1>3. CASE Append(j) /\ Twitter
  <2>1. SameLists(j) /\ batch'[j] = batch[j] /\ pc[j] = "append" /\ pc'[j] = "commit"
    BY <1>3 DEF Append, SameLists
  <2> QED
    BY <2>1 DEF ComesNearer, Rank
<1>4. CASE Append(j) /\ ~Twitter
  <2>1. /\ friends'[j] = friends[j] \ {cur[j]}
        /\ followers'[j] = IF friends[j] = {} THEN followers[j] \ {cur[j]} ELSE followers[j]
        /\ cur[j] \in Listed(j)
    BY <1>4 DEF Append, HasWork
  <2> QED
    BY <2>1 DEF Listed, Shorter, ComesNearer
<1>5. CASE Commit(j)
  <2>1. SameLists(j) /\ batch'[j] = batch[j] \ {cur[j]} /\ cur[j] \in batch[j]
    BY <1>5 DEF Commit, SameLists, HasWork
  <2> QED
    BY <2>1 DEF ChunkShorter, ComesNearer
<1>6. CASE CommitConflict(j)
  BY <1>6 DEF CommitConflict, ComesNearer, Ended
<1> QED
  BY <1>1, <1>2, <1>3, <1>4, <1>5, <1>6 DEF JobStep

LEMMA WorkInit == Init => EverybodyHasWork
BY DEF Init, EverybodyHasWork, HasWork

LEMMA WorkNext ==
    ASSUME TypeOK, EverybodyHasWork, [Next]_vars, NEW j \in Jobs
    PROVE  HasWork(j)'
<1> USE DEF TypeOK
<1>0. Twitter' = Twitter /\ HasWork(j)
  BY Grows DEF EverybodyHasWork
<1>1. ASSUME NEW p \in Users, Begin(j, p) PROVE HasWork(j)'
  BY <1>0, <1>1 DEF Begin, HasWork, Todo, Listed
<1>2. CASE LookUp(j)
  BY <1>0, <1>2 DEF LookUp, HasWork
<1>3. ASSUME NEW e \in Edges, TwitterInsert(j, e) PROVE HasWork(j)'
  BY <1>0, <1>3 DEF TwitterInsert, HasWork
<1>4. ASSUME NEW e \in Edges, InstagramInsert(j, e) \/ InstagramRollback(j, e) PROVE HasWork(j)'
  BY <1>0, <1>4 DEF InstagramInsert, InstagramRollback, HasWork, Listed
<1>5. CASE Append(j)
  BY <1>0, <1>5 DEF Append, HasWork, Listed
<1>6. CASE Commit(j)
  BY <1>0, <1>6 DEF Commit, AfterRelation, HasWork, Todo
<1>7. CASE CommitConflict(j) \/ Interrupt(j)
  BY <1>0, <1>7 DEF CommitConflict, Interrupt, HasWork
<1>8. CASE OthersKept(j)
  BY <1>0, <1>8 DEF OthersKept, HasWork, Todo, Listed
<1>9. CASE UNCHANGED vars
  BY <1>0, <1>9 DEF HasWork, Todo, Listed
<1> QED
  BY <1>1, <1>2, <1>3, <1>4, <1>5, <1>6, <1>7, <1>8, <1>9, Untouched DEF Next, JobStep

(***************************************************************************)
(* No job is stuck in its loops: it looks up a chunk only while relations  *)
(* are left, and it stores only relations of the list or chunk in hand     *)
(* (scrape_twitter_relations, scrape_instagram_relations).                 *)
(***************************************************************************)
THEOREM JobsHaveWork == Spec => []EverybodyHasWork
<1>1. GraphInv /\ EverybodyHasWork /\ [Next]_vars => EverybodyHasWork'
  BY WorkNext DEF GraphInv, EverybodyHasWork
<1> QED
  BY GraphHolds, WorkInit, <1>1, PTL DEF Spec

(***************************************************************************)
(* Each step of a job brings it nearer to its end, and what other jobs     *)
(* store meanwhile, or a failure, never sends it back.  The lists are      *)
(* finite, so this is why RelationsEnd holds with the fairness of JobStep. *)
(***************************************************************************)
THEOREM RelationsComeDown == Spec => [][Onward]_vars
<1>1. ASSUME TypeOK, EverybodyHasWork, Next PROVE Onward
  <2>1. ASSUME NEW j \in Jobs, pc[j] \in Running PROVE ComesNearer(j) \/ OthersKept(j)
    <3>1. CASE JobStep(j)
      BY <1>1, <3>1, StepComesNearer DEF EverybodyHasWork
    <3>2. CASE Interrupt(j)
      BY <1>1, <3>2 DEF Interrupt, ComesNearer, Ended, TypeOK
    <3>3. \A p \in Users : ~Begin(j, p)
      BY <2>1 DEF Begin, Running
    <3> QED
      BY <1>1, <3>1, <3>2, <3>3, Untouched DEF Next
  <2> QED
    BY <1>1, <2>1, StepComesNearer DEF EverybodyHasWork, Onward
<1>2. GraphInv /\ EverybodyHasWork /\ [Next]_vars => [Onward]_vars
  BY <1>1 DEF GraphInv
<1> QED
  BY <1>2, GraphHolds, JobsHaveWork, PTL DEF Spec
=============================================================================
