------------------------- MODULE ProfileScrape_proofs -------------------------
(***************************************************************************)
(* Proofs about the scraping of profiles, for any number of accounts and   *)
(* concurrent jobs and for batches of any size.                            *)
(***************************************************************************)
EXTENDS ProfileScrapeProps, TLAPS

USE DEF Goto, vars, jobVars, sharedVars

\* The setting, and what a request may be, stay the same.
LEMMA SettingKept ==
    ASSUME [Next]_vars
    PROVE  /\ setting' = setting /\ Twitter' = Twitter /\ Existing' = Existing
           /\ Protected' = Protected /\ Requests' = Requests
<1>1. setting' = setting
  BY DEF Next, JobStep, Request, LookUp, Upsert, ReadLabels, Commit, CommitConflict, FollowUp,
     Announce, Finish, Error, Raise, RaiseMute, Die
<1> QED
  BY <1>1 DEF Twitter, Existing, Protected, Requests, MaxBatch

\* The conversions of the stub flag give values of the column.
LEMMA Flags ==
    ASSUME NEW u \in Users, NEW stub \in BOOLEAN
    PROVE  /\ Flag(stub) \in {"stub", "full"} /\ Inserted(stub) \in {"stub", "full"}
           /\ Marked(u, stub) \in {"keep", "stub", "full"}
BY DEF Flag, Inserted, Marked, Assigned

\* What a request looks like, and what the site answers to it.
LEMMA RequestTypes ==
    ASSUME setting \in Settings, NEW r \in Requests
    PROVE  /\ r.users \in SUBSET Users /\ r.labels \in SUBSET Users /\ r.stub \in BOOLEAN
           /\ r.byId \in BOOLEAN
           /\ Found(r) \in SUBSET Users /\ Found(r) \subseteq r.users \intersect Existing
BY SettingsAssumption DEF Requests, Found

\* A follow-up job is followed by another kind of job or by the next account.
LEMMA AfterTypes ==
    ASSUME NEW j \in Jobs, NEW k \in Kinds
    PROVE  After(j, k) \in (Kinds \ {"index"}) \union {"next"}
BY DEF After, Kinds

(* Types *)

LEMMA TypeInit == Init => TypeOK
<1> SUFFICES ASSUME Init PROVE TypeOK
  OBVIOUS
<1>1. AnyUser \in Users
  BY UsersAssumption DEF AnyUser
<1> QED
  BY <1>1 DEF Init, TypeOK, Kinds

LEMMA TypeNext == TypeOK /\ [Next]_vars => TypeOK'
<1> SUFFICES ASSUME TypeOK, [Next]_vars PROVE TypeOK'
  OBVIOUS
<1>0. setting' = setting /\ Requests' = Requests
  BY SettingKept
<1> USE <1>0 DEF TypeOK, Steps, Ended, Kinds
<1>1. ASSUME NEW j \in Jobs, NEW r \in Requests, Request(j, r) PROVE TypeOK'
  BY <1>1 DEF Request
<1>2. ASSUME NEW j \in Jobs, LookUp(j) PROVE TypeOK'
  <2>1. req[j] \in Requests
    BY <1>2 DEF LookUp
  <2>2. Found(req[j]) \in SUBSET Users
    BY <2>1, RequestTypes
  <2> QED
    BY <1>2, <2>2 DEF LookUp
<1>3. ASSUME NEW j \in Jobs, NEW u \in Users, Upsert(j, u) PROVE TypeOK'
  <2>1. req[j].stub \in BOOLEAN
    BY <1>3, RequestTypes DEF Upsert
  <2>2. Inserted(req[j].stub) \in {"stub", "full"} /\ Marked(u, req[j].stub) \in {"keep", "stub", "full"}
    BY <2>1, Flags
  <2> QED
    BY <1>3, <2>2 DEF Upsert
<1>4. ASSUME NEW j \in Jobs, ReadLabels(j) PROVE TypeOK'
  BY <1>4 DEF ReadLabels
<1>5. ASSUME NEW j \in Jobs, Commit(j) PROVE TypeOK'
  BY <1>5 DEF Commit
<1>6. ASSUME NEW j \in Jobs, CommitConflict(j) PROVE TypeOK'
  BY <1>6 DEF CommitConflict
<1>7. ASSUME NEW j \in Jobs, FollowUp(j) PROVE TypeOK'
  <2>1. pc[j] \in Kinds /\ After(j, pc[j]) \in (Kinds \ {"index"}) \union {"next"}
    BY <1>7, AfterTypes DEF FollowUp
  <2>2. CASE After(j, pc[j]) # "next"
    BY <1>7, <2>1, <2>2 DEF FollowUp
  <2>3. CASE After(j, pc[j]) = "next"
    BY <1>7, <2>1, <2>3 DEF FollowUp
  <2> QED
    BY <2>2, <2>3
<1>8. ASSUME NEW j \in Jobs, NEW u \in Users, Announce(j, u) PROVE TypeOK'
  BY <1>8 DEF Announce
<1>9. ASSUME NEW j \in Jobs, Error(j) PROVE TypeOK'
  BY <1>9 DEF Error
<1>10. ASSUME NEW j \in Jobs, Raise(j) PROVE TypeOK'
  BY <1>10 DEF Raise
<1>11. ASSUME NEW j \in Jobs, Finish(j) \/ RaiseMute(j) \/ Die(j) PROVE TypeOK'
  BY <1>11 DEF Finish, RaiseMute, Die
<1>12. CASE UNCHANGED vars
  BY <1>12
<1> QED
  BY <1>1, <1>2, <1>3, <1>4, <1>5, <1>6, <1>7, <1>8, <1>9, <1>10, <1>11, <1>12 DEF Next, JobStep

(***************************************************************************)
(* Every reachable state is well typed: the account in hand is one of      *)
(* those that are left.                                                    *)
(***************************************************************************)
THEOREM ScrapeTypesCorrect == Spec => []TypeOK
<1>1. Init => TypeOK
  BY TypeInit
<1>2. TypeOK /\ [Next]_vars => TypeOK'
  BY TypeNext
<1> QED
  BY <1>1, <1>2, PTL DEF Spec

(* The full status at Twitter *)

\* At Twitter the only flag that a commit may write is "full".
OnlyUpgrades == Twitter => mark \in [Jobs -> {"keep", "full"}]
FullKept == \A u \in Users : Twitter /\ row[u] = "full" => row'[u] = "full"

LEMMA OnlyUpgradesInit == Init => OnlyUpgrades
BY DEF Init, OnlyUpgrades

LEMMA OnlyUpgradesNext ==
    TypeOK /\ OnlyUpgrades /\ [Next]_vars => OnlyUpgrades' /\ FullKept
<1> SUFFICES ASSUME TypeOK, OnlyUpgrades, [Next]_vars, Twitter
             PROVE  mark' \in [Jobs -> {"keep", "full"}] /\ FullKept
  BY SettingKept DEF OnlyUpgrades, FullKept
<1> USE DEF OnlyUpgrades, FullKept
<1>1. CASE row' = row /\ mark' = mark
  BY <1>1
<1>2. ASSUME NEW j \in Jobs, NEW u \in Users, Upsert(j, u)
      PROVE  mark' \in [Jobs -> {"keep", "full"}] /\ FullKept
  <2>1. Marked(u, req[j].stub) \in {"keep", "full"}
    BY DEF Marked, Assigned
  <2> QED
    BY <1>2, <2>1 DEF Upsert, TypeOK
<1>3. ASSUME NEW j \in Jobs, Commit(j)
      PROVE  mark' \in [Jobs -> {"keep", "full"}] /\ FullKept
  BY <1>3 DEF Commit, TypeOK
<1> QED
  BY <1>1, <1>2, <1>3 DEF Next, JobStep, Request, LookUp, ReadLabels, CommitConflict, FollowUp,
     Announce, Finish, Error, Raise, RaiseMute, Die

(***************************************************************************)
(* At Twitter no request, and no interleaving of requests, turns a full    *)
(* profile back into a stub.                                               *)
(***************************************************************************)
THEOREM FullIsKept == Spec => FullStaysFull
<1>1. Init => TypeOK /\ OnlyUpgrades
  BY TypeInit, OnlyUpgradesInit
<1>2. (TypeOK /\ OnlyUpgrades) /\ [Next]_vars => (TypeOK /\ OnlyUpgrades)' /\ [FullKept]_row
  BY TypeNext, OnlyUpgradesNext
<1>3. Spec => [][FullKept]_row
  BY <1>1, <1>2, PTL DEF Spec
<1> QED
  BY <1>3 DEF FullStaysFull, FullKept

(* What has been announced *)

Searchable(u) == row[u] # "none" /\ u \in filled /\ <<"index", u>> \in jobs

\* What a job has done to the account in hand, by its step, and to the others.
Recorded ==
    /\ \A u \in filled : row[u] # "none"
    /\ \A j \in Jobs : pc[j] \in {"label", "fill"} => row[cur[j]] # "none"
    /\ \A j \in Jobs : pc[j] \in Kinds => cur[j] \in filled
    /\ \A j \in Jobs : pc[j] \in Kinds \ {"index"} => <<"index", cur[j]>> \in jobs
    /\ \A j \in Jobs : \A u \in done[j] : Searchable(u)
    /\ ToldIsStored

LEMMA RecordedInit == Init => Recorded
BY DEF Init, Recorded, ToldIsStored, Kinds

\* What a row has, it keeps.
LEMMA SearchableKept ==
    ASSUME TypeOK, [Next]_vars
    PROVE  /\ \A u \in Users : row[u] # "none" => row'[u] # "none"
           /\ filled \subseteq filled' /\ labelled \subseteq labelled' /\ jobs \subseteq jobs'
<1>1. ASSUME NEW j \in Jobs, NEW u \in Users, Upsert(j, u)
      PROVE  \A v \in Users : row[v] # "none" => row'[v] # "none"
  BY <1>1 DEF Upsert, TypeOK
<1>2. ASSUME NEW j \in Jobs, Commit(j)
      PROVE  \A v \in Users : row[v] # "none" => row'[v] # "none"
  BY <1>2 DEF Commit, TypeOK
<1> QED
  BY <1>1, <1>2 DEF Next, JobStep, Request, LookUp, Upsert, ReadLabels, Commit, CommitConflict,
     FollowUp, Announce, Finish, Error, Raise, RaiseMute, Die

LEMMA RecordedNext == TypeOK /\ Recorded /\ [Next]_vars => Recorded'
<1> SUFFICES ASSUME TypeOK, Recorded, [Next]_vars PROVE Recorded'
  OBVIOUS
<1>0. /\ \A u \in Users : row[u] # "none" => row'[u] # "none"
      /\ filled \subseteq filled' /\ jobs \subseteq jobs'
  BY SearchableKept
<1>1. ASSUME NEW j \in Jobs, NEW r \in Requests, Request(j, r) PROVE Recorded'
  BY <1>1 DEF Request, Recorded, TypeOK, Searchable, ToldIsStored, Kinds
<1>2. ASSUME NEW j \in Jobs, LookUp(j) PROVE Recorded'
  BY <1>2 DEF LookUp, Recorded, TypeOK, Searchable, ToldIsStored, Kinds
<1>3. ASSUME NEW j \in Jobs, NEW u \in Users, Upsert(j, u) PROVE Recorded'
  <2>1. row'[u] # "none"
    <3>1. Inserted(req[j].stub) # "none"
      BY DEF Inserted, Flag
    <3> QED
      BY <1>3, <3>1 DEF Upsert, TypeOK
  <2>2. UNCHANGED <<filled, jobs, told, done>>
    BY <1>3 DEF Upsert
  <2>3. /\ cur'[j] = u /\ pc'[j] \in {"label", "fill"}
        /\ \A i \in Jobs \ {j} : pc'[i] = pc[i] /\ cur'[i] = cur[i]
    BY <1>3 DEF Upsert, TypeOK
  <2> QED
    BY <1>0, <2>1, <2>2, <2>3 DEF Recorded, TypeOK, Searchable, ToldIsStored, Kinds
<1>4. ASSUME NEW j \in Jobs, ReadLabels(j) PROVE Recorded'
  BY <1>4 DEF ReadLabels, Recorded, TypeOK, Searchable, ToldIsStored, Kinds
<1>5. ASSUME NEW j \in Jobs, Commit(j) PROVE Recorded'
  <2>1. UNCHANGED <<jobs, told, done, cur>> /\ filled' = filled \union {cur[j]}
    BY <1>5 DEF Commit
  <2>2. pc[j] = "fill" /\ pc' = [pc EXCEPT ![j] = "index"]
    BY <1>5 DEF Commit
  <2> QED
    BY <1>0, <2>1, <2>2 DEF Recorded, TypeOK, Searchable, ToldIsStored, Kinds
<1>6. ASSUME NEW j \in Jobs, CommitConflict(j) PROVE Recorded'
  BY <1>6 DEF CommitConflict, Recorded, TypeOK, Searchable, ToldIsStored, Kinds
<1>7. ASSUME NEW j \in Jobs, FollowUp(j) PROVE Recorded'
  <2>1. /\ pc[j] \in Kinds /\ jobs' = jobs \union {<<pc[j], cur[j]>>}
        /\ UNCHANGED <<row, filled, told, cur>>
    BY <1>7 DEF FollowUp
  <2>2. <<"index", cur[j]>> \in jobs' /\ cur[j] \in filled /\ row[cur[j]] # "none"
    BY <2>1 DEF Recorded, TypeOK
  <2>3. CASE After(j, pc[j]) # "next"
    <3>1. pc' = [pc EXCEPT ![j] = After(j, pc[j])] /\ UNCHANGED done
      BY <1>7, <2>3 DEF FollowUp
    <3> QED
      BY <1>0, <2>1, <2>2, <3>1 DEF Recorded, TypeOK, Searchable, ToldIsStored
  <2>4. CASE After(j, pc[j]) = "next"
    <3>1. /\ done' = [done EXCEPT ![j] = @ \union {cur[j]}]
          /\ \E p \in {"announce", "next"} : pc' = [pc EXCEPT ![j] = p]
      BY <1>7, <2>4 DEF FollowUp
    <3> QED
      BY <1>0, <2>1, <2>2, <3>1 DEF Recorded, TypeOK, Searchable, ToldIsStored, Kinds
  <2> QED
    BY <2>3, <2>4
<1>8. ASSUME NEW j \in Jobs, NEW u \in Users, Announce(j, u) PROVE Recorded'
  <2>1. /\ u \in done[j] /\ told' = told \union {<<j, u>>}
        /\ UNCHANGED <<row, filled, jobs, done, cur>>
        /\ UNCHANGED pc
    BY <1>8 DEF Announce, Untold
  <2> QED
    BY <2>1 DEF Recorded, TypeOK, Searchable, ToldIsStored, Kinds
<1>9. ASSUME NEW j \in Jobs, Error(j) PROVE Recorded'
  BY <1>9 DEF Error, Recorded, TypeOK, Searchable, ToldIsStored, Kinds
<1>10. ASSUME NEW j \in Jobs, Raise(j) PROVE Recorded'
  BY <1>10 DEF Raise, Recorded, TypeOK, Searchable, ToldIsStored, Kinds
<1>11. ASSUME NEW j \in Jobs, Finish(j) \/ RaiseMute(j) \/ Die(j) PROVE Recorded'
  BY <1>11 DEF Finish, RaiseMute, Die, Recorded, TypeOK, Searchable, ToldIsStored, Kinds
<1>12. CASE UNCHANGED vars
  BY <1>12 DEF Recorded, Searchable, ToldIsStored
<1> QED
  BY <1>1, <1>2, <1>3, <1>4, <1>5, <1>6, <1>7, <1>8, <1>9, <1>10, <1>11, <1>12 DEF Next, JobStep

(***************************************************************************)
(* A profile that has been announced is stored and filled in, and the job  *)
(* that makes it searchable has been queued, at both sites.                *)
(***************************************************************************)
THEOREM AnnouncedIsStored == Spec => []ToldIsStored
<1>1. Init => TypeOK /\ Recorded
  BY TypeInit, RecordedInit
<1>2. (TypeOK /\ Recorded) /\ [Next]_vars => (TypeOK /\ Recorded)'
  BY TypeNext, RecordedNext
<1>3. Recorded => ToldIsStored
  BY DEF Recorded
<1> QED
  BY <1>1, <1>2, <1>3, PTL DEF Spec

(* What a job has done when it ends *)

\* The follow-up jobs that job j owes to account u.
Owed(j, u) == {<<k, u>> : k \in IF req[j].stub THEN {"index"} ELSE FullKinds(u)}

Complete(j, u) ==
    /\ u \in filled
    /\ Twitter /\ u \in req[j].labels => u \in labelled
    /\ Twitter /\ ~req[j].stub => row[u] = "full"
    /\ Owed(j, u) \subseteq jobs

\* The follow-up jobs that have been queued when the turn has come to kind k.
Before(k) ==
    CASE k = "index" -> {} [] k = "avatar" -> {"index"}
      [] k = "posts" -> {"index", "avatar"} [] OTHER -> {"index", "avatar", "posts"}

\* No account is lost on the way from "left" to "done", and at each step the
\* account in hand has got what the steps before should have given it.
Account(j) ==
    /\ pc[j] \in {"new", "queued"} => done[j] = {}
    /\ pc[j] \in {"next", "label", "fill", "announce", "done"} \union Kinds
         => Wanted(j) \subseteq left[j] \union done[j]
    /\ pc[j] \in {"announce", "done"} => left[j] = {}
    /\ pc[j] = "done" => \A u \in done[j] : <<j, u>> \in told
    /\ \A u \in done[j] : Complete(j, u)
    /\ Twitter /\ pc[j] \in {"label", "fill"} /\ ~req[j].stub => row[cur[j]] = "full" \/ mark[j] = "full"
    /\ Twitter /\ pc[j] = "fill" /\ cur[j] \in req[j].labels => append[j] \/ cur[j] \in labelled
    /\ pc[j] \in Kinds =>
          /\ cur[j] \in filled
          /\ Twitter /\ cur[j] \in req[j].labels => cur[j] \in labelled
          /\ Twitter /\ ~req[j].stub => row[cur[j]] = "full"
          /\ \A k \in Before(pc[j]) : <<k, cur[j]>> \in jobs
    /\ pc[j] \in Kinds \ {"index"} => ~req[j].stub
    /\ Twitter /\ pc[j] \in {"posts", "relations"} => cur[j] \notin Protected

Accounts == \A j \in Jobs : Account(j)

LEMMA AccountsInit == Init => Accounts
BY DEF Init, Accounts, Account, Kinds

\* The facts about a job survive the steps of others.
LEMMA AccountFrame ==
    ASSUME TypeOK, OnlyUpgrades, [Next]_vars, NEW j \in Jobs, Account(j),
           pc'[j] = pc[j], req'[j] = req[j], left'[j] = left[j], cur'[j] = cur[j],
           done'[j] = done[j], mark'[j] = mark[j], append'[j] = append[j], told \subseteq told'
    PROVE  Account(j)'
<1>1. /\ filled \subseteq filled' /\ labelled \subseteq labelled' /\ jobs \subseteq jobs'
      /\ \A u \in Users : Twitter /\ row[u] = "full" => row'[u] = "full"
      /\ Twitter' = Twitter /\ Existing' = Existing /\ Protected' = Protected
  BY SettingKept, SearchableKept, OnlyUpgradesNext DEF FullKept
<1>2. done[j] \subseteq Users /\ cur[j] \in Users
  BY DEF TypeOK
<1>3. \A u \in done[j] : Complete(j, u)'
  BY <1>1, <1>2 DEF Account, Complete, Owed, FullKinds
<1>4. Wanted(j)' = Wanted(j)
  BY <1>1 DEF Wanted
<1> QED
  BY <1>1, <1>2, <1>3, <1>4 DEF Account, Kinds

\* What has been done for the accounts that are finished stays done.
LEMMA CompleteKept ==
    ASSUME TypeOK, OnlyUpgrades, [Next]_vars, NEW j \in Jobs, NEW u \in Users,
           req'[j] = req[j], Complete(j, u)
    PROVE  Complete(j, u)'
<1>1. /\ filled \subseteq filled' /\ labelled \subseteq labelled' /\ jobs \subseteq jobs'
      /\ \A v \in Users : Twitter /\ row[v] = "full" => row'[v] = "full"
      /\ Twitter' = Twitter /\ Protected' = Protected
  BY SettingKept, SearchableKept, OnlyUpgradesNext DEF FullKept
<1> QED
  BY <1>1 DEF Complete, Owed, FullKinds

LEMMA AccountsNext ==
    TypeOK /\ OnlyUpgrades /\ Recorded /\ Accounts /\ [Next]_vars => Accounts'
<1> SUFFICES ASSUME TypeOK, OnlyUpgrades, Accounts, [Next]_vars, NEW i \in Jobs
             PROVE  Account(i)'
  BY DEF Accounts
<1>0. Account(i) /\ told \subseteq told'
  BY DEF Accounts, Next, JobStep, Request, LookUp, Upsert, ReadLabels, Commit, CommitConflict,
     FollowUp, Announce, Finish, Error, Raise, RaiseMute, Die
<1>a. \A u \in done[i] : u \in Users /\ (req'[i] = req[i] => Complete(i, u)')
  BY <1>0, CompleteKept DEF Account, TypeOK
<1>b. req'[i] = req[i] => Wanted(i)' = Wanted(i)
  BY SettingKept DEF Wanted
<1>c. Twitter' = Twitter /\ Protected' = Protected
  BY SettingKept
<1>1. ASSUME NEW j \in Jobs, NEW r \in Requests, Request(j, r) PROVE Account(i)'
  <2>1. CASE i = j
    BY <1>0, <1>1, <2>1 DEF Request, Account, TypeOK, Kinds
  <2>2. CASE i # j
    BY <1>0, <1>1, <2>2, AccountFrame DEF Request, TypeOK
  <2> QED
    BY <2>1, <2>2
<1>2. ASSUME NEW j \in Jobs, LookUp(j) PROVE Account(i)'
  <2>1. CASE i = j
    <3>1. Found(req[j]) # {} => Wanted(j) = Found(req[j])
      BY DEF Wanted, Found
    <3>2. /\ left'[j] = Found(req[j]) /\ UNCHANGED <<req, done>>
          /\ pc[j] = "queued" /\ pc'[j] = IF Found(req[j]) = {} THEN "error" ELSE "next"
      BY <1>2 DEF LookUp, TypeOK
    <3> QED
      BY <1>a, <1>b, <1>c, <2>1, <3>1, <3>2 DEF Account, Kinds
  <2>2. CASE i # j
    BY <1>0, <1>2, <2>2, AccountFrame DEF LookUp, TypeOK
  <2> QED
    BY <2>1, <2>2
<1>3. ASSUME NEW j \in Jobs, NEW u \in Users, Upsert(j, u) PROVE Account(i)'
  <2>1. CASE i = j
    <3>1. /\ pc[j] = "next" /\ pc'[j] = (IF Twitter THEN "label" ELSE "fill") /\ cur'[j] = u /\ UNCHANGED <<req, left, done>>
          /\ row'[u] = IF row[u] = "none" THEN Inserted(req[j].stub) ELSE row[u]
          /\ mark'[j] = Marked(u, req[j].stub)
      BY <1>3 DEF Upsert, TypeOK
    <3>2. Twitter /\ ~req[j].stub => row'[u] = "full" \/ mark'[j] = "full"
      BY <3>1 DEF Marked, Assigned, Inserted, Flag
    <3> QED
      BY <1>0, <1>a, <1>b, <1>c, <2>1, <3>1, <3>2 DEF Account, Kinds
  <2>2. CASE i # j
    BY <1>0, <1>3, <2>2, AccountFrame DEF Upsert, TypeOK
  <2> QED
    BY <2>1, <2>2
<1>4. ASSUME NEW j \in Jobs, ReadLabels(j) PROVE Account(i)'
  <2>1. CASE i = j
    <3>1. /\ pc[j] = "label" /\ pc'[j] = "fill" /\ UNCHANGED <<row, labelled, req, left, done, cur, mark>>
          /\ append'[j] = (cur[j] \in req[j].labels \ labelled)
      BY <1>4 DEF ReadLabels, TypeOK
    <3> QED
      BY <1>0, <1>a, <1>b, <1>c, <2>1, <3>1 DEF Account, Kinds
  <2>2. CASE i # j
    BY <1>0, <1>4, <2>2, AccountFrame DEF ReadLabels, TypeOK
  <2> QED
    BY <2>1, <2>2
<1>5. ASSUME NEW j \in Jobs, Commit(j) PROVE Account(i)'
  <2>1. CASE i = j
    <3>1. /\ pc[j] = "fill" /\ pc'[j] = "index" /\ UNCHANGED <<req, left, done, cur>>
          /\ row'[cur[j]] = IF mark[j] = "keep" THEN row[cur[j]] ELSE mark[j]
          /\ cur[j] \in filled'
          /\ append[j] \/ cur[j] \in labelled => cur[j] \in labelled'
      BY <1>5 DEF Commit, TypeOK
    <3>2. Twitter => mark[j] \in {"keep", "full"}
      BY DEF OnlyUpgrades
    <3>3. Before("index") = {}
      BY DEF Before
    <3> QED
      BY <1>0, <1>a, <1>b, <1>c, <2>1, <3>1, <3>2, <3>3 DEF Account, Kinds
  <2>2. CASE i # j
    BY <1>0, <1>5, <2>2, AccountFrame DEF Commit, TypeOK
  <2> QED
    BY <2>1, <2>2
<1>6. ASSUME NEW j \in Jobs, FollowUp(j) PROVE Account(i)'
  <2>1. CASE i = j
    <3>1. /\ pc[j] \in Kinds /\ jobs' = jobs \union {<<pc[j], cur[j]>>} /\ cur[j] \in Users
          /\ UNCHANGED <<row, filled, labelled, told, req, cur, mark, append>>
      BY <1>6 DEF FollowUp, TypeOK
    <3>2. CASE After(j, pc[j]) # "next"
      <4>1. pc'[j] = After(j, pc[j]) /\ UNCHANGED <<left, done>>
        BY <1>6, <3>2 DEF FollowUp, TypeOK
      <4>2. /\ pc'[j] \in Kinds \ {"index"} /\ ~req[j].stub
            /\ Twitter /\ pc'[j] \in {"posts", "relations"} => cur[j] \notin Protected
            /\ Before(pc'[j]) = Before(pc[j]) \union {pc[j]}
        BY <1>0, <2>1, <3>1, <3>2, <4>1 DEF After, Before, Account, Kinds
      <4> QED
        BY <1>0, <1>a, <1>b, <1>c, <2>1, <3>1, <4>1, <4>2 DEF Account, Kinds
    <3>3. CASE After(j, pc[j]) = "next"
      <4>1. /\ left' = [left EXCEPT ![j] = @ \ {cur[j]}]
            /\ done' = [done EXCEPT ![j] = @ \union {cur[j]}]
            /\ pc' = [pc EXCEPT ![j] = IF left[j] = {cur[j]} THEN "announce" ELSE "next"]
        BY <1>6, <3>3 DEF FollowUp
      <4>2. Owed(j, cur[j]) \subseteq {<<k, cur[j]>> : k \in Before(pc[j]) \union {pc[j]}}
        BY <1>0, <2>1, <3>1, <3>3 DEF Owed, FullKinds, After, Before, Account, Kinds
      <4>3. Owed(j, cur[j])' = Owed(j, cur[j])
        BY <1>c, <3>1 DEF Owed, FullKinds
      <4>4. Complete(j, cur[j])'
        BY <1>0, <1>c, <2>1, <3>1, <4>2, <4>3 DEF Complete, Account
      <4>5. /\ left'[j] = left[j] \ {cur[j]} /\ done'[j] = done[j] \union {cur[j]}
            /\ pc'[j] \in {"announce", "next"} /\ (pc'[j] = "announce" => left'[j] = {})
        BY <4>1 DEF TypeOK
      <4>6. \A u \in done'[j] : Complete(j, u)'
        BY <1>a, <2>1, <3>1, <4>4, <4>5
      <4> QED
        BY <1>0, <1>b, <1>c, <2>1, <3>1, <4>5, <4>6 DEF Account, Kinds
    <3> QED
      BY <3>2, <3>3
  <2>2. CASE i # j
    <3>1. /\ UNCHANGED <<req, cur, mark, append>>
          /\ left'[i] = left[i] /\ done'[i] = done[i] /\ pc'[i] = pc[i]
      BY <1>6, <2>2 DEF FollowUp, TypeOK
    <3> QED
      BY <1>0, <3>1, AccountFrame
  <2> QED
    BY <2>1, <2>2
<1>7. ASSUME NEW j \in Jobs, NEW u \in Users, Announce(j, u) PROVE Account(i)'
  <2>1. CASE i = j
    <3>1. pc[j] = "announce" /\ UNCHANGED <<pc, req, left, done>>
      BY <1>7 DEF Announce
    <3> QED
      BY <1>0, <1>a, <1>b, <1>c, <2>1, <3>1 DEF Account, Kinds
  <2>2. CASE i # j
    BY <1>0, <1>7, <2>2, AccountFrame DEF Announce, TypeOK
  <2> QED
    BY <2>1, <2>2
<1>8. ASSUME NEW j \in Jobs,
             CommitConflict(j) \/ Error(j) \/ Raise(j) \/ RaiseMute(j) \/ Die(j)
      PROVE  Account(i)'
  <2>1. CASE i = j
    <3>1. pc'[j] \in {"error", "failed", "mute", "dead"} /\ UNCHANGED <<req, done>>
      BY <1>8 DEF CommitConflict, Error, Raise, RaiseMute, Die, TypeOK
    <3> QED
      BY <1>a, <2>1, <3>1 DEF Account, Kinds
  <2>2. CASE i # j
    BY <1>0, <1>8, <2>2, AccountFrame DEF CommitConflict, Error, Raise, RaiseMute, Die, TypeOK
  <2> QED
    BY <2>1, <2>2
<1>9. ASSUME NEW j \in Jobs, Finish(j) PROVE Account(i)'
  <2>1. CASE i = j
    <3>1. /\ pc[j] = "announce" /\ pc'[j] = "done" /\ Untold(j) = {}
          /\ UNCHANGED <<req, left, done, told>>
      BY <1>9 DEF Finish, TypeOK
    <3>2. \A u \in done[j] : <<j, u>> \in told'
      BY <3>1 DEF Untold
    <3> QED
      BY <1>0, <1>a, <1>b, <1>c, <2>1, <3>1, <3>2 DEF Account, Kinds
  <2>2. CASE i # j
    BY <1>0, <1>9, <2>2, AccountFrame DEF Finish, TypeOK
  <2> QED
    BY <2>1, <2>2
<1>10. CASE UNCHANGED vars
  BY <1>0, <1>10, AccountFrame
<1> QED
  BY <1>1, <1>2, <1>3, <1>4, <1>5, <1>6, <1>7, <1>8, <1>9, <1>10 DEF Next, JobStep

(***************************************************************************)
(* A job that ends well has done all it was asked for, for every account   *)
(* that the site has, whatever other jobs have done to the same rows.      *)
(***************************************************************************)
THEOREM EndedIsFulfilled == Spec => []Fulfilled
<1>1. Init => TypeOK /\ OnlyUpgrades /\ Recorded /\ Accounts
  BY TypeInit, OnlyUpgradesInit, RecordedInit, AccountsInit
<1>2. (TypeOK /\ OnlyUpgrades /\ Recorded /\ Accounts) /\ [Next]_vars
         => (TypeOK /\ OnlyUpgrades /\ Recorded /\ Accounts)'
  BY TypeNext, OnlyUpgradesNext, RecordedNext, AccountsNext
<1>3. Accounts => Fulfilled
  <2> SUFFICES ASSUME Accounts, NEW j \in Jobs, pc[j] = "done", NEW u \in Wanted(j)
               PROVE  Complete(j, u) /\ <<j, u>> \in told
    BY DEF Fulfilled, Complete, Owed
  <2>1. Account(j)
    BY DEF Accounts
  <2>2. u \in done[j]
    BY <2>1 DEF Account
  <2> QED
    BY <2>1, <2>2 DEF Account
<1> QED
  BY <1>1, <1>2, <1>3, PTL DEF Spec

(* What a job has told the channel when it ends *)

\* A job that is over, other than by a death or a failure nobody hears of, has
\* announced its accounts or an error.
Accounted ==
    \A j \in Jobs : pc[j] \in {"done", "failed"} =>
       (\A u \in Wanted(j) : <<j, u>> \in told) \/ j \in refused

Refusals == \A j \in Jobs : pc[j] = "failed" => j \in refused

LEMMA RefusalsInit == Init => Refusals
BY DEF Init, Refusals

LEMMA RefusalsNext == TypeOK /\ Refusals /\ [Next]_vars => Refusals'
<1> SUFFICES ASSUME TypeOK, Refusals, [Next]_vars PROVE Refusals'
  OBVIOUS
<1> USE DEF TypeOK, Refusals, Kinds
<1>1. ASSUME NEW j \in Jobs, FollowUp(j) PROVE Refusals'
  <2>1. After(j, pc[j]) # "failed"
    BY DEF After
  <2> QED
    BY <1>1, <2>1 DEF FollowUp
<1>2. ASSUME NEW j \in Jobs, Error(j) PROVE Refusals'
  BY <1>2 DEF Error
<1>3. ASSUME NEW j \in Jobs, \/ LookUp(j) \/ ReadLabels(j) \/ Commit(j) \/ CommitConflict(j)
                             \/ Finish(j) \/ Raise(j) \/ RaiseMute(j) \/ Die(j)
                             \/ \E u \in Users : Upsert(j, u) \/ Announce(j, u)
                             \/ \E r \in Requests : Request(j, r)
      PROVE  Refusals'
  BY <1>3 DEF LookUp, ReadLabels, Commit, CommitConflict, Finish, Raise, RaiseMute, Die, Upsert,
     Announce, Request
<1>4. CASE UNCHANGED vars
  BY <1>4
<1> QED
  BY <1>1, <1>2, <1>3, <1>4 DEF Next, JobStep

(***************************************************************************)
(* For batches of any size and any interleaving: a job that ends without   *)
(* a death and without a failure outside the "try" has announced every     *)
(* account that the site has, or an error that names them all (the safety  *)
(* part of Answered).                                                      *)
(***************************************************************************)
THEOREM EndedIsAnswered == Spec => []Accounted
<1>1. Init => TypeOK /\ OnlyUpgrades /\ Recorded /\ Accounts /\ Refusals
  BY TypeInit, OnlyUpgradesInit, RecordedInit, AccountsInit, RefusalsInit
<1>2. (TypeOK /\ OnlyUpgrades /\ Recorded /\ Accounts /\ Refusals) /\ [Next]_vars
         => (TypeOK /\ OnlyUpgrades /\ Recorded /\ Accounts /\ Refusals)'
  BY TypeNext, OnlyUpgradesNext, RecordedNext, AccountsNext, RefusalsNext
<1>3. Accounts /\ Refusals => Accounted
  BY DEF Accounts, Account, Refusals, Accounted
<1> QED
  BY <1>1, <1>2, <1>3, PTL DEF Spec
=============================================================================
