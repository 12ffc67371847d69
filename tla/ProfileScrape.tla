---------------------------- MODULE ProfileScrape ----------------------------
(***************************************************************************)
(* Scraping of profiles: what scrape_profile, scrape_profile_by_id and the *)
(* functions they call do to the rows of "profile" and                     *)
(* "label_join_profile", which follow-up jobs they queue and what they     *)
(* tell the channel "profile".  Several workers serve the queue, so jobs   *)
(* for the same accounts run side by side; each commit is a step, and so   *)
(* is each job that is queued.                                             *)
(*                                                                         *)
(* Each behaviour is about one site, under a setting that is chosen at the *)
(* beginning.  A row is identified by the account's id at the site, which  *)
(* is unique in the table; deletion of profiles is in IndexSync.  A        *)
(* request may attach one label, which exists.                             *)
(***************************************************************************)
EXTENDS Naturals, FiniteSets

CONSTANTS
    Users,         \* accounts that users ask for
    Settings,      \* site, accounts it has, those that are protected, those that
                   \* may have a row from earlier, and those that users label
    Jobs,          \* jobs that scrape profiles
    BatchSize,     \* largest number of accounts in one job at Twitter
    Faults         \* may a site, a timeout or a death interrupt a job?

ASSUME SettingsAssumption ==
    Settings \subseteq [site : {"twitter", "instagram"}, existing : SUBSET Users,
                       protected : SUBSET Users, stored : SUBSET Users, labels : SUBSET Users]
ASSUME UsersAssumption == Users # {}
ASSUME BatchAssumption == BatchSize \in Nat \ {0} /\ Faults \in BOOLEAN

VARIABLES
    setting,   \* member of Settings, never changed
    row,       \* profile.is_stub of each row: "none" (no row), "stub", "full"
    filled,    \* rows whose columns have been filled in
    labelled,  \* rows that have the label
    jobs,      \* follow-up jobs queued so far: pairs of a kind and an account
    told,      \* profiles announced: pairs of a job and an account
    refused,   \* jobs that have announced an error for all their accounts
    pc, req,   \* scraping job: step; accounts, stub flag and labels asked for
    left, cur, \* accounts the site has answered with; the one in hand
    done,      \* accounts that have been dealt with
    mark,      \* value that the next commit gives to is_stub, or "keep"
    append     \* will the next commit insert the label?

jobVars == <<pc, req, left, cur, done, mark, append>>
sharedVars == <<setting, row, filled, labelled, jobs, told, refused>>
vars == <<sharedVars, jobVars>>

Twitter == setting.site = "twitter"
Existing == setting.existing      \* accounts that the site has
Protected == setting.protected    \* those with private posts and relations
Flag(stub) == IF stub THEN "stub" ELSE "full"
Kinds == {"index", "avatar", "posts", "relations"}
Steps == {"queued", "next", "label", "fill", "announce"} \union Kinds
Ended == {"done", "failed", "mute", "dead"}
\* Accounts per request; the sites' APIs take 100 and 1.
MaxBatch == IF Twitter THEN BatchSize ELSE 1
\* (At Twitter the functions for names and for ids differ in the key only.)
Requests == [users : {U \in SUBSET Users : U # {} /\ Cardinality(U) <= MaxBatch},
             stub : BOOLEAN, byId : IF Twitter THEN {FALSE} ELSE BOOLEAN,
             labels : SUBSET setting.labels]

AnyUser == CHOOSE u \in Users : TRUE
NoRequest == [users |-> {}, stub |-> FALSE, byId |-> FALSE, labels |-> {}]

TypeOK ==
    /\ setting \in Settings /\ row \in [Users -> {"none", "stub", "full"}]
    /\ filled \subseteq Users /\ labelled \subseteq Users
    /\ jobs \subseteq Kinds \X Users
    /\ told \subseteq Jobs \X Users /\ refused \subseteq Jobs
    /\ pc \in [Jobs -> Steps \union Ended \union {"new", "error"}]
    /\ req \in [Jobs -> Requests \union {NoRequest}]
    /\ \A j \in Jobs : pc[j] # "new" => req[j] \in Requests
    /\ cur \in [Jobs -> Users]
    /\ left \in [Jobs -> SUBSET Users] /\ done \in [Jobs -> SUBSET Users]
    /\ \A j \in Jobs : pc[j] \in {"label", "fill"} \union Kinds => cur[j] \in left[j]
    /\ mark \in [Jobs -> {"keep", "stub", "full"}] /\ append \in [Jobs -> BOOLEAN]

\* Rows that are there from earlier: stubs of relations and full profiles.
Init ==
    /\ setting \in Settings
    /\ row \in [Users -> {"none", "stub", "full"}]
    /\ \A u \in Users \ setting.stored : row[u] = "none"
    /\ filled = {u \in Users : row[u] # "none"}
    /\ labelled = {}
    /\ jobs = {k \in Kinds \X Users : row[k[2]] = "full"}
    /\ told = {} /\ refused = {}
    /\ pc = [j \in Jobs |-> "new"] /\ req = [j \in Jobs |-> NoRequest]
    /\ left = [j \in Jobs |-> {}] /\ done = [j \in Jobs |-> {}]
    /\ cur = [j \in Jobs |-> AnyUser]
    /\ mark = [j \in Jobs |-> "keep"] /\ append = [j \in Jobs |-> FALSE]

Goto(j, step) == pc' = [pc EXCEPT ![j] = step]

-----------------------------------------------------------------------------
\* A job is queued for some accounts: schedule_profile, schedule_profile_id,
\* or one chunk of schedule_profiles.
Request(j, r) ==
    /\ pc[j] = "new"
    /\ r.labels \subseteq r.users
    /\ req' = [req EXCEPT ![j] = r]
    /\ Goto(j, "queued")
    /\ UNCHANGED <<sharedVars, left, cur, done, mark, append>>

\* The accounts that the site answers with.  Instagram is always searched for
\* user names: an id finds nothing.
Found(r) == IF ~Twitter /\ r.byId THEN {} ELSE r.users \intersect Existing

\* Twitter leaves out accounts that do not exist, and answers 404 when none
\* of them does; the search at Instagram comes back without a match.
LookUp(j) ==
    /\ pc[j] = "queued"
    /\ left' = [left EXCEPT ![j] = Found(req[j])]
    /\ Goto(j, IF Found(req[j]) = {} THEN "error" ELSE "next")
    /\ UNCHANGED <<sharedVars, req, cur, done, mark, append>>

\* is_stub of a row that the job inserts; the Instagram code sets it later.
Inserted(stub) == IF Twitter THEN Flag(stub) ELSE "full"

\* What the job assigns to is_stub after the first commit.  The next commit
\* writes it, unless the job has loaded a row with the same value.
Assigned(u, stub) ==
    IF ~Twitter THEN Flag(stub) ELSE IF row[u] = "none" THEN "keep" ELSE "full"
Marked(u, stub) == IF Assigned(u, stub) = row[u] THEN "keep" ELSE Assigned(u, stub)

\* Mutant: an existing row gets the flag of the request.
UpsertFlag(j, u) ==
    /\ pc[j] = "next" /\ u \in left[j]
    /\ cur' = [cur EXCEPT ![j] = u]
    /\ mark' = [mark EXCEPT ![j] = Flag(req[j].stub)]
    /\ row' = [row EXCEPT ![u] = IF @ = "none" THEN Inserted(req[j].stub) ELSE @]
    /\ Goto(j, IF Twitter THEN "label" ELSE "fill")
    /\ UNCHANGED <<setting, filled, labelled, jobs, told, refused, req, left, done, append>>

\* Mutant: profiles are announced as soon as they have been inserted.
UpsertAnnounce(j, u) ==
    /\ pc[j] = "next" /\ u \in left[j]
    /\ cur' = [cur EXCEPT ![j] = u]
    /\ mark' = [mark EXCEPT ![j] = Marked(u, req[j].stub)]
    /\ row' = [row EXCEPT ![u] = IF @ = "none" THEN Inserted(req[j].stub) ELSE @]
    /\ told' = told \union {<<j, u>>}
    /\ Goto(j, IF Twitter THEN "label" ELSE "fill")
    /\ UNCHANGED <<setting, filled, labelled, jobs, refused, req, left, done, append>>

\* Insert the row and commit; if it violates the unique key, load the row.
Upsert(j, u) ==
    /\ pc[j] = "next" /\ u \in left[j]
    /\ cur' = [cur EXCEPT ![j] = u]
    /\ mark' = [mark EXCEPT ![j] = Marked(u, req[j].stub)]
    /\ row' = [row EXCEPT ![u] = IF @ = "none" THEN Inserted(req[j].stub) ELSE @]
    /\ Goto(j, IF Twitter THEN "label" ELSE "fill")
    /\ UNCHANGED <<setting, filled, labelled, jobs, told, refused, req, left, done, append>>

\* _label_profile: read the labels of the row, append the one that is missing.
ReadLabels(j) ==
    /\ pc[j] = "label"
    /\ append' = [append EXCEPT ![j] = cur[j] \in req[j].labels \ labelled]
    /\ Goto(j, "fill")
    /\ UNCHANGED <<sharedVars, req, left, cur, done, mark>>

\* Another job has inserted the same label since it was read.
Conflict(j) == append[j] /\ cur[j] \in labelled

Commit(j) ==
    /\ pc[j] = "fill" /\ ~Conflict(j)
    /\ row' = [row EXCEPT ![cur[j]] = IF mark[j] = "keep" THEN @ ELSE mark[j]]
    /\ filled' = filled \union {cur[j]}
    /\ labelled' = labelled \union {u \in {cur[j]} : append[j]}
    /\ mark' = [mark EXCEPT ![j] = "keep"] /\ append' = [append EXCEPT ![j] = FALSE]
    /\ Goto(j, "index")
    /\ UNCHANGED <<setting, jobs, told, refused, req, left, cur, done>>

CommitConflict(j) ==
    /\ pc[j] = "fill" /\ Conflict(j)
    /\ Goto(j, "error")
    /\ UNCHANGED <<sharedVars, req, left, cur, done, mark, append>>

\* Mutant: the follow-up jobs stop after the posts.
AfterNoRelations(j, k) ==
    IF k = "index" /\ ~req[j].stub THEN "avatar"
    ELSE IF k = "avatar" /\ ~(Twitter /\ cur[j] \in Protected) THEN "posts" ELSE "next"

\* The kind of follow-up job that comes after kind k, or "next".  Twitter is
\* not asked for the posts and relations of a protected account.
After(j, k) ==
    IF k = "index" /\ ~req[j].stub THEN "avatar"
    ELSE IF k = "avatar" /\ ~(Twitter /\ cur[j] \in Protected) THEN "posts"
    ELSE IF k = "posts" THEN "relations" ELSE "next"

\* Queue one follow-up job; after the last one turn to the next account.
FollowUp(j) ==
    /\ pc[j] \in Kinds
    /\ jobs' = jobs \union {<<pc[j], cur[j]>>}
    /\ IF After(j, pc[j]) # "next"
       THEN Goto(j, After(j, pc[j])) /\ UNCHANGED <<left, done>>
       ELSE /\ left' = [left EXCEPT ![j] = @ \ {cur[j]}]
            /\ done' = [done EXCEPT ![j] = @ \union {cur[j]}]
            /\ Goto(j, IF left[j] = {cur[j]} THEN "announce" ELSE "next")
    /\ UNCHANGED <<setting, row, filled, labelled, told, refused, req, cur, mark, append>>

Untold(j) == {u \in done[j] : <<j, u>> \notin told}

\* Publish one profile, when all of them have been dealt with.
Announce(j, u) ==
    /\ pc[j] = "announce" /\ u \in Untold(j)
    /\ told' = told \union {<<j, u>>}
    /\ UNCHANGED <<setting, row, filled, labelled, jobs, refused, jobVars>>

\* finish_job: still inside the "try", so its failure is announced as well.
Finish(j) ==
    /\ pc[j] = "announce" /\ Untold(j) = {}
    /\ Goto(j, "done")
    /\ UNCHANGED <<sharedVars, req, left, cur, done, mark, append>>

\* Mutant: an error that is not the site's is only logged.
ErrorSilent(j) ==
    /\ pc[j] = "error"
    /\ Goto(j, "failed")
    /\ UNCHANGED <<sharedVars, req, left, cur, done, mark, append>>

\* An exception inside the "try" is announced, and the message names all
\* accounts of the job.
Error(j) ==
    /\ pc[j] = "error"
    /\ refused' = refused \union {j}
    /\ Goto(j, "failed")
    /\ UNCHANGED <<setting, row, filled, labelled, jobs, told, req, left, cur, done, mark, append>>

\* The site, Postgres or Redis fails inside the "try", or RQ's timeout strikes.
Raise(j) ==
    /\ Faults /\ pc[j] \in Steps
    /\ Goto(j, "error")
    /\ UNCHANGED <<sharedVars, req, left, cur, done, mark, append>>

\* Nobody hears of an exception outside the "try": in start_job, before it, and
\* while the error is published.
RaiseMute(j) ==
    /\ Faults /\ pc[j] \in {"queued", "error"}
    /\ Goto(j, "mute")
    /\ UNCHANGED <<sharedVars, req, left, cur, done, mark, append>>

\* The worker's process is killed.
Die(j) ==
    /\ Faults /\ pc[j] \in Steps \union {"error"}
    /\ Goto(j, "dead")
    /\ UNCHANGED <<sharedVars, req, left, cur, done, mark, append>>

JobStep(j) ==
    \/ LookUp(j) \/ ReadLabels(j) \/ Commit(j) \/ CommitConflict(j) \/ FollowUp(j)
    \/ Finish(j) \/ Error(j)
    \/ \E u \in Users : Upsert(j, u) \/ Announce(j, u)

Next ==
    \E j \in Jobs :
       \/ JobStep(j) \/ Raise(j) \/ RaiseMute(j) \/ Die(j)
       \/ \E r \in Requests : Request(j, r)

Spec == Init /\ [][Next]_vars

\* Workers are kept alive by supervisor and go on with what they have begun;
\* nothing has to fail.
FairSpec == Spec /\ \A j \in Jobs : WF_vars(JobStep(j))
=============================================================================
