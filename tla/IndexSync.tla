------------------------------ MODULE IndexSync ------------------------------
(***************************************************************************)
(* Postgres, the Redis queue "index" and Solr.  Scrape workers commit      *)
(* profiles and posts and afterwards queue index jobs; a request that      *)
(* deletes a profile commits and afterwards queues two clean-up jobs; the  *)
(* index worker takes jobs in order, reads the rows, then writes Solr.     *)
(* No step is atomic with the next one, so rows change between a commit    *)
(* and its job, between a job's read and its write, and a process may die  *)
(* in every gap.                                                           *)
(*                                                                         *)
(* A row is identified by its primary key: a profile that is scraped again *)
(* after its deletion is another row.  Of its columns only a version       *)
(* number is kept; deletion counts as the last version.  doc[p] is the     *)
(* version searchable in Solr: doc[p] = version[p] with status "gone"      *)
(* means that the document has been removed.                               *)
(***************************************************************************)
EXTENDS Naturals, Sequences, FiniteSets

CONSTANTS
    Profiles,        \* primary keys of the profile rows in view; there may be others
    Posts,           \* primary keys of post rows
    Author,          \* Author[q]: the profile that post q belongs to
    ScrapeWorkers,   \* processes serving the queue "scrape"
    IndexWorkers,    \* processes serving the queue "index"
    Requests,        \* web processes handling DELETE /api/profile/<id>
    MultiPage,       \* does a timeline take more than one page to fetch?
    Faults,          \* may processes die and jobs fail half way?
    MaxVersion,      \* bound: states of a row made by scraping
    MaxQueue         \* bound: jobs in the queue when a scrape of posts starts

ASSUME AuthorAssumption == Profiles # {} /\ Author \in [Posts -> Profiles]
ASSUME SwitchAssumption == MultiPage \in BOOLEAN /\ Faults \in BOOLEAN
ASSUME BoundAssumption == MaxVersion \in Nat /\ MaxQueue \in Nat

VARIABLES
    status, version, \* profile rows: "none", "live" or "gone", and the version
    posts, usedPosts,\* live post rows; keys handed out by the sequence so far
    doc, postDocs,   \* Solr: version of each profile document; post documents
    queue,           \* Redis queue "index", oldest job first
    spc, sarg, sids, \* scrape worker: step, profile, post ids to be indexed
    rpc, rarg,       \* delete request: step, profile
    wpc, wjob,       \* index worker: step, current job
    wver, wposts,    \* index worker: what it has read from Postgres
    debt, postDebt   \* history: rows for which the chain of jobs was broken

rowVars    == <<status, version, posts, usedPosts>>
solrVars   == <<doc, postDocs>>
scrapeVars == <<spc, sarg, sids>>
requestVars == <<rpc, rarg>>
workerVars == <<wpc, wjob, wver, wposts>>
debtVars   == <<debt, postDebt>>
vars == <<rowVars, solrVars, queue, scrapeVars, requestVars, workerVars, debtVars>>

PostsBy(p) == {q \in Posts : Author[q] = p}

ProfileFns == {"index_profile", "delete_profile", "delete_profile_posts"}
Jobs == [fn : ProfileFns, arg : Profiles] \union [fn : {"index_posts"}, arg : SUBSET Posts]
ProfileJob(f, p) == [fn |-> f, arg |-> p]
PostsJob(ids) == [fn |-> "index_posts", arg |-> ids]
Enqueue(job) == queue' = Append(queue, job)

TypeOK ==
    /\ status \in [Profiles -> {"none", "live", "gone"}]
    /\ version \in [Profiles -> Nat]
    /\ posts \subseteq usedPosts /\ usedPosts \subseteq Posts
    /\ doc \in [Profiles -> Nat] /\ postDocs \subseteq Posts
    /\ queue \in Seq(Jobs)
    /\ spc \in [ScrapeWorkers -> {"idle", "inserted", "loaded", "schedule", "schedule_posts"}]
    /\ sarg \in [ScrapeWorkers -> Profiles] /\ sids \in [ScrapeWorkers -> SUBSET Posts]
    /\ rpc \in [Requests -> {"idle", "profile", "posts"}] /\ rarg \in [Requests -> Profiles]
    /\ wpc \in [IndexWorkers -> {"idle", "read", "write"}] /\ wjob \in [IndexWorkers -> Jobs]
    /\ wver \in [IndexWorkers -> Nat] /\ wposts \in [IndexWorkers -> SUBSET Posts]
    /\ debt \subseteq Profiles /\ postDebt \subseteq Posts

AnyProfile == CHOOSE p \in Profiles : TRUE

\* An empty database, an empty index, an idle deployment.  (The arguments of
\* idle processes are never looked at.)
Init ==
    /\ status = [p \in Profiles |-> "none"] /\ version = [p \in Profiles |-> 0]
    /\ posts = {} /\ usedPosts = {}
    /\ doc = [p \in Profiles |-> 0] /\ postDocs = {}
    /\ queue = <<>>
    /\ spc = [s \in ScrapeWorkers |-> "idle"] /\ sids = [s \in ScrapeWorkers |-> {}]
    /\ rpc = [r \in Requests |-> "idle"]
    /\ wpc = [w \in IndexWorkers |-> "idle"]
    /\ wjob = [w \in IndexWorkers |-> PostsJob({})]
    /\ wver = [w \in IndexWorkers |-> 0] /\ wposts = [w \in IndexWorkers |-> {}]
    /\ sarg = [s \in ScrapeWorkers |-> AnyProfile]
    /\ rarg = [r \in Requests |-> AnyProfile]
    /\ debt = {} /\ postDebt = {}

-----------------------------------------------------------------------------
(* Scrape workers *)

\* Bound: scrapes that are under way may still reach at most MaxVersion.
Room(p, n) ==
    version[p] + n + Cardinality({s \in ScrapeWorkers :
                       spc[s] \in {"inserted", "loaded"} /\ sarg[s] = p}) <= MaxVersion

\* Insert the profile and commit; if the unique key exists, load that row.
ScrapeUpsert(s, p) ==
    /\ spc[s] = "idle"
    /\ sarg' = [sarg EXCEPT ![s] = p]
    /\ \/ /\ status[p] = "none" /\ Room(p, 2)
          /\ status' = [status EXCEPT ![p] = "live"]
          /\ version' = [version EXCEPT ![p] = @ + 1]
          /\ spc' = [spc EXCEPT ![s] = "inserted"]
       \/ /\ status[p] = "live" /\ Room(p, 1)
          /\ spc' = [spc EXCEPT ![s] = "loaded"]
          /\ UNCHANGED <<status, version>>
    /\ UNCHANGED <<posts, usedPosts, solrVars, queue, sids, requestVars, workerVars, debtVars>>

\* Mutant: the index job is forgotten.
ScrapePopulateOnly(s) ==
    /\ spc[s] \in {"inserted", "loaded"} /\ status[sarg[s]] = "live"
    /\ version' = [version EXCEPT ![sarg[s]] = @ + 1]
    /\ spc' = [spc EXCEPT ![s] = "idle"]
    /\ UNCHANGED <<status, posts, usedPosts, solrVars, queue, sarg, sids,
                   requestVars, workerVars, debtVars>>

\* Fill in the columns and commit.
ScrapePopulate(s) ==
    /\ spc[s] \in {"inserted", "loaded"} /\ status[sarg[s]] = "live"
    /\ version' = [version EXCEPT ![sarg[s]] = @ + 1]
    /\ spc' = [spc EXCEPT ![s] = "schedule"]
    /\ UNCHANGED <<status, posts, usedPosts, solrVars, queue, sarg, sids,
                   requestVars, workerVars, debtVars>>

\* Queue the index job.  The row was loaded again after the commit; it may
\* have been deleted since, and the job is queued all the same.
ScrapeSchedule(s) ==
    /\ spc[s] = "schedule"
    /\ Enqueue(ProfileJob("index_profile", sarg[s]))
    /\ spc' = [spc EXCEPT ![s] = "idle"]
    /\ UNCHANGED <<rowVars, solrVars, sarg, sids, requestVars, workerVars, debtVars>>

\* The row is deleted under the scrape job: its UPDATE matches no row, or
\* loading it after the commit finds nothing, and the job fails.
ScrapeAbort(s) ==
    /\ spc[s] \in {"inserted", "loaded", "schedule"} /\ status[sarg[s]] = "gone"
    /\ spc' = [spc EXCEPT ![s] = "idle"]
    /\ UNCHANGED <<rowVars, solrVars, queue, sarg, sids, requestVars, workerVars, debtVars>>

\* Store a timeline.  The list of new ids is emptied at the top of the page
\* loop, so only the last page's ids (last) are left when the loop ends.
ScrapePosts(s, p) ==
    /\ spc[s] = "idle" /\ status[p] = "live" /\ Len(queue) < MaxQueue
    /\ \E first, last \in SUBSET (PostsBy(p) \ usedPosts) :
          /\ first \intersect last = {} /\ (MultiPage \/ first = {})
          /\ posts' = posts \union first \union last
          /\ usedPosts' = usedPosts \union first \union last
          /\ sids' = [sids EXCEPT ![s] = last]
          /\ postDebt' = postDebt \union first
    /\ spc' = [spc EXCEPT ![s] = "schedule_posts"]
    /\ sarg' = [sarg EXCEPT ![s] = p]
    /\ UNCHANGED <<status, version, solrVars, queue, requestVars, workerVars, debt>>

ScrapeSchedulePosts(s) ==
    /\ spc[s] = "schedule_posts"
    /\ Enqueue(PostsJob(sids[s]))
    /\ spc' = [spc EXCEPT ![s] = "idle"]
    /\ UNCHANGED <<rowVars, solrVars, sarg, sids, requestVars, workerVars, debtVars>>

\* A friend or follower of some other profile, which need not be one of
\* Profiles, is inserted as a stub, or an existing row is filled with the
\* fetched columns; nothing is queued for it.
ScrapeRelation(s, p) ==
    /\ spc[s] = "idle" /\ status[p] # "gone" /\ Room(p, 1)
    /\ status' = [status EXCEPT ![p] = "live"]
    /\ version' = [version EXCEPT ![p] = @ + 1]
    /\ debt' = debt \union {p}
    /\ UNCHANGED <<posts, usedPosts, solrVars, queue, scrapeVars, requestVars,
                   workerVars, postDebt>>

\* The job fails, or its process dies, between two of the steps above.
ScrapeCrash(s) ==
    /\ Faults /\ spc[s] # "idle"
    /\ spc' = [spc EXCEPT ![s] = "idle"]
    /\ debt' = debt \union {p \in {sarg[s]} :
                  spc[s] \in {"inserted", "schedule"} /\ status[p] = "live"}
    /\ postDebt' = postDebt \union {q \in sids[s] : spc[s] = "schedule_posts" /\ q \in posts}
    /\ UNCHANGED <<rowVars, solrVars, queue, sarg, sids, requestVars, workerVars>>

-----------------------------------------------------------------------------
(* DELETE /api/profile/<id> *)

\* Mutant: the posts are not deleted with their author.
DeleteWithoutCascade(r, p) ==
    /\ rpc[r] = "idle" /\ status[p] = "live"
    /\ status' = [status EXCEPT ![p] = "gone"]
    /\ version' = [version EXCEPT ![p] = @ + 1]
    /\ rpc' = [rpc EXCEPT ![r] = "profile"] /\ rarg' = [rarg EXCEPT ![r] = p]
    /\ UNCHANGED <<posts, usedPosts, solrVars, queue, scrapeVars, workerVars, debtVars>>

\* Delete the row, cascading to its posts, and commit.
DeleteCommit(r, p) ==
    /\ rpc[r] = "idle" /\ status[p] = "live"
    /\ status' = [status EXCEPT ![p] = "gone"]
    /\ version' = [version EXCEPT ![p] = @ + 1]
    /\ posts' = posts \ PostsBy(p)
    /\ rpc' = [rpc EXCEPT ![r] = "profile"] /\ rarg' = [rarg EXCEPT ![r] = p]
    /\ UNCHANGED <<usedPosts, solrVars, queue, scrapeVars, workerVars, debtVars>>

\* Mutant: the request returns after queueing the first of its two jobs.
DeleteScheduleOnlyProfile(r) ==
    /\ rpc[r] = "profile"
    /\ Enqueue(ProfileJob("delete_profile", rarg[r]))
    /\ rpc' = [rpc EXCEPT ![r] = "idle"]
    /\ UNCHANGED <<rowVars, solrVars, scrapeVars, rarg, workerVars, debtVars>>

\* Mutant: only the posts are cleaned up.
DeleteScheduleNoProfile(r) ==
    /\ rpc[r] = "profile"
    /\ rpc' = [rpc EXCEPT ![r] = "posts"]
    /\ UNCHANGED <<rowVars, solrVars, queue, scrapeVars, rarg, workerVars, debtVars>>

DeleteScheduleProfile(r) ==
    /\ rpc[r] = "profile"
    /\ Enqueue(ProfileJob("delete_profile", rarg[r]))
    /\ rpc' = [rpc EXCEPT ![r] = "posts"]
    /\ UNCHANGED <<rowVars, solrVars, scrapeVars, rarg, workerVars, debtVars>>

DeleteSchedulePosts(r) ==
    /\ rpc[r] = "posts"
    /\ Enqueue(ProfileJob("delete_profile_posts", rarg[r]))
    /\ rpc' = [rpc EXCEPT ![r] = "idle"]
    /\ UNCHANGED <<rowVars, solrVars, scrapeVars, rarg, workerVars, debtVars>>

\* The web process dies, or Redis refuses, after the commit.
DeleteCrash(r) ==
    /\ Faults /\ rpc[r] # "idle"
    /\ rpc' = [rpc EXCEPT ![r] = "idle"]
    /\ debt' = debt \union {p \in {rarg[r]} : rpc[r] = "profile"}
    /\ postDebt' = postDebt \union PostsBy(rarg[r])
    /\ UNCHANGED <<rowVars, solrVars, queue, scrapeVars, rarg, workerVars>>

-----------------------------------------------------------------------------
(* Index worker *)

Working(w, f, step) == wpc[w] = step /\ wjob[w].fn = f

Dequeue(w) ==
    /\ wpc[w] = "idle" /\ queue # <<>>
    /\ wjob' = [wjob EXCEPT ![w] = Head(queue)]
    /\ queue' = Tail(queue)
    /\ wpc' = [wpc EXCEPT ![w] = "read"]
    /\ UNCHANGED <<rowVars, solrVars, scrapeVars, requestVars, wver, wposts, debtVars>>

\* Mutant: a session kept open between jobs serves an old snapshot.
IndexProfileOldRead(w) ==
    LET p == wjob[w].arg IN
    /\ Working(w, "index_profile", "read") /\ status[p] = "live"
    /\ \E v \in 1 .. version[p] : wver' = [wver EXCEPT ![w] = v]
    /\ wpc' = [wpc EXCEPT ![w] = "write"]
    /\ debt' = debt \ {p}
    /\ UNCHANGED <<rowVars, solrVars, queue, scrapeVars, requestVars, wjob, wposts, postDebt>>

\* The row is read now, whatever it was when the job was queued: any earlier
\* change of it that nobody announced is about to be indexed as well.
IndexProfileRead(w) ==
    LET p == wjob[w].arg IN
    /\ Working(w, "index_profile", "read") /\ status[p] = "live"
    /\ wver' = [wver EXCEPT ![w] = version[p]]
    /\ wpc' = [wpc EXCEPT ![w] = "write"]
    /\ debt' = debt \ {p}
    /\ UNCHANGED <<rowVars, solrVars, queue, scrapeVars, requestVars, wjob, wposts, postDebt>>

\* query.one() finds no row: the job fails.
IndexProfileMissing(w) ==
    /\ Working(w, "index_profile", "read") /\ status[wjob[w].arg] # "live"
    /\ wpc' = [wpc EXCEPT ![w] = "idle"]
    /\ UNCHANGED <<rowVars, solrVars, queue, scrapeVars, requestVars, wjob, wver,
                   wposts, debtVars>>

IndexProfileWrite(w) ==
    /\ Working(w, "index_profile", "write")
    /\ doc' = [doc EXCEPT ![wjob[w].arg] = wver[w]]
    /\ wpc' = [wpc EXCEPT ![w] = "idle"]
    /\ UNCHANGED <<rowVars, postDocs, queue, scrapeVars, requestVars, wjob, wver,
                   wposts, debtVars>>

\* Mutant: the job trusts its argument and does not look at the rows.
IndexPostsUnread(w) ==
    /\ Working(w, "index_posts", "read")
    /\ wposts' = [wposts EXCEPT ![w] = wjob[w].arg]
    /\ wpc' = [wpc EXCEPT ![w] = "write"]
    /\ UNCHANGED <<rowVars, solrVars, queue, scrapeVars, requestVars, wjob, wver, debtVars>>

IndexPostsRead(w) ==
    /\ Working(w, "index_posts", "read")
    /\ wposts' = [wposts EXCEPT ![w] = wjob[w].arg \intersect posts]
    /\ wpc' = [wpc EXCEPT ![w] = "write"]
    /\ UNCHANGED <<rowVars, solrVars, queue, scrapeVars, requestVars, wjob, wver, debtVars>>

IndexPostsWrite(w) ==
    /\ Working(w, "index_posts", "write")
    /\ postDocs' = postDocs \union wposts[w]
    /\ wpc' = [wpc EXCEPT ![w] = "idle"]
    /\ UNCHANGED <<rowVars, doc, queue, scrapeVars, requestVars, wjob, wver, wposts, debtVars>>

\* The delete jobs query Solr only.
DeleteProfileWrite(w) ==
    LET p == wjob[w].arg IN
    /\ Working(w, "delete_profile", "read")
    /\ doc' = [doc EXCEPT ![p] = version[p]]
    /\ wpc' = [wpc EXCEPT ![w] = "idle"]
    /\ UNCHANGED <<rowVars, postDocs, queue, scrapeVars, requestVars, wjob, wver,
                   wposts, debtVars>>

DeletePostsWrite(w) ==
    /\ Working(w, "delete_profile_posts", "read")
    /\ postDocs' = postDocs \ PostsBy(wjob[w].arg)
    /\ wpc' = [wpc EXCEPT ![w] = "idle"]
    /\ UNCHANGED <<rowVars, doc, queue, scrapeVars, requestVars, wjob, wver, wposts, debtVars>>

\* Solr fails, the job times out or the worker dies.  What was being written
\* may have got through, posts one by one; RQ does not retry.
JobFails(w) ==
    LET job == wjob[w] IN
    /\ Faults /\ wpc[w] # "idle"
    /\ wpc' = [wpc EXCEPT ![w] = "idle"]
    /\ \/ UNCHANGED solrVars
       \/ /\ Working(w, "index_profile", "write")
          /\ doc' = [doc EXCEPT ![job.arg] = wver[w]]
          /\ UNCHANGED postDocs
       \/ /\ Working(w, "index_posts", "write")
          /\ \E sent \in SUBSET wposts[w] : postDocs' = postDocs \union sent
          /\ UNCHANGED doc
    /\ debt' = debt \union
         {p \in Profiles : job = ProfileJob("index_profile", p) /\ status[p] = "live"} \union
         {p \in Profiles : job = ProfileJob("delete_profile", p)}
    /\ postDebt' = postDebt \union
         {q \in posts : job.fn = "index_posts" /\ q \in job.arg} \union
         {q \in Posts : job = ProfileJob("delete_profile_posts", Author[q])}
    /\ UNCHANGED <<rowVars, queue, scrapeVars, requestVars, wjob, wver, wposts>>

-----------------------------------------------------------------------------
ScrapeStep(s) ==
    \/ ScrapePopulate(s) \/ ScrapeSchedule(s) \/ ScrapeAbort(s)
    \/ ScrapeSchedulePosts(s)

RequestStep(r) == DeleteScheduleProfile(r) \/ DeleteSchedulePosts(r)

WorkerStep(w) ==
    \/ Dequeue(w)
    \/ IndexProfileRead(w) \/ IndexProfileMissing(w) \/ IndexProfileWrite(w)
    \/ IndexPostsRead(w) \/ IndexPostsWrite(w)
    \/ DeleteProfileWrite(w) \/ DeletePostsWrite(w)

Next ==
    \/ \E s \in ScrapeWorkers, p \in Profiles :
          ScrapeUpsert(s, p) \/ ScrapePosts(s, p) \/ ScrapeRelation(s, p)
    \/ \E r \in Requests, p \in Profiles : DeleteCommit(r, p)
    \/ \E s \in ScrapeWorkers : ScrapeStep(s) \/ ScrapeCrash(s)
    \/ \E r \in Requests : RequestStep(r) \/ DeleteCrash(r)
    \/ \E w \in IndexWorkers : WorkerStep(w) \/ JobFails(w)

Spec == Init /\ [][Next]_vars

\* A process that has begun something goes on with it, and the index worker,
\* restarted by supervisor, keeps serving its queue.  Nobody has to start a
\* scrape or delete a profile, and nothing has to fail.
Fairness ==
    /\ \A s \in ScrapeWorkers : WF_vars(ScrapeStep(s))
    /\ \A r \in Requests : WF_vars(RequestStep(r))
    /\ \A w \in IndexWorkers : WF_vars(WorkerStep(w))

FairSpec == Spec /\ Fairness
=============================================================================
