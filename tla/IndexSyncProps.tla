--------------------------- MODULE IndexSyncProps ---------------------------
(***************************************************************************)
(* What keeps Solr in sync with Postgres, and how well it does.            *)
(***************************************************************************)
EXTENDS IndexSync

\* install/supervisor.conf starts one process for the queue "index".
ASSUME SingleIndexWorker == \A v, w \in IndexWorkers : v = w

Queued(job) == \E i \in DOMAIN queue : queue[i] = job
QueuedPost(q) ==
    \E i \in DOMAIN queue : queue[i].fn = "index_posts" /\ q \in queue[i].arg

DeleteFns == {"delete_profile", "delete_profile_posts"}

(***************************************************************************)
(* A row that is deleted stays deleted.  Posts exist only under a live     *)
(* profile, and a clean-up job (running, queued, or about to be queued by  *)
(* a request) exists only for a profile whose deletion is committed, so a  *)
(* clean-up never removes documents of live rows.                          *)
(***************************************************************************)
CleanupOnlyGone ==
    /\ \A q \in posts : status[Author[q]] = "live"
    /\ \A i \in DOMAIN queue : queue[i].fn \in DeleteFns => status[queue[i].arg] = "gone"
    /\ \A w \in IndexWorkers :
          wpc[w] # "idle" /\ wjob[w].fn \in DeleteFns => status[wjob[w].arg] = "gone"
    /\ \A r \in Requests : rpc[r] # "idle" => status[rarg[r]] = "gone"

\* Somebody is still going to hand the index worker a job that repairs p's
\* document, or the history says that the chain was broken for p.
ProfileOwed(p) ==
    \/ p \in debt
    \/ /\ status[p] = "live"
       /\ \/ Queued(ProfileJob("index_profile", p))
          \/ \E s \in ScrapeWorkers : spc[s] \in {"inserted", "schedule"} /\ sarg[s] = p
    \/ /\ status[p] = "gone"
       /\ \/ Queued(ProfileJob("delete_profile", p))
          \/ \E r \in Requests : rpc[r] = "profile" /\ rarg[r] = p

\* Index worker w is running a job that will leave p's document right.
ProfileInHand(w, p) ==
    \/ /\ status[p] = "live" /\ wjob[w] = ProfileJob("index_profile", p)
       /\ wpc[w] = "read" \/ (wpc[w] = "write" /\ wver[w] = version[p])
    \/ status[p] = "gone" /\ wjob[w] = ProfileJob("delete_profile", p) /\ wpc[w] = "read"

\* p's document is right and nobody is about to overwrite it with an old read.
ProfileSettled(p) ==
    /\ doc[p] = version[p]
    /\ \A w \in IndexWorkers :
          Working(w, "index_profile", "write") /\ wjob[w].arg = p => wver[w] = version[p]

(***************************************************************************)
(* At every moment each profile's document is right, or a repair of it is  *)
(* under way: a stale read in the worker's hands always has a fresh job    *)
(* (or the commit's owner, about to queue one) behind it.  The chain       *)
(* commit -> enqueue -> dequeue -> read -> write of scrape_twitter_account, *)
(* ProfileView.delete and index_profile never drops a change without the   *)
(* history noticing.                                                       *)
(***************************************************************************)
ProfileSync ==
    \A p \in Profiles :
       ProfileOwed(p) \/ (\E w \in IndexWorkers : ProfileInHand(w, p)) \/ ProfileSettled(p)

PostOwed(q) ==
    \/ q \in postDebt
    \/ /\ q \in posts
       /\ \/ QueuedPost(q)
          \/ \E s \in ScrapeWorkers : spc[s] = "schedule_posts" /\ q \in sids[s]
    \/ /\ q \notin posts
       /\ \/ Queued(ProfileJob("delete_profile_posts", Author[q]))
          \/ \E r \in Requests : rpc[r] # "idle" /\ rarg[r] = Author[q]

PostInHand(w, q) ==
    \/ /\ q \in posts /\ wjob[w].fn = "index_posts" /\ q \in wjob[w].arg
       /\ wpc[w] = "read" \/ (wpc[w] = "write" /\ q \in wposts[w])
    \/ /\ q \notin posts /\ wpc[w] = "read"
       /\ wjob[w] = ProfileJob("delete_profile_posts", Author[q])

PostSettled(q) ==
    /\ q \in posts <=> q \in postDocs
    /\ \A w \in IndexWorkers :
          Working(w, "index_posts", "write") /\ q \in wposts[w] => q \in posts

(***************************************************************************)
(* The same for posts: a post is searchable exactly while its row exists,  *)
(* or a job that makes it so is under way.  In particular posts that the   *)
(* worker read just before their profile was deleted are cleaned up after  *)
(* they have been written.                                                 *)
(***************************************************************************)
PostSync ==
    \A q \in Posts :
       PostOwed(q) \/ (\E w \in IndexWorkers : PostInHand(w, q)) \/ PostSettled(q)

Quiet ==
    /\ queue = <<>>
    /\ \A s \in ScrapeWorkers : spc[s] = "idle"
    /\ \A r \in Requests : rpc[r] = "idle"
    /\ \A w \in IndexWorkers : wpc[w] = "idle"

(***************************************************************************)
(* When nothing is queued or running, every profile and post is searchable *)
(* exactly as Postgres has it, except for rows whose chain of jobs is      *)
(* known to be broken: a process died or a job failed between a commit and *)
(* the write to Solr, a profile was last touched as somebody's relation,   *)
(* or a post was on a page of a timeline that was not the last.            *)
(***************************************************************************)
InSyncWhenQuiet ==
    Quiet => /\ \A p \in Profiles \ debt : doc[p] = version[p]
             /\ \A q \in Posts \ postDebt : q \in posts <=> q \in postDocs

\* The index as a mirror that lags but never runs ahead or steps back.
Mirror == INSTANCE IndexMirror WITH Profiles <- Profiles, version <- version, doc <- doc

\* Every step of the queue and its workers is a step of that mirror: with
\* one index worker no read, however old, overwrites a newer document, and a
\* deleted profile does not come back to the search results.
MirrorSafety == Mirror!MirrorSpec

(***************************************************************************)
(* Every committed state of a profile becomes searchable, or is superseded *)
(* by a later one, or its chain is broken (scrape_twitter_account and      *)
(* ProfileView.delete, through the queue, to the index worker).            *)
(***************************************************************************)
EventuallySearchable ==
    \A p \in Profiles : \A v \in 1 .. MaxVersion + 1 :
       (version[p] >= v) ~> (doc[p] >= v \/ p \in debt)

(***************************************************************************)
(* Every post of a deleted profile disappears from the search results, or  *)
(* the clean-up of its profile was interrupted.                            *)
(***************************************************************************)
DeletedPostsDisappear ==
    \A q \in Posts : (q \in usedPosts \ posts) ~> (q \notin postDocs \/ q \in postDebt)

(***************************************************************************)
(* docs/architecture.rst:84 says of Solr that it "is kept in sync with     *)
(* Postgres through the Redis message queue": with no failure anywhere,    *)
(* once the queue has drained every stored post is searchable.             *)
(***************************************************************************)
PostsKeptInSync == Quiet /\ ~Faults => posts \subseteq postDocs
=============================================================================
