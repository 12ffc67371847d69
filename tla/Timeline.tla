------------------------------ MODULE Timeline ------------------------------
(***************************************************************************)
(* Scraping of posts: scrape_twitter_posts and scrape_instagram_posts for  *)
(* one profile.  The posts of its timeline are numbered 1, 2, ... from the *)
(* oldest; new ones appear while jobs run.  A job looks up the newest or   *)
(* the oldest stored post once, pages through the timeline from the newest *)
(* post that it may take, and commits everything at the end.  The table    *)
(* "post" has no unique key but its own.                                   *)
(***************************************************************************)
EXTENDS Integers, FiniteSets, FiniteSetsExt

CONSTANTS
    Sites,         \* the sites to consider: "twitter", "instagram"
    PageSize,      \* posts per answer of the site
    MaxResults,    \* max_posts_<site>: posts per job
    Jobs,          \* jobs that scrape the posts of the profile
    Faults,        \* may a site, a timeout or a death interrupt a job?
    LastPost       \* bound: posts that ever appear

ASSUME SiteAssumption == Sites \subseteq {"twitter", "instagram"}
\* Twitter counts the post that the last page ended with, so a page is larger.
ASSUME SizeAssumption ==
    /\ PageSize \in Nat \ {0, 1} /\ MaxResults \in Nat \ {0} /\ LastPost \in Nat \ {0}
    /\ Faults \in BOOLEAN

VARIABLES
    site,          \* where the profile is from
    inclusive,     \* does Twitter's answer include the post that since_id names?
    newest,        \* number of the newest post at the site
    stored,        \* committed rows per post
    pc, recent,    \* job: step; does it fetch newer posts or older ones?
    since, maxId,  \* job: request parameters; 0 if absent
    results, got,  \* job: posts taken so far, rows to be committed
    from, upTo,    \* history: post next to the job's range, newest post then
    clash,         \* history: did two jobs fetch the same range at a time?
    cut            \* history: did a job for newer posts stop at MaxResults?

jobVars == <<pc, recent, since, maxId, results, got>>
vars == <<site, inclusive, newest, stored, jobVars, from, upTo, clash, cut>>

Posts == 1 .. LastPost
Twitter == site = "twitter"
Stored == {i \in Posts : stored[i] > 0}

TypeOK ==
    /\ site \in Sites /\ inclusive \in BOOLEAN
    /\ newest \in 0 .. LastPost /\ stored \in [Posts -> Nat]
    /\ pc \in [Jobs -> {"new", "fetch", "commit", "done", "failed"}]
    /\ recent \in [Jobs -> BOOLEAN]
    /\ since \in [Jobs -> 0 .. LastPost] /\ maxId \in [Jobs -> 0 .. LastPost]
    /\ results \in [Jobs -> Nat] /\ got \in [Jobs -> [Posts -> Nat]]
    /\ \A j \in Jobs : results[j] = Cardinality({i \in Posts : got[j][i] > 0})
    /\ from \in [Jobs -> 0 .. LastPost] /\ upTo \in [Jobs -> 0 .. LastPost]
    /\ clash \in BOOLEAN /\ cut \in BOOLEAN

NoPosts == [i \in Posts |-> 0]

\* A stretch of the timeline, or nothing, has been stored by earlier jobs.
Init ==
    /\ site \in Sites /\ inclusive \in IF Twitter THEN BOOLEAN ELSE {FALSE}
    /\ newest \in 0 .. LastPost
    /\ \E i \in Posts, l \in 0 .. newest :
          stored = [k \in Posts |-> IF k \in i .. l THEN 1 ELSE 0]
    /\ pc = [j \in Jobs |-> "new"] /\ recent = [j \in Jobs |-> FALSE]
    /\ since = [j \in Jobs |-> 0] /\ maxId = [j \in Jobs |-> 0]
    /\ results = [j \in Jobs |-> 0] /\ got = [j \in Jobs |-> NoPosts]
    /\ from = [j \in Jobs |-> 0] /\ upTo = [j \in Jobs |-> 0]
    /\ clash = FALSE /\ cut = FALSE

-----------------------------------------------------------------------------
Goto(j, step) == pc' = [pc EXCEPT ![j] = step]
Running == {i \in Jobs : pc[i] \in {"fetch", "commit"}}

\* A post appears at the site.
Publish ==
    /\ newest < LastPost
    /\ newest' = newest + 1
    /\ UNCHANGED <<site, inclusive, stored, jobVars, from, upTo, clash, cut>>

\* Another job is fetching what a job that begins now will fetch.
Clashes(r) == \E i \in Running : recent[i] = r \/ from[i] = 0 \/ Stored = {}

\* Look up the stored post that is next to the range to be fetched: the newest
\* one to fetch newer posts, the oldest one to fetch older posts.
Begin(j, r) ==
    LET near == IF Stored = {} THEN 0 ELSE IF r THEN Max(Stored) ELSE Min(Stored) IN
    /\ pc[j] = "new"
    /\ recent' = [recent EXCEPT ![j] = r]
    /\ since' = [since EXCEPT ![j] = IF r THEN near ELSE 0]
    /\ maxId' = [maxId EXCEPT ![j] = IF r THEN 0 ELSE near]
    /\ from' = [from EXCEPT ![j] = near] /\ upTo' = [upTo EXCEPT ![j] = newest]
    /\ clash' = (clash \/ Clashes(r))
    /\ Goto(j, "fetch")
    /\ UNCHANGED <<site, inclusive, newest, stored, results, got, cut>>

\* Twitter says that it answers with posts newer than since_id.  The comment in the
\* code says that the answer includes the post with since_id; nothing ignores it.
Floor(j) == IF Twitter /\ inclusive /\ since[j] > 0 THEN since[j] - 1 ELSE since[j]

\* The newest n posts of S.
Newest(S, n) == {i \in S : Cardinality({k \in S : k > i}) < n}

\* Mutant: the loop is left before the last post is counted.
TakeUncounted(j, new) ==
    LET taken == Newest(new, MaxResults - results[j])
        sum == results[j] + Cardinality(taken)
    IN /\ got' = [got EXCEPT ![j] = [i \in Posts |-> @[i] + IF i \in taken THEN 1 ELSE 0]]
       /\ results' = [results EXCEPT ![j] = IF sum = MaxResults THEN sum - 1 ELSE sum]

\* Add the rows of one page, as many as the job may still take.
Take(j, new) ==
    LET taken == Newest(new, MaxResults - results[j]) IN
    /\ got' = [got EXCEPT ![j] = [i \in Posts |-> @[i] + IF i \in taken THEN 1 ELSE 0]]
    /\ results' = [results EXCEPT ![j] = @ + Cardinality(taken)]

\* Mutant: the post that max_id names is stored again.
TwitterFetchAll(j) ==
    LET range == {i \in 1 .. newest : i > Floor(j) /\ (maxId[j] = 0 \/ i <= maxId[j])}
        page == Newest(range, PageSize)
    IN /\ Twitter /\ pc[j] = "fetch"
       /\ Take(j, page)
       /\ maxId' = [maxId EXCEPT ![j] = IF page = {} THEN @ ELSE Min(page)]
       /\ Goto(j, IF Cardinality(page) < PageSize \/ results'[j] = MaxResults
                  THEN "commit" ELSE "fetch")
       /\ UNCHANGED <<site, inclusive, newest, stored, recent, since, from, upTo, clash, cut>>

\* Mutant: the next request asks for the same page.
TwitterFetchSame(j) ==
    LET range == {i \in 1 .. newest : i > Floor(j) /\ (maxId[j] = 0 \/ i <= maxId[j])}
        page == Newest(range, PageSize)
        new == {i \in page : i # maxId[j] /\ got[j][i] = 0}
    IN /\ Twitter /\ pc[j] = "fetch"
       /\ Take(j, new)
       /\ Goto(j, IF Cardinality(page) < PageSize \/ results'[j] = MaxResults
                  THEN "commit" ELSE "fetch")
       /\ UNCHANGED <<site, inclusive, newest, stored, recent, since, maxId, from, upTo, clash, cut>>

\* Mutant: a page that repeats the last post counts as short.
TwitterFetchShort(j) ==
    LET range == {i \in 1 .. newest : i > Floor(j) /\ (maxId[j] = 0 \/ i <= maxId[j])}
        page == Newest(range, PageSize)
        new == page \ {maxId[j]}
    IN /\ Twitter /\ pc[j] = "fetch"
       /\ Take(j, new)
       /\ maxId' = [maxId EXCEPT ![j] = IF new = {} THEN @ ELSE Min({i \in Posts : got'[j][i] > 0})]
       /\ Goto(j, IF Cardinality(new) < PageSize \/ results'[j] = MaxResults
                  THEN "commit" ELSE "fetch")
       /\ UNCHANGED <<site, inclusive, newest, stored, recent, since, from, upTo, clash, cut>>

\* One request to Twitter, from max_id (which it includes) down to since_id.  The
\* job ignores the post that max_id names.  The last page is the one that is not full.
TwitterFetch(j) ==
    LET range == {i \in 1 .. newest : i > Floor(j) /\ (maxId[j] = 0 \/ i <= maxId[j])}
        page == Newest(range, PageSize)
        new == page \ {maxId[j]}
    IN /\ Twitter /\ pc[j] = "fetch"
       /\ Take(j, new)
       /\ maxId' = [maxId EXCEPT ![j] = IF new = {} THEN @ ELSE Min({i \in Posts : got'[j][i] > 0})]
       /\ Goto(j, IF Cardinality(page) < PageSize \/ (new # {} /\ results'[j] = MaxResults)
                  THEN "commit" ELSE "fetch")
       /\ UNCHANGED <<site, inclusive, newest, stored, recent, since, from, upTo, clash, cut>>

\* Mutant: the next page begins below the post that follows this one.
InstagramFetchBelow(j) ==
    LET range == {i \in 1 .. newest : i >= since[j] /\ (maxId[j] = 0 \/ i < maxId[j])}
        page == Newest(range, PageSize)
    IN /\ ~Twitter /\ pc[j] = "fetch"
       /\ Take(j, page \ {since[j]})
       /\ maxId' = [maxId EXCEPT ![j] = IF page = range THEN @ ELSE Min(page) - 1]
       /\ Goto(j, IF page = range \/ results'[j] = MaxResults THEN "commit" ELSE "fetch")
       /\ UNCHANGED <<site, inclusive, newest, stored, recent, since, from, upTo, clash, cut>>

\* One request to Instagram, below max_id, including min_id.  The site says
\* whether there is more, and from where to go on.
InstagramFetch(j) ==
    LET range == {i \in 1 .. newest : i >= since[j] /\ (maxId[j] = 0 \/ i < maxId[j])}
        page == Newest(range, PageSize)
    IN /\ ~Twitter /\ pc[j] = "fetch"
       /\ Take(j, page \ {since[j]})
       /\ maxId' = [maxId EXCEPT ![j] = IF page = range THEN @ ELSE Min(page)]
       /\ Goto(j, IF page = range \/ results'[j] = MaxResults THEN "commit" ELSE "fetch")
       /\ UNCHANGED <<site, inclusive, newest, stored, recent, since, from, upTo, clash, cut>>

\* The posts of all pages are committed at once.
Commit(j) ==
    LET oldest == Min({i \in Posts : got[j][i] > 0} \union {LastPost}) IN
    /\ pc[j] = "commit"
    /\ stored' = [i \in Posts |-> stored[i] + got[j][i]]
    /\ cut' = (cut \/ (since[j] > 0 /\ results[j] = MaxResults /\ oldest > since[j] + 1))
    /\ Goto(j, "done")
    /\ UNCHANGED <<site, inclusive, newest, recent, since, maxId, results, got, from, upTo, clash>>

\* The site, a timeout or a death ends the job: nothing has been committed.
Interrupt(j) ==
    /\ Faults /\ j \in Running
    /\ Goto(j, "failed")
    /\ UNCHANGED <<site, inclusive, newest, stored, recent, since, maxId, results, got, from, upTo, clash, cut>>

JobStep(j) == TwitterFetch(j) \/ InstagramFetch(j) \/ Commit(j)

Next ==
    \/ Publish
    \/ \E j \in Jobs : JobStep(j) \/ Interrupt(j) \/ \E r \in BOOLEAN : Begin(j, r)

Spec == Init /\ [][Next]_vars

\* Workers are kept alive by supervisor and go on with what they have begun;
\* nothing has to fail.
FairSpec == Spec /\ \A j \in Jobs : WF_vars(JobStep(j))
=============================================================================
