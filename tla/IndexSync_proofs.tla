-------------------------- MODULE IndexSync_proofs --------------------------
(***************************************************************************)
(* Proofs about IndexSync, for any number of profiles, posts, scrape       *)
(* workers and requests, and for one index worker.                         *)
(***************************************************************************)
EXTENDS IndexSyncProps, TLAPS

USE DEF rowVars, solrVars, scrapeVars, requestVars, workerVars, debtVars, vars

\* Where an element of a queue comes from when a job is appended ...
LEMMA AppendElements ==
    ASSUME NEW S, NEW q \in Seq(S), NEW e \in S
    PROVE  /\ Append(q, e) \in Seq(S)
           /\ \A i \in DOMAIN q : i \in DOMAIN Append(q, e) /\ Append(q, e)[i] = q[i]
           /\ \A i \in DOMAIN Append(q, e) :
                 \/ Append(q, e)[i] = e
                 \/ i \in DOMAIN q /\ Append(q, e)[i] = q[i]
           /\ \E i \in DOMAIN Append(q, e) : Append(q, e)[i] = e
<1>1. DOMAIN q = 1 .. Len(q) /\ Len(q) \in Nat
  OBVIOUS
<1>2. DOMAIN Append(q, e) = 1 .. Len(q) + 1
  OBVIOUS
<1>3. Len(q) + 1 \in DOMAIN Append(q, e) /\ Append(q, e)[Len(q) + 1] = e
  BY <1>1, <1>2
<1>4. \A i \in DOMAIN q : i \in DOMAIN Append(q, e) /\ Append(q, e)[i] = q[i]
  BY <1>1, <1>2
<1>5. \A i \in DOMAIN Append(q, e) : i = Len(q) + 1 \/ i \in DOMAIN q
  BY <1>1, <1>2
<1>6. Append(q, e) \in Seq(S)
  OBVIOUS
<1> QED
  BY <1>3, <1>4, <1>5, <1>6, Zenon

\* ... and where they go when the head is taken.
LEMMA TailElements ==
    ASSUME NEW S, NEW q \in Seq(S), q # <<>>
    PROVE  /\ Tail(q) \in Seq(S) /\ Head(q) \in S
           /\ \A i \in DOMAIN Tail(q) : \E k \in DOMAIN q : Tail(q)[i] = q[k]
           /\ \A i \in DOMAIN q :
                 q[i] = Head(q) \/ \E j \in DOMAIN Tail(q) : Tail(q)[j] = q[i]
           /\ \E k \in DOMAIN q : Head(q) = q[k]
<1>1. DOMAIN q = 1 .. Len(q) /\ Len(q) \in Nat \ {0} /\ Len(Tail(q)) = Len(q) - 1
  OBVIOUS
<1>2. DOMAIN Tail(q) = 1 .. Len(q) - 1 /\ \A i \in 1 .. Len(q) - 1 : Tail(q)[i] = q[i + 1]
  BY <1>1
<1>3. ASSUME NEW i \in DOMAIN q, i # 1
      PROVE  \E j \in DOMAIN Tail(q) : Tail(q)[j] = q[i]
  <2>1. i - 1 \in DOMAIN Tail(q) /\ Tail(q)[i - 1] = q[i]
    BY <1>1, <1>2, <1>3
  <2> QED
    BY <2>1
<1>4. 1 \in DOMAIN q /\ q[1] = Head(q)
  BY <1>1
<1>5. ASSUME NEW i \in DOMAIN Tail(q)
      PROVE  \E k \in DOMAIN q : Tail(q)[i] = q[k]
  <2>1. i + 1 \in DOMAIN q /\ Tail(q)[i] = q[i + 1]
    BY <1>1, <1>2
  <2> QED
    BY <2>1
<1>6. Tail(q) \in Seq(S) /\ Head(q) \in S
  OBVIOUS
<1> QED
  BY <1>3, <1>4, <1>5, <1>6, Zenon

\* What is queued after a job has been appended, in terms of Queued.
LEMMA QueuedAfterEnqueue ==
    ASSUME TypeOK, NEW job \in Jobs, Enqueue(job)
    PROVE  /\ queue' \in Seq(Jobs)
           /\ \A j : Queued(j)' <=> (Queued(j) \/ j = job)
           /\ \A q : QueuedPost(q)' <=>
                 (QueuedPost(q) \/ (job.fn = "index_posts" /\ q \in job.arg))
           /\ \A i \in DOMAIN queue' : queue'[i] = job \/ \E k \in DOMAIN queue : queue'[i] = queue[k]
<1>1. queue \in Seq(Jobs) /\ queue' = Append(queue, job)
  BY DEF TypeOK, Enqueue
<1>2. /\ queue' \in Seq(Jobs)
      /\ \A i \in DOMAIN queue : i \in DOMAIN queue' /\ queue'[i] = queue[i]
      /\ \A i \in DOMAIN queue' :
            \/ queue'[i] = job
            \/ i \in DOMAIN queue /\ queue'[i] = queue[i]
      /\ \E i \in DOMAIN queue' : queue'[i] = job
  BY <1>1, AppendElements
<1>3. \A j : Queued(j)' <=> (Queued(j) \/ j = job)
  BY <1>2, Zenon DEF Queued
<1>4. \A q : QueuedPost(q)' <=>
         (QueuedPost(q) \/ (job.fn = "index_posts" /\ q \in job.arg))
  BY <1>2, Zenon DEF QueuedPost
<1> QED
  BY <1>2, <1>3, <1>4, Zenon

LEMMA QueuedAfterDequeue ==
    ASSUME TypeOK, queue # <<>>, queue' = Tail(queue)
    PROVE  /\ queue' \in Seq(Jobs) /\ Head(queue) \in Jobs
           /\ \A j : Queued(j) => (Queued(j)' \/ j = Head(queue))
           /\ \A q : QueuedPost(q) =>
                 (QueuedPost(q)' \/ (Head(queue).fn = "index_posts" /\ q \in Head(queue).arg))
           /\ \A i \in DOMAIN queue' : \E k \in DOMAIN queue : queue'[i] = queue[k]
           /\ \E k \in DOMAIN queue : Head(queue) = queue[k]
<1>1. queue \in Seq(Jobs)
  BY DEF TypeOK
<1>2. /\ queue' \in Seq(Jobs) /\ Head(queue) \in Jobs
      /\ \A i \in DOMAIN queue' : \E k \in DOMAIN queue : queue'[i] = queue[k]
      /\ \A i \in DOMAIN queue :
            queue[i] = Head(queue) \/ \E j \in DOMAIN queue' : queue'[j] = queue[i]
      /\ \E k \in DOMAIN queue : Head(queue) = queue[k]
  BY <1>1, TailElements
<1>3. ASSUME NEW j, Queued(j), j # Head(queue) PROVE Queued(j)'
  <2>1. PICK i \in DOMAIN queue : queue[i] = j
    BY <1>3 DEF Queued
  <2>2. PICK k \in DOMAIN queue' : queue'[k] = j
    BY <1>2, <1>3, <2>1
  <2> QED
    BY <2>2 DEF Queued
<1>4. \A q : QueuedPost(q) =>
         (QueuedPost(q)' \/ (Head(queue).fn = "index_posts" /\ q \in Head(queue).arg))
  BY <1>2, Zenon DEF QueuedPost
<1> QED
  BY <1>2, <1>3, <1>4, Zenon

-----------------------------------------------------------------------------
(* Type correctness *)

LEMMA JobTypes ==
    /\ \A f \in ProfileFns, p \in Profiles : ProfileJob(f, p) \in Jobs
    /\ \A ids \in SUBSET Posts : PostsJob(ids) \in Jobs
    /\ \A j \in Jobs : j.fn = "index_posts" => j.arg \in SUBSET Posts
    /\ \A j \in Jobs : j.fn \in ProfileFns => j.arg \in Profiles /\ j = ProfileJob(j.fn, j.arg)
BY DEF Jobs, ProfileJob, PostsJob, ProfileFns

LEMMA TypeInit == Init => TypeOK
<1> SUFFICES ASSUME Init PROVE TypeOK
  OBVIOUS
<1>1. AnyProfile \in Profiles
  BY AuthorAssumption DEF AnyProfile
<1>2. PostsJob({}) \in Jobs
  BY JobTypes
<1> QED
  BY <1>1, <1>2 DEF Init, TypeOK

LEMMA TypeNext == TypeOK /\ [Next]_vars => TypeOK'
<1> SUFFICES ASSUME TypeOK, [Next]_vars PROVE TypeOK'
  OBVIOUS
<1>1. ASSUME NEW s \in ScrapeWorkers, NEW p \in Profiles, ScrapeUpsert(s, p) PROVE TypeOK'
  <2>1. CASE status[p] = "none"
    <3>1. /\ status' = [status EXCEPT ![p] = "live"] /\ version' = [version EXCEPT ![p] = @ + 1]
          /\ spc' = [spc EXCEPT ![s] = "inserted"] /\ sarg' = [sarg EXCEPT ![s] = p]
          /\ UNCHANGED <<posts, usedPosts, solrVars, queue, sids, requestVars, workerVars, debtVars>>
      BY <1>1, <2>1 DEF ScrapeUpsert
    <3>2. version' \in [Profiles -> Nat] /\ status' \in [Profiles -> {"none", "live", "gone"}]
      BY <3>1 DEF TypeOK
    <3> QED
      BY <3>1, <3>2 DEF TypeOK
  <2>2. CASE status[p] # "none"
    BY <1>1, <2>2 DEF TypeOK, ScrapeUpsert
  <2> QED
    BY <2>1, <2>2
<1>2. ASSUME NEW s \in ScrapeWorkers, NEW p \in Profiles, ScrapePosts(s, p) PROVE TypeOK'
  BY <1>2 DEF TypeOK, ScrapePosts, PostsBy
<1>3. ASSUME NEW s \in ScrapeWorkers, NEW p \in Profiles, ScrapeRelation(s, p) PROVE TypeOK'
  BY <1>3 DEF TypeOK, ScrapeRelation
<1>4. ASSUME NEW s \in ScrapeWorkers, ScrapePopulate(s) PROVE TypeOK'
  BY <1>4 DEF TypeOK, ScrapePopulate
<1>5. ASSUME NEW s \in ScrapeWorkers, ScrapeSchedule(s) PROVE TypeOK'
  <2>1. ProfileJob("index_profile", sarg[s]) \in Jobs
    BY JobTypes DEF TypeOK, ProfileFns
  <2>2. queue' \in Seq(Jobs)
    BY <1>5, <2>1, QueuedAfterEnqueue DEF ScrapeSchedule
  <2> QED
    BY <1>5, <2>2 DEF TypeOK, ScrapeSchedule
<1>6. ASSUME NEW s \in ScrapeWorkers, ScrapeAbort(s) PROVE TypeOK'
  BY <1>6 DEF TypeOK, ScrapeAbort
<1>7. ASSUME NEW s \in ScrapeWorkers, ScrapeSchedulePosts(s) PROVE TypeOK'
  <2>1. PostsJob(sids[s]) \in Jobs
    BY JobTypes DEF TypeOK
  <2>2. queue' \in Seq(Jobs)
    BY <1>7, <2>1, QueuedAfterEnqueue DEF ScrapeSchedulePosts
  <2> QED
    BY <1>7, <2>2 DEF TypeOK, ScrapeSchedulePosts
<1>8. ASSUME NEW s \in ScrapeWorkers, ScrapeCrash(s) PROVE TypeOK'
  BY <1>8 DEF TypeOK, ScrapeCrash
<1>9. ASSUME NEW r \in Requests, NEW p \in Profiles, DeleteCommit(r, p) PROVE TypeOK'
  BY <1>9 DEF TypeOK, DeleteCommit
<1>10. ASSUME NEW r \in Requests, DeleteScheduleProfile(r) PROVE TypeOK'
  <2>1. ProfileJob("delete_profile", rarg[r]) \in Jobs
    BY JobTypes DEF TypeOK, ProfileFns
  <2>2. queue' \in Seq(Jobs)
    BY <1>10, <2>1, QueuedAfterEnqueue DEF DeleteScheduleProfile
  <2> QED
    BY <1>10, <2>2 DEF TypeOK, DeleteScheduleProfile
<1>11. ASSUME NEW r \in Requests, DeleteSchedulePosts(r) PROVE TypeOK'
  <2>1. ProfileJob("delete_profile_posts", rarg[r]) \in Jobs
    BY JobTypes DEF TypeOK, ProfileFns
  <2>2. queue' \in Seq(Jobs)
    BY <1>11, <2>1, QueuedAfterEnqueue DEF DeleteSchedulePosts
  <2> QED
    BY <1>11, <2>2 DEF TypeOK, DeleteSchedulePosts
<1>12. ASSUME NEW r \in Requests, DeleteCrash(r) PROVE TypeOK'
  BY <1>12 DEF TypeOK, DeleteCrash, PostsBy
<1>13. ASSUME NEW w \in IndexWorkers, Dequeue(w) PROVE TypeOK'
  <2>1. queue' \in Seq(Jobs) /\ Head(queue) \in Jobs
    BY <1>13, QueuedAfterDequeue DEF Dequeue
  <2> QED
    BY <1>13, <2>1 DEF TypeOK, Dequeue
<1>14. ASSUME NEW w \in IndexWorkers, IndexProfileRead(w) PROVE TypeOK'
  BY <1>14, JobTypes DEF TypeOK, IndexProfileRead, Working, ProfileFns
<1>15. ASSUME NEW w \in IndexWorkers, IndexProfileMissing(w) PROVE TypeOK'
  BY <1>15 DEF TypeOK, IndexProfileMissing
<1>16. ASSUME NEW w \in IndexWorkers, IndexProfileWrite(w) PROVE TypeOK'
  BY <1>16 DEF TypeOK, IndexProfileWrite
<1>17. ASSUME NEW w \in IndexWorkers, IndexPostsRead(w) PROVE TypeOK'
  BY <1>17 DEF TypeOK, IndexPostsRead
<1>18. ASSUME NEW w \in IndexWorkers, IndexPostsWrite(w) PROVE TypeOK'
  BY <1>18 DEF TypeOK, IndexPostsWrite
<1>19. ASSUME NEW w \in IndexWorkers, DeleteProfileWrite(w) PROVE TypeOK'
  BY <1>19, JobTypes DEF TypeOK, DeleteProfileWrite, Working, ProfileFns
<1>20. ASSUME NEW w \in IndexWorkers, DeletePostsWrite(w) PROVE TypeOK'
  BY <1>20 DEF TypeOK, DeletePostsWrite
<1>21. ASSUME NEW w \in IndexWorkers, JobFails(w) PROVE TypeOK'
  BY <1>21 DEF TypeOK, JobFails
<1>22. ASSUME UNCHANGED vars PROVE TypeOK'
  BY <1>22 DEF TypeOK
<1> QED
  BY <1>1, <1>2, <1>3, <1>4, <1>5, <1>6, <1>7, <1>8, <1>9, <1>10, <1>11, <1>12, <1>13,
     <1>14, <1>15, <1>16, <1>17, <1>18, <1>19, <1>20, <1>21, <1>22
     DEF Next, ScrapeStep, RequestStep, WorkerStep

\* Every reachable state is well typed: in particular a job always carries
\* arguments of the kind its function expects.
THEOREM TypeCorrect == Spec => []TypeOK
<1>1. Init => TypeOK
  BY TypeInit
<1>2. TypeOK /\ [Next]_vars => TypeOK'
  BY TypeNext
<1> QED
  BY <1>1, <1>2, PTL DEF Spec
-----------------------------------------------------------------------------
(* Clean-up jobs exist for deleted profiles only *)

LEMMA CleanupInit == Init => CleanupOnlyGone
BY DEF Init, CleanupOnlyGone

LEMMA CleanupNext == TypeOK /\ CleanupOnlyGone /\ [Next]_vars => CleanupOnlyGone'
<1> SUFFICES ASSUME TypeOK, CleanupOnlyGone, [Next]_vars PROVE CleanupOnlyGone'
  OBVIOUS
<1> USE DEF CleanupOnlyGone
<1>1. ASSUME NEW s \in ScrapeWorkers, NEW p \in Profiles,
             ScrapeUpsert(s, p) \/ ScrapeRelation(s, p)
      PROVE  CleanupOnlyGone'
  <2>1. /\ \A x \in Profiles : status[x] = "gone" => status'[x] = "gone"
        /\ \A x \in Profiles : status[x] = "live" => status'[x] = "live"
        /\ UNCHANGED <<posts, queue, wpc, wjob, rpc, rarg>>
    BY <1>1 DEF TypeOK, ScrapeUpsert, ScrapeRelation
  <2>2. \A i \in DOMAIN queue : queue[i] \in Jobs
    BY DEF TypeOK
  <2>3. \A j \in Jobs : j.fn \in DeleteFns => j.arg \in Profiles
    BY JobTypes DEF DeleteFns, ProfileFns
  <2> QED
    BY <2>1, <2>2, <2>3, AuthorAssumption DEF TypeOK
<1>2. ASSUME NEW s \in ScrapeWorkers, NEW p \in Profiles, ScrapePosts(s, p)
      PROVE  CleanupOnlyGone'
  BY <1>2, AuthorAssumption DEF TypeOK, ScrapePosts, PostsBy
<1>3. ASSUME NEW s \in ScrapeWorkers,
             ScrapePopulate(s) \/ ScrapeAbort(s) \/ ScrapeCrash(s)
      PROVE  CleanupOnlyGone'
  BY <1>3 DEF ScrapePopulate, ScrapeAbort, ScrapeCrash
<1>4. ASSUME NEW s \in ScrapeWorkers, ScrapeSchedule(s) PROVE CleanupOnlyGone'
  <2>1. ProfileJob("index_profile", sarg[s]) \in Jobs
    BY JobTypes DEF TypeOK, ProfileFns
  <2> QED
    BY <1>4, <2>1, QueuedAfterEnqueue DEF ScrapeSchedule, ProfileJob, DeleteFns
<1>5. ASSUME NEW s \in ScrapeWorkers, ScrapeSchedulePosts(s) PROVE CleanupOnlyGone'
  <2>1. PostsJob(sids[s]) \in Jobs
    BY JobTypes DEF TypeOK
  <2> QED
    BY <1>5, <2>1, QueuedAfterEnqueue DEF ScrapeSchedulePosts, PostsJob, DeleteFns
<1>6. ASSUME NEW r \in Requests, NEW p \in Profiles, DeleteCommit(r, p) PROVE CleanupOnlyGone'
  <2>1. /\ \A x \in Profiles : status[x] = "gone" => status'[x] = "gone"
        /\ \A x \in Profiles : status[x] = "live" /\ x # p => status'[x] = "live"
        /\ status'[p] = "gone"
        /\ posts' = posts \ PostsBy(p)
        /\ UNCHANGED <<queue, wpc, wjob>>
        /\ \A x \in Requests : x # r => rpc'[x] = rpc[x] /\ rarg'[x] = rarg[x]
        /\ rarg'[r] = p
    BY <1>6 DEF TypeOK, DeleteCommit
  <2>2. \A i \in DOMAIN queue : queue[i] \in Jobs
    BY DEF TypeOK
  <2>3. \A j \in Jobs : j.fn \in DeleteFns => j.arg \in Profiles
    BY JobTypes DEF DeleteFns, ProfileFns
  <2>4. \A q \in posts' : q \in posts /\ Author[q] \in Profiles /\ Author[q] # p
    BY <2>1, AuthorAssumption DEF TypeOK, PostsBy
  <2>5. \A q \in posts' : status'[Author[q]] = "live"
    BY <2>1, <2>4
  <2>6. \A i \in DOMAIN queue' :
           queue'[i].fn \in DeleteFns => status'[queue'[i].arg] = "gone"
    BY <2>1, <2>2, <2>3
  <2>7. \A w \in IndexWorkers :
           wpc'[w] # "idle" /\ wjob'[w].fn \in DeleteFns => status'[wjob'[w].arg] = "gone"
    BY <2>1, <2>3 DEF TypeOK
  <2>8. \A x \in Requests : rpc'[x] # "idle" => status'[rarg'[x]] = "gone"
    <3> SUFFICES ASSUME NEW x \in Requests, rpc'[x] # "idle" PROVE status'[rarg'[x]] = "gone"
      OBVIOUS
    <3>1. CASE x = r
      BY <2>1, <3>1
    <3>2. CASE x # r
      <4>1. rarg'[x] \in Profiles /\ status[rarg'[x]] = "gone"
        BY <2>1, <3>2 DEF TypeOK
      <4> QED
        BY <2>1, <4>1
    <3> QED
      BY <3>1, <3>2
  <2> QED
    BY <2>5, <2>6, <2>7, <2>8
<1>7. ASSUME NEW r \in Requests, DeleteScheduleProfile(r) PROVE CleanupOnlyGone'
  <2>1. ProfileJob("delete_profile", rarg[r]) \in Jobs /\ status[rarg[r]] = "gone"
    BY <1>7, JobTypes DEF TypeOK, ProfileFns, DeleteScheduleProfile
  <2>2. \A i \in DOMAIN queue' :
           queue'[i] = ProfileJob("delete_profile", rarg[r]) \/ \E k \in DOMAIN queue : queue'[i] = queue[k]
    BY <1>7, <2>1, QueuedAfterEnqueue DEF DeleteScheduleProfile
  <2>3. \A i \in DOMAIN queue' : queue'[i].fn \in DeleteFns => status[queue'[i].arg] = "gone"
    BY <2>1, <2>2 DEF ProfileJob
  <2>4. /\ UNCHANGED <<status, posts, wpc, wjob, rarg>>
        /\ \A x \in Requests : x # r => rpc'[x] = rpc[x]
        /\ rpc[r] # "idle"
    BY <1>7 DEF DeleteScheduleProfile, TypeOK
  <2> QED
    BY <2>3, <2>4
<1>8. ASSUME NEW r \in Requests, DeleteSchedulePosts(r) PROVE CleanupOnlyGone'
  <2>1. ProfileJob("delete_profile_posts", rarg[r]) \in Jobs /\ status[rarg[r]] = "gone"
    BY <1>8, JobTypes DEF TypeOK, ProfileFns, DeleteSchedulePosts
  <2>2. \A i \in DOMAIN queue' :
           queue'[i] = ProfileJob("delete_profile_posts", rarg[r]) \/ \E k \in DOMAIN queue : queue'[i] = queue[k]
    BY <1>8, <2>1, QueuedAfterEnqueue DEF DeleteSchedulePosts
  <2>3. \A i \in DOMAIN queue' : queue'[i].fn \in DeleteFns => status[queue'[i].arg] = "gone"
    BY <2>1, <2>2 DEF ProfileJob
  <2>4. /\ UNCHANGED <<status, posts, wpc, wjob, rarg>>
        /\ \A x \in Requests : x # r => rpc'[x] = rpc[x]
        /\ rpc[r] # "idle"
    BY <1>8 DEF DeleteSchedulePosts, TypeOK
  <2> QED
    BY <2>3, <2>4
<1>9. ASSUME NEW r \in Requests, DeleteCrash(r) PROVE CleanupOnlyGone'
  BY <1>9 DEF DeleteCrash, TypeOK
<1>10. ASSUME NEW w \in IndexWorkers, Dequeue(w) PROVE CleanupOnlyGone'
  <2>1. /\ \A i \in DOMAIN queue' : \E k \in DOMAIN queue : queue'[i] = queue[k]
        /\ \E k \in DOMAIN queue : Head(queue) = queue[k]
    BY <1>10, QueuedAfterDequeue DEF Dequeue
  <2>2. /\ UNCHANGED <<status, posts, rpc, rarg>>
        /\ wjob' = [wjob EXCEPT ![w] = Head(queue)]
        /\ wpc' = [wpc EXCEPT ![w] = "read"]
    BY <1>10 DEF Dequeue
  <2> QED
    BY <2>1, <2>2 DEF TypeOK
<1>11. ASSUME NEW w \in IndexWorkers,
             \/ IndexProfileRead(w) \/ IndexProfileMissing(w) \/ IndexProfileWrite(w)
             \/ IndexPostsRead(w) \/ IndexPostsWrite(w)
             \/ DeleteProfileWrite(w) \/ DeletePostsWrite(w) \/ JobFails(w)
      PROVE  CleanupOnlyGone'
  <2>1. /\ UNCHANGED <<status, posts, queue, rpc, rarg, wjob>>
        /\ wpc[w] # "idle"
        /\ \A v \in IndexWorkers : v # w => wpc'[v] = wpc[v]
    BY <1>11 DEF TypeOK, IndexProfileRead, IndexProfileMissing, IndexProfileWrite, IndexPostsRead,
       IndexPostsWrite, DeleteProfileWrite, DeletePostsWrite, JobFails, Working
  <2> QED
    BY <2>1
<1>12. ASSUME UNCHANGED vars PROVE CleanupOnlyGone'
  BY <1>12
<1> QED
  BY <1>1, <1>2, <1>3, <1>4, <1>5, <1>6, <1>7, <1>8, <1>9, <1>10, <1>11, <1>12
     DEF Next, ScrapeStep, RequestStep, WorkerStep

\* A clean-up job (delete_profile, delete_profile_posts), wherever it is on
\* its way to Solr, is about a profile whose deletion has been committed,
\* and no post outlives its author: no document of a live row is removed.
THEOREM CleanupSafe == Spec => []CleanupOnlyGone
<1>1. Init => TypeOK /\ CleanupOnlyGone
  BY TypeInit, CleanupInit
<1>2. TypeOK /\ CleanupOnlyGone /\ [Next]_vars => TypeOK' /\ CleanupOnlyGone'
  BY TypeNext, CleanupNext
<1> QED
  BY <1>1, <1>2, PTL DEF Spec

-----------------------------------------------------------------------------
(* Profile documents *)

ProfileFine(p) ==
    ProfileOwed(p) \/ (\E w \in IndexWorkers : ProfileInHand(w, p)) \/ ProfileSettled(p)

\* A step that changes neither p's row, nor its document, nor the index
\* worker, and takes no obligation away, leaves p fine.
LEMMA ProfileFrame ==
    ASSUME NEW p \in Profiles, ProfileFine(p),
           status'[p] = status[p], version'[p] = version[p], doc'[p] = doc[p],
           UNCHANGED workerVars,
           p \in debt => p \in debt',
           \A j : Queued(j) => Queued(j)',
           \A s \in ScrapeWorkers :
              status[p] = "live" /\ spc[s] \in {"inserted", "schedule"} /\ sarg[s] = p =>
                 \/ spc'[s] \in {"inserted", "schedule"} /\ sarg'[s] = p
                 \/ Queued(ProfileJob("index_profile", p))'
                 \/ p \in debt',
           \A r \in Requests :
              rpc[r] = "profile" /\ rarg[r] = p =>
                 \/ rpc'[r] = "profile" /\ rarg'[r] = p
                 \/ Queued(ProfileJob("delete_profile", p))'
                 \/ p \in debt'
    PROVE  ProfileFine(p)'
<1>1. CASE ProfileOwed(p)
  <2>1. ProfileOwed(p)'
    BY <1>1 DEF ProfileOwed
  <2> QED
    BY <2>1 DEF ProfileFine
<1>2. CASE \E w \in IndexWorkers : ProfileInHand(w, p)
  <2>1. (\E w \in IndexWorkers : ProfileInHand(w, p))'
    BY <1>2 DEF ProfileInHand
  <2> QED
    BY <2>1 DEF ProfileFine
<1>3. CASE ProfileSettled(p)
  <2>1. ProfileSettled(p)'
    BY <1>3 DEF ProfileSettled, Working
  <2> QED
    BY <2>1 DEF ProfileFine
<1> QED
  BY <1>1, <1>2, <1>3 DEF ProfileFine

\* The same for a step of the index worker that leaves p's row and p's
\* document alone and does not touch a job about p's document.
LEMMA ProfileOwedKept ==
    ASSUME NEW p \in Profiles, ProfileOwed(p),
           status'[p] = status[p], p \in debt => p \in debt',
           \A j : Queued(j) => Queued(j)',
           UNCHANGED <<scrapeVars, requestVars>>
    PROVE  ProfileOwed(p)'
BY DEF ProfileOwed

LEMMA ProfileSyncInit == Init => ProfileSync
BY DEF Init, ProfileSync, ProfileSettled, Working

LEMMA ProfileSyncNext == TypeOK /\ ProfileSync /\ [Next]_vars => ProfileSync'
<1> SUFFICES ASSUME TypeOK, ProfileSync, [Next]_vars, NEW p \in Profiles
             PROVE  ProfileFine(p)'
  BY DEF ProfileSync, ProfileFine
<1>0. ProfileFine(p)
  BY DEF ProfileSync, ProfileFine
<1>1. ASSUME NEW s \in ScrapeWorkers, NEW x \in Profiles, ScrapeUpsert(s, x) PROVE ProfileFine(p)'
  <2>1. UNCHANGED <<doc, queue, debt, workerVars, requestVars>>
    BY <1>1 DEF ScrapeUpsert
  <2>2. \A j : Queued(j) => Queued(j)'
    BY <2>1 DEF Queued
  <2>3. CASE status[x] = "none" /\ x = p
    <3>1. status'[p] = "live" /\ spc'[s] = "inserted" /\ sarg'[s] = p
      BY <1>1, <2>3 DEF ScrapeUpsert, TypeOK
    <3> QED
      BY <3>1 DEF ProfileFine, ProfileOwed
  <2>4. CASE ~(status[x] = "none" /\ x = p)
    <3>1. /\ status'[p] = status[p] /\ version'[p] = version[p]
          /\ \A t \in ScrapeWorkers : t # s => spc'[t] = spc[t] /\ sarg'[t] = sarg[t]
          /\ spc[s] = "idle"
      BY <1>1, <2>4 DEF ScrapeUpsert, TypeOK
    <3> QED
      BY <1>0, <2>1, <2>2, <3>1, ProfileFrame
  <2> QED
    BY <2>3, <2>4
<1>2. ASSUME NEW s \in ScrapeWorkers, NEW x \in Profiles, ScrapePosts(s, x) PROVE ProfileFine(p)'
  <2>1. /\ UNCHANGED <<status, version, doc, queue, debt, workerVars, requestVars>>
        /\ \A t \in ScrapeWorkers : t # s => spc'[t] = spc[t] /\ sarg'[t] = sarg[t]
        /\ spc[s] = "idle"
    BY <1>2 DEF ScrapePosts, TypeOK
  <2>2. \A j : Queued(j) => Queued(j)'
    BY <2>1 DEF Queued
  <2> QED
    BY <1>0, <2>1, <2>2, ProfileFrame
<1>3. ASSUME NEW s \in ScrapeWorkers, NEW x \in Profiles, ScrapeRelation(s, x) PROVE ProfileFine(p)'
  <2>1. CASE x = p
    BY <1>3, <2>1 DEF ScrapeRelation, ProfileFine, ProfileOwed
  <2>2. CASE x # p
    <3>1. /\ UNCHANGED <<doc, queue, scrapeVars, workerVars, requestVars>>
          /\ status'[p] = status[p] /\ version'[p] = version[p]
          /\ p \in debt => p \in debt'
      BY <1>3, <2>2 DEF ScrapeRelation, TypeOK
    <3>2. \A j : Queued(j) => Queued(j)'
      BY <3>1 DEF Queued
    <3> QED
      BY <1>0, <3>1, <3>2, ProfileFrame
  <2> QED
    BY <2>1, <2>2
<1>4. ASSUME NEW s \in ScrapeWorkers, ScrapePopulate(s) PROVE ProfileFine(p)'
  <2>1. /\ UNCHANGED <<status, doc, queue, debt, workerVars, requestVars, sarg>>
        /\ \A t \in ScrapeWorkers : t # s => spc'[t] = spc[t]
        /\ status[sarg[s]] = "live" /\ spc'[s] = "schedule"
    BY <1>4 DEF ScrapePopulate, TypeOK
  <2>2. \A j : Queued(j) => Queued(j)'
    BY <2>1 DEF Queued
  <2>3. CASE sarg[s] = p
    BY <2>1, <2>3 DEF ProfileFine, ProfileOwed
  <2>4. CASE sarg[s] # p
    <3>1. version'[p] = version[p]
      BY <1>4, <2>4 DEF ScrapePopulate, TypeOK
    <3> QED
      BY <1>0, <2>1, <2>2, <2>4, <3>1, ProfileFrame
  <2> QED
    BY <2>3, <2>4
<1>5. ASSUME NEW s \in ScrapeWorkers, ScrapeSchedule(s) PROVE ProfileFine(p)'
  <2>1. /\ UNCHANGED <<status, version, doc, debt, workerVars, requestVars, sarg>>
        /\ \A t \in ScrapeWorkers : t # s => spc'[t] = spc[t]
    BY <1>5 DEF ScrapeSchedule, TypeOK
  <2>2. ProfileJob("index_profile", sarg[s]) \in Jobs
    BY JobTypes DEF TypeOK, ProfileFns
  <2>3. /\ \A j : Queued(j) => Queued(j)'
        /\ Queued(ProfileJob("index_profile", sarg[s]))'
    BY <1>5, <2>2, QueuedAfterEnqueue DEF ScrapeSchedule
  <2> QED
    BY <1>0, <2>1, <2>3, ProfileFrame
<1>6. ASSUME NEW s \in ScrapeWorkers, ScrapeAbort(s) PROVE ProfileFine(p)'
  <2>1. /\ UNCHANGED <<status, version, doc, queue, debt, workerVars, requestVars, sarg>>
        /\ \A t \in ScrapeWorkers : t # s => spc'[t] = spc[t]
        /\ status[sarg[s]] = "gone"
    BY <1>6 DEF ScrapeAbort, TypeOK
  <2>2. \A j : Queued(j) => Queued(j)'
    BY <2>1 DEF Queued
  <2> QED
    BY <1>0, <2>1, <2>2, ProfileFrame
<1>7. ASSUME NEW s \in ScrapeWorkers, ScrapeSchedulePosts(s) PROVE ProfileFine(p)'
  <2>1. /\ UNCHANGED <<status, version, doc, debt, workerVars, requestVars, sarg>>
        /\ \A t \in ScrapeWorkers : t # s => spc'[t] = spc[t]
        /\ spc[s] = "schedule_posts"
    BY <1>7 DEF ScrapeSchedulePosts, TypeOK
  <2>2. PostsJob(sids[s]) \in Jobs
    BY JobTypes DEF TypeOK
  <2>3. \A j : Queued(j) => Queued(j)'
    BY <1>7, <2>2, QueuedAfterEnqueue DEF ScrapeSchedulePosts
  <2> QED
    BY <1>0, <2>1, <2>3, ProfileFrame
<1>8. ASSUME NEW s \in ScrapeWorkers, ScrapeCrash(s) PROVE ProfileFine(p)'
  <2>1. /\ UNCHANGED <<status, version, doc, queue, workerVars, requestVars, sarg>>
        /\ \A t \in ScrapeWorkers : t # s => spc'[t] = spc[t]
        /\ p \in debt => p \in debt'
        /\ status[p] = "live" /\ spc[s] \in {"inserted", "schedule"} /\ sarg[s] = p =>
              p \in debt'
    BY <1>8 DEF ScrapeCrash, TypeOK
  <2>2. \A j : Queued(j) => Queued(j)'
    BY <2>1 DEF Queued
  <2> QED
    BY <1>0, <2>1, <2>2, ProfileFrame
<1>9. ASSUME NEW r \in Requests, NEW x \in Profiles, DeleteCommit(r, x) PROVE ProfileFine(p)'
  <2>1. /\ UNCHANGED <<doc, queue, debt, workerVars, scrapeVars>>
        /\ \A t \in Requests : t # r => rpc'[t] = rpc[t] /\ rarg'[t] = rarg[t]
        /\ rpc[r] = "idle" /\ rpc'[r] = "profile" /\ rarg'[r] = x
        /\ status'[x] = "gone"
    BY <1>9 DEF DeleteCommit, TypeOK
  <2>2. \A j : Queued(j) => Queued(j)'
    BY <2>1 DEF Queued
  <2>3. CASE x = p
    BY <2>1, <2>3 DEF ProfileFine, ProfileOwed
  <2>4. CASE x # p
    <3>1. status'[p] = status[p] /\ version'[p] = version[p]
      BY <1>9, <2>4 DEF DeleteCommit, TypeOK
    <3> QED
      BY <1>0, <2>1, <2>2, <3>1, ProfileFrame
  <2> QED
    BY <2>3, <2>4
<1>10. ASSUME NEW r \in Requests, DeleteScheduleProfile(r) PROVE ProfileFine(p)'
  <2>1. /\ UNCHANGED <<status, version, doc, debt, workerVars, scrapeVars, rarg>>
        /\ \A t \in Requests : t # r => rpc'[t] = rpc[t]
    BY <1>10 DEF DeleteScheduleProfile, TypeOK
  <2>2. ProfileJob("delete_profile", rarg[r]) \in Jobs
    BY JobTypes DEF TypeOK, ProfileFns
  <2>3. /\ \A j : Queued(j) => Queued(j)'
        /\ Queued(ProfileJob("delete_profile", rarg[r]))'
    BY <1>10, <2>2, QueuedAfterEnqueue DEF DeleteScheduleProfile
  <2> QED
    BY <1>0, <2>1, <2>3, ProfileFrame
<1>11. ASSUME NEW r \in Requests, DeleteSchedulePosts(r) PROVE ProfileFine(p)'
  <2>1. /\ UNCHANGED <<status, version, doc, debt, workerVars, scrapeVars, rarg>>
        /\ \A t \in Requests : t # r => rpc'[t] = rpc[t]
        /\ rpc[r] = "posts"
    BY <1>11 DEF DeleteSchedulePosts, TypeOK
  <2>2. ProfileJob("delete_profile_posts", rarg[r]) \in Jobs
    BY JobTypes DEF TypeOK, ProfileFns
  <2>3. \A j : Queued(j) => Queued(j)'
    BY <1>11, <2>2, QueuedAfterEnqueue DEF DeleteSchedulePosts
  <2> QED
    BY <1>0, <2>1, <2>3, ProfileFrame
<1>12. ASSUME NEW r \in Requests, DeleteCrash(r) PROVE ProfileFine(p)'
  <2>1. /\ UNCHANGED <<status, version, doc, queue, workerVars, scrapeVars, rarg>>
        /\ \A t \in Requests : t # r => rpc'[t] = rpc[t]
        /\ p \in debt => p \in debt'
        /\ rpc[r] = "profile" /\ rarg[r] = p => p \in debt'
    BY <1>12 DEF DeleteCrash, TypeOK
  <2>2. \A j : Queued(j) => Queued(j)'
    BY <2>1 DEF Queued
  <2> QED
    BY <1>0, <2>1, <2>2, ProfileFrame
<1>13. ASSUME NEW w \in IndexWorkers, Dequeue(w) PROVE ProfileFine(p)'
  <2>1. /\ UNCHANGED <<status, version, doc, debt, scrapeVars, requestVars, wver>>
        /\ wpc[w] = "idle" /\ wpc'[w] = "read" /\ wjob'[w] = Head(queue)
    BY <1>13 DEF Dequeue, TypeOK
  <2>2. \A j : Queued(j) => Queued(j)' \/ j = Head(queue)
    BY <1>13, QueuedAfterDequeue DEF Dequeue
  <2>3. \A v \in IndexWorkers : v = w
    BY SingleIndexWorker
  <2>4. CASE ProfileOwed(p)
    <3>1. ProfileOwed(p)' \/ ProfileInHand(w, p)'
      BY <2>1, <2>2, <2>4 DEF ProfileOwed, ProfileInHand
    <3> QED
      BY <3>1 DEF ProfileFine
  <2>5. ASSUME NEW v \in IndexWorkers, ProfileInHand(v, p) PROVE FALSE
    BY <2>1, <2>3, <2>5 DEF ProfileInHand
  <2>6. CASE ProfileSettled(p)
    <3>1. ProfileSettled(p)'
      BY <2>1, <2>3, <2>6 DEF ProfileSettled, Working
    <3> QED
      BY <3>1 DEF ProfileFine
  <2> QED
    BY <1>0, <2>4, <2>5, <2>6 DEF ProfileFine
<1>14. ASSUME NEW w \in IndexWorkers, IndexProfileRead(w) PROVE ProfileFine(p)'
  <2>1. /\ UNCHANGED <<status, version, doc, queue, scrapeVars, requestVars, wjob>>
        /\ wjob[w] \in Jobs /\ wjob[w].fn = "index_profile" /\ status[wjob[w].arg] = "live"
        /\ wpc[w] = "read" /\ wpc'[w] = "write" /\ wver'[w] = version[wjob[w].arg]
        /\ debt' = debt \ {wjob[w].arg}
    BY <1>14 DEF IndexProfileRead, TypeOK, Working
  <2>2. \A v \in IndexWorkers : v = w
    BY SingleIndexWorker
  <2>3. CASE wjob[w].arg = p
    <3>1. wjob[w] = ProfileJob("index_profile", p)
      BY <2>1, <2>3, JobTypes DEF ProfileFns
    <3>2. ProfileInHand(w, p)'
      BY <2>1, <2>3, <3>1 DEF ProfileInHand
    <3> QED
      BY <3>2 DEF ProfileFine
  <2>4. CASE wjob[w].arg # p
    <3>1. \A j : Queued(j) => Queued(j)'
      BY <2>1 DEF Queued
    <3>2. ProfileOwed(p) => ProfileOwed(p)'
      BY <2>1, <2>4, <3>1, ProfileOwedKept
    <3>3. ASSUME NEW v \in IndexWorkers, ProfileInHand(v, p) PROVE FALSE
      BY <2>1, <2>2, <2>4, <3>3 DEF ProfileInHand, ProfileJob
    <3>4. ProfileSettled(p) => ProfileSettled(p)'
      BY <2>1, <2>2, <2>4 DEF ProfileSettled, Working
    <3> QED
      BY <1>0, <3>2, <3>3, <3>4 DEF ProfileFine
  <2> QED
    BY <2>3, <2>4
<1>15. ASSUME NEW w \in IndexWorkers,
              \/ IndexProfileMissing(w) \/ IndexPostsRead(w) \/ IndexPostsWrite(w)
              \/ DeletePostsWrite(w)
       PROVE  ProfileFine(p)'
  <2>1. /\ UNCHANGED <<status, version, doc, queue, scrapeVars, requestVars, wjob, wver, debt>>
        /\ \/ wjob[w].fn = "index_profile" /\ status[wjob[w].arg] # "live" /\ wpc'[w] = "idle"
           \/ wjob[w].fn \in {"index_posts", "delete_profile_posts"}
    BY <1>15 DEF IndexProfileMissing, IndexPostsRead, IndexPostsWrite, DeletePostsWrite,
                 TypeOK, Working
  <2>2. \A v \in IndexWorkers : v = w
    BY SingleIndexWorker
  <2>3. \A j : Queued(j) => Queued(j)'
    BY <2>1 DEF Queued
  <2>4. ProfileOwed(p) => ProfileOwed(p)'
    BY <2>1, <2>3, ProfileOwedKept
  <2>5. ASSUME NEW v \in IndexWorkers, ProfileInHand(v, p) PROVE FALSE
    BY <2>1, <2>2, <2>5 DEF ProfileInHand, ProfileJob
  <2>6. ProfileSettled(p) => ProfileSettled(p)'
    BY <2>1, <2>2 DEF ProfileSettled, Working
  <2> QED
    BY <1>0, <2>4, <2>5, <2>6 DEF ProfileFine
<1>16. ASSUME NEW w \in IndexWorkers, IndexProfileWrite(w) PROVE ProfileFine(p)'
  <2>1. /\ UNCHANGED <<status, version, queue, scrapeVars, requestVars, wjob, wver, debt>>
        /\ wjob[w] \in Jobs /\ Working(w, "index_profile", "write") /\ wpc'[w] = "idle"
        /\ doc' = [doc EXCEPT ![wjob[w].arg] = wver[w]]
    BY <1>16 DEF IndexProfileWrite, TypeOK, Working
  <2>2. \A v \in IndexWorkers : v = w
    BY SingleIndexWorker
  <2>3. \A j : Queued(j) => Queued(j)'
    BY <2>1 DEF Queued
  <2>4. ProfileOwed(p) => ProfileOwed(p)'
    BY <2>1, <2>3, ProfileOwedKept
  <2>5. ASSUME NEW v \in IndexWorkers, ProfileInHand(v, p) PROVE ProfileSettled(p)'
    BY <2>1, <2>2, <2>5 DEF ProfileInHand, ProfileSettled, Working, ProfileJob, TypeOK
  <2>6. ProfileSettled(p) => ProfileSettled(p)'
    BY <2>1, <2>2 DEF ProfileSettled, Working, TypeOK
  <2> QED
    BY <1>0, <2>4, <2>5, <2>6 DEF ProfileFine
<1>17. ASSUME NEW w \in IndexWorkers, DeleteProfileWrite(w) PROVE ProfileFine(p)'
  <2>1. /\ UNCHANGED <<status, version, queue, scrapeVars, requestVars, wjob, wver, debt>>
        /\ Working(w, "delete_profile", "read") /\ wpc'[w] = "idle"
        /\ doc' = [doc EXCEPT ![wjob[w].arg] = version[wjob[w].arg]]
    BY <1>17 DEF DeleteProfileWrite, TypeOK, Working
  <2>2. \A v \in IndexWorkers : v = w
    BY SingleIndexWorker
  <2>3. \A j : Queued(j) => Queued(j)'
    BY <2>1 DEF Queued
  <2>4. ProfileOwed(p) => ProfileOwed(p)'
    BY <2>1, <2>3, ProfileOwedKept
  <2>5. ASSUME NEW v \in IndexWorkers, ProfileInHand(v, p) PROVE ProfileSettled(p)'
    BY <2>1, <2>2, <2>5 DEF ProfileInHand, ProfileSettled, Working, ProfileJob, TypeOK
  <2>6. ProfileSettled(p) => ProfileSettled(p)'
    BY <2>1, <2>2 DEF ProfileSettled, Working, TypeOK
  <2> QED
    BY <1>0, <2>4, <2>5, <2>6 DEF ProfileFine
<1>18. ASSUME NEW w \in IndexWorkers, JobFails(w) PROVE ProfileFine(p)'
  <2>1. /\ UNCHANGED <<status, version, queue, scrapeVars, requestVars, wjob, wver>>
        /\ wpc'[w] = "idle" /\ (p \in debt => p \in debt')
        /\ wjob[w] = ProfileJob("index_profile", p) /\ status[p] = "live" => p \in debt'
        /\ wjob[w] = ProfileJob("delete_profile", p) => p \in debt'
        /\ \/ doc' = doc
           \/ /\ Working(w, "index_profile", "write")
              /\ doc' = [doc EXCEPT ![wjob[w].arg] = wver[w]]
    BY <1>18 DEF JobFails, TypeOK
  <2>2. \A v \in IndexWorkers : v = w
    BY SingleIndexWorker
  <2>3. \A j : Queued(j) => Queued(j)'
    BY <2>1 DEF Queued
  <2>4. ProfileOwed(p) => ProfileOwed(p)'
    BY <2>1, <2>3, ProfileOwedKept
  <2>5. ASSUME NEW v \in IndexWorkers, ProfileInHand(v, p) PROVE p \in debt'
    BY <2>1, <2>2, <2>5 DEF ProfileInHand
  <2>6. ProfileSettled(p) => ProfileSettled(p)'
    BY <2>1, <2>2 DEF ProfileSettled, Working, TypeOK
  <2> QED
    BY <1>0, <2>4, <2>5, <2>6 DEF ProfileFine, ProfileOwed
<1>19. ASSUME UNCHANGED vars PROVE ProfileFine(p)'
  BY <1>0, <1>19 DEF ProfileFine, ProfileOwed, ProfileInHand, ProfileSettled, Queued, Working
<1> QED
  BY <1>1, <1>2, <1>3, <1>4, <1>5, <1>6, <1>7, <1>8, <1>9, <1>10, <1>11, <1>12, <1>13,
     <1>14, <1>15, <1>16, <1>17, <1>18, <1>19
     DEF Next, ScrapeStep, RequestStep, WorkerStep

\* However scrapes, deletions, crashes and the index worker interleave, a
\* profile's document is the row's, or a repair is on its way to the index
\* worker, or the history has recorded where the chain of jobs broke.
THEOREM ProfilesInSync == Spec => []ProfileSync
<1>1. Init => TypeOK /\ ProfileSync
  BY TypeInit, ProfileSyncInit
<1>2. TypeOK /\ ProfileSync /\ [Next]_vars => TypeOK' /\ ProfileSync'
  BY TypeNext, ProfileSyncNext
<1> QED
  BY <1>1, <1>2, PTL DEF Spec

-----------------------------------------------------------------------------
(* Post documents *)

PostFine(q) == PostOwed(q) \/ (\E w \in IndexWorkers : PostInHand(w, q)) \/ PostSettled(q)

\* A step that leaves q's row, q's document and the index worker alone, and
\* takes no obligation away, leaves q fine.
LEMMA PostFrame ==
    ASSUME NEW q \in Posts, PostFine(q),
           q \in posts' <=> q \in posts, UNCHANGED <<postDocs, workerVars>>,
           q \in postDebt => q \in postDebt',
           \A j : Queued(j) => Queued(j)', QueuedPost(q) => QueuedPost(q)',
           \A s \in ScrapeWorkers :
              spc[s] = "schedule_posts" /\ q \in sids[s] /\ q \in posts =>
                 \/ spc'[s] = "schedule_posts" /\ q \in sids'[s]
                 \/ QueuedPost(q)'
                 \/ q \in postDebt',
           \A r \in Requests :
              rpc[r] # "idle" /\ rarg[r] = Author[q] =>
                 \/ rpc'[r] # "idle" /\ rarg'[r] = Author[q]
                 \/ Queued(ProfileJob("delete_profile_posts", Author[q]))'
                 \/ q \in postDebt'
    PROVE  PostFine(q)'
<1>1. CASE PostOwed(q)
  <2>1. PostOwed(q)'
    BY <1>1 DEF PostOwed
  <2> QED
    BY <2>1 DEF PostFine
<1>2. CASE \E w \in IndexWorkers : PostInHand(w, q)
  <2>1. (\E w \in IndexWorkers : PostInHand(w, q))'
    BY <1>2 DEF PostInHand
  <2> QED
    BY <2>1 DEF PostFine
<1>3. CASE PostSettled(q)
  <2>1. PostSettled(q)'
    BY <1>3 DEF PostSettled, Working
  <2> QED
    BY <2>1 DEF PostFine
<1> QED
  BY <1>1, <1>2, <1>3 DEF PostFine

\* What an index worker's step has to respect for an owed post.
LEMMA PostOwedKept ==
    ASSUME NEW q \in Posts, PostOwed(q),
           UNCHANGED <<posts, scrapeVars, requestVars>>, q \in postDebt => q \in postDebt',
           \A j : Queued(j) => Queued(j)', QueuedPost(q) => QueuedPost(q)'
    PROVE  PostOwed(q)'
BY DEF PostOwed

LEMMA PostSyncInit == Init => PostSync
BY DEF Init, PostSync, PostSettled, Working

LEMMA PostSyncNext == TypeOK /\ CleanupOnlyGone /\ PostSync /\ [Next]_vars => PostSync'
<1> SUFFICES ASSUME TypeOK, CleanupOnlyGone, PostSync, [Next]_vars, NEW q \in Posts
             PROVE  PostFine(q)'
  BY DEF PostSync, PostFine
<1>0. PostFine(q) /\ Author[q] \in Profiles
  BY AuthorAssumption DEF PostSync, PostFine
<1>1. ASSUME NEW s \in ScrapeWorkers,
             \/ ScrapePopulate(s) \/ ScrapeAbort(s)
             \/ \E x \in Profiles : ScrapeUpsert(s, x) \/ ScrapeRelation(s, x)
      PROVE  PostFine(q)'
  <2>1. /\ UNCHANGED <<posts, postDocs, queue, postDebt, sids, workerVars, requestVars>>
        /\ \A t \in ScrapeWorkers : spc'[t] = spc[t] \/ spc[t] # "schedule_posts"
    BY <1>1 DEF ScrapePopulate, ScrapeAbort, ScrapeUpsert, ScrapeRelation, TypeOK
  <2>2. (\A j : Queued(j) => Queued(j)') /\ (QueuedPost(q) => QueuedPost(q)')
    BY <2>1 DEF Queued, QueuedPost
  <2> QED
    BY <1>0, <2>1, <2>2, PostFrame
<1>2. ASSUME NEW s \in ScrapeWorkers, NEW x \in Profiles, ScrapePosts(s, x) PROVE PostFine(q)'
  <2>1. PICK first, last \in SUBSET (PostsBy(x) \ usedPosts) :
           /\ posts' = posts \union first \union last
           /\ sids' = [sids EXCEPT ![s] = last]
           /\ postDebt' = postDebt \union first
    BY <1>2 DEF ScrapePosts
  <2>2. /\ UNCHANGED <<postDocs, queue, workerVars, requestVars>>
        /\ \A t \in ScrapeWorkers : t # s => spc'[t] = spc[t]
        /\ spc[s] = "idle" /\ spc'[s] = "schedule_posts"
    BY <1>2 DEF ScrapePosts, TypeOK
  <2>3. (\A j : Queued(j) => Queued(j)') /\ (QueuedPost(q) => QueuedPost(q)')
    BY <2>2 DEF Queued, QueuedPost
  <2>4. CASE q \in first
    BY <2>1, <2>4 DEF PostFine, PostOwed
  <2>5. CASE q \in last
    <3>1. q \in posts' /\ q \in sids'[s]
      BY <2>1, <2>5 DEF TypeOK
    <3> QED
      BY <2>2, <3>1 DEF PostFine, PostOwed
  <2>6. CASE q \notin first /\ q \notin last
    <3>1. /\ q \in posts' <=> q \in posts
          /\ q \in postDebt => q \in postDebt'
          /\ \A t \in ScrapeWorkers : t # s => sids'[t] = sids[t]
      BY <2>1, <2>6 DEF TypeOK
    <3> QED
      BY <1>0, <2>2, <2>3, <3>1, PostFrame
  <2> QED
    BY <2>4, <2>5, <2>6
<1>3. ASSUME NEW s \in ScrapeWorkers, ScrapeSchedule(s) PROVE PostFine(q)'
  <2>1. /\ UNCHANGED <<posts, postDocs, postDebt, workerVars, requestVars, sids>>
        /\ \A t \in ScrapeWorkers : t # s => spc'[t] = spc[t]
        /\ spc[s] = "schedule"
    BY <1>3 DEF ScrapeSchedule, TypeOK
  <2>2. ProfileJob("index_profile", sarg[s]) \in Jobs
    BY JobTypes DEF TypeOK, ProfileFns
  <2>3. (\A j : Queued(j) => Queued(j)') /\ (QueuedPost(q) => QueuedPost(q)')
    BY <1>3, <2>2, QueuedAfterEnqueue DEF ScrapeSchedule
  <2> QED
    BY <1>0, <2>1, <2>3, PostFrame
<1>4. ASSUME NEW s \in ScrapeWorkers, ScrapeSchedulePosts(s) PROVE PostFine(q)'
  <2>1. /\ UNCHANGED <<posts, postDocs, postDebt, workerVars, requestVars, sids>>
        /\ \A t \in ScrapeWorkers : t # s => spc'[t] = spc[t]
    BY <1>4 DEF ScrapeSchedulePosts, TypeOK
  <2>2. PostsJob(sids[s]) \in Jobs
    BY JobTypes DEF TypeOK
  <2>3. /\ \A j : Queued(j) => Queued(j)'
        /\ QueuedPost(q)' <=> (QueuedPost(q) \/ (PostsJob(sids[s]).fn = "index_posts"
                                                 /\ q \in PostsJob(sids[s]).arg))
    BY <1>4, <2>2, QueuedAfterEnqueue DEF ScrapeSchedulePosts
  <2>4. (QueuedPost(q) => QueuedPost(q)') /\ (q \in sids[s] => QueuedPost(q)')
    BY <2>3 DEF PostsJob
  <2> QED
    BY <1>0, <2>1, <2>3, <2>4, PostFrame
<1>5. ASSUME NEW s \in ScrapeWorkers, ScrapeCrash(s) PROVE PostFine(q)'
  <2>1. /\ UNCHANGED <<posts, postDocs, queue, workerVars, requestVars, sids>>
        /\ \A t \in ScrapeWorkers : t # s => spc'[t] = spc[t]
        /\ q \in postDebt => q \in postDebt'
        /\ spc[s] = "schedule_posts" /\ q \in sids[s] /\ q \in posts => q \in postDebt'
    BY <1>5 DEF ScrapeCrash, TypeOK
  <2>2. (\A j : Queued(j) => Queued(j)') /\ (QueuedPost(q) => QueuedPost(q)')
    BY <2>1 DEF Queued, QueuedPost
  <2> QED
    BY <1>0, <2>1, <2>2, PostFrame
<1>6. ASSUME NEW r \in Requests, NEW x \in Profiles, DeleteCommit(r, x) PROVE PostFine(q)'
  <2>1. /\ UNCHANGED <<postDocs, queue, postDebt, workerVars, scrapeVars>>
        /\ \A t \in Requests : t # r => rpc'[t] = rpc[t] /\ rarg'[t] = rarg[t]
        /\ rpc[r] = "idle" /\ rpc'[r] = "profile" /\ rarg'[r] = x
        /\ posts' = posts \ PostsBy(x)
    BY <1>6 DEF DeleteCommit, TypeOK
  <2>2. (\A j : Queued(j) => Queued(j)') /\ (QueuedPost(q) => QueuedPost(q)')
    BY <2>1 DEF Queued, QueuedPost
  <2>3. CASE x = Author[q]
    <3>1. q \notin posts'
      BY <2>1, <2>3 DEF PostsBy
    <3> QED
      BY <2>1, <2>3, <3>1 DEF PostFine, PostOwed
  <2>4. CASE x # Author[q]
    <3>1. q \in posts' <=> q \in posts
      BY <2>1, <2>4 DEF PostsBy
    <3> QED
      BY <1>0, <2>1, <2>2, <3>1, PostFrame
  <2> QED
    BY <2>3, <2>4
<1>7. ASSUME NEW r \in Requests, DeleteScheduleProfile(r) PROVE PostFine(q)'
  <2>1. /\ UNCHANGED <<posts, postDocs, postDebt, workerVars, scrapeVars, rarg>>
        /\ \A t \in Requests : t # r => rpc'[t] = rpc[t]
        /\ rpc'[r] = "posts"
    BY <1>7 DEF DeleteScheduleProfile, TypeOK
  <2>2. ProfileJob("delete_profile", rarg[r]) \in Jobs
    BY JobTypes DEF TypeOK, ProfileFns
  <2>3. (\A j : Queued(j) => Queued(j)') /\ (QueuedPost(q) => QueuedPost(q)')
    BY <1>7, <2>2, QueuedAfterEnqueue DEF DeleteScheduleProfile
  <2> QED
    BY <1>0, <2>1, <2>3, PostFrame
<1>8. ASSUME NEW r \in Requests, DeleteSchedulePosts(r) PROVE PostFine(q)'
  <2>1. /\ UNCHANGED <<posts, postDocs, postDebt, workerVars, scrapeVars, rarg>>
        /\ \A t \in Requests : t # r => rpc'[t] = rpc[t]
    BY <1>8 DEF DeleteSchedulePosts, TypeOK
  <2>2. ProfileJob("delete_profile_posts", rarg[r]) \in Jobs
    BY JobTypes DEF TypeOK, ProfileFns
  <2>3. /\ \A j : Queued(j) => Queued(j)'
        /\ QueuedPost(q) => QueuedPost(q)'
        /\ Queued(ProfileJob("delete_profile_posts", rarg[r]))'
    BY <1>8, <2>2, QueuedAfterEnqueue DEF DeleteSchedulePosts
  <2> QED
    BY <1>0, <2>1, <2>3, PostFrame
<1>9. ASSUME NEW r \in Requests, DeleteCrash(r) PROVE PostFine(q)'
  <2>1. /\ UNCHANGED <<posts, postDocs, queue, workerVars, scrapeVars, rarg>>
        /\ \A t \in Requests : t # r => rpc'[t] = rpc[t]
        /\ q \in postDebt => q \in postDebt'
        /\ rarg[r] = Author[q] => q \in postDebt'
    BY <1>9 DEF DeleteCrash, TypeOK, PostsBy
  <2>2. (\A j : Queued(j) => Queued(j)') /\ (QueuedPost(q) => QueuedPost(q)')
    BY <2>1 DEF Queued, QueuedPost
  <2> QED
    BY <1>0, <2>1, <2>2, PostFrame
<1>10. ASSUME NEW w \in IndexWorkers, Dequeue(w) PROVE PostFine(q)'
  <2>1. /\ UNCHANGED <<posts, postDocs, postDebt, scrapeVars, requestVars, wposts>>
        /\ wpc[w] = "idle" /\ wpc'[w] = "read" /\ wjob'[w] = Head(queue)
    BY <1>10 DEF Dequeue, TypeOK
  <2>2. /\ \A j : Queued(j) => Queued(j)' \/ j = Head(queue)
        /\ QueuedPost(q) =>
              (QueuedPost(q)' \/ (Head(queue).fn = "index_posts" /\ q \in Head(queue).arg))
    BY <1>10, QueuedAfterDequeue DEF Dequeue
  <2>3. \A v \in IndexWorkers : v = w
    BY SingleIndexWorker
  <2>4. CASE PostOwed(q)
    <3>1. PostOwed(q)' \/ PostInHand(w, q)'
      BY <2>1, <2>2, <2>4 DEF PostOwed, PostInHand
    <3> QED
      BY <3>1 DEF PostFine
  <2>5. ASSUME NEW v \in IndexWorkers, PostInHand(v, q) PROVE FALSE
    BY <2>1, <2>3, <2>5 DEF PostInHand
  <2>6. CASE PostSettled(q)
    <3>1. PostSettled(q)'
      BY <2>1, <2>3, <2>6 DEF PostSettled, Working
    <3> QED
      BY <3>1 DEF PostFine
  <2> QED
    BY <1>0, <2>4, <2>5, <2>6 DEF PostFine
<1>11. ASSUME NEW w \in IndexWorkers, IndexPostsRead(w) PROVE PostFine(q)'
  <2>1. /\ UNCHANGED <<posts, postDocs, queue, postDebt, scrapeVars, requestVars, wjob>>
        /\ Working(w, "index_posts", "read") /\ wpc'[w] = "write"
        /\ wposts'[w] = wjob[w].arg \intersect posts
    BY <1>11 DEF IndexPostsRead, TypeOK, Working
  <2>2. \A v \in IndexWorkers : v = w
    BY SingleIndexWorker
  <2>3. (\A j : Queued(j) => Queued(j)') /\ (QueuedPost(q) => QueuedPost(q)')
    BY <2>1 DEF Queued, QueuedPost
  <2>4. PostOwed(q) => PostOwed(q)'
    BY <2>1, <2>3, PostOwedKept
  <2>5. ASSUME NEW v \in IndexWorkers, PostInHand(v, q) PROVE PostInHand(w, q)'
    BY <2>1, <2>2, <2>5 DEF PostInHand, Working, ProfileJob
  <2>6. PostSettled(q) => PostSettled(q)'
    BY <2>1, <2>2 DEF PostSettled, Working
  <2> QED
    BY <1>0, <2>4, <2>5, <2>6 DEF PostFine
<1>12. ASSUME NEW w \in IndexWorkers, IndexPostsWrite(w) PROVE PostFine(q)'
  <2>1. /\ UNCHANGED <<posts, queue, postDebt, scrapeVars, requestVars, wjob, wposts>>
        /\ Working(w, "index_posts", "write") /\ wpc'[w] = "idle"
        /\ postDocs' = postDocs \union wposts[w]
    BY <1>12 DEF IndexPostsWrite, TypeOK, Working
  <2>2. \A v \in IndexWorkers : v = w
    BY SingleIndexWorker
  <2>3. (\A j : Queued(j) => Queued(j)') /\ (QueuedPost(q) => QueuedPost(q)')
    BY <2>1 DEF Queued, QueuedPost
  <2>4. PostOwed(q) => PostOwed(q)'
    BY <2>1, <2>3, PostOwedKept
  <2>5. ASSUME NEW v \in IndexWorkers, PostInHand(v, q) PROVE PostSettled(q)'
    BY <2>1, <2>2, <2>5 DEF PostInHand, PostSettled, Working, ProfileJob
  <2>6. PostSettled(q) => PostSettled(q)'
    BY <2>1, <2>2 DEF PostSettled, Working
  <2> QED
    BY <1>0, <2>4, <2>5, <2>6 DEF PostFine
<1>13. ASSUME NEW w \in IndexWorkers, DeletePostsWrite(w) PROVE PostFine(q)'
  <2>1. /\ UNCHANGED <<posts, queue, postDebt, scrapeVars, requestVars, wjob, wposts>>
        /\ Working(w, "delete_profile_posts", "read") /\ wpc'[w] = "idle"
        /\ postDocs' = postDocs \ PostsBy(wjob[w].arg)
    BY <1>13 DEF DeletePostsWrite, TypeOK, Working
  <2>2. \A v \in IndexWorkers : v = w
    BY SingleIndexWorker
  <2>3. (\A j : Queued(j) => Queued(j)') /\ (QueuedPost(q) => QueuedPost(q)')
    BY <2>1 DEF Queued, QueuedPost
  <2>4. PostOwed(q) => PostOwed(q)'
    BY <2>1, <2>3, PostOwedKept
  <2>5. ASSUME NEW v \in IndexWorkers, PostInHand(v, q) PROVE PostSettled(q)'
    BY <2>1, <2>2, <2>5 DEF PostInHand, PostSettled, Working, ProfileJob, PostsBy
  <2>6. q \in posts => q \notin PostsBy(wjob[w].arg)
    BY <2>1 DEF CleanupOnlyGone, Working, DeleteFns, PostsBy
  <2>7. PostSettled(q) => PostSettled(q)'
    BY <2>1, <2>2, <2>6 DEF PostSettled, Working
  <2> QED
    BY <1>0, <2>4, <2>5, <2>7 DEF PostFine
<1>14. ASSUME NEW w \in IndexWorkers,
              IndexProfileRead(w) \/ IndexProfileMissing(w) \/ IndexProfileWrite(w)
              \/ DeleteProfileWrite(w)
       PROVE  PostFine(q)'
  <2>1. /\ UNCHANGED <<posts, postDocs, queue, postDebt, scrapeVars, requestVars, wjob, wposts>>
        /\ wjob[w].fn \in {"index_profile", "delete_profile"}
    BY <1>14 DEF IndexProfileRead, IndexProfileMissing, IndexProfileWrite, DeleteProfileWrite,
                 Working
  <2>2. \A v \in IndexWorkers : v = w
    BY SingleIndexWorker
  <2>3. (\A j : Queued(j) => Queued(j)') /\ (QueuedPost(q) => QueuedPost(q)')
    BY <2>1 DEF Queued, QueuedPost
  <2>4. PostOwed(q) => PostOwed(q)'
    BY <2>1, <2>3, PostOwedKept
  <2>5. ASSUME NEW v \in IndexWorkers, PostInHand(v, q) PROVE FALSE
    BY <2>1, <2>2, <2>5 DEF PostInHand, ProfileJob
  <2>6. PostSettled(q) => PostSettled(q)'
    BY <2>1, <2>2 DEF PostSettled, Working
  <2> QED
    BY <1>0, <2>4, <2>5, <2>6 DEF PostFine
<1>15. ASSUME NEW w \in IndexWorkers, JobFails(w) PROVE PostFine(q)'
  <2>1. /\ UNCHANGED <<posts, queue, scrapeVars, requestVars, wjob, wposts>>
        /\ wpc'[w] = "idle" /\ (q \in postDebt => q \in postDebt')
        /\ q \in posts /\ wjob[w].fn = "index_posts" /\ q \in wjob[w].arg => q \in postDebt'
        /\ wjob[w] = ProfileJob("delete_profile_posts", Author[q]) => q \in postDebt'
    BY <1>15 DEF JobFails, TypeOK
  <2>2. \/ postDocs' = postDocs
        \/ /\ Working(w, "index_posts", "write")
           /\ \E sent \in SUBSET wposts[w] : postDocs' = postDocs \union sent
    BY <1>15 DEF JobFails
  <2>3. \A v \in IndexWorkers : v = w
    BY SingleIndexWorker
  <2>4. (\A j : Queued(j) => Queued(j)') /\ (QueuedPost(q) => QueuedPost(q)')
    BY <2>1 DEF Queued, QueuedPost
  <2>5. PostOwed(q) => PostOwed(q)'
    BY <2>1, <2>4, PostOwedKept
  <2>6. ASSUME NEW v \in IndexWorkers, PostInHand(v, q) PROVE q \in postDebt'
    BY <2>1, <2>3, <2>6 DEF PostInHand
  <2>7. PostSettled(q) => PostSettled(q)'
    BY <2>1, <2>2, <2>3 DEF PostSettled, Working
  <2> QED
    BY <1>0, <2>5, <2>6, <2>7 DEF PostFine, PostOwed
<1>16. ASSUME UNCHANGED vars PROVE PostFine(q)'
  BY <1>0, <1>16 DEF PostFine, PostOwed, PostInHand, PostSettled, Queued, QueuedPost, Working
<1> QED
  BY <1>1, <1>2, <1>3, <1>4, <1>5, <1>6, <1>7, <1>8, <1>9, <1>10, <1>11, <1>12, <1>13,
     <1>14, <1>15, <1>16 DEF Next, ScrapeStep, RequestStep, WorkerStep

\* A post is searchable exactly while its row exists, or somebody is about to
\* make it so, or its chain of jobs is known to be broken.  The argument needs
\* CleanupOnlyGone: a clean-up never removes the document of a live post.
THEOREM PostsInSync == Spec => []PostSync
<1>1. Init => TypeOK /\ CleanupOnlyGone /\ PostSync
  BY TypeInit, CleanupInit, PostSyncInit
<1>2. TypeOK /\ CleanupOnlyGone /\ PostSync /\ [Next]_vars
         => TypeOK' /\ CleanupOnlyGone' /\ PostSync'
  BY TypeNext, CleanupNext, PostSyncNext
<1> QED
  BY <1>1, <1>2, PTL DEF Spec

\* Once nothing is queued or running, the index is what Postgres says it
\* should be, but for the recorded breaks.
THEOREM QuietInSync == Spec => []InSyncWhenQuiet
<1>1. ProfileSync /\ PostSync => InSyncWhenQuiet
  <2> SUFFICES ASSUME ProfileSync, PostSync, Quiet
               PROVE  /\ \A p \in Profiles \ debt : doc[p] = version[p]
                      /\ \A q \in Posts \ postDebt : q \in posts <=> q \in postDocs
    BY DEF InSyncWhenQuiet
  <2>1. (\A j : ~Queued(j)) /\ (\A q : ~QueuedPost(q))
    BY DEF Quiet, Queued, QueuedPost
  <2>2. ASSUME NEW p \in Profiles \ debt PROVE doc[p] = version[p]
    BY <2>1, <2>2 DEF Quiet, ProfileSync, ProfileOwed, ProfileInHand, ProfileSettled
  <2>3. ASSUME NEW q \in Posts \ postDebt PROVE q \in posts <=> q \in postDocs
    BY <2>1, <2>3 DEF Quiet, PostSync, PostOwed, PostInHand, PostSettled
  <2> QED
    BY <2>2, <2>3
<1> QED
  BY <1>1, ProfilesInSync, PostsInSync, PTL

-----------------------------------------------------------------------------
(* The index implements the lagging mirror *)

\* A document never runs ahead of its row, and what the index worker has
\* read is no older than the document and no newer than the row.
MirrorInv ==
    /\ \A p \in Profiles : doc[p] <= version[p]
    /\ \A w \in IndexWorkers :
          Working(w, "index_profile", "write") =>
             doc[wjob[w].arg] <= wver[w] /\ wver[w] <= version[wjob[w].arg]

MStep == [Mirror!MirrorNext]_(Mirror!mirrorVars)

\* A step that only moves rows on.
LEMMA RowStep ==
    ASSUME TypeOK, MirrorInv, NEW p \in Profiles,
           version' = [version EXCEPT ![p] = @ + 1] \/ version' = version,
           UNCHANGED <<doc, workerVars>>
    PROVE  MirrorInv' /\ MStep
<1>1. \A x \in Profiles : version[x] \in Nat /\ version'[x] \in Nat /\ version[x] <= version'[x]
  <2> SUFFICES ASSUME NEW x \in Profiles
               PROVE  version[x] \in Nat /\ version'[x] \in Nat /\ version[x] <= version'[x]
    OBVIOUS
  <2>1. version[x] \in Nat
    BY DEF TypeOK
  <2>2. version'[x] = version[x] \/ version'[x] = version[x] + 1
    BY DEF TypeOK
  <2> QED
    BY <2>1, <2>2
<1>2. \A j \in Jobs : j.fn = "index_profile" => j.arg \in Profiles
  BY JobTypes DEF ProfileFns
<1>3. MirrorInv'
  <2>1. ASSUME NEW x \in Profiles PROVE doc'[x] <= version'[x]
    <3>1. doc[x] \in Nat /\ doc'[x] = doc[x] /\ doc[x] <= version[x]
      BY DEF TypeOK, MirrorInv
    <3> QED
      BY <1>1, <3>1
  <2>2. ASSUME NEW w \in IndexWorkers, Working(w, "index_profile", "write")'
        PROVE  doc'[wjob'[w].arg] <= wver'[w] /\ wver'[w] <= version'[wjob'[w].arg]
    <3>0. Working(w, "index_profile", "write") /\ wjob'[w] = wjob[w] /\ wver'[w] = wver[w]
      BY <2>2 DEF Working
    <3>1. wjob[w].arg \in Profiles
      BY <1>2, <3>0 DEF TypeOK, Working
    <3>2. wver[w] \in Nat /\ version[wjob[w].arg] \in Nat /\ version'[wjob[w].arg] \in Nat
      BY <3>1 DEF TypeOK
    <3> QED
      BY <1>1, <3>0, <3>1, <3>2 DEF MirrorInv
  <2> QED
    BY <2>1, <2>2 DEF MirrorInv
<1>4. MStep
  BY DEF MStep, Mirror!MirrorNext, Mirror!Change, Mirror!mirrorVars
<1> QED
  BY <1>3, <1>4

\* A step of the index worker that writes version v over p's document.
LEMMA WriteStep ==
    ASSUME TypeOK, MirrorInv, NEW w \in IndexWorkers, NEW p \in Profiles, NEW v \in Nat,
           doc[p] <= v, v <= version[p],
           doc' = [doc EXCEPT ![p] = v], wpc' = [wpc EXCEPT ![w] = "idle"],
           UNCHANGED version
    PROVE  MirrorInv' /\ MStep
<1>1. MirrorInv'
  <2>1. \A x \in Profiles : doc'[x] <= version'[x]
    BY DEF MirrorInv, TypeOK
  <2>2. \A u \in IndexWorkers : wpc'[u] = "idle"
    BY SingleIndexWorker DEF TypeOK
  <2> QED
    BY <2>1, <2>2 DEF MirrorInv, Working
<1>2. MStep
  <2>1. CASE v = doc[p]
    <3>1. doc' = doc
      BY <2>1 DEF TypeOK
    <3> QED
      BY <3>1 DEF MStep, Mirror!mirrorVars
  <2>2. CASE v # doc[p]
    <3>1. v \in doc[p] + 1 .. version[p]
      BY <2>2 DEF TypeOK
    <3> QED
      BY <3>1 DEF MStep, Mirror!MirrorNext, Mirror!Reflect
  <2> QED
    BY <2>1, <2>2
<1> QED
  BY <1>1, <1>2

LEMMA MirrorInitial == Init => MirrorInv /\ Mirror!MirrorInit
BY DEF Init, MirrorInv, Mirror!MirrorInit, Working

LEMMA MirrorNextStep == TypeOK /\ MirrorInv /\ [Next]_vars => MirrorInv' /\ MStep
<1> SUFFICES ASSUME TypeOK, MirrorInv, [Next]_vars PROVE MirrorInv' /\ MStep
  OBVIOUS
<1>1. ASSUME NEW s \in ScrapeWorkers, NEW p \in Profiles,
             ScrapeUpsert(s, p) \/ ScrapePosts(s, p) \/ ScrapeRelation(s, p)
      PROVE  MirrorInv' /\ MStep
  <2>1. /\ version' = [version EXCEPT ![p] = @ + 1] \/ version' = version
        /\ UNCHANGED <<doc, workerVars>>
    BY <1>1 DEF ScrapeUpsert, ScrapePosts, ScrapeRelation
  <2> QED
    BY <2>1, RowStep
<1>2. ASSUME NEW s \in ScrapeWorkers, ScrapeStep(s) \/ ScrapeCrash(s) PROVE MirrorInv' /\ MStep
  <2>1. /\ version' = [version EXCEPT ![sarg[s]] = @ + 1] \/ version' = version
        /\ UNCHANGED <<doc, workerVars>>
    BY <1>2 DEF ScrapeStep, ScrapePopulate, ScrapeSchedule, ScrapeAbort, ScrapeSchedulePosts,
                ScrapeCrash
  <2>2. sarg[s] \in Profiles
    BY DEF TypeOK
  <2> QED
    BY <2>1, <2>2, RowStep
<1>3. ASSUME NEW r \in Requests, NEW p \in Profiles, DeleteCommit(r, p) PROVE MirrorInv' /\ MStep
  <2>1. version' = [version EXCEPT ![p] = @ + 1] /\ UNCHANGED <<doc, workerVars>>
    BY <1>3 DEF DeleteCommit
  <2> QED
    BY <2>1, RowStep
<1>4. ASSUME NEW r \in Requests, RequestStep(r) \/ DeleteCrash(r) PROVE MirrorInv' /\ MStep
  <2>1. version' = version /\ UNCHANGED <<doc, workerVars>> /\ rarg[r] \in Profiles
    BY <1>4 DEF RequestStep, DeleteScheduleProfile, DeleteSchedulePosts, DeleteCrash, TypeOK
  <2> QED
    BY <2>1, RowStep
<1>5. ASSUME NEW w \in IndexWorkers,
             \/ Dequeue(w) \/ IndexProfileMissing(w) \/ IndexPostsRead(w) \/ IndexPostsWrite(w)
             \/ DeletePostsWrite(w) \/ (JobFails(w) /\ doc' = doc)
      PROVE  MirrorInv' /\ MStep
  <2>1. /\ UNCHANGED <<version, doc>>
        /\ ~Working(w, "index_profile", "write")'
    BY <1>5 DEF Dequeue, IndexProfileMissing, IndexPostsRead, IndexPostsWrite, DeletePostsWrite,
                JobFails, Working, TypeOK
  <2>2. \A u \in IndexWorkers : ~Working(u, "index_profile", "write")'
    BY <2>1, SingleIndexWorker DEF Working
  <2> QED
    BY <2>1, <2>2 DEF MirrorInv, MStep, Mirror!mirrorVars
<1>6. ASSUME NEW w \in IndexWorkers, IndexProfileRead(w) PROVE MirrorInv' /\ MStep
  <2>1. /\ UNCHANGED <<version, doc, wjob>>
        /\ wver'[w] = version[wjob[w].arg] /\ wjob[w].arg \in Profiles
    BY <1>6, JobTypes DEF IndexProfileRead, TypeOK, Working, ProfileFns
  <2>2. \A u \in IndexWorkers : u = w
    BY SingleIndexWorker
  <2> QED
    BY <2>1, <2>2 DEF MirrorInv, MStep, Mirror!mirrorVars, TypeOK
<1>7. ASSUME NEW w \in IndexWorkers, IndexProfileWrite(w) \/ (JobFails(w) /\ doc' # doc)
      PROVE  MirrorInv' /\ MStep
  <2>1. /\ Working(w, "index_profile", "write") /\ UNCHANGED version
        /\ doc' = [doc EXCEPT ![wjob[w].arg] = wver[w]]
        /\ wpc' = [wpc EXCEPT ![w] = "idle"]
    BY <1>7 DEF IndexProfileWrite, JobFails
  <2>2. wjob[w].arg \in Profiles /\ wver[w] \in Nat
    BY <2>1, JobTypes DEF TypeOK, Working, ProfileFns
  <2> QED
    BY <2>1, <2>2, WriteStep DEF MirrorInv
<1>8. ASSUME NEW w \in IndexWorkers, DeleteProfileWrite(w) PROVE MirrorInv' /\ MStep
  <2>1. /\ UNCHANGED version /\ wpc' = [wpc EXCEPT ![w] = "idle"]
        /\ doc' = [doc EXCEPT ![wjob[w].arg] = version[wjob[w].arg]]
        /\ wjob[w].arg \in Profiles
    BY <1>8, JobTypes DEF DeleteProfileWrite, TypeOK, Working, ProfileFns
  <2>2. version[wjob[w].arg] \in Nat /\ version[wjob[w].arg] <= version[wjob[w].arg]
    BY <2>1 DEF TypeOK
  <2>3. doc[wjob[w].arg] <= version[wjob[w].arg]
    BY <2>1 DEF MirrorInv
  <2> QED
    BY <2>1, <2>2, <2>3, WriteStep
<1>9. ASSUME UNCHANGED vars PROVE MirrorInv' /\ MStep
  BY <1>9 DEF MirrorInv, Working, MStep, Mirror!mirrorVars
<1> QED
  BY <1>1, <1>2, <1>3, <1>4, <1>5, <1>6, <1>7, <1>8, <1>9 DEF Next, WorkerStep

\* The queue and its single index worker implement the lagging mirror: what
\* is searchable only moves forward through states the row has really had,
\* so neither an old read nor a late job brings back what was replaced or
\* deleted.
THEOREM MirrorRefined == Spec => MirrorSafety
<1>1. Init => TypeOK /\ MirrorInv /\ Mirror!MirrorInit
  BY TypeInit, MirrorInitial
<1>2. TypeOK /\ MirrorInv /\ [Next]_vars => TypeOK' /\ MirrorInv' /\ MStep
  BY TypeNext, MirrorNextStep
<1> QED
  BY <1>1, <1>2, PTL DEF Spec, MirrorSafety, Mirror!MirrorSpec, MStep
=============================================================================
