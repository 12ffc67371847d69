---------------------------- MODULE JobLifecycle ----------------------------
(***************************************************************************)
(* The life of background jobs: what app.queue, the job functions and the  *)
(* helpers of the package "worker" do with a job's metadata in Redis and   *)
(* with the channel "worker".                                              *)
(*                                                                         *)
(* A job is put in its queue first and described afterwards, by init_job,  *)
(* which saves the scheduler's own copy of the metadata.  The worker's     *)
(* helpers fetch the job, change the copy and save the whole of it.  A     *)
(* worker may take the job before it is described, so the two sides may    *)
(* overwrite each other.  A save and the publication that follows it are   *)
(* one step; what RQ does to the metadata after a job has ended is left    *)
(* out.  One queue stands for each of "scrape" and "index".                *)
(***************************************************************************)
EXTENDS Integers, Sequences

CONSTANTS
    Jobs,         \* identifiers of jobs
    Workers,      \* processes serving the queue
    Chunk,        \* users per request of scrape_twitter_relations
    MaxTotal,     \* bound: largest total given to start_job
    Faults        \* may processes die?

ASSUME ConstantsAssumption ==
    Jobs # {} /\ Chunk \in Nat \ {0} /\ MaxTotal \in Nat /\ Faults \in BOOLEAN

VARIABLES
    place,        \* where each job is
    queue,        \* the RQ queue, oldest job first
    sched,        \* the process that schedules each job: its step
    meta,         \* job.meta, as saved in Redis
    said,         \* the last status published for each job
    wpc, wjob,    \* worker: step, job
    wcopy,        \* worker: the copy of the metadata it is about to save
    wtotal, wstep, wdone,  \* worker: total and stride of the loop, progress so far
    early         \* history: jobs taken from the queue before they were described

workerVars == <<wpc, wjob, wcopy, wtotal, wstep, wdone>>
vars == <<place, queue, sched, meta, said, workerVars, early>>

NoCount == -1     \* 'total' (or 'current') is not in job.meta
Counts == Nat \union {NoCount}
Metas == [described : BOOLEAN, total : Counts, current : Counts]
EmptyMeta == [described |-> FALSE, total |-> NoCount, current |-> NoCount]

\* A copy of the metadata with other counts.
WithCounts(m, t, c) == [described |-> m.described, total |-> t, current |-> c]
WithCurrent(m, c) == WithCounts(m, m.total, c)

TypeOK ==
    /\ place \in [Jobs -> {"none", "queued", "running", "ended", "failed", "lost", "gone"}]
    /\ queue \in Seq(Jobs)
    /\ sched \in [Jobs -> {"none", "pending", "saved", "dead"}]
    /\ meta \in [Jobs -> Metas]
    /\ said \in [Jobs -> {"nothing", "queued", "started", "progress", "finished", "failed"}]
    /\ wpc \in [Workers -> {"idle", "taken", "start", "body", "update", "finish",
                            "after", "raised", "quarantine"}]
    /\ wjob \in [Workers -> Jobs] /\ wcopy \in [Workers -> Metas]
    /\ wtotal \in [Workers -> Counts] /\ wstep \in [Workers -> Nat \ {0}]
    /\ wdone \in [Workers -> Nat]
    /\ early \subseteq Jobs

\* (Which job an idle worker has had last is never looked at.)
Init ==
    /\ place = [j \in Jobs |-> "none"] /\ queue = <<>>
    /\ sched = [j \in Jobs |-> "none"]
    /\ meta = [j \in Jobs |-> EmptyMeta]
    /\ said = [j \in Jobs |-> "nothing"]
    /\ wpc = [w \in Workers |-> "idle"] /\ wjob \in [Workers -> Jobs]
    /\ wcopy = [w \in Workers |-> EmptyMeta]
    /\ wtotal = [w \in Workers |-> NoCount] /\ wstep = [w \in Workers |-> 1]
    /\ wdone = [w \in Workers |-> 0]
    /\ early = {}

-----------------------------------------------------------------------------
(* The process that schedules the job: a web process or another job *)

\* Mutant: saving the metadata puts the job in the queue a second time.
EnqueueTwice(j) ==
    /\ place[j] = "none"
    /\ place' = [place EXCEPT ![j] = "queued"]
    /\ queue' = queue \o <<j, j>>
    /\ sched' = [sched EXCEPT ![j] = "pending"]
    /\ UNCHANGED <<meta, said, workerVars, early>>

\* enqueue_call: from here on a worker may take the job.
EnqueueCall(j) ==
    /\ place[j] = "none"
    /\ place' = [place EXCEPT ![j] = "queued"]
    /\ queue' = Append(queue, j)
    /\ sched' = [sched EXCEPT ![j] = "pending"]
    /\ UNCHANGED <<meta, said, workerVars, early>>

\* The scheduler's copy knows nothing of what a worker has saved since.
InitJob(j) ==
    /\ sched[j] = "pending"
    /\ sched' = [sched EXCEPT ![j] = "saved"]
    /\ meta' = [meta EXCEPT ![j] = [described |-> TRUE, total |-> NoCount, current |-> NoCount]]
    /\ said' = [said EXCEPT ![j] = "queued"]
    /\ UNCHANGED <<place, queue, workerVars, early>>

SchedulerDies(j) ==
    /\ Faults /\ sched[j] = "pending"
    /\ sched' = [sched EXCEPT ![j] = "dead"]
    /\ UNCHANGED <<place, queue, meta, said, workerVars, early>>

-----------------------------------------------------------------------------
(* The worker *)

Goto(w, step) == wpc' = [wpc EXCEPT ![w] = step]
Say(w, status) == said' = [said EXCEPT ![wjob[w]] = status]
SaveCopy(w) == meta' = [meta EXCEPT ![wjob[w]] = wcopy[w]]

\* The process forked for the job ends, and its variables with it.
Leave(w, where) ==
    /\ Goto(w, "idle") /\ place' = [place EXCEPT ![wjob[w]] = where]
    /\ wcopy' = [wcopy EXCEPT ![w] = EmptyMeta]
    /\ wtotal' = [wtotal EXCEPT ![w] = NoCount]
    /\ wstep' = [wstep EXCEPT ![w] = 1] /\ wdone' = [wdone EXCEPT ![w] = 0]

Take(w) ==
    /\ wpc[w] = "idle" /\ queue # <<>>
    /\ wjob' = [wjob EXCEPT ![w] = Head(queue)]
    /\ queue' = Tail(queue)
    /\ place' = [place EXCEPT ![Head(queue)] = "running"]
    /\ early' = early \union {j \in {Head(queue)} : sched[j] # "saved"}
    /\ Goto(w, "taken")
    /\ UNCHANGED <<sched, meta, said, wcopy, wtotal, wstep, wdone>>

\* start_job(): nothing to save.
StartPlain(w) ==
    /\ wpc[w] = "taken"
    /\ Say(w, "started")
    /\ Goto(w, "body")
    /\ UNCHANGED <<place, queue, sched, meta, wjob, wcopy, wtotal, wstep, wdone, early>>

\* Mutant: start_job saves a copy that it has not fetched.
StartFromScratch(w) ==
    /\ wpc[w] = "taken"
    /\ \E t \in 0 .. MaxTotal, n \in {1, Chunk} :
          /\ wtotal' = [wtotal EXCEPT ![w] = t]
          /\ wstep' = [wstep EXCEPT ![w] = n]
          /\ wcopy' = [wcopy EXCEPT ![w] = WithCounts(EmptyMeta, t, 0)]
    /\ Goto(w, "start")
    /\ UNCHANGED <<place, queue, sched, meta, said, wjob, wdone, early>>

\* start_job(total): posts and Instagram relations count one by one up to the
\* configured maximum, Twitter relations by whole chunks.
StartFetch(w) ==
    /\ wpc[w] = "taken"
    /\ \E t \in 0 .. MaxTotal, n \in {1, Chunk} :
          /\ wtotal' = [wtotal EXCEPT ![w] = t]
          /\ wstep' = [wstep EXCEPT ![w] = n]
          /\ wcopy' = [wcopy EXCEPT ![w] = WithCounts(meta[wjob[w]], t, 0)]
    /\ Goto(w, "start")
    /\ UNCHANGED <<place, queue, sched, meta, said, wjob, wdone, early>>

StartSave(w) ==
    /\ wpc[w] = "start"
    /\ SaveCopy(w) /\ Say(w, "started")
    /\ Goto(w, "body")
    /\ UNCHANGED <<place, queue, sched, wjob, wcopy, wtotal, wstep, wdone, early>>

\* The loops stop at the total, except that one that is given a total of
\* zero posts looks at it only after the first post.
More(w) == wdone[w] < wtotal[w] \/ (wtotal[w] = 0 /\ wdone[w] = 0 /\ wstep[w] = 1)

UpdateFetch(w) ==
    /\ wpc[w] = "body" /\ wtotal[w] # NoCount /\ More(w)
    /\ meta[wjob[w]].total # NoCount
    /\ wcopy' = [wcopy EXCEPT ![w] = WithCurrent(meta[wjob[w]], wdone[w] + wstep[w])]
    /\ Goto(w, "update")
    /\ UNCHANGED <<place, queue, sched, meta, said, wjob, wtotal, wstep, wdone, early>>

\* update_job finds no total: ValueError.
UpdateRefused(w) ==
    /\ wpc[w] = "body" /\ wtotal[w] # NoCount /\ More(w)
    /\ meta[wjob[w]].total = NoCount
    /\ Goto(w, "raised")
    /\ UNCHANGED <<place, queue, sched, meta, said, wjob, wcopy, wtotal, wstep, wdone, early>>

\* Mutant: the loop does not count what it has done.
UpdateUncounted(w) ==
    /\ wpc[w] = "update"
    /\ SaveCopy(w) /\ Say(w, "progress")
    /\ Goto(w, "body")
    /\ UNCHANGED <<place, queue, sched, wjob, wcopy, wtotal, wstep, wdone, early>>

\* The progress that is published divides by the total.
UpdateSave(w) ==
    /\ wpc[w] = "update"
    /\ SaveCopy(w)
    /\ wdone' = [wdone EXCEPT ![w] = wcopy[w].current]
    /\ \/ wcopy[w].total # 0 /\ Say(w, "progress") /\ Goto(w, "body")
       \/ wcopy[w].total = 0 /\ Goto(w, "raised") /\ UNCHANGED said
    /\ UNCHANGED <<place, queue, sched, wjob, wcopy, wtotal, wstep, early>>

\* finish_job, on a job with progress: current becomes total.
FinishFetch(w) ==
    /\ wpc[w] = "body" /\ meta[wjob[w]].current # NoCount
    /\ wcopy' = [wcopy EXCEPT ![w] = WithCurrent(meta[wjob[w]], meta[wjob[w]].total)]
    /\ Goto(w, "finish")
    /\ UNCHANGED <<place, queue, sched, meta, said, wjob, wtotal, wstep, wdone, early>>

\* Mutant: the job goes back to its loop after finish_job.
FinishAndGoOn(w) ==
    /\ wpc[w] = "finish"
    /\ SaveCopy(w) /\ Say(w, "finished")
    /\ Goto(w, "body")
    /\ UNCHANGED <<place, queue, sched, wjob, wcopy, wtotal, wstep, wdone, early>>

FinishSave(w) ==
    /\ wpc[w] = "finish"
    /\ SaveCopy(w) /\ Say(w, "finished")
    /\ Goto(w, "after")
    /\ UNCHANGED <<place, queue, sched, wjob, wcopy, wtotal, wstep, wdone, early>>

FinishPlain(w) ==
    /\ wpc[w] = "body" /\ meta[wjob[w]].current = NoCount
    /\ Say(w, "finished")
    /\ Goto(w, "after")
    /\ UNCHANGED <<place, queue, sched, meta, wjob, wcopy, wtotal, wstep, wdone, early>>

\* The job function returns; RQ takes note.
Return(w) ==
    /\ wpc[w] = "after"
    /\ Leave(w, "ended")
    /\ UNCHANGED <<queue, sched, meta, said, wjob, early>>

\* scrape_profile and scrape_profile_by_id catch errors of the site, tell the
\* channel "profile" and return, without finish_job.
Swallow(w) ==
    /\ wpc[w] = "body" /\ wtotal[w] = NoCount
    /\ Leave(w, "ended")
    /\ UNCHANGED <<queue, sched, meta, said, wjob, early>>

\* Any step of the job may raise, the work left after finish_job too; so may
\* RQ's timeout, at any moment.
Raise(w) ==
    /\ wpc[w] \in {"taken", "start", "body", "update", "finish", "after"}
    /\ Goto(w, "raised")
    /\ UNCHANGED <<place, queue, sched, meta, said, wjob, wcopy, wtotal, wstep, wdone, early>>

\* handle_exception tells the clients, then RQ moves the job.
HandleException(w) ==
    /\ wpc[w] = "raised"
    /\ Say(w, "failed")
    /\ Goto(w, "quarantine")
    /\ UNCHANGED <<place, queue, sched, meta, wjob, wcopy, wtotal, wstep, wdone, early>>

Quarantine(w) ==
    /\ wpc[w] = "quarantine"
    /\ Leave(w, "failed")
    /\ UNCHANGED <<queue, sched, meta, said, wjob, early>>

WorkerDies(w) ==
    /\ Faults /\ wpc[w] # "idle"
    /\ Leave(w, "lost")
    /\ UNCHANGED <<queue, sched, meta, said, wjob, early>>

-----------------------------------------------------------------------------
\* DELETE /api/tasks/failed/<id>
DeleteFailed(j) ==
    /\ place[j] = "failed"
    /\ place' = [place EXCEPT ![j] = "gone"]
    /\ UNCHANGED <<queue, sched, meta, said, workerVars, early>>

\* Mutant: the queues of the application are emptied as well.
BootEverything ==
    /\ \E j \in Jobs : place[j] = "failed"
    /\ place' = [j \in Jobs |-> IF place[j] \in {"failed", "queued"} THEN "gone" ELSE place[j]]
    /\ queue' = <<>>
    /\ UNCHANGED <<sched, meta, said, workerVars, early>>

\* remove_unused_queues runs when a web process starts: RQ's own queue of
\* failed jobs is not one of the application's, so it is emptied.
Boot ==
    /\ \E j \in Jobs : place[j] = "failed"
    /\ place' = [j \in Jobs |-> IF place[j] = "failed" THEN "gone" ELSE place[j]]
    /\ UNCHANGED <<queue, sched, meta, said, workerVars, early>>

WorkerStep(w) ==
    \/ Take(w)
    \/ StartPlain(w) \/ StartFetch(w) \/ StartSave(w)
    \/ UpdateFetch(w) \/ UpdateRefused(w) \/ UpdateSave(w)
    \/ FinishFetch(w) \/ FinishSave(w) \/ FinishPlain(w)
    \/ Return(w) \/ Swallow(w) \/ HandleException(w) \/ Quarantine(w)

Next ==
    \/ \E j \in Jobs : EnqueueCall(j) \/ InitJob(j) \/ SchedulerDies(j) \/ DeleteFailed(j)
    \/ \E w \in Workers : WorkerStep(w) \/ Raise(w) \/ WorkerDies(w)
    \/ Boot

Spec == Init /\ [][Next]_vars

\* A scheduler that has queued a job goes on; workers are kept alive by
\* supervisor and go on with what they have begun.  Nothing has to fail.
FairSpec ==
    /\ Spec
    /\ \A j \in Jobs : WF_vars(InitJob(j))
    /\ \A w \in Workers : WF_vars(WorkerStep(w))
=============================================================================
