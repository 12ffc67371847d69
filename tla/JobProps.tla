------------------------------ MODULE JobProps ------------------------------
(* What the life of a job guarantees, and what it does not. *)
EXTENDS JobLifecycle

Busy(w) == wpc[w] # "idle"

(***************************************************************************)
(* A job is in one place: queued once, or in the hands of one worker, or   *)
(* out of both; no two workers ever run the same job (EnqueueCall and      *)
(* Take, which schedule_* and Worker.work rely on).                        *)
(***************************************************************************)
Placement ==
    /\ \A i \in DOMAIN queue : place[queue[i]] = "queued"
    /\ \A i, k \in DOMAIN queue : queue[i] = queue[k] => i = k
    /\ \A w \in Workers : Busy(w) => place[wjob[w]] = "running"
    /\ \A v, w \in Workers : Busy(v) /\ Busy(w) /\ wjob[v] = wjob[w] => v = w

(***************************************************************************)
(* However the saves of init_job, start_job, update_job and finish_job     *)
(* overwrite each other, 'current' is never in a job's metadata without    *)
(* 'total', nor in a copy about to be saved: finish_job, update_job and    *)
(* the views that divide one by the other never miss a key.                *)
(***************************************************************************)
CountsPaired ==
    /\ \A j \in Jobs : meta[j].total = NoCount <=> meta[j].current = NoCount
    /\ \A w \in Workers : wpc[w] \in {"start", "update", "finish"} =>
          wcopy[w].total # NoCount /\ wcopy[w].current # NoCount

\* The metadata m tells who the job of worker w is and how far it has got.
Tells(m, w) ==
    /\ m.described
    /\ wpc[w] \in {"body", "update"} /\ wtotal[w] # NoCount =>
          m.total = wtotal[w] /\ m.current = wdone[w]

(***************************************************************************)
(* If init_job has saved before a worker takes the job, then while the job *)
(* runs its description, its total and its worker's progress stay in Redis *)
(* as they were put there, and the copies about to be saved agree.         *)
(***************************************************************************)
ProgressKept ==
    \A w \in Workers : Busy(w) /\ wjob[w] \notin early =>
       /\ Tells(meta[wjob[w]], w)
       /\ wpc[w] \in {"start", "update"} =>
             wcopy[w].described /\ wcopy[w].total = wtotal[w]
       /\ wpc[w] = "finish" => wcopy[w].described /\ wcopy[w].current = wcopy[w].total

\* Which status may be published after which.
Successors ==
    [nothing |-> {"queued"}, queued |-> {"started", "failed"},
     started |-> {"progress", "finished", "failed"},
     progress |-> {"finished", "failed"},
     finished |-> {"failed"}, failed |-> {}]

(***************************************************************************)
(* The clients see the statuses of such a job in a sensible order: nothing *)
(* is published about it after "failed", and after "finished" only a       *)
(* failure of the work that the job does after finish_job.                 *)
(***************************************************************************)
EventOrder ==
    [][\A j \in Jobs \ early' : said'[j] # said[j] => said'[j] \in Successors[said[j]]]_vars

(***************************************************************************)
(* Every queued job is taken and leaves its worker again: the loops count  *)
(* up to their total, and anything raised ends in the failed queue.        *)
(***************************************************************************)
JobsEnd == \A j \in Jobs : (place[j] = "queued") ~> (place[j] \notin {"queued", "running"})

\* Where a job is, for those who watch it.
Phase(w) ==
    CASE wpc[w] \in {"taken", "start"} -> "taken"
      [] wpc[w] \in {"body", "update", "finish"} -> "started"
      [] wpc[w] = "after" -> "finishing"
      [] wpc[w] = "raised" -> "raised"
      [] wpc[w] = "quarantine" -> "failing"
      [] OTHER -> "none"
Phases == [j \in Jobs |->
    CASE place[j] = "running" -> Phase(CHOOSE w \in Workers : Busy(w) /\ wjob[w] = j)
      [] place[j] \in {"ended", "lost"} -> "over"
      [] OTHER -> place[j]]

Board == INSTANCE JobBoard WITH
    Jobs <- Jobs, phase <- Phases,
    described <- {j \in Jobs : sched[j] = "saved"},
    count <- [j \in Jobs |-> meta[j].current],
    zero <- {j \in Jobs : meta[j].total = 0 /\ meta[j].current # NoCount}

(***************************************************************************)
(* Clients may rely on the phases of JobBoard: whatever the saves do to    *)
(* each other, a job is published as started, finished or failed while it  *)
(* is in the phase for that, and comes to rest only by the steps listed    *)
(* there.                                                                  *)
(***************************************************************************)
BoardKept == Board!BoardSpec
=============================================================================
