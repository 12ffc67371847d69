----------------------------- MODULE TasksClient -----------------------------
(***************************************************************************)
(* The page of background tasks, beside the life of the jobs that it shows *)
(* (JobBoard).  Every publication becomes an event on its way to the page. *)
(* The page answers an event by changing what it shows, or by a chain of   *)
(* requests; the next request of a chain is sent when the one before it    *)
(* has been answered.  Chains overlap, answers overtake each other, and    *)
(* each answer replaces the list it is for.  A request that fails leaves   *)
(* the list as it is, and its chain goes on.  The requests for the lengths *)
(* of the queues, at the end of each chain or in the middle of the first,  *)
(* are left out: nothing depends on what they answer.                      *)
(*                                                                         *)
(* A request is known by what is left of its chain.  All administrators    *)
(* remove failed jobs; one of them sits before the page.  The names that   *)
(* begin with Tasks tell this module from ProfileList.                     *)
(***************************************************************************)
EXTENDS JobBoard, Sequences, FiniteSets, Functions

CONSTANTS
    MaxCount,     \* bound: progress
    MaxWire,      \* bound: events on their way
    MaxCalls,     \* bound: requests under way when an event is handled
    MayFail       \* may any request fail?

ASSUME MayFailAssumption == MayFail \in BOOLEAN

VARIABLES
    stream,       \* events on their way to the page, the oldest first
    asks,         \* requests that the server has not read: chains
    answers,      \* answers on their way, in the order in which they were read
    running,      \* page: jobs of workers, with their progress; nothing at first
    failed,       \* page: failed jobs; none at first
    loaded,       \* page: has there been an answer about workers?
    removing,     \* page: jobs whose removal has been asked for
    confirmed,    \* page: jobs whose removal is on its way back
    silent,       \* history: jobs that have left a list without an event
    hastyW, hastyF,  \* history: jobs that had published that they have ended, when
                  \*   the workers and the failed jobs were last read
    late,         \* history: lists whose last answer was overtaken
    refused,      \* history: lists of which the last request failed
    reverted,     \* history: jobs whose last progress event an answer has undone
    revived       \* history: jobs that came back with an answer after their removal

callVars == <<asks, answers>>
pageVars == <<running, failed, loaded, removing, confirmed>>
historyVars == <<silent, hastyW, hastyF, late, refused, reverted,
                 revived>>
tasksVars == <<boardVars, stream, callVars, pageVars, historyVars>>

Lists == {"workers", "failed"}
Chains == {<<"workers", "failed">>, <<"failed">>, <<"failed", "workers">>, <<"workers">>}

\* A job that is not shown has no progress to show; Shown says which are.
NotShown == -2
Values == Counts \union {NotShown}
NoJob == [j \in Jobs |-> NotShown]

Events == [job : Jobs, status : {"queued", "started", "progress", "finished", "failed"},
           current : Counts]
Replies == [chain : Chains, ok : BOOLEAN, overtaken : BOOLEAN, running : [Jobs -> Values],
            failed : SUBSET Jobs, undoes : SUBSET Jobs]

TasksTypes ==
    /\ BoardTypes
    /\ stream \in Seq(Events) /\ asks \in [Chains -> Nat] /\ answers \in Seq(Replies)
    /\ running \in [Jobs -> Values] /\ failed \subseteq Jobs
    /\ loaded \in BOOLEAN /\ removing \subseteq Jobs /\ confirmed \subseteq Jobs
    /\ silent \subseteq Jobs /\ hastyW \subseteq Jobs /\ hastyF \subseteq Jobs
    /\ late \subseteq Lists /\ refused \subseteq Lists
    /\ reverted \subseteq Jobs /\ revived \subseteq Jobs

\* The constructor: workers, and then failed jobs.
TasksInit ==
    /\ BoardInit /\ stream = <<>>
    /\ asks = [c \in Chains |-> IF c = <<"workers", "failed">> THEN 1 ELSE 0]
    /\ answers = <<>>
    /\ running = NoJob /\ failed = {} /\ loaded = FALSE
    /\ removing = {} /\ confirmed = {}
    /\ silent = {} /\ hastyW = {} /\ hastyF = {} /\ late = {} /\ refused = {}
    /\ reverted = {} /\ revived = {}

-----------------------------------------------------------------------------
(* The jobs *)

\* Steps of which nothing is published.  The page does not learn of these
\* ends: the job function returned without finish_job, or its worker died.
JobMoves(j) ==
    /\ \/ (Queue(j) \/ Take(j) \/ Return(j) \/ Quarantine(j)) /\ UNCHANGED silent
       \/ (Swallow(j) \/ Die(j)) /\ silent' = silent \union {j}
       \/ \E c \in {count[j], MaxCount} :
             /\ count' = [count EXCEPT ![j] = c] /\ UNCHANGED zero
             /\ Raise(j) /\ UNCHANGED silent
    /\ UNCHANGED <<stream, callVars, pageVars, hastyW, hastyF, late, refused, reverted, revived>>

Tell(j, status) ==
    /\ Len(stream) < MaxWire
    /\ stream' = Append(stream, [job |-> j, status |-> status, current |-> count'[j]])
    /\ UNCHANGED <<callVars, pageVars, historyVars>>

\* start_job without a total, with one, or with a total of zero (a job that has
\* nothing to fetch).
Started(j) ==
    \/ UNCHANGED <<count, zero>>
    \/ count' = [count EXCEPT ![j] = 0] /\ zero' \in {zero \union {j}, zero \ {j}}

\* finish_job: the progress of a job that has a total becomes the total.
Reached(j) ==
    /\ \E c \in {count[j], MaxCount} : count' = [count EXCEPT ![j] = IF j \in zero THEN 0 ELSE c]
    /\ UNCHANGED zero

\* init_job, start_job, update_job, finish_job and handle_exception
JobTells(j) ==
    \/ Describe(j) /\ Tell(j, "queued")
    \/ Started(j) /\ Start(j) /\ Tell(j, "started")
    \/ /\ count[j] < MaxCount /\ j \notin zero
       /\ count' = [count EXCEPT ![j] = @ + 1] /\ UNCHANGED zero
       /\ Progress(j) /\ Tell(j, "progress")
    \/ Reached(j) /\ Finish(j) /\ Tell(j, "finished")
    \/ Fail(j) /\ Tell(j, "failed")

\* Another administrator removes the job, or a web process starts.
OthersRemove ==
    /\ \E j \in Jobs : Remove(j)
    /\ silent' = silent \union {j \in Jobs : phase[j] # phase'[j]}
    /\ UNCHANGED <<stream, callVars, pageVars, hastyW, hastyF, late, refused, reverted, revived>>
Boot ==
    /\ \E j \in Jobs : phase[j] = "failed"
    /\ Empty
    /\ silent' = silent \union {j \in Jobs : phase[j] = "failed"}
    /\ UNCHANGED <<stream, callVars, pageVars, hastyW, hastyF, late, refused, reverted, revived>>

-----------------------------------------------------------------------------
(* Requests *)

Ask(chain) == asks' = [asks EXCEPT ![chain] = @ + 1]
Calls == Len(answers) + FoldFunction(+, 0, asks)

\* A worker is busy with a job that has a progress and a total of zero.
Divides == \E j \in zero : phase[j] \in AtWorker

\* GET /api/tasks/workers and /api/tasks/failed.  The progress of each job at a
\* worker is its count divided by its total: when one of them has a total of zero
\* the request fails, and nothing is shown of the other workers either.
TasksRead(chain) ==
    /\ Head(chain) = "workers" => ~Divides
    /\ asks[chain] > 0 /\ asks' = [asks EXCEPT ![chain] = @ - 1]
    /\ answers' = Append(answers,
         [chain |-> chain, ok |-> TRUE, overtaken |-> FALSE, undoes |-> {},
          running |-> [j \in Jobs |-> IF Head(chain) = "workers" /\ phase[j] \in AtWorker
                                      THEN count[j] ELSE NotShown],
          failed |-> {j \in Jobs : Head(chain) = "failed" /\ phase[j] = "failed"}])
    /\ hastyW' = IF Head(chain) = "workers"
                 THEN {j \in Jobs : phase[j] \in {"finishing", "failing"}} ELSE hastyW
    /\ hastyF' = IF Head(chain) = "failed"
                 THEN {j \in Jobs : phase[j] = "failing"} ELSE hastyF
    /\ UNCHANGED <<boardVars, stream, pageVars, silent, late, refused, reverted, revived>>

TasksFail(chain) ==
    /\ MayFail \/ (Head(chain) = "workers" /\ Divides)
    /\ asks[chain] > 0 /\ asks' = [asks EXCEPT ![chain] = @ - 1]
    /\ answers' = Append(answers,
         [chain |-> chain, ok |-> FALSE, overtaken |-> FALSE, undoes |-> {},
          running |-> NoJob, failed |-> {}])
    /\ UNCHANGED <<boardVars, stream, pageVars, historyVars>>

\* An answer replaces the list it is for.
Show(a) ==
    LET list == Head(a.chain) IN
       /\ running' = IF list = "workers" THEN a.running ELSE running
       /\ failed' = IF list = "failed" THEN a.failed ELSE failed
       /\ loaded' = (loaded \/ list = "workers")
       /\ reverted' = IF list = "workers" THEN a.undoes ELSE reverted
       /\ revived' = IF list = "failed" THEN {j \in a.failed : phase[j] # "failed"} ELSE revived
       /\ late' = IF a.overtaken THEN late \union {list} ELSE late \ {list}
       /\ refused' = IF a.overtaken THEN refused ELSE refused \ {list}

\* An error leaves the list as it is.
Keep(a) ==
    /\ refused' = refused \union {l \in {Head(a.chain)} : ~a.overtaken}
    /\ UNCHANGED <<running, failed, loaded, late, reverted, revived>>

\* In either case the next request of the chain is sent.
TasksAnswer(k) ==
    /\ k \in DOMAIN answers
    /\ IF answers[k].ok THEN Show(answers[k]) ELSE Keep(answers[k])
    /\ answers' = [i \in 1 .. Len(answers) - 1 |->
          IF i < k
          THEN [answers[i] EXCEPT !.overtaken =
                  @ \/ Head(answers[i].chain) = Head(answers[k].chain)]
          ELSE answers[i + 1]]
    /\ IF Len(answers[k].chain) > 1 THEN Ask(Tail(answers[k].chain)) ELSE UNCHANGED asks
    /\ UNCHANGED <<boardVars, stream, removing, confirmed, silent, hastyW, hastyF>>

-----------------------------------------------------------------------------
(* Events *)

\* Mutant: the end of a job is taken for its progress.
FetchesNoEnd(e) ==
    CASE e.status \in {"queued", "started"} -> {<<"workers">>}
      [] e.status = "progress" /\ loaded /\ running[e.job] = NotShown -> {<<"workers">>}
      [] e.status = "failed" -> {<<"failed", "workers">>}
      [] OTHER -> {}

\* What _workerListener fetches.  It fails, and fetches nothing, when progress
\* is told before the first answer: _runningJobs is null.
Fetches(e) ==
    CASE e.status \in {"queued", "started", "finished"} -> {<<"workers">>}
      [] e.status = "progress" /\ loaded /\ running[e.job] = NotShown -> {<<"workers">>}
      [] e.status = "failed" -> {<<"failed", "workers">>}
      [] OTHER -> {}

WorkerListener ==
    /\ stream # <<>> /\ stream' = Tail(stream) /\ Calls < MaxCalls
    /\ LET e == Head(stream)
           known == e.status = "progress" /\ running[e.job] # NotShown
       IN  /\ asks' = [c \in Chains |-> IF c \in Fetches(e) THEN asks[c] + 1 ELSE asks[c]]
           /\ running' = IF known THEN [running EXCEPT ![e.job] = e.current] ELSE running
           /\ reverted' = IF known THEN reverted \ {e.job} ELSE reverted
           /\ answers' = IF e.status # "progress" THEN answers
                ELSE [k \in DOMAIN answers |->
                        [answers[k] EXCEPT !.undoes =
                           @ \union {j \in {e.job} : answers[k].running[j] \notin
                                                         {NotShown, e.current}}]]
    /\ UNCHANGED <<boardVars, failed, loaded, removing, confirmed,
                   silent, hastyW, hastyF, late, refused, revived>>

-----------------------------------------------------------------------------
(* Removing a failed job *)

RemoveFailedTask(j) ==
    /\ j \in failed /\ j \notin removing \union confirmed
    /\ removing' = removing \union {j}
    /\ UNCHANGED <<boardVars, stream, callVars, running, failed, loaded, confirmed,
                   historyVars>>

\* DELETE /api/tasks/failed/<id>; the answer is an error when the job is gone.
\* (A removal whose answer is lost is one by others before an error.)
ServerRemoves(j) ==
    /\ j \in removing /\ removing' = removing \ {j}
    /\ \/ Remove(j) /\ confirmed' = confirmed \union {j}
       \/ (phase[j] # "failed" \/ MayFail) /\ UNCHANGED <<boardVars, confirmed>>
    /\ UNCHANGED <<stream, callVars, running, failed, loaded, historyVars>>

RemoveRow(j) ==
    /\ j \in confirmed /\ confirmed' = confirmed \ {j}
    /\ failed' = failed \ {j}
    /\ revived' = revived \ {j}
    /\ UNCHANGED <<boardVars, stream, callVars, running, loaded, removing,
                   silent, hastyW, hastyF, late, refused, reverted>>

-----------------------------------------------------------------------------
PageStep ==
    \/ \E c \in Chains : TasksRead(c) \/ TasksFail(c)
    \/ \E k \in 1 .. MaxCalls + 1 : TasksAnswer(k)
    \/ WorkerListener

TasksNext ==
    \/ \E j \in Jobs : JobMoves(j) \/ JobTells(j) \/ RemoveFailedTask(j) \/ ServerRemoves(j)
                       \/ RemoveRow(j)
    \/ OthersRemove \/ Boot
    \/ PageStep

TasksSpec == TasksInit /\ [][TasksNext]_tasksVars
=============================================================================
