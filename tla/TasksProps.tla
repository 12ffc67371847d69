----------------------------- MODULE TasksProps -----------------------------
(* What the page of background tasks shows of the jobs. *)
EXTENDS TasksClient

\* Every event has been handled, every request answered.
AllAnswered == stream = <<>> /\ answers = <<>> /\ \A c \in Chains : asks[c] = 0

Ending == {"finishing", "raised", "failing"}

(***************************************************************************)
(* When things have settled, each job that has been started is shown as    *)
(* the job of a worker, with the progress it has published last unless an  *)
(* older answer came after that event.  A job shown there that has left    *)
(* its worker left it without an event (an error of the site was caught,   *)
(* the worker died), or had published its end already when the workers     *)
(* were last read: "finished" and "failed" are published before RQ takes   *)
(* the job from its worker, and nothing is published after that.  None of  *)
(* this holds of a page whose last request for the workers failed: as long *)
(* as one worker is busy with a job that was started with a total of zero, *)
(* the server divides by that total and answers with an error, and the     *)
(* page keeps its old list, which lacks started jobs and shows ended ones. *)
(* (_workerListener, _fetchWorkers, finish_job, handle_exception)          *)
(***************************************************************************)
WorkersFollow ==
    AllAnswered /\ "workers" \notin late \union refused =>
       \A j \in Jobs :
          /\ phase[j] = "started" =>
                running[j] = count[j] \/ (running[j] # NotShown /\ j \in reverted)
          /\ running[j] # NotShown => phase[j] \in AtWorker \/ j \in silent \union hastyW

(***************************************************************************)
(* When things have settled, each failed job is listed as such, unless it  *)
(* had not been moved to the failed jobs when these were last read, or the *)
(* last request for them failed; and a job listed there that has been removed  *)
(* was removed by others, or came back with an answer that was read before *)
(* its removal.                                                            *)
(* (_fetchFailedTasks, removeFailedTask, handle_exception)                 *)
(***************************************************************************)
FailedFollow ==
    AllAnswered /\ "failed" \notin late \union refused /\ confirmed = {} =>
       \A j \in Jobs :
          /\ phase[j] = "failed" => j \in failed \/ j \in hastyF
          /\ j \in failed => phase[j] = "failed" \/ j \in silent \union revived

(***************************************************************************)
(* Both lists of the page follow the jobs, as far as said above.           *)
(***************************************************************************)
TasksFollow == WorkersFollow /\ FailedFollow
=============================================================================
