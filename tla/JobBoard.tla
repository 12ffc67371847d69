------------------------------- MODULE JobBoard -------------------------------
(***************************************************************************)
(* What the life of background jobs promises to those who watch it: in     *)
(* which order a job goes from phase to phase, and what is published while *)
(* it is in which phase.  JobLifecycle implements this; TasksClient builds *)
(* on it.                                                                  *)
(*                                                                         *)
(* A job that is "finishing" or "failing" has published that it has ended, *)
(* and is still shown as the job of its worker.                            *)
(***************************************************************************)
EXTENDS Integers

CONSTANTS Jobs

VARIABLES
    phase,        \* of each job
    described,    \* jobs whose description has been saved and published
    count,        \* progress of each job, as saved
    zero          \* jobs whose progress has been saved with a total of zero

boardVars == <<phase, described, count, zero>>

NoCount == -1
Counts == Nat \union {NoCount}

AtWorker == {"taken", "started", "finishing", "raised", "failing"}
Phases == AtWorker \union {"none", "queued", "over", "failed", "gone"}

BoardTypes ==
    /\ phase \in [Jobs -> Phases] /\ described \subseteq Jobs /\ count \in [Jobs -> Counts]
    /\ zero \subseteq Jobs

BoardInit ==
    /\ phase = [j \in Jobs |-> "none"] /\ described = {}
    /\ count = [j \in Jobs |-> NoCount] /\ zero = {}

Move(j, from, to) == phase[j] \in from /\ phase' = [phase EXCEPT ![j] = to]

\* The progress and the total of j are saved anew; those of others stay.
Save(j) ==
    /\ count'[j] \in Counts /\ count' = [count EXCEPT ![j] = count'[j]]
    /\ zero' \in {zero \union {j}, zero \ {j}}

\* Nothing is published of these.
Queue(j) == Move(j, {"none"}, "queued") /\ UNCHANGED <<described, count, zero>>
Take(j) == Move(j, {"queued"}, "taken") /\ UNCHANGED <<described, count, zero>>
Return(j) == Move(j, {"finishing"}, "over") /\ UNCHANGED <<described, count, zero>>
Swallow(j) == Move(j, {"started"}, "over") /\ UNCHANGED <<described, count, zero>>
Die(j) == Move(j, AtWorker, "over") /\ UNCHANGED <<described, count, zero>>
Raise(j) ==
    Move(j, {"taken", "started", "finishing"}, "raised") /\ Save(j) /\ UNCHANGED described
Quarantine(j) == Move(j, {"failing"}, "failed") /\ UNCHANGED <<described, count, zero>>
Remove(j) == Move(j, {"failed"}, "gone") /\ UNCHANGED <<described, count, zero>>
Empty ==
    /\ phase' = [j \in Jobs |-> IF phase[j] = "failed" THEN "gone" ELSE phase[j]]
    /\ UNCHANGED <<described, count, zero>>

\* These publish "queued", "started", "progress", "finished" and "failed".
Describe(j) ==
    /\ phase[j] # "none" /\ j \notin described
    /\ described' = described \union {j} /\ UNCHANGED phase
    /\ count' = [count EXCEPT ![j] = NoCount] /\ zero' = zero \ {j}
Start(j) == Move(j, {"taken"}, "started") /\ Save(j) /\ UNCHANGED described
Progress(j) == phase[j] = "started" /\ Save(j) /\ UNCHANGED <<phase, described>>
Finish(j) == Move(j, {"started"}, "finishing") /\ Save(j) /\ UNCHANGED described
Fail(j) == Move(j, {"raised"}, "failing") /\ UNCHANGED <<described, count, zero>>

Silent(j) ==
    \/ Queue(j) \/ Take(j) \/ Return(j) \/ Swallow(j) \/ Die(j)
    \/ Raise(j) \/ Quarantine(j) \/ Remove(j)
Told(j) == Describe(j) \/ Start(j) \/ Progress(j) \/ Finish(j) \/ Fail(j)

BoardNext == Empty \/ \E j \in Jobs : Silent(j) \/ Told(j)
BoardSpec == BoardInit /\ [][BoardNext]_boardVars
=============================================================================
