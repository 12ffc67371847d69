-------------------------- MODULE JobLifecycle_proofs --------------------------
(***************************************************************************)
(* Proofs about the life of background jobs, for any number of jobs and    *)
(* workers and for loops of any length, and that JobLifecycle implements   *)
(* JobBoard.                                                               *)
(***************************************************************************)
EXTENDS JobProps, TLAPS

USE DEF vars, workerVars, Goto, Say, SaveCopy, Leave

-----------------------------------------------------------------------------
(* First-in first-out queues *)

\* Where an element of a queue comes from when a job is appended ...
LEMMA AppendElements ==
    ASSUME NEW S, NEW q \in Seq(S), NEW e \in S
    PROVE  /\ Append(q, e) \in Seq(S)
           /\ \A i \in DOMAIN q : i \in DOMAIN Append(q, e) /\ Append(q, e)[i] = q[i]
           /\ \A i \in DOMAIN Append(q, e) :
                 \/ Append(q, e)[i] = e
                 \/ i \in DOMAIN q /\ Append(q, e)[i] = q[i]
           /\ \E i \in DOMAIN Append(q, e) : Append(q, e)[i] = e
<1>1. DOMAIN q = 1 .. Len(q) /\ Len(q) \in Nat
  OBVIOUS
<1>2. DOMAIN Append(q, e) = 1 .. Len(q) + 1
  OBVIOUS
<1>3. Len(q) + 1 \in DOMAIN Append(q, e) /\ Append(q, e)[Len(q) + 1] = e
  BY <1>1, <1>2
<1>4. \A i \in DOMAIN q : i \in DOMAIN Append(q, e) /\ Append(q, e)[i] = q[i]
  BY <1>1, <1>2
<1>5. \A i \in DOMAIN Append(q, e) : i = Len(q) + 1 \/ i \in DOMAIN q
  BY <1>1, <1>2
<1>6. Append(q, e) \in Seq(S)
  OBVIOUS
<1> QED
  BY <1>3, <1>4, <1>5, <1>6, Zenon

\* ... and where they go when the head is taken.
LEMMA TailElements ==
    ASSUME NEW S, NEW q \in Seq(S), q # <<>>
    PROVE  /\ Tail(q) \in Seq(S) /\ Head(q) \in S
           /\ \A i \in DOMAIN Tail(q) : \E k \in DOMAIN q : Tail(q)[i] = q[k]
           /\ \A i \in DOMAIN q :
                 q[i] = Head(q) \/ \E j \in DOMAIN Tail(q) : Tail(q)[j] = q[i]
           /\ \E k \in DOMAIN q : Head(q) = q[k]
<1>1. DOMAIN q = 1 .. Len(q) /\ Len(q) \in Nat \ {0} /\ Len(Tail(q)) = Len(q) - 1
  OBVIOUS
<1>2. DOMAIN Tail(q) = 1 .. Len(q) - 1 /\ \A i \in 1 .. Len(q) - 1 : Tail(q)[i] = q[i + 1]
  BY <1>1
<1>3. ASSUME NEW i \in DOMAIN q, i # 1
      PROVE  \E j \in DOMAIN Tail(q) : Tail(q)[j] = q[i]
  <2>1. i - 1 \in DOMAIN Tail(q) /\ Tail(q)[i - 1] = q[i]
    BY <1>1, <1>2, <1>3
  <2> QED
    BY <2>1
<1>4. 1 \in DOMAIN q /\ q[1] = Head(q)
  BY <1>1
<1>5. ASSUME NEW i \in DOMAIN Tail(q)
      PROVE  \E k \in DOMAIN q : Tail(q)[i] = q[k]
  <2>1. i + 1 \in DOMAIN q /\ Tail(q)[i] = q[i + 1]
    BY <1>1, <1>2
  <2> QED
    BY <2>1
<1>6. Tail(q) \in Seq(S) /\ Head(q) \in S
  OBVIOUS
<1> QED
  BY <1>3, <1>4, <1>5, <1>6, Zenon

\* A queue in which nothing occurs twice stays one when something new is
\* appended ...
LEMMA AppendDistinct ==
    ASSUME NEW S, NEW q \in Seq(S), NEW e \in S,
           \A i \in DOMAIN q : q[i] # e,
           \A i, k \in DOMAIN q : q[i] = q[k] => i = k
    PROVE  \A i, k \in DOMAIN Append(q, e) : Append(q, e)[i] = Append(q, e)[k] => i = k
<1>1. DOMAIN q = 1 .. Len(q) /\ Len(q) \in Nat /\ DOMAIN Append(q, e) = 1 .. Len(q) + 1
  OBVIOUS
<1>2. \A i \in 1 .. Len(q) : Append(q, e)[i] = q[i]
  OBVIOUS
<1>3. Append(q, e)[Len(q) + 1] = e
  OBVIOUS
<1>4. \A i \in 1 .. Len(q) + 1 : i \in 1 .. Len(q) \/ i = Len(q) + 1
  BY <1>1
<1> QED
  BY <1>1, <1>2, <1>3, <1>4

\* ... and when its head is taken, which is then no longer in it.
LEMMA TailDistinct ==
    ASSUME NEW S, NEW q \in Seq(S), q # <<>>,
           \A i, k \in DOMAIN q : q[i] = q[k] => i = k
    PROVE  /\ \A i, k \in DOMAIN Tail(q) : Tail(q)[i] = Tail(q)[k] => i = k
           /\ \A i \in DOMAIN Tail(q) : Tail(q)[i] # Head(q)
<1>1. DOMAIN q = 1 .. Len(q) /\ Len(q) \in Nat \ {0} /\ Len(Tail(q)) = Len(q) - 1
  OBVIOUS
<1>2. DOMAIN Tail(q) = 1 .. Len(q) - 1 /\ \A i \in 1 .. Len(q) - 1 : Tail(q)[i] = q[i + 1]
  BY <1>1
<1>3. 1 \in DOMAIN q /\ Head(q) = q[1]
  BY <1>1
<1>4. \A i \in 1 .. Len(q) - 1 : i + 1 \in DOMAIN q /\ i + 1 # 1
  BY <1>1
<1> QED
  BY <1>1, <1>2, <1>3, <1>4

-----------------------------------------------------------------------------
(* Types, and progress with its total *)

\* At the start no job has any metadata.
LEMMA TypeInit == Init => TypeOK /\ CountsPaired
BY DEF Init, TypeOK, CountsPaired, EmptyMeta, Metas, Counts, NoCount

\* Changing the counts of a job's metadata.
LEMMA MetaUpdates ==
    ASSUME NEW m \in Metas, NEW c \in Counts, NEW t \in Counts
    PROVE  /\ WithCounts(m, t, c) \in Metas /\ WithCurrent(m, c) \in Metas
           /\ WithCounts(m, t, c).total = t /\ WithCounts(m, t, c).current = c
           /\ WithCounts(m, t, c).described = m.described
           /\ WithCurrent(m, c).total = m.total /\ WithCurrent(m, c).current = c
           /\ WithCurrent(m, c).described = m.described
BY DEF WithCounts, WithCurrent, Metas

\* No step breaks the types, or separates progress from total.
LEMMA TypeNext == TypeOK /\ CountsPaired /\ [Next]_vars => (TypeOK /\ CountsPaired)'
<1> SUFFICES ASSUME TypeOK /\ CountsPaired, [Next]_vars PROVE (TypeOK /\ CountsPaired)'
  OBVIOUS
<1>1. ASSUME NEW j \in Jobs, EnqueueCall(j) PROVE (TypeOK /\ CountsPaired)'
  <2>1. Append(queue, j) \in Seq(Jobs)
    BY AppendElements DEF TypeOK
  <2> QED
    BY <1>1, <2>1 DEF TypeOK, CountsPaired, EnqueueCall
<1>2. ASSUME NEW j \in Jobs, InitJob(j) PROVE (TypeOK /\ CountsPaired)'
  BY <1>2 DEF TypeOK, CountsPaired, EmptyMeta, Metas, Counts, NoCount, InitJob
<1>3. ASSUME NEW j \in Jobs, SchedulerDies(j) PROVE (TypeOK /\ CountsPaired)'
  BY <1>3 DEF TypeOK, CountsPaired, EmptyMeta, Metas, Counts, NoCount, SchedulerDies
<1>4. ASSUME NEW j \in Jobs, DeleteFailed(j) PROVE (TypeOK /\ CountsPaired)'
  BY <1>4 DEF TypeOK, CountsPaired, EmptyMeta, Metas, Counts, NoCount, DeleteFailed
<1>5. ASSUME NEW w \in Workers, Take(w) PROVE (TypeOK /\ CountsPaired)'
  <2>1. Tail(queue) \in Seq(Jobs) /\ Head(queue) \in Jobs
    BY <1>5, TailElements DEF TypeOK, Take
  <2> QED
    BY <1>5, <2>1 DEF TypeOK, CountsPaired, Take
<1>6. ASSUME NEW w \in Workers, StartPlain(w) PROVE (TypeOK /\ CountsPaired)'
  BY <1>6 DEF TypeOK, CountsPaired, EmptyMeta, Metas, Counts, NoCount, StartPlain
<1>7. ASSUME NEW w \in Workers, StartFetch(w) PROVE (TypeOK /\ CountsPaired)'
  <2>1. PICK t \in 0 .. MaxTotal, n \in {1, Chunk} :
          /\ wtotal' = [wtotal EXCEPT ![w] = t]
          /\ wstep' = [wstep EXCEPT ![w] = n]
          /\ wcopy' = [wcopy EXCEPT ![w] = WithCounts(meta[wjob[w]], t, 0)]
    BY <1>7 DEF StartFetch
  <2>2. /\ t \in Nat /\ n \in Nat \ {0} /\ 0 \in Counts /\ t \in Counts
        /\ t # NoCount /\ 0 # NoCount
    BY ConstantsAssumption DEF Counts, NoCount
  <2> DEFINE new == WithCounts(meta[wjob[w]], t, 0)
  <2>10. meta[wjob[w]] \in Metas
    BY DEF TypeOK
  <2>3. new \in Metas /\ new.total = t /\ new.current = 0
    BY <2>10, <2>2, MetaUpdates
  <2>11. wcopy' = [wcopy EXCEPT ![w] = new]
    BY <2>1
  <2> HIDE DEF new
  <2>4. /\ UNCHANGED <<place, queue, sched, meta, said, wjob, wdone, early>>
        /\ wpc' = [wpc EXCEPT ![w] = "start"]
    BY <1>7 DEF StartFetch
  <2>5. TypeOK'
    BY <2>1, <2>2, <2>3, <2>4, <2>11 DEF TypeOK
  <2>6. wcopy'[w].total # NoCount /\ wcopy'[w].current # NoCount
    BY <2>2, <2>3, <2>11 DEF TypeOK
  <2>7. \A v \in Workers \ {w} : wpc'[v] = wpc[v] /\ wcopy'[v] = wcopy[v]
    BY <2>4, <2>11 DEF TypeOK
  <2> QED
    BY <2>4, <2>5, <2>6, <2>7 DEF CountsPaired
<1>8. ASSUME NEW w \in Workers, StartSave(w) PROVE (TypeOK /\ CountsPaired)'
  BY <1>8 DEF TypeOK, CountsPaired, EmptyMeta, Metas, Counts, NoCount, StartSave
<1>9. ASSUME NEW w \in Workers, UpdateFetch(w) PROVE (TypeOK /\ CountsPaired)'
  <2> DEFINE new == WithCurrent(meta[wjob[w]], wdone[w] + wstep[w])
  <2>1. /\ wcopy' = [wcopy EXCEPT ![w] = new] /\ wpc' = [wpc EXCEPT ![w] = "update"]
        /\ UNCHANGED <<place, queue, sched, meta, said, wjob, wtotal, wstep, wdone, early>>
        /\ meta[wjob[w]].total # NoCount
    BY <1>9 DEF UpdateFetch
  <2>10. meta[wjob[w]] \in Metas /\ wdone[w] + wstep[w] # NoCount /\ wdone[w] + wstep[w] \in Counts
    BY DEF TypeOK, Counts, NoCount
  <2>2. new \in Metas /\ new.total # NoCount /\ new.current # NoCount
    BY <2>1, <2>10, MetaUpdates
  <2> HIDE DEF new
  <2>3. TypeOK'
    BY <2>1, <2>2 DEF TypeOK
  <2>4. wcopy'[w] = new /\ \A v \in Workers \ {w} : wpc'[v] = wpc[v] /\ wcopy'[v] = wcopy[v]
    BY <2>1 DEF TypeOK
  <2> QED
    BY <2>1, <2>2, <2>3, <2>4 DEF CountsPaired
<1>10. ASSUME NEW w \in Workers, UpdateRefused(w) PROVE (TypeOK /\ CountsPaired)'
  BY <1>10 DEF TypeOK, CountsPaired, EmptyMeta, Metas, Counts, NoCount, UpdateRefused
<1>11. ASSUME NEW w \in Workers, UpdateSave(w) PROVE (TypeOK /\ CountsPaired)'
  <2>1. /\ meta' = [meta EXCEPT ![wjob[w]] = wcopy[w]]
        /\ wdone' = [wdone EXCEPT ![w] = wcopy[w].current]
        /\ UNCHANGED <<place, queue, sched, wjob, wcopy, wtotal, wstep, early>>
    BY <1>11 DEF UpdateSave
  <2>2. wpc' = [wpc EXCEPT ![w] = "body"] \/ wpc' = [wpc EXCEPT ![w] = "raised"]
    BY <1>11 DEF UpdateSave
  <2>3. said' = [said EXCEPT ![wjob[w]] = "progress"] \/ said' = said
    BY <1>11 DEF UpdateSave
  <2>4. /\ wcopy[w] \in Metas /\ wcopy[w].current \in Nat
        /\ wcopy[w].total # NoCount /\ wcopy[w].current # NoCount
    BY <1>11 DEF UpdateSave, TypeOK, CountsPaired, Metas, Counts
  <2>5. TypeOK'
    BY <2>1, <2>2, <2>3, <2>4 DEF TypeOK
  <2>6. \A j \in Jobs : meta'[j].total = NoCount <=> meta'[j].current = NoCount
    BY <2>1, <2>4 DEF TypeOK, CountsPaired
  <2>7. \A v \in Workers : wpc'[v] \in {"start", "update", "finish"} =>
           wpc[v] = wpc'[v] /\ wcopy'[v] = wcopy[v]
    BY <2>1, <2>2 DEF TypeOK
  <2> QED
    BY <2>5, <2>6, <2>7 DEF CountsPaired
<1>12. ASSUME NEW w \in Workers, FinishFetch(w) PROVE (TypeOK /\ CountsPaired)'
  <2> DEFINE new == WithCurrent(meta[wjob[w]], meta[wjob[w]].total)
  <2>1. /\ wcopy' = [wcopy EXCEPT ![w] = new] /\ wpc' = [wpc EXCEPT ![w] = "finish"]
        /\ UNCHANGED <<place, queue, sched, meta, said, wjob, wtotal, wstep, wdone, early>>
        /\ meta[wjob[w]].current # NoCount
    BY <1>12 DEF FinishFetch
  <2>10. /\ meta[wjob[w]] \in Metas /\ meta[wjob[w]].total \in Counts
        /\ meta[wjob[w]].total # NoCount
    BY <2>1 DEF TypeOK, CountsPaired, Metas
  <2>2. new \in Metas /\ new.total # NoCount /\ new.current # NoCount
    BY <2>10, MetaUpdates
  <2> HIDE DEF new
  <2>3. TypeOK'
    BY <2>1, <2>2 DEF TypeOK
  <2>4. wcopy'[w] = new /\ \A v \in Workers \ {w} : wpc'[v] = wpc[v] /\ wcopy'[v] = wcopy[v]
    BY <2>1 DEF TypeOK
  <2> QED
    BY <2>1, <2>2, <2>3, <2>4 DEF CountsPaired
<1>13. ASSUME NEW w \in Workers, FinishSave(w) PROVE (TypeOK /\ CountsPaired)'
  BY <1>13 DEF TypeOK, CountsPaired, EmptyMeta, Metas, Counts, NoCount, FinishSave
<1>14. ASSUME NEW w \in Workers, FinishPlain(w) PROVE (TypeOK /\ CountsPaired)'
  BY <1>14 DEF TypeOK, CountsPaired, EmptyMeta, Metas, Counts, NoCount, FinishPlain
<1>15. ASSUME NEW w \in Workers, Return(w) PROVE (TypeOK /\ CountsPaired)'
  BY <1>15 DEF TypeOK, CountsPaired, EmptyMeta, Metas, Counts, NoCount, Return
<1>16. ASSUME NEW w \in Workers, Swallow(w) PROVE (TypeOK /\ CountsPaired)'
  BY <1>16 DEF TypeOK, CountsPaired, EmptyMeta, Metas, Counts, NoCount, Swallow
<1>17. ASSUME NEW w \in Workers, Raise(w) PROVE (TypeOK /\ CountsPaired)'
  BY <1>17 DEF TypeOK, CountsPaired, EmptyMeta, Metas, Counts, NoCount, Raise
<1>18. ASSUME NEW w \in Workers, HandleException(w) PROVE (TypeOK /\ CountsPaired)'
  BY <1>18 DEF TypeOK, CountsPaired, EmptyMeta, Metas, Counts, NoCount, HandleException
<1>19. ASSUME NEW w \in Workers, Quarantine(w) PROVE (TypeOK /\ CountsPaired)'
  BY <1>19 DEF TypeOK, CountsPaired, EmptyMeta, Metas, Counts, NoCount, Quarantine
<1>20. ASSUME NEW w \in Workers, WorkerDies(w) PROVE (TypeOK /\ CountsPaired)'
  BY <1>20 DEF TypeOK, CountsPaired, EmptyMeta, Metas, Counts, NoCount, WorkerDies
<1>21. ASSUME Boot PROVE (TypeOK /\ CountsPaired)'
  BY <1>21 DEF TypeOK, CountsPaired, EmptyMeta, Metas, Counts, NoCount, Boot
<1>22. ASSUME UNCHANGED vars PROVE (TypeOK /\ CountsPaired)'
  BY <1>22 DEF TypeOK, CountsPaired, EmptyMeta, Metas, Counts, NoCount
<1> QED
  BY <1>1, <1>2, <1>3, <1>4, <1>5, <1>6, <1>7, <1>8, <1>9, <1>10, <1>11, <1>12,
     <1>13, <1>14, <1>15, <1>16, <1>17, <1>18, <1>19, <1>20, <1>21, <1>22
     DEF Next, WorkerStep

\* Job metadata always has a total when it has a progress, whatever the order
\* in which scheduler and worker save it.
THEOREM JobTypesCorrect == Spec => [](TypeOK /\ CountsPaired)
<1> QED
  BY TypeInit, TypeNext, PTL DEF Spec

-----------------------------------------------------------------------------
(* One place for each job *)

\* At the start nothing is queued and nobody works.
LEMMA PlacementInit == Init => Placement
BY DEF Init, Placement, Busy

\* The worker w is done with its job.
Leaves(w) ==
    /\ wpc[w] # "idle" /\ wpc' = [wpc EXCEPT ![w] = "idle"]
    /\ \E where \in {"ended", "failed", "lost"} : place' = [place EXCEPT ![wjob[w]] = where]
    /\ UNCHANGED <<queue, sched, meta, said, wjob, early>>

\* Ending a job keeps the others where they are.
LEMMA PlacementLeave ==
    ASSUME TypeOK, Placement, NEW w \in Workers, Leaves(w) PROVE Placement'
<1>1. PICK where \in {"ended", "failed", "lost"} : place' = [place EXCEPT ![wjob[w]] = where]
  BY DEF Leaves
<1>2. /\ wpc[w] # "idle" /\ wpc' = [wpc EXCEPT ![w] = "idle"] /\ queue' = queue /\ wjob' = wjob
  BY DEF Leaves
<1>3. \A i \in DOMAIN queue : queue[i] \in Jobs /\ queue[i] # wjob[w]
  BY <1>2 DEF TypeOK, Placement, Busy
<1>4. \A i \in DOMAIN queue' : place'[queue'[i]] = "queued"
  BY <1>1, <1>2, <1>3 DEF Placement, TypeOK
<1>5. \A v \in Workers : wpc'[v] # "idle" => v # w /\ wpc[v] # "idle" /\ wjob[v] # wjob[w]
  BY <1>2 DEF Placement, Busy, TypeOK
<1>6. \A v \in Workers : wpc'[v] # "idle" => place'[wjob'[v]] = "running"
  BY <1>1, <1>2, <1>5 DEF Placement, Busy, TypeOK
<1> QED
  BY <1>2, <1>4, <1>5, <1>6 DEF Placement, Busy

\* No step puts a job in two places.
LEMMA PlacementNext == TypeOK /\ Placement /\ [Next]_vars => Placement'
<1> SUFFICES ASSUME TypeOK /\ Placement, [Next]_vars PROVE Placement'
  OBVIOUS
<1>1. ASSUME NEW j \in Jobs, EnqueueCall(j) PROVE Placement'
  <2>1. queue' = Append(queue, j) /\ place' = [place EXCEPT ![j] = "queued"] /\ place[j] = "none"
    BY <1>1 DEF EnqueueCall
  <2>2. \A i \in DOMAIN queue : queue[i] # j
    BY <2>1 DEF Placement
  <2>3. \A i, k \in DOMAIN queue' : queue'[i] = queue'[k] => i = k
    BY <2>1, <2>2, AppendDistinct DEF TypeOK, Placement
  <2>4. \A i \in DOMAIN queue' : queue'[i] = j \/ (\E k \in DOMAIN queue : queue'[i] = queue[k])
    BY <2>1, AppendElements DEF TypeOK
  <2>5. \A i \in DOMAIN queue : queue[i] \in Jobs
    BY DEF TypeOK
  <2>6. \A i \in DOMAIN queue' : place'[queue'[i]] = "queued"
    BY <2>1, <2>4, <2>5 DEF Placement, TypeOK
  <2>7. \A w \in Workers : wpc[w] # "idle" => place'[wjob[w]] = "running"
    BY <2>1 DEF Placement, Busy, TypeOK
  <2> QED
    BY <1>1, <2>3, <2>6, <2>7 DEF EnqueueCall, Placement, Busy
<1>2. ASSUME NEW j \in Jobs, InitJob(j) PROVE Placement'
  BY <1>2 DEF TypeOK, Placement, Busy, InitJob
<1>3. ASSUME NEW j \in Jobs, SchedulerDies(j) PROVE Placement'
  BY <1>3 DEF TypeOK, Placement, Busy, SchedulerDies
<1>4. ASSUME NEW j \in Jobs, DeleteFailed(j) PROVE Placement'
  BY <1>4 DEF TypeOK, Placement, Busy, DeleteFailed
<1>5. ASSUME NEW w \in Workers, Take(w) PROVE Placement'
  <2>1. /\ queue' = Tail(queue) /\ place' = [place EXCEPT ![Head(queue)] = "running"]
        /\ queue # <<>> /\ wpc[w] = "idle" /\ wpc' = [wpc EXCEPT ![w] = "taken"]
        /\ wjob' = [wjob EXCEPT ![w] = Head(queue)]
    BY <1>5 DEF Take
  <2>2. /\ \A i, k \in DOMAIN queue' : queue'[i] = queue'[k] => i = k
        /\ \A i \in DOMAIN queue' : queue'[i] # Head(queue)
    BY <2>1, TailDistinct DEF TypeOK, Placement
  <2>3. /\ Head(queue) \in Jobs /\ \E k \in DOMAIN queue : Head(queue) = queue[k]
        /\ \A i \in DOMAIN queue' : \E k \in DOMAIN queue : queue'[i] = queue[k]
    BY <2>1, TailElements DEF TypeOK
  <2>4. \A i \in DOMAIN queue : queue[i] \in Jobs
    BY DEF TypeOK
  <2>5. place[Head(queue)] = "queued"
    BY <2>3 DEF Placement
  <2>6. \A i \in DOMAIN queue' : place'[queue'[i]] = "queued"
    BY <2>1, <2>2, <2>3, <2>4 DEF Placement, TypeOK
  <2>7. \A v \in Workers : wpc[v] # "idle" => wjob[v] # Head(queue)
    BY <2>5 DEF Placement, Busy
  <2>8. \A v \in Workers : wpc'[v] # "idle" => place'[wjob'[v]] = "running"
    BY <2>1, <2>3, <2>7 DEF Placement, Busy, TypeOK
  <2>9. \A u, v \in Workers :
           wpc'[u] # "idle" /\ wpc'[v] # "idle" /\ wjob'[u] = wjob'[v] => u = v
    BY <2>1, <2>7 DEF Placement, Busy, TypeOK
  <2> QED
    BY <2>2, <2>6, <2>8, <2>9 DEF Placement, Busy
<1>6. ASSUME NEW w \in Workers, StartPlain(w) PROVE Placement'
  <2>1. /\ UNCHANGED <<place, queue, wjob>> /\ wpc[w] # "idle"
        /\ \A v \in Workers \ {w} : wpc'[v] = wpc[v]
    BY <1>6 DEF StartPlain, TypeOK
  <2> QED
    BY <2>1 DEF Placement, Busy
<1>7. ASSUME NEW w \in Workers, StartFetch(w) PROVE Placement'
  <2>1. /\ UNCHANGED <<place, queue, wjob>> /\ wpc[w] # "idle"
        /\ \A v \in Workers \ {w} : wpc'[v] = wpc[v]
    BY <1>7 DEF StartFetch, TypeOK
  <2> QED
    BY <2>1 DEF Placement, Busy
<1>8. ASSUME NEW w \in Workers, StartSave(w) PROVE Placement'
  <2>1. /\ UNCHANGED <<place, queue, wjob>> /\ wpc[w] # "idle"
        /\ \A v \in Workers \ {w} : wpc'[v] = wpc[v]
    BY <1>8 DEF StartSave, TypeOK
  <2> QED
    BY <2>1 DEF Placement, Busy
<1>9. ASSUME NEW w \in Workers, UpdateFetch(w) PROVE Placement'
  <2>1. /\ UNCHANGED <<place, queue, wjob>> /\ wpc[w] # "idle"
        /\ \A v \in Workers \ {w} : wpc'[v] = wpc[v]
    BY <1>9 DEF UpdateFetch, TypeOK
  <2> QED
    BY <2>1 DEF Placement, Busy
<1>10. ASSUME NEW w \in Workers, UpdateRefused(w) PROVE Placement'
  <2>1. /\ UNCHANGED <<place, queue, wjob>> /\ wpc[w] # "idle"
        /\ \A v \in Workers \ {w} : wpc'[v] = wpc[v]
    BY <1>10 DEF UpdateRefused, TypeOK
  <2> QED
    BY <2>1 DEF Placement, Busy
<1>11. ASSUME NEW w \in Workers, UpdateSave(w) PROVE Placement'
  <2>1. /\ UNCHANGED <<place, queue, wjob>> /\ wpc[w] # "idle"
        /\ \A v \in Workers \ {w} : wpc'[v] = wpc[v]
    BY <1>11 DEF UpdateSave, TypeOK
  <2> QED
    BY <2>1 DEF Placement, Busy
<1>12. ASSUME NEW w \in Workers, FinishFetch(w) PROVE Placement'
  <2>1. /\ UNCHANGED <<place, queue, wjob>> /\ wpc[w] # "idle"
        /\ \A v \in Workers \ {w} : wpc'[v] = wpc[v]
    BY <1>12 DEF FinishFetch, TypeOK
  <2> QED
    BY <2>1 DEF Placement, Busy
<1>13. ASSUME NEW w \in Workers, FinishSave(w) PROVE Placement'
  <2>1. /\ UNCHANGED <<place, queue, wjob>> /\ wpc[w] # "idle"
        /\ \A v \in Workers \ {w} : wpc'[v] = wpc[v]
    BY <1>13 DEF FinishSave, TypeOK
  <2> QED
    BY <2>1 DEF Placement, Busy
<1>14. ASSUME NEW w \in Workers, FinishPlain(w) PROVE Placement'
  <2>1. /\ UNCHANGED <<place, queue, wjob>> /\ wpc[w] # "idle"
        /\ \A v \in Workers \ {w} : wpc'[v] = wpc[v]
    BY <1>14 DEF FinishPlain, TypeOK
  <2> QED
    BY <2>1 DEF Placement, Busy
<1>15. ASSUME NEW w \in Workers, Return(w) PROVE Placement'
  <2>1. Leaves(w)
    BY <1>15 DEF Return, Leaves
  <2> QED
    BY <2>1, PlacementLeave
<1>16. ASSUME NEW w \in Workers, Swallow(w) PROVE Placement'
  <2>1. Leaves(w)
    BY <1>16 DEF Swallow, Leaves
  <2> QED
    BY <2>1, PlacementLeave
<1>17. ASSUME NEW w \in Workers, Raise(w) PROVE Placement'
  <2>1. /\ UNCHANGED <<place, queue, wjob>> /\ wpc[w] # "idle"
        /\ \A v \in Workers \ {w} : wpc'[v] = wpc[v]
    BY <1>17 DEF Raise, TypeOK
  <2> QED
    BY <2>1 DEF Placement, Busy
<1>18. ASSUME NEW w \in Workers, HandleException(w) PROVE Placement'
  <2>1. /\ UNCHANGED <<place, queue, wjob>> /\ wpc[w] # "idle"
        /\ \A v \in Workers \ {w} : wpc'[v] = wpc[v]
    BY <1>18 DEF HandleException, TypeOK
  <2> QED
    BY <2>1 DEF Placement, Busy
<1>19. ASSUME NEW w \in Workers, Quarantine(w) PROVE Placement'
  <2>1. Leaves(w)
    BY <1>19 DEF Quarantine, Leaves
  <2> QED
    BY <2>1, PlacementLeave
<1>20. ASSUME NEW w \in Workers, WorkerDies(w) PROVE Placement'
  <2>1. Leaves(w)
    BY <1>20 DEF WorkerDies, Leaves
  <2> QED
    BY <2>1, PlacementLeave
<1>21. ASSUME Boot PROVE Placement'
  BY <1>21 DEF TypeOK, Placement, Busy, Boot
<1>22. ASSUME UNCHANGED vars PROVE Placement'
  BY <1>22 DEF TypeOK, Placement, Busy
<1> QED
  BY <1>1, <1>2, <1>3, <1>4, <1>5, <1>6, <1>7, <1>8, <1>9, <1>10, <1>11, <1>12,
     <1>13, <1>14, <1>15, <1>16, <1>17, <1>18, <1>19, <1>20, <1>21, <1>22
     DEF Next, WorkerStep

\* A job is queued once, or run by one worker, or neither.
THEOREM OnePlace == Spec => []Placement
<1> QED
  BY TypeInit, TypeNext, PlacementInit, PlacementNext, PTL DEF Spec

-----------------------------------------------------------------------------
(* Jobs that were described before a worker took them *)

\* Where a worker is in such a job, and what Redis and the clients know of it.
WorkerFacts(w) ==
    LET m == meta[wjob[w]]
        s == said[wjob[w]] IN
    wpc[w] # "idle" /\ wjob[w] \notin early =>
       /\ sched[wjob[w]] = "saved" /\ m.described
       /\ wpc[w] = "taken" => s = "queued" /\ wdone[w] = 0 /\ wtotal[w] = NoCount
       /\ wpc[w] = "start" => /\ s = "queued" /\ wdone[w] = 0
                              /\ wcopy[w].described
                              /\ wcopy[w].total = wtotal[w] /\ wcopy[w].current = 0
       /\ wpc[w] \in {"body", "update", "finish"} => s \in {"started", "progress"}
       /\ wpc[w] \in {"body", "update"} /\ wtotal[w] # NoCount =>
             m.total = wtotal[w] /\ m.current = wdone[w]
       /\ wpc[w] = "update" => wcopy[w].described /\ wcopy[w].total = wtotal[w]
       /\ wpc[w] = "finish" => wcopy[w].described /\ wcopy[w].current = wcopy[w].total
       /\ wpc[w] = "after" => s = "finished"
       /\ wpc[w] = "raised" => s \in {"queued", "started", "progress", "finished"}
       /\ wpc[w] = "quarantine" => s = "failed"

\* The scheduler has not spoken before it has saved, and a worker has not
\* either.
JobFacts(j) ==
    j \notin early =>
       /\ place[j] = "none" => sched[j] = "none"
       /\ sched[j] # "saved" => said[j] = "nothing"
       /\ sched[j] = "saved" /\ place[j] = "queued" => meta[j].described /\ said[j] = "queued"

Facts == (\A w \in Workers : WorkerFacts(w)) /\ (\A j \in Jobs : JobFacts(j))

\* At the start there is nothing to say.
LEMMA FactsInit == Init => Facts
BY DEF Init, Facts, WorkerFacts, JobFacts

\* What they know gives the property.
LEMMA FactsGive == TypeOK /\ Facts => ProgressKept
BY DEF Facts, WorkerFacts, ProgressKept, Tells, Busy, TypeOK

\* The table of statuses, value by value.
LEMMA SuccessorValues ==
    /\ Successors["nothing"] = {"queued"} /\ Successors["queued"] = {"started", "failed"}
    /\ Successors["started"] = {"progress", "finished", "failed"}
    /\ Successors["progress"] = {"finished", "failed"}
    /\ Successors["finished"] = {"failed"}
BY DEF Successors

Legal(j) == said'[j] # said[j] => said'[j] \in Successors[said[j]]
LegalStep == \A j \in Jobs \ early' : Legal(j)

\* A step of w touches nothing but w and its job.
OnlyOwn(w) ==
    /\ wpc[w] # "idle" /\ UNCHANGED <<wjob, early, sched>>
    /\ \A v \in Workers \ {w} : /\ wpc'[v] = wpc[v] /\ wcopy'[v] = wcopy[v]
                                 /\ wtotal'[v] = wtotal[v] /\ wdone'[v] = wdone[v]
    /\ \A j \in Jobs \ {wjob[w]} :
          meta'[j] = meta[j] /\ said'[j] = said[j] /\ place'[j] = place[j]
    /\ place'[wjob[w]] \notin {"none", "queued"}

\* Whatever a worker does within its job, the facts about all others are kept.
LEMMA OwnStep ==
    ASSUME TypeOK, Placement, Facts, NEW w \in Workers, OnlyOwn(w), WorkerFacts(w)',
           wjob[w] \notin early => Legal(wjob[w])
    PROVE  Facts' /\ LegalStep
<1>1. ASSUME NEW v \in Workers PROVE WorkerFacts(v)'
  <2>1. CASE v = w
    BY <2>1
  <2>2. CASE v # w /\ wpc[v] # "idle"
    <3>1. wjob[v] # wjob[w] /\ wjob[v] \in Jobs
      BY <2>2 DEF OnlyOwn, Placement, Busy, TypeOK
    <3>2. /\ meta'[wjob'[v]] = meta[wjob[v]] /\ said'[wjob'[v]] = said[wjob[v]]
          /\ sched'[wjob'[v]] = sched[wjob[v]] /\ wjob'[v] = wjob[v] /\ early' = early
          /\ wpc'[v] = wpc[v] /\ wcopy'[v] = wcopy[v]
          /\ wtotal'[v] = wtotal[v] /\ wdone'[v] = wdone[v]
      BY <2>2, <3>1 DEF OnlyOwn
    <3>3. WorkerFacts(v)
      BY DEF Facts
    <3> QED
      BY <3>2, <3>3, Zenon DEF WorkerFacts
  <2>3. CASE v # w /\ wpc[v] = "idle"
    <3>1. wpc'[v] = "idle"
      BY <2>3 DEF OnlyOwn
    <3> QED
      BY <3>1 DEF WorkerFacts
  <2> QED
    BY <2>1, <2>2, <2>3
<1>2. ASSUME NEW j \in Jobs PROVE JobFacts(j)'
  <2>0. JobFacts(j) /\ WorkerFacts(w)
    BY DEF Facts
  <2>1. CASE j = wjob[w]
    BY <2>0, <2>1 DEF OnlyOwn, JobFacts, WorkerFacts
  <2>2. CASE j # wjob[w]
    BY <2>0, <2>2 DEF OnlyOwn, JobFacts
  <2> QED
    BY <2>1, <2>2
<1>3. LegalStep
  BY DEF LegalStep, Legal, OnlyOwn
<1> QED
  BY <1>1, <1>2, <1>3 DEF Facts

\* An idle worker carries nothing over from its last job.
IdleReset == \A w \in Workers : wpc[w] = "idle" => wdone[w] = 0 /\ wtotal[w] = NoCount

\* At the start all workers are idle ...
LEMMA IdleInit == Init => IdleReset
BY DEF Init, IdleReset

\* ... and whoever becomes idle forgets.
LEMMA IdleNext == TypeOK /\ IdleReset /\ [Next]_vars => IdleReset'
<1> SUFFICES ASSUME TypeOK /\ IdleReset, [Next]_vars PROVE IdleReset'
  OBVIOUS
<1>1. ASSUME NEW j \in Jobs, EnqueueCall(j) PROVE IdleReset'
  BY <1>1 DEF TypeOK, IdleReset, NoCount, EnqueueCall
<1>2. ASSUME NEW j \in Jobs, InitJob(j) PROVE IdleReset'
  BY <1>2 DEF TypeOK, IdleReset, NoCount, InitJob
<1>3. ASSUME NEW j \in Jobs, SchedulerDies(j) PROVE IdleReset'
  BY <1>3 DEF TypeOK, IdleReset, NoCount, SchedulerDies
<1>4. ASSUME NEW j \in Jobs, DeleteFailed(j) PROVE IdleReset'
  BY <1>4 DEF TypeOK, IdleReset, NoCount, DeleteFailed
<1>5. ASSUME NEW w \in Workers, Take(w) PROVE IdleReset'
  BY <1>5 DEF TypeOK, IdleReset, NoCount, Take
<1>6. ASSUME NEW w \in Workers, StartPlain(w) PROVE IdleReset'
  BY <1>6 DEF TypeOK, IdleReset, NoCount, StartPlain
<1>7. ASSUME NEW w \in Workers, StartFetch(w) PROVE IdleReset'
  BY <1>7 DEF TypeOK, IdleReset, NoCount, StartFetch
<1>8. ASSUME NEW w \in Workers, StartSave(w) PROVE IdleReset'
  BY <1>8 DEF TypeOK, IdleReset, NoCount, StartSave
<1>9. ASSUME NEW w \in Workers, UpdateFetch(w) PROVE IdleReset'
  BY <1>9 DEF TypeOK, IdleReset, NoCount, UpdateFetch
<1>10. ASSUME NEW w \in Workers, UpdateRefused(w) PROVE IdleReset'
  BY <1>10 DEF TypeOK, IdleReset, NoCount, UpdateRefused
<1>11. ASSUME NEW w \in Workers, UpdateSave(w) PROVE IdleReset'
  BY <1>11 DEF TypeOK, IdleReset, NoCount, UpdateSave
<1>12. ASSUME NEW w \in Workers, FinishFetch(w) PROVE IdleReset'
  BY <1>12 DEF TypeOK, IdleReset, NoCount, FinishFetch
<1>13. ASSUME NEW w \in Workers, FinishSave(w) PROVE IdleReset'
  BY <1>13 DEF TypeOK, IdleReset, NoCount, FinishSave
<1>14. ASSUME NEW w \in Workers, FinishPlain(w) PROVE IdleReset'
  BY <1>14 DEF TypeOK, IdleReset, NoCount, FinishPlain
<1>15. ASSUME NEW w \in Workers, Return(w) PROVE IdleReset'
  BY <1>15 DEF TypeOK, IdleReset, NoCount, Return
<1>16. ASSUME NEW w \in Workers, Swallow(w) PROVE IdleReset'
  BY <1>16 DEF TypeOK, IdleReset, NoCount, Swallow
<1>17. ASSUME NEW w \in Workers, Raise(w) PROVE IdleReset'
  BY <1>17 DEF TypeOK, IdleReset, NoCount, Raise
<1>18. ASSUME NEW w \in Workers, HandleException(w) PROVE IdleReset'
  BY <1>18 DEF TypeOK, IdleReset, NoCount, HandleException
<1>19. ASSUME NEW w \in Workers, Quarantine(w) PROVE IdleReset'
  BY <1>19 DEF TypeOK, IdleReset, NoCount, Quarantine
<1>20. ASSUME NEW w \in Workers, WorkerDies(w) PROVE IdleReset'
  BY <1>20 DEF TypeOK, IdleReset, NoCount, WorkerDies
<1>21. ASSUME Boot PROVE IdleReset'
  BY <1>21 DEF TypeOK, IdleReset, NoCount, Boot
<1>22. ASSUME UNCHANGED vars PROVE IdleReset'
  BY <1>22 DEF IdleReset
<1> QED
  BY <1>1, <1>2, <1>3, <1>4, <1>5, <1>6, <1>7, <1>8, <1>9, <1>10, <1>11, <1>12,
     <1>13, <1>14, <1>15, <1>16, <1>17, <1>18, <1>19, <1>20, <1>21, <1>22
     DEF Next, WorkerStep

\* Every step keeps the facts and publishes a status in order, if any.
LEMMA FactsNext == TypeOK /\ Placement /\ IdleReset /\ Facts /\ [Next]_vars => (Facts' /\ LegalStep)
<1> SUFFICES ASSUME TypeOK /\ Placement /\ IdleReset /\ Facts, [Next]_vars
    PROVE (Facts' /\ LegalStep)
  OBVIOUS
<1>1. ASSUME NEW j \in Jobs, EnqueueCall(j) PROVE (Facts' /\ LegalStep)
  <2>1. \A v \in Workers : wpc[v] # "idle" => wjob[v] # j
    BY <1>1 DEF EnqueueCall, Placement, Busy
  <2>2. /\ place[j] = "none" /\ place' = [place EXCEPT ![j] = "queued"]
        /\ sched' = [sched EXCEPT ![j] = "pending"] /\ UNCHANGED <<meta, said, workerVars, early>>
    BY <1>1 DEF EnqueueCall
  <2>3. ASSUME NEW v \in Workers PROVE WorkerFacts(v)'
    <3>1. WorkerFacts(v) /\ (wpc[v] # "idle" => wjob[v] \in Jobs \ {j})
      BY <2>1 DEF Facts, TypeOK
    <3>2. wpc[v] # "idle" => sched'[wjob[v]] = sched[wjob[v]]
      BY <2>2, <3>1 DEF TypeOK
    <3> QED
      BY <2>2, <3>1, <3>2 DEF WorkerFacts
  <2>4. ASSUME NEW k \in Jobs PROVE JobFacts(k)'
    BY <2>2 DEF Facts, JobFacts, TypeOK
  <2>5. LegalStep
    BY <2>2 DEF LegalStep, Legal
  <2> QED
    BY <2>3, <2>4, <2>5 DEF Facts
<1>2. ASSUME NEW j \in Jobs, InitJob(j) PROVE (Facts' /\ LegalStep)
  <2>1. /\ sched[j] = "pending" /\ sched' = [sched EXCEPT ![j] = "saved"]
        /\ meta' = [meta EXCEPT ![j] = [described |-> TRUE, total |-> NoCount, current |-> NoCount]]
        /\ said' = [said EXCEPT ![j] = "queued"]
        /\ UNCHANGED <<place, queue, workerVars, early>>
    BY <1>2 DEF InitJob
  <2>2. ASSUME NEW v \in Workers PROVE WorkerFacts(v)'
    <3>1. WorkerFacts(v)
      BY DEF Facts
    <3>2. CASE wpc[v] # "idle" /\ wjob[v] \notin early
      <4>1. wjob[v] # j /\ wjob[v] \in Jobs
        BY <2>1, <3>1, <3>2 DEF WorkerFacts, TypeOK
      <4>2. /\ meta'[wjob[v]] = meta[wjob[v]] /\ said'[wjob[v]] = said[wjob[v]]
            /\ sched'[wjob[v]] = sched[wjob[v]] /\ UNCHANGED <<workerVars, early>>
        BY <2>1, <4>1 DEF TypeOK
      <4> QED
        BY <3>1, <4>2 DEF WorkerFacts
    <3> QED
      BY <2>1, <3>2 DEF WorkerFacts
  <2>3. ASSUME NEW k \in Jobs PROVE JobFacts(k)'
    BY <2>1 DEF Facts, JobFacts, TypeOK
  <2>4. LegalStep
    BY <2>1, SuccessorValues DEF Facts, JobFacts, LegalStep, Legal, TypeOK
  <2> QED
    BY <2>2, <2>3, <2>4 DEF Facts
<1>3. ASSUME NEW j \in Jobs, SchedulerDies(j) PROVE (Facts' /\ LegalStep)
  BY <1>3 DEF SchedulerDies, Facts, WorkerFacts, JobFacts, TypeOK, LegalStep, Legal
<1>4. ASSUME NEW j \in Jobs, DeleteFailed(j) PROVE (Facts' /\ LegalStep)
  BY <1>4 DEF DeleteFailed, Facts, WorkerFacts, JobFacts, TypeOK, LegalStep, Legal
<1>5. ASSUME NEW w \in Workers, Take(w) PROVE (Facts' /\ LegalStep)
  <2>1. /\ wpc[w] = "idle" /\ queue # <<>>
        /\ wjob' = [wjob EXCEPT ![w] = Head(queue)] /\ wpc' = [wpc EXCEPT ![w] = "taken"]
        /\ place' = [place EXCEPT ![Head(queue)] = "running"]
        /\ early' = early \union {j \in {Head(queue)} : sched[j] # "saved"}
        /\ UNCHANGED <<sched, meta, said, wcopy, wtotal, wstep, wdone>>
    BY <1>5 DEF Take
  <2>2. Head(queue) \in Jobs /\ (\E k \in DOMAIN queue : Head(queue) = queue[k])
    BY <2>1, TailElements DEF TypeOK
  <2>3. place[Head(queue)] = "queued"
    BY <2>2 DEF Placement
  <2>4. WorkerFacts(w)'
    <3>1. CASE sched[Head(queue)] # "saved"
      BY <2>1, <2>2, <3>1 DEF WorkerFacts, TypeOK
    <3>2. CASE sched[Head(queue)] = "saved"
      <4>1. early' = early /\ wjob'[w] = Head(queue) /\ wpc'[w] = "taken"
        BY <2>1, <3>2 DEF TypeOK
      <4>2. Head(queue) \notin early => meta[Head(queue)].described /\ said[Head(queue)] = "queued"
        BY <2>2, <2>3, <3>2 DEF Facts, JobFacts
      <4>3. wdone[w] = 0 /\ wtotal[w] = NoCount
        BY <2>1 DEF IdleReset
      <4> QED
        BY <2>1, <3>2, <4>1, <4>2, <4>3 DEF WorkerFacts
    <3> QED
      BY <3>1, <3>2
  <2>5. ASSUME NEW v \in Workers \ {w} PROVE WorkerFacts(v)'
    <3>1. WorkerFacts(v)
      BY DEF Facts
    <3>2. /\ wjob'[v] = wjob[v] /\ wpc'[v] = wpc[v] /\ early \subseteq early'
          /\ UNCHANGED <<sched, meta, said, wcopy, wtotal, wdone>>
      BY <2>1 DEF TypeOK
    <3> QED
      BY <3>1, <3>2 DEF WorkerFacts
  <2>6. ASSUME NEW j \in Jobs PROVE JobFacts(j)'
    <3>1. JobFacts(j) /\ early \subseteq early' /\ UNCHANGED <<sched, meta, said>>
      BY <2>1 DEF Facts
    <3>2. place'[j] \in {"none", "queued"} => place'[j] = place[j]
      BY <2>1 DEF TypeOK
    <3> QED
      BY <3>1, <3>2 DEF JobFacts
  <2>7. LegalStep
    BY <2>1 DEF LegalStep, Legal
  <2> QED
    BY <2>4, <2>5, <2>6, <2>7 DEF Facts
<1>6. ASSUME NEW w \in Workers, StartPlain(w) PROVE (Facts' /\ LegalStep)
  <2>1. OnlyOwn(w)
    BY <1>6 DEF StartPlain, OnlyOwn, TypeOK, Placement, Busy
  <2>2. WorkerFacts(w)'
    BY <1>6 DEF StartPlain, Facts, WorkerFacts, TypeOK, NoCount
  <2>3. wjob[w] \notin early => Legal(wjob[w])
    BY <1>6, SuccessorValues DEF StartPlain, Facts, WorkerFacts, TypeOK, Legal
  <2> QED
    BY <2>1, <2>2, <2>3, OwnStep
<1>7. ASSUME NEW w \in Workers, StartFetch(w) PROVE (Facts' /\ LegalStep)
  <2>1. OnlyOwn(w)
    BY <1>7 DEF StartFetch, OnlyOwn, TypeOK, Placement, Busy
  <2>2. WorkerFacts(w)'
    BY <1>7 DEF StartFetch, Facts, WorkerFacts, TypeOK, NoCount, Metas, WithCounts
  <2>3. wjob[w] \notin early => Legal(wjob[w])
    BY <1>7, SuccessorValues DEF StartFetch, Facts, WorkerFacts, TypeOK, Legal
  <2> QED
    BY <2>1, <2>2, <2>3, OwnStep
<1>8. ASSUME NEW w \in Workers, StartSave(w) PROVE (Facts' /\ LegalStep)
  <2>1. OnlyOwn(w)
    BY <1>8 DEF StartSave, OnlyOwn, TypeOK, Placement, Busy
  <2>2. WorkerFacts(w)'
    BY <1>8 DEF StartSave, Facts, WorkerFacts, TypeOK, NoCount, Metas
  <2>3. wjob[w] \notin early => Legal(wjob[w])
    BY <1>8, SuccessorValues DEF StartSave, Facts, WorkerFacts, TypeOK, Legal
  <2> QED
    BY <2>1, <2>2, <2>3, OwnStep
<1>9. ASSUME NEW w \in Workers, UpdateFetch(w) PROVE (Facts' /\ LegalStep)
  <2>1. OnlyOwn(w)
    BY <1>9 DEF UpdateFetch, OnlyOwn, TypeOK, Placement, Busy
  <2>2. WorkerFacts(w)'
    BY <1>9 DEF UpdateFetch, Facts, WorkerFacts, TypeOK, NoCount, Metas, WithCounts, WithCurrent
  <2>3. wjob[w] \notin early => Legal(wjob[w])
    BY <1>9, SuccessorValues DEF UpdateFetch, Facts, WorkerFacts, TypeOK, Legal
  <2> QED
    BY <2>1, <2>2, <2>3, OwnStep
<1>10. ASSUME NEW w \in Workers, UpdateRefused(w) PROVE (Facts' /\ LegalStep)
  <2>1. OnlyOwn(w)
    BY <1>10 DEF UpdateRefused, OnlyOwn, TypeOK, Placement, Busy
  <2>2. WorkerFacts(w)'
    BY <1>10 DEF UpdateRefused, Facts, WorkerFacts, TypeOK, NoCount
  <2>3. wjob[w] \notin early => Legal(wjob[w])
    BY <1>10, SuccessorValues DEF UpdateRefused, Facts, WorkerFacts, TypeOK, Legal
  <2> QED
    BY <2>1, <2>2, <2>3, OwnStep
<1>11. ASSUME NEW w \in Workers, UpdateSave(w) PROVE (Facts' /\ LegalStep)
  <2>1. OnlyOwn(w)
    <3>1. /\ wpc[w] # "idle" /\ UNCHANGED <<place, queue, sched, wjob, wcopy, wtotal, wstep, early>>
          /\ meta' = [meta EXCEPT ![wjob[w]] = wcopy[w]]
          /\ wdone' = [wdone EXCEPT ![w] = wcopy[w].current]
      BY <1>11 DEF UpdateSave
    <3>2. wpc' = [wpc EXCEPT ![w] = "body"] \/ wpc' = [wpc EXCEPT ![w] = "raised"]
      BY <1>11 DEF UpdateSave
    <3>3. said' = [said EXCEPT ![wjob[w]] = "progress"] \/ said' = said
      BY <1>11 DEF UpdateSave
    <3>4. place[wjob[w]] = "running"
      BY <3>1 DEF Placement, Busy
    <3> QED
      BY <3>1, <3>2, <3>3, <3>4 DEF OnlyOwn, TypeOK
  <2>2. WorkerFacts(w)'
    BY <1>11 DEF UpdateSave, Facts, WorkerFacts, TypeOK, NoCount, Metas
  <2>3. wjob[w] \notin early => Legal(wjob[w])
    BY <1>11, SuccessorValues DEF UpdateSave, Facts, WorkerFacts, TypeOK, Legal
  <2> QED
    BY <2>1, <2>2, <2>3, OwnStep
<1>12. ASSUME NEW w \in Workers, FinishFetch(w) PROVE (Facts' /\ LegalStep)
  <2>1. OnlyOwn(w)
    BY <1>12 DEF FinishFetch, OnlyOwn, TypeOK, Placement, Busy
  <2>2. WorkerFacts(w)'
    BY <1>12 DEF FinishFetch, Facts, WorkerFacts, TypeOK, NoCount, Metas, WithCounts, WithCurrent
  <2>3. wjob[w] \notin early => Legal(wjob[w])
    BY <1>12, SuccessorValues DEF FinishFetch, Facts, WorkerFacts, TypeOK, Legal
  <2> QED
    BY <2>1, <2>2, <2>3, OwnStep
<1>13. ASSUME NEW w \in Workers, FinishSave(w) PROVE (Facts' /\ LegalStep)
  <2>1. OnlyOwn(w)
    BY <1>13 DEF FinishSave, OnlyOwn, TypeOK, Placement, Busy
  <2>2. WorkerFacts(w)'
    BY <1>13 DEF FinishSave, Facts, WorkerFacts, TypeOK, NoCount, Metas
  <2>3. wjob[w] \notin early => Legal(wjob[w])
    BY <1>13, SuccessorValues DEF FinishSave, Facts, WorkerFacts, TypeOK, Legal
  <2> QED
    BY <2>1, <2>2, <2>3, OwnStep
<1>14. ASSUME NEW w \in Workers, FinishPlain(w) PROVE (Facts' /\ LegalStep)
  <2>1. OnlyOwn(w)
    BY <1>14 DEF FinishPlain, OnlyOwn, TypeOK, Placement, Busy
  <2>2. WorkerFacts(w)'
    BY <1>14 DEF FinishPlain, Facts, WorkerFacts, TypeOK, NoCount
  <2>3. wjob[w] \notin early => Legal(wjob[w])
    BY <1>14, SuccessorValues DEF FinishPlain, Facts, WorkerFacts, TypeOK, Legal
  <2> QED
    BY <2>1, <2>2, <2>3, OwnStep
<1>15. ASSUME NEW w \in Workers, Return(w) PROVE (Facts' /\ LegalStep)
  <2>1. OnlyOwn(w)
    BY <1>15 DEF Return, OnlyOwn, TypeOK, Placement, Busy
  <2>2. WorkerFacts(w)'
    BY <1>15 DEF Return, Facts, WorkerFacts, TypeOK, NoCount
  <2>3. wjob[w] \notin early => Legal(wjob[w])
    BY <1>15, SuccessorValues DEF Return, Facts, WorkerFacts, TypeOK, Legal
  <2> QED
    BY <2>1, <2>2, <2>3, OwnStep
<1>16. ASSUME NEW w \in Workers, Swallow(w) PROVE (Facts' /\ LegalStep)
  <2>1. OnlyOwn(w)
    BY <1>16 DEF Swallow, OnlyOwn, TypeOK, Placement, Busy
  <2>2. WorkerFacts(w)'
    BY <1>16 DEF Swallow, Facts, WorkerFacts, TypeOK, NoCount
  <2>3. wjob[w] \notin early => Legal(wjob[w])
    BY <1>16, SuccessorValues DEF Swallow, Facts, WorkerFacts, TypeOK, Legal
  <2> QED
    BY <2>1, <2>2, <2>3, OwnStep
<1>17. ASSUME NEW w \in Workers, Raise(w) PROVE (Facts' /\ LegalStep)
  <2>1. OnlyOwn(w)
    BY <1>17 DEF Raise, OnlyOwn, TypeOK, Placement, Busy
  <2>2. WorkerFacts(w)'
    BY <1>17 DEF Raise, Facts, WorkerFacts, TypeOK, NoCount
  <2>3. wjob[w] \notin early => Legal(wjob[w])
    BY <1>17, SuccessorValues DEF Raise, Facts, WorkerFacts, TypeOK, Legal
  <2> QED
    BY <2>1, <2>2, <2>3, OwnStep
<1>18. ASSUME NEW w \in Workers, HandleException(w) PROVE (Facts' /\ LegalStep)
  <2>1. OnlyOwn(w)
    BY <1>18 DEF HandleException, OnlyOwn, TypeOK, Placement, Busy
  <2>2. WorkerFacts(w)'
    BY <1>18 DEF HandleException, Facts, WorkerFacts, TypeOK, NoCount
  <2>3. wjob[w] \notin early => Legal(wjob[w])
    BY <1>18, SuccessorValues DEF HandleException, Facts, WorkerFacts, TypeOK, Legal
  <2> QED
    BY <2>1, <2>2, <2>3, OwnStep
<1>19. ASSUME NEW w \in Workers, Quarantine(w) PROVE (Facts' /\ LegalStep)
  <2>1. OnlyOwn(w)
    BY <1>19 DEF Quarantine, OnlyOwn, TypeOK, Placement, Busy
  <2>2. WorkerFacts(w)'
    BY <1>19 DEF Quarantine, Facts, WorkerFacts, TypeOK, NoCount
  <2>3. wjob[w] \notin early => Legal(wjob[w])
    BY <1>19, SuccessorValues DEF Quarantine, Facts, WorkerFacts, TypeOK, Legal
  <2> QED
    BY <2>1, <2>2, <2>3, OwnStep
<1>20. ASSUME NEW w \in Workers, WorkerDies(w) PROVE (Facts' /\ LegalStep)
  <2>1. OnlyOwn(w)
    BY <1>20 DEF WorkerDies, OnlyOwn, TypeOK, Placement, Busy
  <2>2. WorkerFacts(w)'
    BY <1>20 DEF WorkerDies, Facts, WorkerFacts, TypeOK, NoCount
  <2>3. wjob[w] \notin early => Legal(wjob[w])
    BY <1>20, SuccessorValues DEF WorkerDies, Facts, WorkerFacts, TypeOK, Legal
  <2> QED
    BY <2>1, <2>2, <2>3, OwnStep
<1>21. ASSUME Boot PROVE (Facts' /\ LegalStep)
  BY <1>21 DEF Boot, Facts, WorkerFacts, JobFacts, TypeOK, LegalStep, Legal
<1>22. ASSUME UNCHANGED vars PROVE (Facts' /\ LegalStep)
  BY <1>22 DEF Facts, WorkerFacts, JobFacts, TypeOK, LegalStep, Legal
<1> QED
  BY <1>1, <1>2, <1>3, <1>4, <1>5, <1>6, <1>7, <1>8, <1>9, <1>10, <1>11, <1>12,
     <1>13, <1>14, <1>15, <1>16, <1>17, <1>18, <1>19, <1>20, <1>21, <1>22
     DEF Next, WorkerStep

\* A job that is described before a worker takes it keeps its description, its
\* total and its worker's progress.
THEOREM ProgressIsKept == Spec => []ProgressKept
<1>1. Init => TypeOK /\ CountsPaired /\ Placement /\ IdleReset /\ Facts
  BY TypeInit, PlacementInit, IdleInit, FactsInit
<1>2. /\ TypeOK /\ CountsPaired /\ Placement /\ IdleReset /\ Facts /\ [Next]_vars
      => (TypeOK /\ CountsPaired /\ Placement /\ IdleReset /\ Facts)'
  BY TypeNext, PlacementNext, IdleNext, FactsNext
<1> QED
  BY <1>1, <1>2, FactsGive, PTL DEF Spec

\* The statuses of such a job are published in order.
THEOREM EventsInOrder == Spec => EventOrder
<1>1. Init => TypeOK /\ CountsPaired /\ Placement /\ IdleReset /\ Facts
  BY TypeInit, PlacementInit, IdleInit, FactsInit
<1>2. /\ TypeOK /\ CountsPaired /\ Placement /\ IdleReset /\ Facts /\ [Next]_vars
      => (TypeOK /\ CountsPaired /\ Placement /\ IdleReset /\ Facts)'
  BY TypeNext, PlacementNext, IdleNext, FactsNext
<1>3. TypeOK /\ Placement /\ IdleReset /\ Facts /\ [Next]_vars
      => [\A j \in Jobs \ early' : said'[j] # said[j] => said'[j] \in Successors[said[j]]]_vars
  BY FactsNext DEF LegalStep, Legal
<1> QED
  BY <1>1, <1>2, <1>3, PTL DEF Spec, EventOrder

-----------------------------------------------------------------------------
(* JobLifecycle implements JobBoard *)

(* Every job that runs has a worker *)

\* A running job is in the hands of a worker; a job has a scheduler once it
\* is queued.
Held ==
    /\ \A j \in Jobs : place[j] = "running" => \E w \in Workers : Busy(w) /\ wjob[w] = j
    /\ \A j \in Jobs : place[j] = "none" <=> sched[j] = "none"

\* At the start there are no jobs.
LEMMA HeldInit == Init => Held
BY DEF Init, Held

\* A step of w, with its job j, that leaves everyone else alone.
OnlyMoves(w) ==
    /\ wjob' = wjob
    /\ \A v \in Workers \ {w} : wpc'[v] = wpc[v]
    /\ \A k \in Jobs \ {wjob[w]} : place'[k] = place[k]

\* Such steps keep Held, if w has not left its job in the state "running".
LEMMA HeldOwn ==
    ASSUME TypeOK, Held, NEW w \in Workers, Busy(w), OnlyMoves(w), UNCHANGED sched,
           place[wjob[w]] = "running", place'[wjob[w]] # "none",
           place'[wjob[w]] = "running" => Busy(w)'
    PROVE  Held'
<1>1. wjob[w] \in Jobs
  BY DEF TypeOK
<1>2. ASSUME NEW k \in Jobs, place'[k] = "running"
      PROVE  \E v \in Workers : Busy(v)' /\ wjob'[v] = k
  <2>1. CASE k = wjob[w]
    BY <1>2, <2>1 DEF OnlyMoves
  <2>2. CASE k # wjob[w]
    <3>1. PICK v \in Workers : Busy(v) /\ wjob[v] = k
      BY <1>2, <2>2 DEF Held, OnlyMoves
    <3> QED
      BY <3>1, <2>2 DEF OnlyMoves, Busy
  <2> QED
    BY <2>1, <2>2
<1>3. ASSUME NEW k \in Jobs PROVE place'[k] = "none" <=> sched'[k] = "none"
  BY <1>1 DEF Held, OnlyMoves
<1> QED
  BY <1>2, <1>3 DEF Held

\* The steps of a worker that are about the job it has.
WithJob(w) ==
    \/ StartPlain(w) \/ StartFetch(w) \/ StartSave(w)
    \/ UpdateFetch(w) \/ UpdateRefused(w) \/ UpdateSave(w)
    \/ FinishFetch(w) \/ FinishSave(w) \/ FinishPlain(w)
    \/ Return(w) \/ Swallow(w) \/ HandleException(w) \/ Quarantine(w)
    \/ Raise(w) \/ WorkerDies(w)

\* They leave everyone else alone; w goes on with the job, or both are done.
LEMMA WithJobMoves ==
    ASSUME TypeOK, Placement, NEW w \in Workers, WithJob(w)
    PROVE  /\ Busy(w) /\ OnlyMoves(w) /\ UNCHANGED sched
           /\ place[wjob[w]] = "running"
           /\ \/ place' = place /\ Busy(w)'
              \/ place'[wjob[w]] \in {"ended", "failed", "lost"} /\ ~Busy(w)'
<1>1. Busy(w)
  BY DEF WithJob, StartPlain, StartFetch, StartSave, UpdateFetch, UpdateRefused, UpdateSave,
         FinishFetch, FinishSave, FinishPlain, Return, Swallow, HandleException, Quarantine,
         Raise, WorkerDies, Busy
<1>2. place[wjob[w]] = "running" /\ wjob[w] \in Jobs
  BY <1>1 DEF Placement, TypeOK
<1>3. UNCHANGED <<sched, wjob>>
  BY DEF WithJob, StartPlain, StartFetch, StartSave, UpdateFetch, UpdateRefused, UpdateSave,
         FinishFetch, FinishSave, FinishPlain, Return, Swallow, HandleException, Quarantine,
         Raise, WorkerDies
<1>4. CASE StartPlain(w) \/ StartFetch(w) \/ StartSave(w) \/ UpdateFetch(w) \/ UpdateRefused(w)
           \/ UpdateSave(w) \/ FinishFetch(w) \/ FinishSave(w) \/ FinishPlain(w)
           \/ HandleException(w) \/ Raise(w)
  <2>1. place' = place /\ \E s \in {"start", "body", "update", "finish", "after", "raised",
                                    "quarantine"} : wpc' = [wpc EXCEPT ![w] = s]
    BY <1>4 DEF StartPlain, StartFetch, StartSave, UpdateFetch, UpdateRefused, UpdateSave,
                FinishFetch, FinishSave, FinishPlain, HandleException, Raise
  <2> QED
    BY <1>1, <1>2, <1>3, <2>1 DEF OnlyMoves, Busy, TypeOK
<1>5. CASE Return(w) \/ Swallow(w) \/ Quarantine(w) \/ WorkerDies(w)
  <2>1. wpc' = [wpc EXCEPT ![w] = "idle"] /\ \E s \in {"ended", "failed", "lost"} :
           place' = [place EXCEPT ![wjob[w]] = s]
    BY <1>5 DEF Return, Swallow, Quarantine, WorkerDies
  <2> QED
    BY <1>1, <1>2, <1>3, <2>1 DEF OnlyMoves, Busy, TypeOK
<1> QED
  BY <1>4, <1>5 DEF WithJob

\* What a worker takes is queued, and then it has it.
LEMMA TakeMoves ==
    ASSUME TypeOK, Placement, NEW w \in Workers, Take(w)
    PROVE  /\ Head(queue) \in Jobs /\ place[Head(queue)] = "queued" /\ ~Busy(w)
           /\ place' = [place EXCEPT ![Head(queue)] = "running"]
           /\ wjob' = [wjob EXCEPT ![w] = Head(queue)] /\ wpc' = [wpc EXCEPT ![w] = "taken"]
           /\ UNCHANGED <<sched, meta>>
<1>1. Head(queue) \in Jobs /\ \E i \in DOMAIN queue : Head(queue) = queue[i]
  BY TailElements DEF Take, TypeOK
<1> QED
  BY <1>1 DEF Take, Placement, Busy

\* No step leaves a running job without a worker.
LEMMA HeldNext == TypeOK /\ Placement /\ Held /\ [Next]_vars => Held'
<1> SUFFICES ASSUME TypeOK, Placement, Held, [Next]_vars PROVE Held'
  OBVIOUS
<1>1. ASSUME NEW j \in Jobs, EnqueueCall(j) \/ InitJob(j) \/ SchedulerDies(j) \/ DeleteFailed(j)
      PROVE  Held'
  <2>1. UNCHANGED <<wpc, wjob>>
    BY <1>1 DEF EnqueueCall, InitJob, SchedulerDies, DeleteFailed
  <2>2. \A k \in Jobs : place'[k] = "running" => place[k] = "running"
    BY <1>1 DEF EnqueueCall, InitJob, SchedulerDies, DeleteFailed, TypeOK
  <2>3. \A k \in Jobs : place'[k] = "none" <=> sched'[k] = "none"
    BY <1>1 DEF EnqueueCall, InitJob, SchedulerDies, DeleteFailed, TypeOK, Held
  <2> QED
    BY <2>1, <2>2, <2>3 DEF Held, Busy
<1>2. ASSUME NEW w \in Workers, WithJob(w) PROVE Held'
  BY <1>2, WithJobMoves, HeldOwn
<1>3. ASSUME NEW w \in Workers, Take(w) PROVE Held'
  <2>1. Busy(w)' /\ wjob'[w] = Head(queue)
    BY <1>3, TakeMoves DEF TypeOK, Busy
  <2>2. \A v \in Workers : Busy(v) => Busy(v)' /\ wjob'[v] = wjob[v]
    BY <1>3, TakeMoves DEF TypeOK, Busy
  <2>3. \A k \in Jobs \ {Head(queue)} : place'[k] = place[k]
    BY <1>3, TakeMoves DEF TypeOK
  <2>4. place[Head(queue)] = "queued" /\ place'[Head(queue)] = "running" /\ sched' = sched
    BY <1>3, TakeMoves DEF TypeOK
  <2>5. ASSUME NEW k \in Jobs, place'[k] = "running"
        PROVE  \E v \in Workers : Busy(v)' /\ wjob'[v] = k
    <3>1. CASE k = Head(queue)
      BY <2>1, <3>1
    <3>2. CASE k # Head(queue)
      BY <2>2, <2>3, <2>5, <3>2 DEF Held
    <3> QED
      BY <3>1, <3>2
  <2> QED
    BY <2>3, <2>4, <2>5 DEF Held
<1>4. CASE Boot
  BY <1>4 DEF Boot, Held, Busy, TypeOK
<1>5. CASE UNCHANGED vars
  BY <1>5 DEF Held, Busy
<1> QED
  BY <1>1, <1>2, <1>3, <1>4, <1>5 DEF Next, WorkerStep, WithJob

-----------------------------------------------------------------------------
(* The phase of a job *)

\* A job's phase is that of its worker, or follows from where it is.
PhasesRight ==
    /\ Phases = [j \in Jobs |-> Phases[j]]
    /\ \A w \in Workers : Busy(w) => Phases[wjob[w]] = Phase(w)
    /\ \A j \in Jobs : place[j] \in {"ended", "lost"} => Phases[j] = "over"
    /\ \A j \in Jobs : place[j] \in {"none", "queued", "failed", "gone"} => Phases[j] = place[j]

LEMMA PhaseFacts == TypeOK /\ Placement => PhasesRight
<1> SUFFICES ASSUME TypeOK, Placement PROVE PhasesRight
  OBVIOUS
<1>1. ASSUME NEW w \in Workers, Busy(w) PROVE Phases[wjob[w]] = Phase(w)
  <2>1. wjob[w] \in Jobs /\ place[wjob[w]] = "running"
    BY <1>1 DEF TypeOK, Placement
  <2>2. \A v \in Workers : Busy(v) /\ wjob[v] = wjob[w] <=> v = w
    BY <1>1 DEF Placement
  <2>3. (CHOOSE v \in Workers : Busy(v) /\ wjob[v] = wjob[w]) = w
    BY <2>2
  <2> QED
    BY <2>1, <2>3 DEF Phases
<1>2. Phases = [j \in Jobs |-> Phases[j]]
  BY DEF Phases
<1>3. \A j \in Jobs : place[j] \in {"ended", "lost"} => Phases[j] = "over"
  BY DEF Phases
<1>4. \A j \in Jobs : place[j] \in {"none", "queued", "failed", "gone"} => Phases[j] = place[j]
  BY DEF Phases
<1> QED
  BY <1>1, <1>2, <1>3, <1>4 DEF PhasesRight

\* A step of w moves no other job from phase to phase.
LEMMA PhaseMoves ==
    ASSUME TypeOK, Held, PhasesRight, PhasesRight', NEW w \in Workers, Busy(w), OnlyMoves(w)
    PROVE  \A k \in Jobs \ {wjob[w]} : Phases'[k] = Phases[k]
<1> SUFFICES ASSUME NEW k \in Jobs \ {wjob[w]} PROVE Phases'[k] = Phases[k]
  OBVIOUS
<1>1. place'[k] = place[k]
  BY DEF OnlyMoves
<1>2. CASE place[k] = "running"
  <2>1. PICK v \in Workers : Busy(v) /\ wjob[v] = k
    BY <1>2 DEF Held
  <2>2. v # w /\ wpc'[v] = wpc[v] /\ wjob'[v] = k
    BY <2>1 DEF OnlyMoves
  <2>3. Busy(v)' /\ Phase(v)' = Phase(v)
    BY <2>1, <2>2 DEF Busy, Phase
  <2> QED
    BY <2>1, <2>2, <2>3 DEF PhasesRight
<1>3. CASE place[k] # "running"
  <2>1. place[k] \in {"ended", "lost"} \/ place[k] \in {"none", "queued", "failed", "gone"}
    BY <1>3 DEF TypeOK
  <2> QED
    BY <1>1, <2>1 DEF PhasesRight
<1> QED
  BY <1>2, <1>3
-----------------------------------------------------------------------------
(* Every step is a step of JobBoard *)

\* How JobBoard sees the metadata.
Shown == [j \in Jobs |-> meta[j].current]
Zeros == {j \in Jobs : meta[j].total = 0 /\ meta[j].current # NoCount}
Written == {j \in Jobs : sched[j] = "saved"}

\* A worker's step moves its job, and only that, to the phase of the worker, or
\* to where it left it.
LEMMA WorkerPhase ==
    ASSUME TypeOK, Placement, Held, PhasesRight, PhasesRight', NEW w \in Workers, WithJob(w)
    PROVE  /\ wjob[w] \in Jobs /\ Phases[wjob[w]] = Phase(w) /\ Written' = Written
           /\ Busy(w)' => Phases' = [Phases EXCEPT ![wjob[w]] = Phase(w)']
           /\ ~Busy(w)' /\ place'[wjob[w]] = "failed" =>
                 Phases' = [Phases EXCEPT ![wjob[w]] = "failed"]
           /\ ~Busy(w)' /\ place'[wjob[w]] \in {"ended", "lost"} =>
                 Phases' = [Phases EXCEPT ![wjob[w]] = "over"]
<1>1. Busy(w) /\ OnlyMoves(w) /\ UNCHANGED sched /\ wjob[w] \in Jobs
  BY WithJobMoves DEF TypeOK
<1>2. \A k \in Jobs \ {wjob[w]} : Phases'[k] = Phases[k]
  BY <1>1, PhaseMoves
<1>3. Phases = [k \in Jobs |-> Phases[k]] /\ Phases' = [k \in Jobs |-> Phases'[k]]
  BY DEF PhasesRight
<1>4. Busy(w)' => Phases'[wjob[w]] = Phase(w)'
  BY <1>1 DEF PhasesRight, OnlyMoves
<1>5. place'[wjob[w]] = "failed" => Phases'[wjob[w]] = "failed"
  BY <1>1 DEF PhasesRight
<1>6. place'[wjob[w]] \in {"ended", "lost"} => Phases'[wjob[w]] = "over"
  BY <1>1 DEF PhasesRight
<1>7. Phases[wjob[w]] = Phase(w) /\ Written' = Written
  BY <1>1 DEF PhasesRight, Written
<1>8. ASSUME NEW s, Phases'[wjob[w]] = s PROVE Phases' = [Phases EXCEPT ![wjob[w]] = s]
  BY <1>1, <1>2, <1>3, <1>8
<1> QED
  BY <1>1, <1>4, <1>5, <1>6, <1>7, <1>8

\* What the two kinds of steps do to the counts.
LEMMA CountsStay == UNCHANGED meta => UNCHANGED <<Shown, Zeros>>
BY DEF Shown, Zeros
LEMMA CountsChange ==
    ASSUME TypeOK, NEW w \in Workers, SaveCopy(w)
    PROVE  /\ Shown'[wjob[w]] \in Counts /\ Shown' = [Shown EXCEPT ![wjob[w]] = Shown'[wjob[w]]]
           /\ Zeros' \in {Zeros \union {wjob[w]}, Zeros \ {wjob[w]}}
<1>1. /\ wjob[w] \in Jobs /\ wcopy[w].current \in Counts
      /\ meta \in [Jobs -> Metas] /\ meta' = [meta EXCEPT ![wjob[w]] = wcopy[w]]
  BY DEF TypeOK, Metas
<1>2. \A k \in Jobs : k # wjob[w] => (k \in Zeros' <=> k \in Zeros)
  BY <1>1 DEF Zeros
<1>3. Zeros' \in {Zeros \union {wjob[w]}, Zeros \ {wjob[w]}}
  <2>1. Zeros \subseteq Jobs /\ Zeros' \subseteq Jobs
    BY DEF Zeros
  <2>2. CASE wjob[w] \in Zeros'
    BY <1>1, <1>2, <2>1, <2>2
  <2>3. CASE wjob[w] \notin Zeros'
    BY <1>1, <1>2, <2>1, <2>3
  <2> QED
    BY <2>2, <2>3
<1> QED
  BY <1>1, <1>3 DEF Shown

\* A value of Shown, and what stays as it is, is saved anew.
LEMMA SavedAgain ==
    ASSUME TypeOK, NEW j \in Jobs, UNCHANGED <<Shown, Zeros>>
    PROVE  /\ Shown'[j] \in Counts /\ Shown' = [Shown EXCEPT ![j] = Shown'[j]]
           /\ Zeros' \in {Zeros \union {j}, Zeros \ {j}}
<1>1. Shown'[j] \in Counts /\ Shown' = [Shown EXCEPT ![j] = Shown'[j]]
  BY DEF Shown, TypeOK, Metas
<1>2. Zeros' = Zeros \union {j} \/ Zeros' = Zeros \ {j}
  OBVIOUS
<1> QED
  BY <1>1, <1>2

\* What a worker does with its job is a step of JobBoard.
LEMMA WorkerMaps ==
    ASSUME TypeOK, Placement, Held, PhasesRight, PhasesRight', NEW w \in Workers, WithJob(w)
    PROVE  Board!BoardNext \/ UNCHANGED <<Phases, Written, Shown, Zeros>>
<1> USE DEF Board!Move, Board!Save, Written, Shown, Zeros, Board!Counts, Counts, Board!NoCount, NoCount,
            Board!Told, Board!Silent, Board!BoardNext
<1>0. PICK j \in Jobs : j = wjob[w]
  BY WorkerPhase
<1>1. /\ j = wjob[w] /\ Phases[j] = Phase(w) /\ Written' = Written /\ Busy(w)
      /\ DOMAIN wpc = Workers
  BY <1>0, WorkerPhase, WithJobMoves DEF TypeOK
<1>2. CASE StartPlain(w)
  <2>1. Phases[j] = "taken" /\ Phases' = [Phases EXCEPT ![j] = "started"]
    BY <1>0, <1>1, <1>2, WorkerPhase DEF StartPlain, Phase, Busy
  <2>2. UNCHANGED <<Shown, Zeros>>
    BY <1>2, CountsStay DEF StartPlain
  <2>3. Board!Start(j)
    BY <1>0, <1>1, <2>1, <2>2, SavedAgain DEF Board!Start
  <2> QED
    BY <1>0, <2>3
<1>3. CASE StartSave(w)
  <2>1. Phases[j] = "taken" /\ Phases' = [Phases EXCEPT ![j] = "started"]
    BY <1>0, <1>1, <1>3, WorkerPhase DEF StartSave, Phase, Busy
  <2>2. SaveCopy(w)
    BY <1>3 DEF StartSave
  <2>3. Board!Start(j)
    BY <1>0, <1>1, <2>1, <2>2, CountsChange DEF Board!Start
  <2> QED
    BY <1>0, <2>3
<1>4. CASE StartFetch(w) \/ UpdateFetch(w) \/ FinishFetch(w)
  <2>1. Phase(w)' = Phase(w) /\ Busy(w)'
    BY <1>1, <1>4 DEF StartFetch, UpdateFetch, FinishFetch, Phase, Busy
  <2>2. UNCHANGED <<Shown, Zeros>>
    BY <1>4, CountsStay DEF StartFetch, UpdateFetch, FinishFetch
  <2>3. Phases' = Phases
    BY <1>1, <2>1, WorkerPhase DEF PhasesRight
  <2> QED
    BY <1>1, <2>2, <2>3
<1>5. CASE UpdateRefused(w)
  <2>1. Phases[j] = "started" /\ Phases' = [Phases EXCEPT ![j] = "raised"]
    BY <1>0, <1>1, <1>5, WorkerPhase DEF UpdateRefused, Phase, Busy
  <2>2. UNCHANGED <<Shown, Zeros>>
    BY <1>5, CountsStay DEF UpdateRefused
  <2>3. Board!Raise(j)
    BY <1>0, <1>1, <2>1, <2>2, SavedAgain DEF Board!Raise
  <2> QED
    BY <1>0, <2>3
<1>6. CASE UpdateSave(w)
  <2>1. SaveCopy(w) /\ Phases[j] = "started"
    BY <1>1, <1>6 DEF UpdateSave, Phase
  <2>2. CASE Goto(w, "body")
    <3>1. Phases' = Phases
      BY <1>0, <1>1, <2>1, <2>2, WorkerPhase DEF Phase, Busy, PhasesRight
    <3>2. Board!Progress(j)
      BY <1>0, <1>1, <2>1, <3>1, CountsChange DEF Board!Progress
    <3> QED
      BY <1>0, <3>2
  <2>3. CASE Goto(w, "raised")
    <3>1. Phases' = [Phases EXCEPT ![j] = "raised"]
      BY <1>0, <1>1, <2>3, WorkerPhase DEF Phase, Busy
    <3>2. Board!Raise(j)
      BY <1>0, <1>1, <2>1, <3>1, CountsChange DEF Board!Raise
    <3> QED
      BY <1>0, <3>2
  <2> QED
    BY <1>6, <2>2, <2>3 DEF UpdateSave
<1>7. CASE FinishSave(w)
  <2>1. Phases[j] = "started" /\ Phases' = [Phases EXCEPT ![j] = "finishing"]
    BY <1>0, <1>1, <1>7, WorkerPhase DEF FinishSave, Phase, Busy
  <2>2. SaveCopy(w)
    BY <1>7 DEF FinishSave
  <2>3. Board!Finish(j)
    BY <1>0, <1>1, <2>1, <2>2, CountsChange DEF Board!Finish
  <2> QED
    BY <1>0, <2>3
<1>8. CASE FinishPlain(w)
  <2>1. Phases[j] = "started" /\ Phases' = [Phases EXCEPT ![j] = "finishing"]
    BY <1>0, <1>1, <1>8, WorkerPhase DEF FinishPlain, Phase, Busy
  <2>2. UNCHANGED <<Shown, Zeros>>
    BY <1>8, CountsStay DEF FinishPlain
  <2>3. Board!Finish(j)
    BY <1>0, <1>1, <2>1, <2>2, SavedAgain DEF Board!Finish
  <2> QED
    BY <1>0, <2>3
<1>9. CASE Return(w)
  <2>1. Phases[j] = "finishing" /\ Phases' = [Phases EXCEPT ![j] = "over"]
    BY <1>0, <1>1, <1>9, WorkerPhase DEF Return, Phase, Busy, TypeOK
  <2>2. UNCHANGED <<Shown, Zeros>>
    BY <1>9, CountsStay DEF Return
  <2>3. Board!Return(j)
    BY <1>0, <1>1, <2>1, <2>2, SavedAgain DEF Board!Return
  <2> QED
    BY <1>0, <2>3
<1>10. CASE Swallow(w)
  <2>1. Phases[j] = "started" /\ Phases' = [Phases EXCEPT ![j] = "over"]
    BY <1>0, <1>1, <1>10, WorkerPhase DEF Swallow, Phase, Busy, TypeOK
  <2>2. UNCHANGED <<Shown, Zeros>>
    BY <1>10, CountsStay DEF Swallow
  <2>3. Board!Swallow(j)
    BY <1>0, <1>1, <2>1, <2>2, SavedAgain DEF Board!Swallow
  <2> QED
    BY <1>0, <2>3
<1>11. CASE Raise(w)
  <2>1. Phases[j] \in {"taken", "started", "finishing"} /\ Phases' = [Phases EXCEPT ![j] = "raised"]
    BY <1>0, <1>1, <1>11, WorkerPhase DEF Raise, Phase, Busy
  <2>2. UNCHANGED <<Shown, Zeros>>
    BY <1>11, CountsStay DEF Raise
  <2>3. Board!Raise(j)
    BY <1>0, <1>1, <2>1, <2>2, SavedAgain DEF Board!Raise
  <2> QED
    BY <1>0, <2>3
<1>12. CASE HandleException(w)
  <2>1. Phases[j] = "raised" /\ Phases' = [Phases EXCEPT ![j] = "failing"]
    BY <1>0, <1>1, <1>12, WorkerPhase DEF HandleException, Phase, Busy
  <2>2. UNCHANGED <<Shown, Zeros>>
    BY <1>12, CountsStay DEF HandleException
  <2>3. Board!Fail(j)
    BY <1>0, <1>1, <2>1, <2>2, SavedAgain DEF Board!Fail
  <2> QED
    BY <1>0, <2>3
<1>13. CASE Quarantine(w)
  <2>1. Phases[j] = "failing" /\ Phases' = [Phases EXCEPT ![j] = "failed"]
    BY <1>0, <1>1, <1>13, WorkerPhase DEF Quarantine, Phase, Busy, TypeOK
  <2>2. UNCHANGED <<Shown, Zeros>>
    BY <1>13, CountsStay DEF Quarantine
  <2>3. Board!Quarantine(j)
    BY <1>0, <1>1, <2>1, <2>2, SavedAgain DEF Board!Quarantine
  <2> QED
    BY <1>0, <2>3
<1>14. CASE WorkerDies(w)
  <2>1. Phases[j] \in Board!AtWorker /\ Phases' = [Phases EXCEPT ![j] = "over"]
    BY <1>0, <1>1, <1>14, WorkerPhase DEF WorkerDies, Phase, Busy, TypeOK, Board!AtWorker
  <2>2. UNCHANGED <<Shown, Zeros>>
    BY <1>14, CountsStay DEF WorkerDies
  <2>3. Board!Die(j)
    BY <1>0, <1>1, <2>1, <2>2, SavedAgain DEF Board!Die
  <2> QED
    BY <1>0, <2>3
<1> QED
  BY <1>2, <1>3, <1>4, <1>5, <1>6, <1>7, <1>8, <1>9, <1>10, <1>11, <1>12, <1>13, <1>14 DEF WithJob

\* A job that runs is in one of the phases of a worker.
LEMMA RunningPhase ==
    ASSUME TypeOK, Held, PhasesRight, NEW k \in Jobs, place[k] = "running"
    PROVE  Phases[k] \in Board!AtWorker
<1>1. PICK w \in Workers : Busy(w) /\ wjob[w] = k
  BY DEF Held
<1>2. Phase(w) \in Board!AtWorker
  BY <1>1 DEF Phase, Busy, TypeOK, Board!AtWorker
<1> QED
  BY <1>1, <1>2 DEF PhasesRight

\* The other steps leave every worker's phase alone.
LEMMA OthersMap ==
    ASSUME TypeOK, Placement, Held, PhasesRight, PhasesRight', NEW j \in Jobs,
           EnqueueCall(j) \/ InitJob(j) \/ SchedulerDies(j) \/ DeleteFailed(j)
    PROVE  Board!BoardNext \/ UNCHANGED <<Phases, Written, Shown, Zeros>>
<1> USE DEF Board!Move, Board!Told, Board!Silent, Board!BoardNext
<1>1. Phases = [k \in Jobs |-> Phases[k]] /\ Phases' = [k \in Jobs |-> Phases'[k]]
  BY DEF PhasesRight
<1>2. ASSUME NEW k \in Jobs, place'[k] = place[k] PROVE Phases'[k] = Phases[k]
  <2>1. UNCHANGED <<wpc, wjob>>
    BY DEF EnqueueCall, InitJob, SchedulerDies, DeleteFailed
  <2> QED
    BY <1>2, <2>1 DEF Phases, Phase, Busy
<1>3. CASE EnqueueCall(j)
  <2>1. /\ Phases[j] = "none" /\ Phases'[j] = "queued" /\ UNCHANGED <<Shown, Zeros>>
        /\ \A k \in Jobs \ {j} : place'[k] = place[k]
    BY <1>3, CountsStay DEF EnqueueCall, PhasesRight, TypeOK
  <2>2. Written' = Written
    BY <1>3 DEF EnqueueCall, Written, Held, TypeOK
  <2>3. Phases' = [Phases EXCEPT ![j] = "queued"]
    BY <1>1, <1>2, <2>1
  <2>4. Board!Queue(j)
    BY <2>1, <2>2, <2>3 DEF Board!Queue, Written, Shown, Zeros
  <2> QED
    BY <2>4
<1>4. CASE InitJob(j)
  <2>1. Phases' = Phases
    BY <1>1, <1>2, <1>4 DEF InitJob
  <2>2. j \notin Written /\ Written' = Written \union {j}
    BY <1>4 DEF InitJob, Written, TypeOK
  <2>3. Shown' = [Shown EXCEPT ![j] = NoCount] /\ Zeros' = Zeros \ {j}
    BY <1>4 DEF InitJob, Shown, Zeros, TypeOK, Metas
  <2>4. Phases[j] # "none"
    <3>1. place[j] # "none"
      BY <1>4 DEF InitJob, Held
    <3>2. CASE place[j] = "running"
      BY <3>2, RunningPhase DEF Board!AtWorker
    <3>3. CASE place[j] \in {"ended", "lost"} \/ place[j] \in {"queued", "failed", "gone"}
      BY <3>3 DEF PhasesRight
    <3> QED
      BY <3>1, <3>2, <3>3 DEF TypeOK
  <2>5. Board!Describe(j)
    BY <2>1, <2>2, <2>3, <2>4 DEF Board!Describe, Written, Shown, Zeros, Board!NoCount, NoCount
  <2> QED
    BY <2>5
<1>5. CASE SchedulerDies(j)
  <2>1. Phases' = Phases /\ UNCHANGED <<Shown, Zeros>>
    BY <1>1, <1>2, <1>5, CountsStay DEF SchedulerDies
  <2>2. Written' = Written
    BY <1>5 DEF SchedulerDies, Written, TypeOK
  <2> QED
    BY <2>1, <2>2
<1>6. CASE DeleteFailed(j)
  <2>1. /\ Phases[j] = "failed" /\ Phases'[j] = "gone" /\ UNCHANGED <<Shown, Zeros>> /\ Written' = Written
        /\ \A k \in Jobs \ {j} : place'[k] = place[k]
    BY <1>6, CountsStay DEF DeleteFailed, PhasesRight, TypeOK, Written
  <2>2. Phases' = [Phases EXCEPT ![j] = "gone"]
    BY <1>1, <1>2, <2>1
  <2>3. Board!Remove(j)
    BY <2>1, <2>2 DEF Board!Remove, Written, Shown, Zeros
  <2> QED
    BY <2>3
<1> QED
  BY <1>3, <1>4, <1>5, <1>6

\* Boot empties the queue of failed jobs, which have no worker.
LEMMA BootMaps ==
    ASSUME TypeOK, Placement, Held, PhasesRight, PhasesRight', Boot
    PROVE  Board!BoardNext
<1>1. Written' = Written /\ UNCHANGED <<Shown, Zeros>> /\ UNCHANGED <<wpc, wjob>>
  BY CountsStay DEF Boot, Written
<1>2. ASSUME NEW k \in Jobs PROVE Phases'[k] = IF Phases[k] = "failed" THEN "gone" ELSE Phases[k]
  <2>1. CASE place[k] = "failed"
    BY <2>1 DEF Boot, PhasesRight
  <2>2. CASE place[k] = "running"
    <3>1. Phases'[k] = Phases[k]
      BY <1>1, <2>2 DEF Boot, Phases, Phase, Busy
    <3>2. Phases[k] # "failed"
      BY <2>2, RunningPhase DEF Board!AtWorker
    <3> QED
      BY <3>1, <3>2
  <2>3. CASE place[k] \in {"ended", "lost"} \/ place[k] \in {"none", "queued", "gone"}
    BY <2>3 DEF Boot, PhasesRight
  <2> QED
    BY <2>1, <2>2, <2>3 DEF TypeOK
<1>3. Phases' = [k \in Jobs |-> IF Phases[k] = "failed" THEN "gone" ELSE Phases[k]]
  BY <1>2 DEF PhasesRight
<1> QED
  BY <1>1, <1>3 DEF Board!BoardNext, Board!Empty, Written, Shown, Zeros

\* A worker that takes a job has it.
LEMMA TakeMaps ==
    ASSUME TypeOK, Placement, Held, PhasesRight, PhasesRight', NEW w \in Workers, Take(w)
    PROVE  Board!BoardNext
<1>0. PICK j \in Jobs : j = Head(queue)
  BY TakeMoves
<1>1. /\ place[j] = "queued" /\ ~Busy(w) /\ place' = [place EXCEPT ![j] = "running"]
      /\ wjob' = [wjob EXCEPT ![w] = j] /\ wpc' = [wpc EXCEPT ![w] = "taken"]
      /\ Written' = Written /\ UNCHANGED <<Shown, Zeros>>
  BY <1>0, TakeMoves, CountsStay DEF Written
<1>2. Phases[j] = "queued" /\ Phases'[j] = "taken"
  BY <1>1 DEF PhasesRight, Busy, Phase, TypeOK
<1>3. ASSUME NEW k \in Jobs \ {j} PROVE Phases'[k] = Phases[k]
  <2>1. place'[k] = place[k]
    BY <1>1 DEF TypeOK
  <2>2. CASE place[k] = "running"
    <3>1. PICK v \in Workers : Busy(v) /\ wjob[v] = k
      BY <2>2 DEF Held
    <3>2. Busy(v)' /\ wjob'[v] = k /\ Phase(v)' = Phase(v)
      BY <1>1, <3>1 DEF Busy, Phase, TypeOK
    <3> QED
      BY <3>1, <3>2 DEF PhasesRight
  <2>3. CASE place[k] \in {"ended", "lost"} \/ place[k] \in {"none", "queued", "failed", "gone"}
    BY <2>1, <2>3 DEF PhasesRight
  <2> QED
    BY <2>2, <2>3 DEF TypeOK
<1>4. Phases' = [Phases EXCEPT ![j] = "taken"]
  BY <1>2, <1>3 DEF PhasesRight
<1>5. Board!Take(j)
  BY <1>1, <1>2, <1>4 DEF Board!Take, Board!Move, Written, Shown, Zeros
<1> QED
  BY <1>5 DEF Board!BoardNext, Board!Silent

\* Every step is one of JobBoard, or changes nothing there.
LEMMA StepMaps ==
    /\ TypeOK /\ Placement /\ Held /\ PhasesRight /\ PhasesRight' /\ [Next]_vars
    => [Board!BoardNext]_(Board!boardVars)
<1> SUFFICES ASSUME TypeOK, Placement, Held, PhasesRight, PhasesRight', [Next]_vars
             PROVE  Board!BoardNext \/ UNCHANGED <<Phases, Written, Shown, Zeros>>
  BY DEF Board!boardVars, Written, Shown, Zeros
<1>1. CASE UNCHANGED vars
  BY <1>1 DEF Phases, Phase, Busy, Written, Shown, Zeros
<1>2. ASSUME NEW w \in Workers, Take(w)
      PROVE  Board!BoardNext \/ UNCHANGED <<Phases, Written, Shown, Zeros>>
  BY <1>2, TakeMaps
<1>3. ASSUME NEW w \in Workers, WithJob(w)
      PROVE  Board!BoardNext \/ UNCHANGED <<Phases, Written, Shown, Zeros>>
  BY <1>3, WorkerMaps
<1>4. ASSUME NEW j \in Jobs, EnqueueCall(j) \/ InitJob(j) \/ SchedulerDies(j) \/ DeleteFailed(j)
      PROVE  Board!BoardNext \/ UNCHANGED <<Phases, Written, Shown, Zeros>>
  BY <1>4, OthersMap
<1>5. CASE Boot
  BY <1>5, BootMaps
<1> QED
  BY <1>1, <1>2, <1>3, <1>4, <1>5 DEF Next, WorkerStep, WithJob

\* At the start JobBoard knows of no jobs.
LEMMA StartMaps == Init => Board!BoardInit
BY DEF Init, Board!BoardInit, Phases, EmptyMeta, Board!NoCount, NoCount

\* JobLifecycle implements JobBoard: whatever the saves of schedulers and workers
\* do to each other, the phases of a job are as clients may expect.
THEOREM BoardRefined == Spec => BoardKept
<1>1. Init => TypeOK /\ CountsPaired /\ Placement /\ Held
  BY TypeInit, PlacementInit, HeldInit
<1>2. TypeOK /\ CountsPaired /\ Placement /\ Held /\ [Next]_vars
      => (TypeOK /\ CountsPaired /\ Placement /\ Held)'
  BY TypeNext, PlacementNext, HeldNext
<1> QED
  BY <1>1, <1>2, StepMaps, StartMaps, PhaseFacts, PTL DEF Spec, BoardKept, Board!BoardSpec
=============================================================================
