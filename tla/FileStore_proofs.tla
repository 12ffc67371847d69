-------------------------- MODULE FileStore_proofs --------------------------
(* Proofs about FileStore: types, that what has a row is whole, and what  *)
(* jobs side by side can do to each other.                               *)
EXTENDS FileStoreProps, TLAPS

USE StoreAssumption DEF Running

-----------------------------------------------------------------------------
(* Types *)

\* The file in hand is one of the files; its directories are directories.
LEMMA InHand ==
    ASSUME TypeOK, NEW j \in Jobs
    PROVE  /\ FileInHand(j) \in Files /\ DirInHand(j) \in Dirs
           /\ ProfileOf(j) \in Profiles
<1>1. asked[j].url \in Urls /\ nth[j] \in 1 .. 2 /\ level[j] \in 1 .. 2 BY DEF TypeOK
<1>2. FileInHand(j) \in Files BY <1>1 DEF FileInHand
<1>3. DirInHand(j) \in Dirs BY <1>1, <1>2 DEF DirInHand
<1> QED BY <1>2, <1>3 DEF TypeOK, ProfileOf

\* Functions of jobs to 1 and 2 stay so when one value is changed.
LEMMA Counter ==
    ASSUME NEW f \in [Jobs -> 1 .. 2], NEW g, NEW j \in Jobs,
           g = f \/ g = [f EXCEPT ![j] = 1] \/ g = [f EXCEPT ![j] = 2]
    PROVE  g \in [Jobs -> 1 .. 2]
<1>1. 1 \in 1 .. 2 /\ 2 \in 1 .. 2 OBVIOUS
<1> QED BY <1>1

\* Every reachable state is well typed (the variables of FileStore).
THEOREM StoreTypesCorrect == Spec => []TypeOK
<1>1. Init => TypeOK BY DEF Init, TypeOK
<1>2. TypeOK /\ [Next]_vars => TypeOK'
  <2> SUFFICES ASSUME TypeOK, [Next]_vars PROVE TypeOK' OBVIOUS
  <2>1. CASE Take
    <3>1. served' \in 0 .. Len(queue) /\ queue[served'] \in Jobs
      BY <2>1 DEF Take, TypeOK
    <3> QED BY <2>1, <3>1 DEF Take, TypeOK, Goto, Active, rowVars, diskVars, loopVars
  <2>2. CASE \E p \in Profiles : DeleteProfile(p)
    BY <2>2 DEF TypeOK, DeleteProfile, diskVars, queueVars, loopVars
  <2>3. ASSUME NEW j \in Jobs, Request(j) PROVE TypeOK'
    <3>1. queue' \in Seq(Jobs) /\ Len(queue') = Len(queue) + 1
      BY <2>3 DEF Request, TypeOK
    <3>2. served' \in 0 .. Len(queue') BY <2>3, <3>1 DEF Request, TypeOK
    <3> QED BY <2>3, <3>1, <3>2 DEF Request, TypeOK, Goto, rowVars, diskVars, loopVars
  <2>4. ASSUME NEW j \in Jobs, Look(j) \/ Fetch(j) \/ IsDir(j) \/ IsFile(j) PROVE TypeOK'
    <3>1. /\ rowVars' = rowVars /\ diskVars' = diskVars /\ queueVars' = queueVars
          /\ offset' = offset /\ met' = met
      BY <2>4 DEF Look, Fetch, IsDir, IsFile, loopVars
    <3>2. \E step \in (Running \ {"write"}) \union {"failed"} : Goto(j, step)
      BY <2>4 DEF Look, Fetch, IsDir, IsFile, Descend, NextFile
    <3>3. nth' = nth \/ nth' = [nth EXCEPT ![j] = 2]
      BY <2>4 DEF Look, Fetch, IsDir, IsFile, NextFile, loopVars
    <3>4. level' = level \/ level' = [level EXCEPT ![j] = 1] \/ level' = [level EXCEPT ![j] = 2]
      BY <2>4 DEF Look, Fetch, IsDir, IsFile, Descend, loopVars
    <3>5. nth' \in [Jobs -> 1 .. 2] /\ level' \in [Jobs -> 1 .. 2] 
      BY <3>3, <3>4, Counter DEF TypeOK
    <3> QED BY <3>1, <3>2, <3>5 DEF TypeOK, Goto, rowVars, diskVars, queueVars
  <2>5. ASSUME NEW j \in Jobs, MkDir(j) PROVE TypeOK'
    <3>1. DirInHand(j) \in Dirs BY InHand
    <3>2. dirs' \subseteq Dirs BY <2>5, <3>1 DEF MkDir, TypeOK
    <3>3. \E step \in {"isdir", "isfile", "clash"} : Goto(j, step) BY <2>5 DEF MkDir, Descend
    <3>4. level' = level \/ level' = [level EXCEPT ![j] = 1] \/ level' = [level EXCEPT ![j] = 2]
      BY <2>5 DEF MkDir, Descend
    <3>5. level' \in [Jobs -> 1 .. 2] BY <3>4, Counter DEF TypeOK
    <3>6. /\ rowVars' = rowVars /\ files' = files /\ onDisk' = onDisk /\ broken' = broken
          /\ queueVars' = queueVars /\ nth' = nth /\ offset' = offset /\ met' = met
      BY <2>5 DEF MkDir
    <3> QED BY <3>2, <3>3, <3>5, <3>6 DEF TypeOK, Goto, rowVars, queueVars
  <2>6. ASSUME NEW j \in Jobs, Open(j) PROVE TypeOK'
    BY <2>6, InHand DEF TypeOK, Open, Goto, rowVars, queueVars
  <2>7. ASSUME NEW j \in Jobs, Write(j) PROVE TypeOK'
    <3>1. offset[j] + 1 \in 1 .. Parts BY <2>7 DEF Write, TypeOK
    <3>2. onDisk' \in [Files -> SUBSET (1 .. Parts)] BY <2>7, <3>1, InHand DEF Write, TypeOK
    <3>3. offset' \in [Jobs -> 0 .. Parts] BY <2>7, <3>1 DEF Write, TypeOK
    <3>4. nth' = nth \/ nth' = [nth EXCEPT ![j] = 2] BY <2>7 DEF Write, NextFile
    <3>5. nth' \in [Jobs -> 1 .. 2] BY <3>4, Counter DEF TypeOK
    <3>6. \E step \in Running :
             Goto(j, step) /\ (step = "write" => offset'[j] < Parts)
      BY <2>7, <3>1 DEF Write, NextFile, TypeOK
    <3>7. \A k \in Jobs : k # j => offset'[k] = offset[k] BY <2>7 DEF Write, TypeOK
    <3>8. /\ rowVars' = rowVars /\ dirs' = dirs /\ files' = files /\ broken' = broken
          /\ queueVars' = queueVars /\ level' = level /\ met' = met
      BY <2>7 DEF Write
    <3> QED BY <3>2, <3>3, <3>5, <3>6, <3>7, <3>8 DEF TypeOK, Goto, rowVars, queueVars
  <2>8. ASSUME NEW j \in Jobs, Commit(j) \/ CommitGone(j) \/ Update(j) \/ Interrupt(j)
        PROVE TypeOK'
    <3>1. \E step \in {"done", "failed"} : End(j, step)
      BY <2>8 DEF Commit, CommitGone, Update, Interrupt
    <3>2. /\ nth' \in [Jobs -> 1 .. 2] /\ level' \in [Jobs -> 1 .. 2]
          /\ offset' \in [Jobs -> 0 .. Parts]
      BY <3>1 DEF End, TypeOK
    <3>3. /\ pc' \in [Jobs -> Running \union {"new", "queued", "done", "failed", "clash"}]
          /\ \A k \in Jobs : pc'[k] = "write" => offset'[k] < Parts
      BY <3>1 DEF End, Goto, TypeOK
    <3>4. ProfileOf(j) \in Profiles /\ FileInHand(j) \in Files BY InHand
    <3>5. avatars' \subseteq Jobs /\ current' \in [Profiles -> Jobs \union {NoAvatar}]
      BY <2>8, <3>4 DEF Commit, CommitGone, Update, Interrupt, TypeOK, rowVars
    <3>6. broken' \subseteq Files
      BY <2>8, <3>4 DEF Commit, CommitGone, Update, Interrupt, TypeOK, diskVars
    <3>7. /\ profiles' = profiles /\ dirs' = dirs /\ files' = files /\ onDisk' = onDisk
          /\ queueVars' = queueVars /\ met' = met
      BY <2>8 DEF Commit, CommitGone, Update, Interrupt, rowVars, diskVars
    <3> QED BY <3>2, <3>3, <3>5, <3>6, <3>7 DEF TypeOK, queueVars
  <2>9. CASE UNCHANGED vars
    BY <2>9 DEF TypeOK, vars, rowVars, diskVars, queueVars, loopVars
  <2> QED BY <2>1, <2>2, <2>3, <2>4, <2>5, <2>6, <2>7, <2>8, <2>9 DEF Next, JobStep
<1> QED BY <1>1, <1>2, PTL DEF Spec

-----------------------------------------------------------------------------
(* What has a row is whole *)

\* A file is whole, or its last writer is at work or was stopped: then what
\* that writer has written so far is on the disk.
HasWriter(f) ==
    \E j \in Jobs : Writing(j, f) /\ 1 .. offset[j] \subseteq onDisk[f]
Sound(f) == onDisk[f] = 1 .. Parts \/ f \in broken \/ HasWriter(f)

FileOf(j, n) == FilesOf[asked[j].url][n]

\* Files exist from the moment they are dealt with.
Present(j) ==
    /\ nth[j] = 2 \/ pc[j] = "commit" => FileOf(j, 1) \in files
    /\ pc[j] = "commit" => FileOf(j, 2) \in files
    /\ pc[j] = "write" => FileInHand(j) \in files

\* Jobs that are still to come wait, each once in the queue.
QueueInv ==
    \A m \in (served + 1) .. Len(queue) :
       /\ pc[queue[m]] = "queued"
       /\ \A n \in (served + 1) .. Len(queue) : m # n => queue[m] # queue[n]

StoreInv ==
    /\ QueueInv
    /\ \A f \in files : Sound(f)
    /\ \A j \in Jobs : Present(j)
    /\ \A a \in avatars, n \in 1 .. 2 : FileOf(a, n) \in files

\* Steps that leave the disk alone and stop nobody from writing keep Sound.
LEMMA SoundFrame ==
    ASSUME TypeOK, NEW f \in Files, Sound(f),
           onDisk' = onDisk, broken' = broken, asked' = asked,
           \A k \in Jobs : pc[k] = "write" =>
              pc'[k] = "write" /\ offset'[k] = offset[k] /\ nth'[k] = nth[k]
    PROVE  Sound(f)'
BY DEF Sound, HasWriter, Writing, FileInHand

\* The last writer is done only when everything is on the disk.
LEMMA SoundWrite ==
    ASSUME TypeOK, NEW j \in Jobs, Write(j), NEW f \in Files, Sound(f)
    PROVE  Sound(f)'
<1>1. FileInHand(j) \in Files /\ offset[j] \in 0 .. Parts /\ offset[j] < Parts
  BY InHand DEF TypeOK, Write
<1>2. onDisk[f] \subseteq onDisk'[f] /\ onDisk'[f] \subseteq 1 .. Parts
  BY <1>1 DEF Write, TypeOK
<1>3. CASE onDisk[f] = 1 .. Parts BY <1>2, <1>3 DEF Sound
<1>4. CASE f \in broken BY <1>4 DEF Sound, Write
<1>5. CASE HasWriter(f)
  <2>1. PICK k \in Jobs : Writing(k, f) /\ 1 .. offset[k] \subseteq onDisk[f]
    BY <1>5 DEF HasWriter
  <2>2. CASE k # j
    <3>1. pc'[k] = "write" /\ offset'[k] = offset[k] /\ nth'[k] = nth[k] /\ asked' = asked
      BY <2>1, <2>2 DEF Write, NextFile, Goto, Writing, TypeOK, queueVars
    <3>2. Writing(k, f)' BY <2>1, <3>1 DEF Writing, FileInHand
    <3> QED BY <2>1, <3>1, <3>2, <1>2 DEF Sound, HasWriter
  <2>3. CASE k = j
    <3>1. FileInHand(j) = f BY <2>1, <2>3 DEF Writing
    <3>2. offset'[j] = offset[j] + 1 /\ onDisk'[f] = onDisk[f] \union {offset[j] + 1}
      BY <3>1, <1>1 DEF Write, TypeOK
    <3>3. 1 .. offset'[j] \subseteq onDisk'[f]
      <4>1. 1 .. (offset[j] + 1) \subseteq (1 .. offset[j]) \union {offset[j] + 1} BY <1>1
      <4> QED BY <4>1, <3>2, <2>1, <2>3
    <3>4. CASE offset[j] + 1 < Parts
      <4>1. pc'[j] = "write" /\ nth' = nth /\ asked' = asked
        BY <3>4 DEF Write, Goto, TypeOK, queueVars
      <4>2. Writing(j, f)' BY <4>1, <3>1 DEF Writing, FileInHand
      <4> QED BY <4>2, <3>3 DEF Sound, HasWriter
    <3>5. CASE ~(offset[j] + 1 < Parts)
      <4>1. onDisk'[f] = 1 .. Parts BY <3>5, <3>2, <3>3, <1>1, <1>2
      <4> QED BY <4>1 DEF Sound
    <3> QED BY <3>4, <3>5
  <2> QED BY <2>2, <2>3
<1> QED BY <1>3, <1>4, <1>5 DEF Sound

\* Who opens the file last is the one it depends on from then on.
LEMMA SoundOpen ==
    ASSUME TypeOK, NEW j \in Jobs, Open(j), NEW f \in Files, f \in files => Sound(f),
           f \in files'
    PROVE  Sound(f)'
<1>1. nth' = nth /\ asked' = asked /\ broken' = broken BY DEF Open, queueVars
<1>2. CASE f = FileInHand(j)
  <2>1. pc'[j] = "write" /\ offset'[j] = 0 BY DEF Open, Goto, TypeOK
  <2>2. Writing(j, f)' BY <2>1, <1>1, <1>2 DEF Writing, FileInHand
  <2>3. 1 .. offset'[j] \subseteq onDisk'[f] BY <2>1
  <2> QED BY <2>2, <2>3 DEF Sound, HasWriter
<1>3. CASE f # FileInHand(j)
  <2>1. Sound(f) /\ onDisk'[f] = onDisk[f] BY <1>3 DEF Open, TypeOK
  <2>2. \A k \in Jobs : Writing(k, f) => Writing(k, f)' /\ offset'[k] = offset[k]
    BY <1>1, <1>3 DEF Open, Goto, Writing, FileInHand, TypeOK
  <2> QED BY <1>1, <2>1, <2>2 DEF Sound, HasWriter
<1> QED BY <1>2, <1>3

\* A writer that is stopped leaves a mark on the file it was writing; nobody
\* else depends on it.
LEMMA SoundInterrupt ==
    ASSUME TypeOK, NEW j \in Jobs, Interrupt(j), NEW f \in Files, Sound(f)
    PROVE  Sound(f)'
<1>1. onDisk' = onDisk /\ asked' = asked /\ broken \subseteq broken'
  BY DEF Interrupt, queueVars
<1>2. \A k \in Jobs : k # j /\ Writing(k, f) => Writing(k, f)' /\ offset'[k] = offset[k]
  BY <1>1 DEF Interrupt, End, Goto, Writing, FileInHand, TypeOK
<1>3. Writing(j, f) => f \in broken' BY DEF Interrupt, Writing
<1> QED BY <1>1, <1>2, <1>3 DEF Sound, HasWriter

LEMMA StoreInvInit == Init => StoreInv
<1> SUFFICES ASSUME Init PROVE StoreInv OBVIOUS
<1>1. QueueInv
  <2>1. Len(queue) = 0 /\ served = 0 BY DEF Init
  <2> QED BY <2>1 DEF QueueInv
<1>2. \A j \in Jobs : Present(j) BY DEF Init, Present
<1> QED BY <1>1, <1>2 DEF Init, StoreInv

\* The rows and the jobs that come after a step.
LEMMA QueueInvNext == TypeOK /\ QueueInv /\ [Next]_vars => QueueInv'
<1> SUFFICES ASSUME TypeOK, QueueInv, [Next]_vars PROVE QueueInv' OBVIOUS
<1>1. CASE Take
  <2>1. served' = served + 1 /\ queue' = queue /\ served' \in 1 .. Len(queue)
        /\ pc' = [pc EXCEPT ![queue[served']] = "look"]
    BY <1>1 DEF Take, TypeOK, Goto
  <2>2. \A m \in (served' + 1) .. Len(queue) :
           /\ queue[m] \in Jobs /\ pc[queue[m]] = "queued" /\ queue[m] # queue[served']
           /\ \A n \in (served' + 1) .. Len(queue) : m # n => queue[m] # queue[n]
    BY <2>1 DEF QueueInv, TypeOK
  <2> QED BY <2>1, <2>2 DEF QueueInv, TypeOK
<1>2. ASSUME NEW j \in Jobs, Request(j) PROVE QueueInv'
  <2>1. /\ served' = served /\ pc' = [pc EXCEPT ![j] = "queued"] /\ pc[j] = "new"
        /\ Len(queue') = Len(queue) + 1 /\ queue'[Len(queue) + 1] = j
        /\ \A m \in 1 .. Len(queue) : queue'[m] = queue[m] /\ queue[m] \in Jobs
    BY <1>2 DEF Request, Goto, TypeOK
  <2>2. served \in Nat /\ Len(queue) \in Nat BY DEF TypeOK
  <2>3. \A m \in (served + 1) .. Len(queue) :
           pc[queue[m]] = "queued" /\ queue[m] # j /\ queue[m] \in Jobs /\ queue'[m] = queue[m]
    BY <2>1, <2>2 DEF QueueInv
  <2>4. \A m \in (served + 1) .. (Len(queue) + 1) : pc'[queue'[m]] = "queued"
    <3>1. \A m \in (served + 1) .. (Len(queue) + 1) :
             m \in (served + 1) .. Len(queue) \/ m = Len(queue) + 1
      BY <2>2
    <3>2. \A k \in Jobs : pc'[k] = IF k = j THEN "queued" ELSE pc[k] BY <2>1 DEF TypeOK
    <3> QED BY <3>1, <3>2, <2>1, <2>3
  <2>5. \A m, n \in (served + 1) .. (Len(queue) + 1) : m # n => queue'[m] # queue'[n]
    <3> SUFFICES ASSUME NEW m \in (served + 1) .. (Len(queue) + 1),
                        NEW n \in (served + 1) .. (Len(queue) + 1), m # n
                 PROVE  queue'[m] # queue'[n]
      OBVIOUS
    <3>1. CASE m \in (served + 1) .. Len(queue) /\ n \in (served + 1) .. Len(queue)
      BY <3>1, <2>3 DEF QueueInv
    <3>2. CASE m = Len(queue) + 1 \/ n = Len(queue) + 1 BY <3>2, <2>1, <2>2, <2>3
    <3> QED BY <3>1, <3>2, <2>2
  <2> QED BY <2>1, <2>4, <2>5 DEF QueueInv
<1>3. ASSUME queueVars' = queueVars, \A k \in Jobs : pc[k] = "queued" => pc'[k] = "queued"
      PROVE  QueueInv'
  <2>1. queue' = queue /\ served' = served BY <1>3 DEF queueVars
  <2>2. \A m \in (served + 1) .. Len(queue) : queue[m] \in Jobs BY DEF TypeOK
  <2> QED BY <1>3, <2>1, <2>2 DEF QueueInv
<1>4. ASSUME NEW j \in Jobs, JobStep(j) \/ Interrupt(j) PROVE QueueInv'
  <2>1. queueVars' = queueVars
    BY <1>4 DEF JobStep, Look, Fetch, IsDir, MkDir, IsFile, Open, Write, Commit, CommitGone,
                Update, Interrupt
  <2>2. pc[j] # "queued" /\ \E step : Goto(j, step)
    BY <1>4 DEF JobStep, Look, Fetch, IsDir, MkDir, IsFile, Open, Write, Commit, CommitGone,
                Update, Interrupt, End, Descend, NextFile
  <2> QED BY <1>3, <2>1, <2>2 DEF Goto, TypeOK
<1>5. CASE UNCHANGED vars BY <1>3, <1>5 DEF vars
<1>6. CASE \E p \in Profiles : DeleteProfile(p) BY <1>3, <1>6 DEF DeleteProfile
<1> QED BY <1>1, <1>2, <1>4, <1>5, <1>6 DEF Next

LEMMA SoundNext ==
    ASSUME TypeOK, StoreInv, [Next]_vars, NEW f \in files'
    PROVE  Sound(f)'
<1>0. files \subseteq Files BY DEF TypeOK
<1>1. ASSUME NEW j \in Jobs, Open(j) PROVE Sound(f)'
  <2>1. f \in Files BY <1>0, <1>1, InHand DEF Open
  <2> QED BY <1>1, <2>1, SoundOpen DEF StoreInv
<1>2. ASSUME NEW j \in Jobs, Write(j) PROVE Sound(f)'
  <2>1. f \in files BY <1>2 DEF Write
  <2> QED BY <1>0, <1>2, <2>1, SoundWrite DEF StoreInv
<1>3. ASSUME NEW j \in Jobs, Interrupt(j) PROVE Sound(f)'
  <2>1. f \in files BY <1>3 DEF Interrupt
  <2> QED BY <1>0, <1>3, <2>1, SoundInterrupt DEF StoreInv
<1>4. ASSUME files' = files, onDisk' = onDisk, broken' = broken, asked' = asked,
             \A k \in Jobs : pc[k] = "write" =>
                pc'[k] = "write" /\ offset'[k] = offset[k] /\ nth'[k] = nth[k]
      PROVE  Sound(f)'
  <2>1. f \in Files /\ Sound(f) BY <1>0, <1>4 DEF StoreInv
  <2> QED BY <1>4, <2>1, SoundFrame
<1>5. ASSUME NEW j \in Jobs, Look(j) \/ Fetch(j) \/ IsDir(j) \/ MkDir(j) \/ IsFile(j)
      PROVE  Sound(f)'
  <2>1. files' = files /\ onDisk' = onDisk /\ broken' = broken /\ asked' = asked
    BY <1>5 DEF Look, Fetch, IsDir, MkDir, IsFile, diskVars, queueVars
  <2>2. offset' = offset /\ \A k \in Jobs : k # j => nth'[k] = nth[k]
    BY <1>5 DEF Look, Fetch, IsDir, MkDir, IsFile, NextFile, loopVars, TypeOK
  <2>3. pc[j] # "write" /\ \E step : Goto(j, step)
    BY <1>5 DEF Look, Fetch, IsDir, MkDir, IsFile, Descend, NextFile
  <2> QED BY <1>4, <2>1, <2>2, <2>3 DEF Goto, TypeOK
<1>6. ASSUME NEW j \in Jobs, Commit(j) \/ CommitGone(j) \/ Update(j) PROVE Sound(f)'
  <2>1. files' = files /\ onDisk' = onDisk /\ broken' = broken /\ asked' = asked
    BY <1>6 DEF Commit, CommitGone, Update, diskVars, queueVars
  <2>2. pc[j] # "write" /\ \E step : End(j, step) BY <1>6 DEF Commit, CommitGone, Update
  <2> QED BY <1>4, <2>1, <2>2 DEF End, Goto, TypeOK
<1>7. ASSUME NEW j \in Jobs, Request(j) PROVE Sound(f)'
  BY <1>4, <1>7 DEF Request, Goto, TypeOK, diskVars, loopVars
<1>8. CASE Take
  <2>1. pc[queue[served']] = "queued" /\ queue[served'] \in Jobs
    BY <1>8 DEF Take, StoreInv, QueueInv, TypeOK
  <2> QED BY <1>4, <1>8, <2>1 DEF Take, Goto, TypeOK, diskVars, loopVars
<1>9. CASE (\E p \in Profiles : DeleteProfile(p)) \/ UNCHANGED vars
  BY <1>4, <1>9 DEF DeleteProfile, vars, diskVars, queueVars, loopVars
<1> QED BY <1>1, <1>2, <1>3, <1>5, <1>6, <1>7, <1>8, <1>9 DEF Next, JobStep

LEMMA PresentNext ==
    ASSUME TypeOK, StoreInv, [Next]_vars, NEW j \in Jobs
    PROVE  Present(j)'
<1>1. Present(j) /\ files \subseteq files'
  BY DEF StoreInv, Next, JobStep, vars, diskVars, Take, Request, Look, Fetch, IsDir, MkDir, IsFile,
         Open, Write, Commit, CommitGone, Update, Interrupt, DeleteProfile
<1>2. asked' = asked
  BY DEF Next, JobStep, vars, queueVars, Take, Request, Look, Fetch, IsDir, MkDir, IsFile,
         Open, Write, Commit, CommitGone, Update, Interrupt, DeleteProfile
<1>3. nth[j] \in 1 .. 2 /\ FileInHand(j) = FileOf(j, nth[j])
  BY DEF TypeOK, FileInHand, FileOf
<1>4. ASSUME nth'[j] = nth[j] \/ nth'[j] = 1, pc'[j] # "commit", pc'[j] # "write"
      PROVE  Present(j)'
  BY <1>1, <1>2, <1>3, <1>4 DEF Present, FileOf
<1>5. ASSUME nth'[j] = nth[j], pc'[j] = pc[j] PROVE Present(j)'
  BY <1>1, <1>2, <1>5 DEF Present, FileOf, FileInHand
<1>6. ASSUME NextFile(j), FileInHand(j) \in files PROVE Present(j)'
  <2>1. CASE nth[j] = 1
    BY <1>1, <1>2, <1>3, <1>6, <2>1 DEF NextFile, Goto, TypeOK, Present, FileOf
  <2>2. CASE nth[j] = 2
    BY <1>1, <1>2, <1>3, <1>6, <2>2 DEF NextFile, Goto, TypeOK, Present, FileOf
  <2> QED BY <1>3, <2>1, <2>2
<1>7. CASE Open(j) \/ Write(j) \/ IsFile(j)
  <2>1. CASE Open(j)
    BY <1>1, <1>2, <1>3, <2>1 DEF Open, Goto, TypeOK, Present, FileOf, FileInHand
  <2>2. CASE Write(j)
    <3>1. FileInHand(j) \in files BY <1>1, <2>2 DEF Write, Present
    <3>2. CASE NextFile(j) BY <3>1, <3>2, <1>6
    <3>3. CASE Goto(j, "write") /\ UNCHANGED nth
      BY <1>5, <2>2, <3>3 DEF Write, Goto, TypeOK
    <3> QED BY <2>2, <3>2, <3>3 DEF Write
  <2>3. CASE IsFile(j)
    <3>1. CASE Goto(j, "open") /\ UNCHANGED nth BY <1>4, <3>1 DEF Goto, TypeOK
    <3> QED BY <2>3, <3>1, <1>6 DEF IsFile
  <2> QED BY <1>7, <2>1, <2>2, <2>3
<1>8. CASE Look(j) \/ Fetch(j) \/ IsDir(j) \/ MkDir(j)
  <2>1. nth' = nth BY <1>8 DEF Look, Fetch, IsDir, MkDir, loopVars
  <2>2. \E step \in {"failed", "fetch", "update", "isdir", "isfile", "mkdir", "clash"} :
           Goto(j, step)
    BY <1>8 DEF Look, Fetch, IsDir, MkDir, Descend
  <2> QED BY <1>4, <2>1, <2>2 DEF Goto, TypeOK
<1>9. CASE Commit(j) \/ CommitGone(j) \/ Update(j) \/ Interrupt(j)
  <2>1. \E step \in {"failed", "done"} : End(j, step)
    BY <1>9 DEF Commit, CommitGone, Update, Interrupt
  <2> QED BY <1>4, <2>1 DEF End, Goto, TypeOK
<1>10. CASE Request(j)
  BY <1>4, <1>10 DEF Request, Goto, TypeOK, loopVars
<1>11. CASE Take
  <2>1. nth' = nth /\ Goto(queue[served'], "look") BY <1>11 DEF Take, loopVars
  <2> QED BY <1>4, <1>5, <2>1 DEF Goto, TypeOK
<1>12. ASSUME NEW k \in Jobs, k # j, JobStep(k) \/ Interrupt(k) \/ Request(k)
       PROVE  Present(j)'
  <2>1. \E step : Goto(k, step)
    BY <1>12 DEF JobStep, Request, Look, Fetch, IsDir, MkDir, IsFile, Open, Write, Commit,
                 CommitGone, Update, Interrupt, End, Descend, NextFile
  <2>2. nth'[j] = nth[j]
    BY <1>12 DEF JobStep, Request, Look, Fetch, IsDir, MkDir, IsFile, Open, Write, Commit,
                 CommitGone, Update, Interrupt, End, NextFile, loopVars, TypeOK
  <2> QED BY <1>5, <1>12, <2>1, <2>2 DEF Goto, TypeOK
<1>13. CASE (\E p \in Profiles : DeleteProfile(p)) \/ UNCHANGED vars
  BY <1>5, <1>13 DEF DeleteProfile, vars, loopVars
<1> QED
  BY <1>7, <1>8, <1>9, <1>10, <1>11, <1>12, <1>13 DEF Next, JobStep

LEMMA StoreInvNext == TypeOK /\ StoreInv /\ [Next]_vars => StoreInv'
<1> SUFFICES ASSUME TypeOK, StoreInv, [Next]_vars PROVE StoreInv' OBVIOUS
<1>1. QueueInv' BY QueueInvNext DEF StoreInv
<1>2. \A f \in files' : Sound(f)' BY SoundNext
<1>3. \A j \in Jobs : Present(j)' BY PresentNext
<1>4. \A a \in avatars', n \in 1 .. 2 : FileOf(a, n)' \in files'
  <2> SUFFICES ASSUME NEW a \in avatars', NEW n \in 1 .. 2 PROVE FileOf(a, n)' \in files'
    OBVIOUS
  <2>1. asked' = asked /\ files \subseteq files'
    BY DEF Next, JobStep, vars, queueVars, diskVars, Take, Request, Look, Fetch, IsDir, MkDir,
           IsFile, Open, Write, Commit, CommitGone, Update, Interrupt, DeleteProfile
  <2>2. CASE a \in avatars BY <2>1, <2>2 DEF StoreInv, FileOf
  <2>3. CASE a \notin avatars
    <3>1. a \in Jobs /\ pc[a] = "commit"
      BY <2>3 DEF Next, JobStep, vars, rowVars, Take, Request, Look, Fetch, IsDir, MkDir,
           IsFile, Open, Write, Commit, CommitGone, Update, Interrupt, DeleteProfile
    <3>2. Present(a) BY <3>1 DEF StoreInv
    <3> QED BY <2>1, <3>1, <3>2 DEF Present, FileOf
  <2> QED BY <2>2, <2>3
<1> QED BY <1>1, <1>2, <1>3, <1>4 DEF StoreInv

\* A file that a committed row refers to is whole, or being written, or its
\* writer was stopped: for any number of jobs and any sharing of files and
\* directories (File.__init__).
THEOREM RowsAreWhole == Spec => []StoredIsWhole
<1>1. TypeOK /\ StoreInv => StoredIsWhole
  BY DEF TypeOK, StoreInv, StoredIsWhole, Sound, HasWriter, Whole, FileOf
<1> QED BY <1>1, StoreTypesCorrect, StoreInvInit, StoreInvNext, PTL DEF Spec

-----------------------------------------------------------------------------
(* What jobs side by side can do to each other *)

Ran(j) == pc[j] \notin {"new", "queued"}

\* Jobs that are at work at the same time have met; a job that is done has met
\* those at work, or was taken, and so queued, before them.
Neighbours ==
    /\ \A j \in Jobs : Ran(j) => \E m \in 1 .. served : queue[m] = j
    /\ \A j, k \in Active : j # k => <<j, k>> \in met
    /\ \A a \in Jobs, j \in Active : pc[a] = "done" => <<a, j>> \in met \/ Before(a, j)

\* What a step of a job that is at work leaves alone.
LEMMA AtWork ==
    ASSUME TypeOK, NEW j \in Jobs, JobStep(j) \/ Interrupt(j)
    PROVE  /\ queue' = queue /\ served' = served /\ asked' = asked /\ met' = met
           /\ j \in Active /\ pc'[j] \in Running \union {"done", "failed", "clash"}
           /\ \A k \in Jobs \ {j} : pc'[k] = pc[k] /\ nth'[k] = nth[k] /\ level'[k] = level[k]
<1>1. queueVars' = queueVars /\ met' = met
  BY DEF JobStep, Look, Fetch, IsDir, MkDir, IsFile, Open, Write, Commit, CommitGone, Update,
         Interrupt
<1>2. j \in Active
  BY DEF Active, JobStep, Look, Fetch, IsDir, MkDir, IsFile, Open, Write, Commit, CommitGone,
         Update, Interrupt
<1>3. \E step \in Running \union {"done", "failed", "clash"} : Goto(j, step)
  BY DEF JobStep, Look, Fetch, IsDir, MkDir, IsFile, Open, Write, Commit, CommitGone, Update,
         Interrupt, End, Descend, NextFile
<1>4. \A k \in Jobs \ {j} : nth'[k] = nth[k] /\ level'[k] = level[k]
  BY DEF TypeOK, JobStep, Look, Fetch, IsDir, MkDir, IsFile, Open, Write, Commit, CommitGone,
         Update, Interrupt, End, Descend, NextFile, loopVars
<1> QED
  BY <1>1, <1>2, <1>3, <1>4 DEF queueVars, Goto, TypeOK

\* A job that a worker takes: it was queued, and all that have run before it
\* were queued before it.
LEMMA TakeFacts ==
    ASSUME TypeOK, QueueInv, Neighbours, Take
    PROVE  \E j \in Jobs :
              /\ j = queue[served + 1] /\ served + 1 \in 1 .. Len(queue) /\ served' = served + 1
              /\ queue' = queue /\ asked' = asked
              /\ pc[j] = "queued" /\ pc' = [pc EXCEPT ![j] = "look"]
              /\ met' = met \union ({j} \X Active) \union (Active \X {j})
              /\ Active' = Active \union {j}
              /\ \A a \in Jobs : Ran(a) => Before(a, j)
<1>1. PICK j : j = queue[served + 1]
  OBVIOUS
<1>2. /\ served + 1 \in 1 .. Len(queue) /\ served' = served + 1 /\ j \in Jobs
      /\ queue' = queue /\ asked' = asked /\ pc' = [pc EXCEPT ![j] = "look"]
      /\ met' = met \union ({j} \X Active) \union (Active \X {j})
  BY <1>1 DEF Take, TypeOK, Goto
<1>3. pc[j] = "queued"
  BY <1>1, <1>2 DEF QueueInv, TypeOK
<1>4. Active' = Active \union {j}
  BY <1>2 DEF Active, TypeOK
<1>5. ASSUME NEW a \in Jobs, Ran(a) PROVE Before(a, j)
  <2>1. PICK m \in 1 .. served : queue[m] = a
    BY <1>5 DEF Neighbours
  <2>2. m \in 1 .. Len(queue) /\ m < served + 1
    BY <1>2, <2>1 DEF TypeOK
  <2> QED
    BY <1>1, <1>2, <2>1, <2>2 DEF Before
<1> QED
  BY <1>1, <1>2, <1>3, <1>4, <1>5

\* What is before stays before when the queue grows or stays.
LEMMA BeforeGrows ==
    ASSUME TypeOK, NEW a, NEW b, Before(a, b),
           queue' = queue \/ \E k \in Jobs : queue' = Append(queue, k)
    PROVE  Before(a, b)'
<1>1. PICK m, n \in 1 .. Len(queue) : m < n /\ queue[m] = a /\ queue[n] = b
  BY DEF Before
<1>2. /\ m \in 1 .. Len(queue') /\ n \in 1 .. Len(queue')
      /\ queue'[m] = queue[m] /\ queue'[n] = queue[n]
  <2>1. CASE queue' = queue
    BY <2>1
  <2>2. ASSUME NEW k \in Jobs, queue' = Append(queue, k)
        PROVE  \A i \in 1 .. Len(queue) : i \in 1 .. Len(queue') /\ queue'[i] = queue[i]
    BY <2>2 DEF TypeOK
  <2> QED
    BY <2>1, <2>2
<1> QED
  BY <1>1, <1>2 DEF Before

LEMMA NeighboursNext == TypeOK /\ QueueInv /\ Neighbours /\ [Next]_vars => Neighbours'
<1> SUFFICES ASSUME TypeOK, QueueInv, Neighbours, [Next]_vars PROVE Neighbours'
  OBVIOUS
<1>1. CASE Take
  <2>1. PICK j \in Jobs :
              /\ j = queue[served + 1] /\ served + 1 \in 1 .. Len(queue) /\ served' = served + 1
              /\ queue' = queue /\ pc[j] = "queued" /\ pc' = [pc EXCEPT ![j] = "look"]
              /\ met' = met \union ({j} \X Active) \union (Active \X {j})
              /\ Active' = Active \union {j}
              /\ \A a \in Jobs : Ran(a) => Before(a, j)
    BY <1>1, TakeFacts
  <2>2. \A k \in Jobs \ {j} : pc'[k] = pc[k]
    BY <2>1 DEF TypeOK
  <2>3. pc'[j] = "look" /\ j \notin Active
    BY <2>1 DEF TypeOK, Active
  <2>4. \A a, b \in Jobs : Before(a, b) => Before(a, b)'
    BY <2>1, BeforeGrows
  <2>5. ASSUME NEW k \in Jobs, Ran(k)' PROVE \E m \in 1 .. served' : queue'[m] = k
    <3>1. CASE k = j
      BY <2>1, <3>1
    <3>2. CASE k # j
      <4>1. PICK m \in 1 .. served : queue[m] = k
        BY <2>2, <2>5, <3>2 DEF Ran, Neighbours
      <4>2. m \in 1 .. served'
        BY <2>1, <4>1 DEF TypeOK
      <4> QED
        BY <2>1, <4>1, <4>2
    <3> QED
      BY <3>1, <3>2
  <2>6. \A k, l \in Active' : k # l => <<k, l>> \in met'
    BY <2>1, <2>3 DEF Neighbours
  <2>7. ASSUME NEW a \in Jobs, NEW k \in Active', pc'[a] = "done"
        PROVE  <<a, k>> \in met' \/ Before(a, k)'
    <3>1. a # j /\ pc[a] = "done" /\ Ran(a)
      BY <2>2, <2>3, <2>7 DEF Ran
    <3>2. CASE k = j
      BY <2>1, <2>4, <3>1, <3>2
    <3>3. CASE k # j
      BY <2>1, <2>4, <3>1, <3>3 DEF Neighbours, Active
    <3> QED
      BY <3>2, <3>3
  <2> QED
    BY <2>5, <2>6, <2>7 DEF Neighbours
<1>2. ASSUME NEW j \in Jobs, Request(j) PROVE Neighbours'
  <2>1. /\ pc[j] = "new" /\ pc' = [pc EXCEPT ![j] = "queued"] /\ met' = met
        /\ served' = served /\ queue' = Append(queue, j)
    BY <1>2 DEF Request, Goto
  <2>2. \A k \in Jobs : k # j => pc'[k] = pc[k]
    BY <2>1 DEF TypeOK
  <2>3. pc'[j] = "queued" /\ Active' = Active
    BY <2>1 DEF TypeOK, Active
  <2>4. \A a, b \in Jobs : Before(a, b) => Before(a, b)'
    BY <2>1, BeforeGrows
  <2>5. \A m \in 1 .. served : queue'[m] = queue[m]
    BY <2>1 DEF TypeOK
  <2>6. \A k \in Jobs : Ran(k)' => \E m \in 1 .. served' : queue'[m] = k
    BY <2>1, <2>2, <2>3, <2>5 DEF Ran, Neighbours
  <2>7. \A a \in Jobs, k \in Active' : pc'[a] = "done" => <<a, k>> \in met' \/ Before(a, k)'
    BY <2>1, <2>2, <2>3, <2>4 DEF Neighbours, Active
  <2> QED
    BY <2>1, <2>3, <2>6, <2>7 DEF Neighbours
<1>3. ASSUME NEW j \in Jobs, JobStep(j) \/ Interrupt(j) PROVE Neighbours'
  <2>1. /\ queue' = queue /\ served' = served /\ met' = met
        /\ j \in Active /\ pc'[j] \in Running \union {"done", "failed", "clash"}
        /\ \A k \in Jobs \ {j} : pc'[k] = pc[k]
    BY <1>3, AtWork
  <2>2. Active' \subseteq Active
    BY <2>1 DEF Active
  <2>3. \A k \in Jobs : Ran(k)' => Ran(k)
    BY <2>1 DEF Ran, Active
  <2>4. \A a, b \in Jobs : Before(a, b) => Before(a, b)'
    BY <2>1, BeforeGrows
  <2>5. ASSUME NEW a \in Jobs, NEW k \in Active', pc'[a] = "done"
        PROVE  <<a, k>> \in met' \/ Before(a, k)'
    <3>1. CASE a = j
      <4>1. k # j
        BY <2>5, <3>1 DEF Active
      <4> QED
        BY <2>1, <2>2, <3>1, <4>1 DEF Neighbours
    <3>2. CASE a # j
      BY <2>1, <2>2, <2>4, <2>5, <3>2 DEF Neighbours, Active
    <3> QED
      BY <3>1, <3>2
  <2> QED
    BY <2>1, <2>2, <2>3, <2>5 DEF Neighbours
<1>4. CASE (\E p \in Profiles : DeleteProfile(p)) \/ UNCHANGED vars
  BY <1>4 DEF DeleteProfile, vars, queueVars, Neighbours, Ran, Active, Before
<1> QED
  BY <1>1, <1>2, <1>3, <1>4 DEF Next

\* What no step takes back.
LEMMA Grows ==
    ASSUME TypeOK, [Next]_vars
    PROVE  /\ asked' = asked /\ met \subseteq met' /\ dirs \subseteq dirs'
           /\ \A a, b : Before(a, b) => Before(a, b)'
<1>1. asked' = asked /\ met \subseteq met' /\ dirs \subseteq dirs'
  BY DEF Next, JobStep, vars, queueVars, diskVars, Take, Request, Look, Fetch, IsDir, MkDir,
         IsFile, Open, Write, Commit, CommitGone, Update, Interrupt, DeleteProfile
<1>2. queue' = queue \/ \E k \in Jobs : queue' = Append(queue, k)
  BY DEF Next, JobStep, vars, queueVars, Take, Request, Look, Fetch, IsDir, MkDir,
         IsFile, Open, Write, Commit, CommitGone, Update, Interrupt, DeleteProfile
<1> QED
  BY <1>1, <1>2, BeforeGrows

\* Only a commit changes avatars or current.
LEMMA RowsChange ==
    ASSUME [Next]_vars
    PROVE  (avatars' = avatars /\ current' = current) \/ \E j \in Jobs : Commit(j)
BY DEF Next, JobStep, vars, rowVars, Take, Request, Look, Fetch, IsDir, MkDir,
       IsFile, Open, Write, Commit, CommitGone, Update, Interrupt, DeleteProfile

\* A job that is done or refused a directory stays so.
LEMMA OverIsOver ==
    ASSUME TypeOK, QueueInv, [Next]_vars, NEW j \in Jobs, pc[j] \in {"done", "clash"}
    PROVE  pc'[j] = pc[j] /\ nth'[j] = nth[j] /\ level'[j] = level[j]
<1>1. CASE Take
  <2>1. /\ queue[served + 1] \in Jobs /\ pc[queue[served + 1]] = "queued"
        /\ pc' = [pc EXCEPT ![queue[served + 1]] = "look"]
    BY <1>1 DEF Take, Goto, TypeOK, QueueInv
  <2> QED
    BY <1>1, <2>1 DEF Take, loopVars, TypeOK
<1>2. ASSUME NEW k \in Jobs, Request(k) PROVE pc'[j] = pc[j] /\ loopVars' = loopVars
  BY <1>2 DEF Request, Goto, TypeOK
<1>3. ASSUME NEW k \in Jobs, JobStep(k) \/ Interrupt(k)
      PROVE  pc'[j] = pc[j] /\ nth'[j] = nth[j] /\ level'[j] = level[j]
  <2>1. k \in Active /\ j \notin Active
    BY <1>3, AtWork DEF Active
  <2> QED
    BY <1>3, <2>1, AtWork
<1>4. CASE (\E p \in Profiles : DeleteProfile(p)) \/ UNCHANGED vars
  BY <1>4 DEF DeleteProfile, vars, loopVars
<1> QED
  BY <1>1, <1>2, <1>3, <1>4 DEF Next, loopVars

Late(j) == pc[j] \in {"fetch", "isdir", "mkdir", "isfile", "open", "write", "commit"}

\* A job whose avatar is stored is done; a job that goes on to fetch an address
\* of which an avatar is stored runs beside the job of that avatar.
Stored ==
    /\ \A a \in avatars : pc[a] = "done"
    /\ \A a \in avatars, j \in Jobs : Late(j) /\ asked[a] = asked[j] =>
          <<a, j>> \in met /\ <<j, a>> \in met

\* A job becomes late by a look only.
LEMMA LateBefore ==
    ASSUME TypeOK, QueueInv, [Next]_vars, NEW j \in Jobs, Late(j)'
    PROVE  Late(j) \/ (Look(j) /\ Same(j) = {})
<1>1. CASE Take
  <2>1. queue[served + 1] \in Jobs /\ pc' = [pc EXCEPT ![queue[served + 1]] = "look"]
    BY <1>1 DEF Take, Goto, TypeOK
  <2> QED
    BY <2>1 DEF Late, TypeOK
<1>2. ASSUME NEW k \in Jobs, Request(k) PROVE Late(j)
  BY <1>2 DEF Request, Goto, TypeOK, Late
<1>3. ASSUME NEW k \in Jobs, k # j, JobStep(k) \/ Interrupt(k) PROVE Late(j)
  BY <1>3, AtWork DEF Late
<1>4. CASE JobStep(j) \/ Interrupt(j)
  <2>1. CASE Look(j)
    BY <2>1 DEF Look, Goto, TypeOK, Late
  <2>2. CASE Update(j) \/ Interrupt(j)
    <3>1. Goto(j, "done") \/ Goto(j, "failed")
      BY <2>2 DEF Update, Interrupt, End
    <3> QED
      BY <3>1 DEF Goto, TypeOK, Late
  <2>3. CASE ~ (Look(j) \/ Update(j) \/ Interrupt(j))
    BY <1>4, <2>3 DEF JobStep, Fetch, IsDir, MkDir, IsFile, Open, Write, Commit, CommitGone, Late
  <2> QED
    BY <2>1, <2>2, <2>3
<1>5. CASE (\E p \in Profiles : DeleteProfile(p)) \/ UNCHANGED vars
  BY <1>5 DEF DeleteProfile, vars, Late
<1> QED
  BY <1>1, <1>2, <1>3, <1>4, <1>5 DEF Next

LEMMA StoredNext ==
    ASSUME TypeOK, QueueInv, Neighbours, Stored, [Next]_vars
    PROVE  Stored'
<1>1. asked' = asked /\ met \subseteq met'
  BY Grows
<1>2. ASSUME NEW a \in avatars' PROVE pc'[a] = "done"
  <2>1. CASE a \in avatars
    BY <2>1, OverIsOver DEF Stored, TypeOK
  <2>2. CASE a \notin avatars
    <3>1. a \in Jobs /\ Commit(a)
      BY <1>2, <2>2, RowsChange DEF Commit
    <3> QED
      BY <3>1 DEF Commit, End, Goto, TypeOK
  <2> QED
    BY <2>1, <2>2
<1>3. ASSUME NEW a \in avatars', NEW j \in Jobs, Late(j)', asked'[a] = asked'[j]
      PROVE  <<a, j>> \in met' /\ <<j, a>> \in met'
  <2>1. CASE a \in avatars
    <3>1. Same(j) # {}
      BY <1>1, <1>3, <2>1 DEF Same
    <3> QED
      BY <1>1, <1>3, <2>1, <3>1, LateBefore DEF Stored
  <2>2. CASE a \notin avatars
    <3>1. a \in Jobs /\ Commit(a)
      BY <1>3, <2>2, RowsChange DEF Commit
    <3>2. pc'[a] = "done" /\ a \in Active
      BY <3>1 DEF Commit, End, Goto, TypeOK, Active
    <3>3. a # j
      BY <1>3, <3>2 DEF Late
    <3>4. j \in Active
      BY <1>3, <3>1, <3>3 DEF Commit, End, Goto, TypeOK, Active, Late
    <3> QED
      BY <1>1, <3>2, <3>3, <3>4 DEF Neighbours
  <2> QED
    BY <2>1, <2>2
<1> QED
  BY <1>2, <1>3 DEF Stored

LEMMA OnceNext ==
    ASSUME TypeOK, Stored, OncePerAddress, [Next]_vars
    PROVE  OncePerAddress'
<1>1. asked' = asked /\ met \subseteq met'
  BY Grows
<1>2. CASE avatars' = avatars
  BY <1>1, <1>2 DEF OncePerAddress
<1>3. ASSUME NEW j \in Jobs, Commit(j) PROVE OncePerAddress'
  <2>1. avatars' = avatars \union {j} /\ Late(j)
    BY <1>3 DEF Commit, Late
  <2>2. \A a \in avatars : asked[a] = asked[j] => <<a, j>> \in met /\ <<j, a>> \in met
    BY <2>1 DEF Stored
  <2> QED
    BY <1>1, <2>1, <2>2 DEF OncePerAddress
<1> QED
  BY <1>2, <1>3, RowsChange

LEMMA LatestNext ==
    ASSUME TypeOK, Stored, Neighbours, CurrentIsLatest, [Next]_vars
    PROVE  CurrentIsLatest'
<1>1. /\ asked' = asked /\ met \subseteq met'
      /\ \A a, b : Before(a, b) => Before(a, b)'
  BY Grows
<1>2. CASE avatars' = avatars /\ current' = current
  BY <1>1, <1>2 DEF CurrentIsLatest, ProfileOf
<1>3. ASSUME NEW j \in Jobs, Commit(j) PROVE CurrentIsLatest'
  <2>1. /\ avatars' = avatars \union {j} /\ j \in Active
        /\ current' = [current EXCEPT ![ProfileOf(j)] = j]
    BY <1>3 DEF Commit, Active
  <2>2. \A a \in avatars : <<a, j>> \in met \/ Before(a, j)
    BY <2>1 DEF Neighbours, Stored, TypeOK
  <2>3. \A a \in avatars' : ProfileOf(a) \in Profiles /\ ProfileOf(a)' = ProfileOf(a)
    BY <1>1, <2>1 DEF TypeOK, ProfileOf
  <2>4. ASSUME NEW a \in avatars', ProfileOf(a) = ProfileOf(j)
        PROVE  \/ current'[ProfileOf(a)'] = a \/ Before(a, current[ProfileOf(a)])'
               \/ <<a, current'[ProfileOf(a)']>> \in met'
    <3>1. current'[ProfileOf(a)'] = j
      BY <2>1, <2>3, <2>4 DEF TypeOK
    <3> QED
      BY <1>1, <2>1, <2>2, <3>1
  <2>5. ASSUME NEW a \in avatars', ProfileOf(a) # ProfileOf(j)
        PROVE  \/ current'[ProfileOf(a)'] = a \/ Before(a, current[ProfileOf(a)])'
               \/ <<a, current'[ProfileOf(a)']>> \in met'
    <3>1. a \in avatars /\ current'[ProfileOf(a)'] = current[ProfileOf(a)]
      BY <2>1, <2>3, <2>5 DEF TypeOK
    <3> QED
      BY <1>1, <3>1 DEF CurrentIsLatest
  <2> QED
    BY <2>4, <2>5 DEF CurrentIsLatest
<1> QED
  BY <1>2, <1>3, RowsChange

\* Somebody beside the job has made the directory in its hand.
Made(j) ==
    /\ DirInHand(j) \in dirs
    /\ \E k \in Jobs : <<j, k>> \in met /\ DirInHand(j) \in Above(k)

\* A job that is refused a directory, or will be.
Refused ==
    \A j \in Jobs :
       pc[j] = "clash" \/ (pc[j] = "mkdir" /\ DirInHand(j) \in dirs) => Made(j)

LEMMA MadeStays ==
    ASSUME TypeOK, [Next]_vars, NEW j \in Jobs, Made(j),
           nth'[j] = nth[j], level'[j] = level[j]
    PROVE  Made(j)'
<1>1. asked' = asked /\ met \subseteq met' /\ dirs \subseteq dirs'
  BY Grows
<1>2. DirInHand(j)' = DirInHand(j) /\ \A k \in Jobs : Above(k)' = Above(k)
  BY <1>1 DEF DirInHand, FileInHand, Above
<1> QED
  BY <1>1, <1>2 DEF Made

LEMMA RefusedNext ==
    ASSUME TypeOK, QueueInv, Neighbours, Refused, [Next]_vars
    PROVE  Refused'
<1> SUFFICES ASSUME NEW j \in Jobs,
                    pc'[j] = "clash" \/ (pc'[j] = "mkdir" /\ DirInHand(j)' \in dirs')
             PROVE  Made(j)'
  BY DEF Refused
<1>1. CASE pc[j] = "clash"
  BY <1>1, OverIsOver, MadeStays DEF Refused
<1>2. CASE pc[j] = "mkdir" /\ MkDir(j)
  <2>1. /\ DirInHand(j) \in dirs
        /\ nth' = nth /\ level' = level
    BY <1>2 DEF MkDir, Descend, Goto, TypeOK
  <2> QED
    BY <1>2, <2>1, MadeStays DEF Refused
<1>3. CASE IsDir(j)
  <2>1. DirInHand(j) \notin dirs /\ dirs' = dirs /\ nth' = nth /\ level' = level /\ asked' = asked
    BY <1>3 DEF IsDir, Descend, Goto, TypeOK, diskVars, queueVars
  <2> QED
    BY <1>3, <2>1 DEF IsDir, Descend, Goto, TypeOK, DirInHand, FileInHand
<1>4. CASE pc[j] = "mkdir" /\ pc'[j] = "mkdir" /\ nth'[j] = nth[j] /\ level'[j] = level[j]
  <2>1. CASE DirInHand(j) \in dirs
    BY <1>4, <2>1, MadeStays DEF Refused
  <2>2. CASE DirInHand(j) \notin dirs
    <3>1. asked' = asked
      BY Grows
    <3>2. DirInHand(j)' = DirInHand(j)
      BY <1>4, <3>1 DEF DirInHand, FileInHand
    <3>3. PICK k \in Jobs : MkDir(k) /\ dirs' = dirs \union {DirInHand(k)}
      BY <1>4, <2>2, <3>2
         DEF Next, JobStep, vars, diskVars, Take, Request, Look, Fetch, IsDir, MkDir,
             IsFile, Open, Write, Commit, CommitGone, Update, Interrupt, DeleteProfile
    <3>4. k # j
      BY <1>4, <3>3 DEF MkDir, Descend, Goto, TypeOK
    <3>5. <<j, k>> \in met /\ met' = met
      BY <1>4, <3>3, <3>4 DEF MkDir, Neighbours, Active
    <3>6. DirInHand(k) \in Above(k) /\ Above(k)' = Above(k)
      <4>1. nth[k] \in 1 .. 2 /\ level[k] \in 1 .. 2
        BY DEF TypeOK
      <4>2. \E n \in 1 .. 2, m \in 1 .. 2 : DirInHand(k) = PathOf[FilesOf[asked[k].url][n]][m]
        BY <4>1 DEF DirInHand, FileInHand
      <4>3. DirInHand(k) \in Above(k)
        BY <4>2 DEF Above
      <4>4. Above(k)' = Above(k)
        BY <3>1 DEF Above
      <4> QED
        BY <4>3, <4>4
    <3>7. DirInHand(j) = DirInHand(k)
      BY <1>4, <2>2, <3>2, <3>3
    <3> QED
      BY <3>2, <3>3, <3>5, <3>6, <3>7 DEF Made
  <2> QED
    BY <2>1, <2>2
<1>5. CASE Take
  <2>1. /\ queue[served + 1] \in Jobs
        /\ pc' = [pc EXCEPT ![queue[served + 1]] = "look"] /\ loopVars' = loopVars
    BY <1>5 DEF Take, Goto, TypeOK
  <2> QED
    BY <1>1, <1>4, <2>1 DEF TypeOK, loopVars
<1>6. ASSUME NEW k \in Jobs, Request(k) PROVE Made(j)'
  BY <1>1, <1>4, <1>6 DEF Request, Goto, TypeOK, loopVars
<1>7. ASSUME NEW k \in Jobs, k # j, JobStep(k) \/ Interrupt(k) PROVE Made(j)'
  BY <1>1, <1>4, <1>7, AtWork
<1>8. CASE JobStep(j) \/ Interrupt(j)
  <2>1. CASE Look(j) \/ Fetch(j) \/ IsFile(j) \/ Open(j) \/ Write(j)
    <3>1. \E step \in (Running \ {"mkdir"}) \union {"failed"} : Goto(j, step)
      BY <2>1 DEF Look, Fetch, IsFile, Open, Write, NextFile
    <3> QED
      BY <3>1 DEF Goto, TypeOK
  <2>2. CASE Commit(j) \/ CommitGone(j) \/ Update(j) \/ Interrupt(j)
    <3>1. \E step \in {"done", "failed"} : Goto(j, step)
      BY <2>2 DEF Commit, CommitGone, Update, Interrupt, End
    <3> QED
      BY <3>1 DEF Goto, TypeOK
  <2>3. MkDir(j) => pc[j] = "mkdir"
    BY DEF MkDir
  <2> QED
    BY <1>2, <1>3, <1>8, <2>1, <2>2, <2>3 DEF JobStep
<1>9. CASE (\E p \in Profiles : DeleteProfile(p)) \/ UNCHANGED vars
  BY <1>1, <1>4, <1>9 DEF DeleteProfile, vars, loopVars
<1> QED
  BY <1>5, <1>6, <1>7, <1>8, <1>9 DEF Next

\* All that is known of jobs side by side.
Beside == Neighbours /\ Stored /\ OncePerAddress /\ CurrentIsLatest /\ Refused

LEMMA BesideInit == Init => Beside
BY DEF Init, Beside, Neighbours, Ran, Active, Stored, OncePerAddress, CurrentIsLatest, Refused

LEMMA BesideNext == TypeOK /\ QueueInv /\ Beside /\ [Next]_vars => Beside'
BY NeighboursNext, StoredNext, OnceNext, LatestNext, RefusedNext DEF Beside

LEMMA BesideHolds == Spec => []Beside
<1>1. StoreInv => QueueInv
  BY DEF StoreInv
<1> QED
  BY <1>1, StoreTypesCorrect, StoreInvInit, StoreInvNext, BesideInit, BesideNext, PTL DEF Spec

\* A profile has two avatars from one address only if their jobs ran at the
\* same time, whatever the number of jobs and workers (scrape_avatar).
THEOREM FetchedOnce == Spec => []OncePerAddress
<1>1. Beside => OncePerAddress
  BY DEF Beside
<1> QED
  BY <1>1, BesideHolds, PTL

\* A current avatar is replaced by an older one only by a job that ran beside
\* the one it replaces (scrape_avatar).
THEOREM LatestStays == Spec => []CurrentIsLatest
<1>1. Beside => CurrentIsLatest
  BY DEF Beside
<1> QED
  BY <1>1, BesideHolds, PTL

\* A job fails on a directory only if a job beside it made that directory for
\* a file of its own, for any layout of files and directories (File.__init__).
THEOREM OnlyNeighboursClash == Spec => []ClashIsShared
<1>1. Beside => ClashIsShared
  BY DEF Beside, Refused, Made, ClashIsShared
<1> QED
  BY <1>1, BesideHolds, PTL
=============================================================================
