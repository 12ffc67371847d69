------------------------------ MODULE FileStore ------------------------------
(***************************************************************************)
(* Avatars and the files they are stored in: the job scrape_avatar, and    *)
(* the constructor of File, which writes to a file system where a file is  *)
(* named by the hash of its content.                                       *)
(*                                                                         *)
(* An avatar brings two files, the image and its thumbnail.  Files are     *)
(* shared by accounts with the same picture.  Each look at the file system *)
(* and each change to it is a step, so jobs on several workers interleave  *)
(* in it; the rows of an avatar are committed after its files were         *)
(* written.                                                                *)
(***************************************************************************)
EXTENDS Naturals, Sequences, FiniteSets

CONSTANTS
    Profiles, Urls,  \* accounts, addresses of pictures
    Jobs, NoAvatar,  \* avatar jobs; no job
    Files,           \* contents, each with its own path
    FilesOf,         \* for each address, the image and the thumbnail
    PathOf,          \* for each file, the two directories above it
    Dirs,            \* directories
    Parts,           \* number of parts in which a file reaches the disk
    Servers,         \* number of workers that serve the queue
    Faults           \* may a site, a timeout, the disk or a death interrupt a job?

ASSUME StoreAssumption ==
    /\ FilesOf \in [Urls -> Files \X Files] /\ PathOf \in [Files -> Dirs \X Dirs]
    /\ NoAvatar \notin Jobs /\ Parts \in Nat \ {0} /\ Servers \in Nat /\ Faults \in BOOLEAN

VARIABLES
    profiles,     \* rows of "profile"
    avatars,      \* rows of "avatar", each named by the job that inserted it
    current,      \* profile.current_avatar_id: an avatar, or none
    dirs,         \* directories that exist
    files,        \* files that exist
    onDisk,       \* the parts of each file that are on the disk
    queue, served,\* jobs in the order they were queued; how many have been taken
    asked,        \* profile and address of each job, chosen at the beginning
    pc,           \* job: step
    nth, level,   \* job: which of the two files, which directory of its path
    offset,       \* job: parts it has written so far
    broken,       \* history: files whose writer was stopped on the way
    met           \* history: pairs of jobs that ran at the same time

diskVars == <<dirs, files, onDisk, broken>>
rowVars == <<profiles, avatars, current>>
queueVars == <<queue, served, asked>>
loopVars == <<nth, level, offset>>
vars == <<rowVars, diskVars, queueVars, pc, loopVars, met>>

Running == {"look", "fetch", "isdir", "mkdir", "isfile", "open", "write", "commit", "update"}

TypeOK ==
    /\ profiles \subseteq Profiles /\ avatars \subseteq Jobs
    /\ current \in [Profiles -> Jobs \union {NoAvatar}]
    /\ dirs \subseteq Dirs /\ files \subseteq Files /\ broken \subseteq Files
    /\ onDisk \in [Files -> SUBSET (1 .. Parts)]
    /\ queue \in Seq(Jobs) /\ served \in 0 .. Len(queue)
    /\ asked \in [Jobs -> [profile : Profiles, url : Urls]]
    /\ pc \in [Jobs -> Running \union {"new", "queued", "done", "failed", "clash"}]
    /\ nth \in [Jobs -> 1 .. 2] /\ level \in [Jobs -> 1 .. 2] /\ offset \in [Jobs -> 0 .. Parts]
    /\ \A j \in Jobs : pc[j] = "write" => offset[j] < Parts
    /\ met \subseteq Jobs \X Jobs

Init ==
    /\ profiles = Profiles /\ avatars = {} /\ current = [p \in Profiles |-> NoAvatar]
    /\ dirs = {} /\ files = {} /\ broken = {} /\ onDisk = [f \in Files |-> {}]
    /\ queue = <<>> /\ served = 0 /\ asked \in [Jobs -> [profile : Profiles, url : Urls]]
    /\ pc = [j \in Jobs |-> "new"]
    /\ nth = [j \in Jobs |-> 1] /\ level = [j \in Jobs |-> 1] /\ offset = [j \in Jobs |-> 0]
    /\ met = {}

Goto(j, step) == pc' = [pc EXCEPT ![j] = step]

\* The job is over, and its variables with it.
End(j, step) ==
    /\ Goto(j, step)
    /\ nth' = [nth EXCEPT ![j] = 1] /\ level' = [level EXCEPT ![j] = 1]
    /\ offset' = [offset EXCEPT ![j] = 0]

Active == {j \in Jobs : pc[j] \in Running}
ProfileOf(j) == asked[j].profile
FileInHand(j) == FilesOf[asked[j].url][nth[j]]
DirInHand(j) == PathOf[FileInHand(j)][level[j]]

-----------------------------------------------------------------------------
\* schedule_avatar, when a profile has been scraped in full.
Request(j) ==
    /\ pc[j] = "new" /\ ProfileOf(j) \in profiles
    /\ queue' = Append(queue, j)
    /\ Goto(j, "queued")
    /\ UNCHANGED <<rowVars, diskVars, served, asked, loopVars, met>>

\* A worker takes the oldest job.
Take ==
    /\ served < Len(queue) /\ Cardinality(Active) < Servers
    /\ served' = served + 1
    /\ LET j == queue[served'] IN
          /\ Goto(j, "look")
          /\ met' = met \union ({j} \X Active) \union (Active \X {j})
    /\ UNCHANGED <<rowVars, diskVars, queue, asked, loopVars>>

\* Avatars of the profile with the address of the job.
Same(j) == {a \in avatars : asked[a] = asked[j]}

\* Mutant: the avatars that the profile has are not looked at.
LookNever(j) ==
    /\ pc[j] = "look"
    /\ Goto(j, IF ProfileOf(j) \in profiles THEN "fetch" ELSE "failed")
    /\ UNCHANGED <<rowVars, diskVars, queueVars, loopVars, met>>

\* Load the profile and its avatars.
Look(j) ==
    /\ pc[j] = "look"
    /\ Goto(j, IF ProfileOf(j) \notin profiles THEN "failed"
               ELSE IF Same(j) = {} THEN "fetch" ELSE "update")
    /\ UNCHANGED <<rowVars, diskVars, queueVars, loopVars, met>>

Fetch(j) ==
    /\ pc[j] = "fetch"
    /\ Goto(j, "isdir")
    /\ UNCHANGED <<rowVars, diskVars, queueVars, loopVars, met>>

\* On to the directory below, or to the file.
Descend(j) ==
    IF level[j] = 1 THEN level' = [level EXCEPT ![j] = 2] /\ Goto(j, "isdir")
                    ELSE level' = [level EXCEPT ![j] = 1] /\ Goto(j, "isfile")

\* Mutant: the directory is made without a look whether it is there.
IsDirNever(j) ==
    /\ pc[j] = "isdir"
    /\ Goto(j, "mkdir")
    /\ UNCHANGED <<rowVars, diskVars, queueVars, loopVars, met>>

IsDir(j) ==
    /\ pc[j] = "isdir"
    /\ \/ DirInHand(j) \in dirs /\ Descend(j)
       \/ DirInHand(j) \notin dirs /\ Goto(j, "mkdir") /\ UNCHANGED level
    /\ UNCHANGED <<rowVars, diskVars, queueVars, nth, offset, met>>

\* mkdir raises when another job has made the directory since.
MkDir(j) ==
    /\ pc[j] = "mkdir"
    /\ \/ DirInHand(j) \in dirs /\ Goto(j, "clash") /\ UNCHANGED <<dirs, level>>
       \/ DirInHand(j) \notin dirs /\ dirs' = dirs \union {DirInHand(j)} /\ Descend(j)
    /\ UNCHANGED <<rowVars, files, onDisk, broken, queueVars, nth, offset, met>>

\* On to the thumbnail, or to the commit.
NextFile(j) ==
    IF nth[j] = 1 THEN nth' = [nth EXCEPT ![j] = 2] /\ Goto(j, "isdir")
                  ELSE Goto(j, "commit") /\ UNCHANGED nth

IsFile(j) ==
    /\ pc[j] = "isfile"
    /\ \/ FileInHand(j) \in files /\ NextFile(j)
       \/ FileInHand(j) \notin files /\ Goto(j, "open") /\ UNCHANGED nth
    /\ UNCHANGED <<rowVars, diskVars, queueVars, level, offset, met>>

\* open(path, 'wb') empties a file that another job has made since.
Open(j) ==
    /\ pc[j] = "open"
    /\ files' = files \union {FileInHand(j)}
    /\ onDisk' = [onDisk EXCEPT ![FileInHand(j)] = {}]
    /\ offset' = [offset EXCEPT ![j] = 0]
    /\ Goto(j, "write")
    /\ UNCHANGED <<rowVars, dirs, broken, queueVars, nth, level, met>>

\* Mutant: the file is not closed before the commit.
WriteNoClose(j) ==
    /\ pc[j] = "write"
    /\ onDisk' = [onDisk EXCEPT ![FileInHand(j)] = @ \union {offset[j] + 1}]
    /\ offset' = [offset EXCEPT ![j] = @ + 1]
    /\ NextFile(j)
    /\ UNCHANGED <<rowVars, dirs, files, broken, queueVars, level, met>>

\* The next part reaches the disk, at its place; the last one when the file is closed.
Write(j) ==
    /\ pc[j] = "write"
    /\ onDisk' = [onDisk EXCEPT ![FileInHand(j)] = @ \union {offset[j] + 1}]
    /\ offset' = [offset EXCEPT ![j] = @ + 1]
    /\ IF offset[j] + 1 < Parts THEN Goto(j, "write") /\ UNCHANGED nth ELSE NextFile(j)
    /\ UNCHANGED <<rowVars, dirs, files, broken, queueVars, level, met>>

\* Mutant: the new avatar is attached without becoming the current one.
CommitNotCurrent(j) ==
    /\ pc[j] = "commit" /\ ProfileOf(j) \in profiles
    /\ avatars' = avatars \union {j}
    /\ current' = [current EXCEPT ![ProfileOf(j)] = IF @ = NoAvatar THEN j ELSE @]
    /\ End(j, "done")
    /\ UNCHANGED <<profiles, diskVars, queueVars, met>>

\* Avatar, its two files and its place in the profile are committed together.
Commit(j) ==
    /\ pc[j] = "commit" /\ ProfileOf(j) \in profiles
    /\ avatars' = avatars \union {j}
    /\ current' = [current EXCEPT ![ProfileOf(j)] = j]
    /\ End(j, "done")
    /\ UNCHANGED <<profiles, diskVars, queueVars, met>>

\* The profile was deleted meanwhile: the reference to it is refused.
CommitGone(j) ==
    /\ pc[j] = "commit" /\ ProfileOf(j) \notin profiles
    /\ End(j, "failed")
    /\ UNCHANGED <<rowVars, diskVars, queueVars, met>>

\* The avatar that was found keeps its files; its end_date moves on.
Update(j) ==
    /\ pc[j] = "update"
    /\ End(j, "done")
    /\ UNCHANGED <<rowVars, diskVars, queueVars, met>>

\* The job stops, by an exception or with its process; what has been written
\* of a file stays.
Interrupt(j) ==
    /\ Faults /\ pc[j] \in Running
    /\ End(j, "failed")
    /\ broken' = broken \union {f \in {FileInHand(j)} : pc[j] = "write"}
    /\ UNCHANGED <<rowVars, dirs, files, onDisk, queueVars, met>>

\* DELETE /api/profile/<id>: avatars and files stay, without the profile.
DeleteProfile(p) ==
    /\ p \in profiles
    /\ profiles' = profiles \ {p}
    /\ UNCHANGED <<avatars, current, diskVars, queueVars, pc, loopVars, met>>

JobStep(j) ==
    \/ Look(j) \/ Fetch(j) \/ IsDir(j) \/ MkDir(j) \/ IsFile(j) \/ Open(j) \/ Write(j)
    \/ Commit(j) \/ CommitGone(j) \/ Update(j)

Next ==
    \/ Take
    \/ \E j \in Jobs : Request(j) \/ JobStep(j) \/ Interrupt(j)
    \/ \E p \in Profiles : DeleteProfile(p)

Spec == Init /\ [][Next]_vars
=============================================================================
