--------------------------- MODULE FileStoreProps ---------------------------
(* What the file store and the avatars promise. *)
EXTENDS FileStore

Whole(f) == f \in files /\ onDisk[f] = 1 .. Parts
Writing(j, f) == pc[j] = "write" /\ FileInHand(j) = f

(***************************************************************************)
(* A file that a committed row refers to can be served whole, although     *)
(* jobs with the same content empty and rewrite each other's files: if it  *)
(* is not whole, somebody is writing it at the moment, or some job was     *)
(* stopped while writing it, which nothing repairs (File.__init__).        *)
(***************************************************************************)
StoredIsWhole ==
    \A a \in avatars, n \in 1 .. 2 :
       LET f == FilesOf[asked[a].url][n]
       IN  Whole(f) \/ f \in broken \/ \E j \in Jobs : Writing(j, f)

(***************************************************************************)
(* A profile has two avatars from the same address only if their jobs ran  *)
(* at the same time (scrape_avatar looks before it fetches).               *)
(***************************************************************************)
OncePerAddress ==
    \A a, b \in avatars : a # b /\ asked[a] = asked[b] => <<a, b>> \in met

\* Job j was queued before job k.
Before(j, k) == \E m, n \in 1 .. Len(queue) : m < n /\ queue[m] = j /\ queue[n] = k

(***************************************************************************)
(* The current avatar is never older than one that has been fetched: a job *)
(* that finds a newer one in its place was overtaken by a job beside it.   *)
(* (Of jobs that find their address among the avatars this says nothing:   *)
(* they leave the current avatar as it is.)                                *)
(***************************************************************************)
CurrentIsLatest ==
    \A a \in avatars :
       LET c == current[ProfileOf(a)] IN c = a \/ Before(a, c) \/ <<a, c>> \in met

\* Directories above the files of a job.
Above(j) == {PathOf[FilesOf[asked[j].url][n]][m] : n \in 1 .. 2, m \in 1 .. 2}

(***************************************************************************)
(* A job is refused a directory only because a job beside it has made it   *)
(* for a file of its own; the directory is there to stay, so a repetition  *)
(* of the job gets past it (File.__init__).                                *)
(***************************************************************************)
ClashIsShared ==
    \A j \in Jobs : pc[j] = "clash" =>
       /\ DirInHand(j) \in dirs
       /\ \E k \in Jobs : <<j, k>> \in met /\ DirInHand(j) \in Above(k)
=============================================================================
