------------------------- MODULE ProfileScrapeProps -------------------------
(* What scraping profiles promises, and what it does not. *)
EXTENDS ProfileScrape

Wanted(j) == req[j].users \intersect Existing

\* The follow-up jobs of an account that is scraped in full.
FullKinds(u) == IF Twitter /\ u \in Protected THEN {"index", "avatar"} ELSE Kinds

(***************************************************************************)
(* A job that ends well has done all it was asked for, whatever other jobs *)
(* have done to the same rows meanwhile and since: every account the site  *)
(* has is stored, filled in and announced, and its follow-up jobs have     *)
(* been queued.  At Twitter it has its label, and it is full unless nobody *)
(* but stub requests asked for it (scrape_twitter_account and its twin).   *)
(***************************************************************************)
Fulfilled ==
    \A j \in Jobs : pc[j] = "done" => \A u \in Wanted(j) :
       /\ u \in filled /\ <<j, u>> \in told
       /\ Twitter /\ u \in req[j].labels => u \in labelled
       /\ Twitter /\ ~req[j].stub => row[u] = "full"
       /\ {<<k, u>> : k \in IF req[j].stub THEN {"index"} ELSE FullKinds(u)} \subseteq jobs

(***************************************************************************)
(* Concurrent or repeated requests, stub or not, never turn a full profile *)
(* back into a stub (scrape_twitter_account; not so at Instagram).         *)
(***************************************************************************)
FullStaysFull == [][\A u \in Users : Twitter /\ row[u] = "full" => row'[u] = "full"]_row

(***************************************************************************)
(* Who hears of a profile on the channel can fetch it filled in, and the   *)
(* job that makes it searchable has been queued.                           *)
(***************************************************************************)
ToldIsStored ==
    \A t \in told : row[t[2]] # "none" /\ t[2] \in filled /\ <<"index", t[2]>> \in jobs

(***************************************************************************)
(* Every account of a request that the site has is answered, by its        *)
(* profile or by an error that names it: also the accounts of a batch of   *)
(* which others had been stored when the job failed.  Excepted are jobs    *)
(* whose worker is killed, and the two failures that the code announces to *)
(* nobody: that of start_job, which is outside the "try", and that of the  *)
(* publication of an error.                                                *)
(***************************************************************************)
Answered ==
    \A j \in Jobs :
       (pc[j] = "queued")
          ~> (\/ \A u \in Wanted(j) : <<j, u>> \in told
              \/ j \in refused
              \/ pc[j] \in {"mute", "dead"})
=============================================================================
