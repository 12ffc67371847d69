---------------------------- MODULE TimelineProps ----------------------------
(* What scraping posts keeps true of the stored timeline, and what not. *)
EXTENDS Timeline

\* A job for newer posts has been answered with the newest stored one as well.
Again(i) == Twitter /\ inclusive /\ \E j \in Jobs : pc[j] = "done" /\ since[j] = i

(***************************************************************************)
(* No post is stored twice, and none between two stored ones is missing,   *)
(* through any sequence of fetches up and down, while new posts appear and *)
(* jobs fail half way - provided that no two jobs fetch the same range at  *)
(* a time (one for newer and one for older posts do not disturb each       *)
(* other).  Holes need a job for newer posts that stopped at its maximum.  *)
(* If Twitter's answers include the post that since_id names, as a comment *)
(* in scrape_twitter_posts has it, then a post is stored again by each job *)
(* for which it was the newest stored one: the code ignores the post that  *)
(* max_id names only.                                                      *)
(***************************************************************************)
StoredOnce == clash \/ \A i \in Posts : stored[i] <= 1 \/ Again(i)
NoHoles == clash \/ cut \/ \A i, l \in Stored : i .. l \subseteq Stored

(***************************************************************************)
(* A job that ends short of its maximum has left nothing out of its range: *)
(* the paging of the two sites loses no post at a page boundary, however   *)
(* the timeline grows meanwhile and whatever other jobs store.             *)
(***************************************************************************)
CaughtUp ==
    \A j \in Jobs : pc[j] = "done" /\ results[j] < MaxResults =>
       IF recent[j] \/ from[j] = 0 THEN from[j] + 1 .. upTo[j] \subseteq Stored
       ELSE 1 .. from[j] - 1 \subseteq Stored

(***************************************************************************)
(* The page loops end, although posts are published meanwhile.             *)
(***************************************************************************)
TimelineEnds == \A j \in Jobs : (j \in Running) ~> (pc[j] \in {"done", "failed"})
=============================================================================
