--------------------------- MODULE RelationsProps ---------------------------
(* What scraping relations keeps true, and what it misses. *)
EXTENDS Relations

(***************************************************************************)
(* Whatever two jobs store from the two ends of the graph, an edge says    *)
(* who follows whom as the site does, and joins two rows; what is pending  *)
(* can be inserted (friends.append and followers.append in both scrapers). *)
(***************************************************************************)
EdgesTrue ==
    /\ edges \subseteq Follows
    /\ \A e \in edges : e[1] \in rows /\ e[2] \in rows
    /\ \A j \in Jobs : \A e \in pend[j] : e \in Follows /\ e[1] \in rows /\ e[2] \in rows

\* Relations of a job that share an account with another one of its relations.
Mutual(j, e) == \E f \in wanted[j] : f # e /\ Other(j, f) = Other(j, e)

(***************************************************************************)
(* Twitter: a job that ends well has stored every relation it set out to   *)
(* store, unless the account is suspended or is friend and follower both   *)
(* (scrape_twitter_relations commits each relation on its own).            *)
(***************************************************************************)
FetchedIsStored ==
    \A j \in Jobs : Twitter /\ pc[j] = "done" => \A e \in wanted[j] :
       e \in edges \/ Other(j, e) \in Suspended \/ Mutual(j, e)

(***************************************************************************)
(* Twitter: of an account that is friend and follower at least one edge is *)
(* stored, so that fetching again stores the other one: each job that ends *)
(* well leaves less to fetch.                                              *)
(***************************************************************************)
AccountsAreLinked ==
    \A j \in Jobs : Twitter /\ pc[j] = "done" => \A e \in wanted[j] :
       Other(j, e) \in Suspended \/ \E f \in edges : f \in {e, <<e[2], e[1]>>}

\* The accounts at the other ends of a job's relations.
Others(j) == {Other(j, e) : e \in wanted[j]}

(***************************************************************************)
(* Instagram: a job on its own, none of whose accounts had a row before,   *)
(* stores every relation it set out to store, except the last one: each    *)
(* commit of a new stub carries the relation before it                     *)
(* (scrape_instagram_relations).                                           *)
(***************************************************************************)
NewAccountsStored ==
    \A j \in Jobs :
       /\ ~Twitter /\ pc[j] = "done" /\ Others(j) \intersect known[j] = {}
       /\ \A e \in wanted[j] : ~Mutual(j, e)
       /\ \A i \in Jobs \ {j} : pc[i] = "new"
       => Cardinality(wanted[j] \ edges) <= 1

(***************************************************************************)
(* Every job leaves its worker.                                            *)
(***************************************************************************)
RelationsEnd == \A j \in Jobs : (pc[j] \in Running) ~> (pc[j] \in Ended)

(***************************************************************************)
(* lib/worker/scrape.py:448, "Fetch friends and followers for the          *)
(* Instagram user": a job that ends well has stored what it fetched.       *)
(***************************************************************************)
FriendsAreFetched == \A j \in Jobs : pc[j] = "done" => wanted[j] \subseteq edges
=============================================================================
