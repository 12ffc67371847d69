------------------------------ MODULE Relations ------------------------------
(***************************************************************************)
(* Scraping of friends and followers: scrape_twitter_relations and         *)
(* scrape_instagram_relations, run by several workers at once, on the      *)
(* tables "profile" and "profile_join_self".  An edge <<a, b>> says that a *)
(* follows b: it is one row, whichever end it is scraped from.             *)
(*                                                                         *)
(* A session sees committed rows only; what it has appended is inserted    *)
(* when it next commits, together with everything else that is pending,    *)
(* and a violated unique key undoes all of it.                             *)
(***************************************************************************)
EXTENDS Naturals, FiniteSets

CONSTANTS
    Sites,         \* the sites to consider: "twitter", "instagram"
    Users,         \* accounts of the site
    Follows,       \* its graph: <<a, b>> if a follows b
    Suspended,     \* accounts that it lists but does not describe
    MaxResults,    \* max_relations_<site>: friends and followers per job
    ChunkSize,     \* accounts per look-up at Twitter
    Jobs,          \* jobs that scrape relations
    Faults         \* may a site, a timeout or a death interrupt a job?

ASSUME GraphAssumption ==
    Users # {} /\ Follows \subseteq Users \X Users /\ Suspended \subseteq Users
ASSUME FiniteAssumption == IsFiniteSet(Users)
ASSUME SiteAssumption == Sites \subseteq {"twitter", "instagram"}
ASSUME LimitAssumption ==
    MaxResults \in Nat /\ ChunkSize \in Nat \ {0} /\ Faults \in BOOLEAN

VARIABLES
    site,          \* where the profiles are from
    rows,          \* accounts that have a profile row
    edges,         \* rows of profile_join_self
    pc, who,       \* job: step, the profile it is for
    friends, followers,  \* edges still to be dealt with, by list
    batch,         \* edges of the chunk that has been looked up
    cur, pend,     \* edge in hand; edges that the next commit inserts
    wanted,        \* history: edges the job has set out to store
    known          \* history: rows that were there when the job began

jobVars == <<pc, who, friends, followers, batch, cur, pend>>
vars == <<site, rows, edges, jobVars, wanted, known>>

Twitter == site = "twitter"
Edges == Users \X Users
Running == {"lookup", "insert", "append", "commit"}
Ended == {"done", "failed"}

FriendsOf(p) == {e \in Follows : e[1] = p}
FollowersOf(p) == {e \in Follows : e[2] = p}
\* The account at the other end.
Other(j, e) == IF e[1] = who[j] THEN e[2] ELSE e[1]

TypeOK ==
    /\ site \in Sites
    /\ rows \subseteq Users /\ edges \subseteq Edges
    /\ pc \in [Jobs -> Running \union Ended \union {"new"}]
    /\ who \in [Jobs -> Users]
    /\ friends \in [Jobs -> SUBSET Edges] /\ followers \in [Jobs -> SUBSET Edges]
    /\ batch \in [Jobs -> SUBSET Edges] /\ pend \in [Jobs -> SUBSET Edges]
    /\ \A j \in Jobs : \A e, f \in pend[j] : e = f
    /\ cur \in [Jobs -> Edges]
    /\ \A j \in Jobs : pc[j] \in {"append", "commit"} => cur[j] \in wanted[j]
    /\ wanted \in [Jobs -> SUBSET Edges] /\ known \in [Jobs -> SUBSET Users]

AnyUser == CHOOSE u \in Users : TRUE

\* Some profiles, and relations among them, are there from earlier.
Init ==
    /\ site \in Sites
    /\ rows \in SUBSET Users
    /\ edges \in SUBSET {e \in Follows : e[1] \in rows /\ e[2] \in rows}
    /\ pc = [j \in Jobs |-> "new"] /\ who = [j \in Jobs |-> AnyUser]
    /\ friends = [j \in Jobs |-> {}] /\ followers = [j \in Jobs |-> {}]
    /\ batch = [j \in Jobs |-> {}] /\ pend = [j \in Jobs |-> {}]
    /\ cur = [j \in Jobs |-> <<AnyUser, AnyUser>>]
    /\ wanted = [j \in Jobs |-> {}] /\ known = [j \in Jobs |-> {}]

Goto(j, step) == pc' = [pc EXCEPT ![j] = step]

\* The first n elements of S, in whatever order the site has them.
Prefixes(S, n) ==
    {T \in SUBSET S : Cardinality(T) = IF Cardinality(S) < n THEN Cardinality(S) ELSE n}

-----------------------------------------------------------------------------
\* Mutant: followers are stored as friends.
BeginSwapped(j, p) ==
    /\ pc[j] = "new" /\ p \in rows
    /\ who' = [who EXCEPT ![j] = p]
    /\ \E fr \in Prefixes(FriendsOf(p) \ edges, MaxResults),
          fo \in Prefixes(FollowersOf(p) \ edges, MaxResults) :
          /\ friends' = [friends EXCEPT ![j] = fr \union {<<e[2], e[1]>> : e \in fo}]
          /\ wanted' = [wanted EXCEPT ![j] = fr \union fo]
          /\ Goto(j, IF fr \union fo = {} THEN "done"
                     ELSE IF Twitter THEN "lookup" ELSE "insert")
    /\ known' = [known EXCEPT ![j] = rows]
    /\ UNCHANGED <<site, rows, edges, followers, batch, cur, pend>>

\* Read the stored relations of p, and take from the site those that are
\* missing, at most MaxResults of each list.
Begin(j, p) ==
    /\ pc[j] = "new" /\ p \in rows
    /\ who' = [who EXCEPT ![j] = p]
    /\ \E fr \in Prefixes(FriendsOf(p) \ edges, MaxResults),
          fo \in Prefixes(FollowersOf(p) \ edges, MaxResults) :
          /\ friends' = [friends EXCEPT ![j] = fr]
          /\ followers' = [followers EXCEPT ![j] = fo]
          /\ wanted' = [wanted EXCEPT ![j] = fr \union fo]
          /\ Goto(j, IF fr \union fo = {} THEN "done"
                     ELSE IF Twitter THEN "lookup" ELSE "insert")
    /\ known' = [known EXCEPT ![j] = rows]
    /\ UNCHANGED <<site, rows, edges, batch, cur, pend>>

\* The relations that a chunk of ids stands for: chunk_lookup maps each id to
\* one relation, so an id that is in both lists counts as a follower only.
ChunkRelations(j, fr, fo) ==
    fo \union {e \in fr : \A f \in fo : Other(j, f) # Other(j, e)}

\* Twitter: look up the next chunk, friends before followers.  If none of its
\* accounts is described, the site answers 404 and the job fails.
LookUp(j) ==
    /\ Twitter /\ pc[j] = "lookup"
    /\ \E fr \in Prefixes(friends[j], ChunkSize) :
       \E fo \in Prefixes(followers[j], ChunkSize - Cardinality(fr)) :
          LET described == {e \in ChunkRelations(j, fr, fo) : Other(j, e) \notin Suspended} IN
          /\ friends' = [friends EXCEPT ![j] = @ \ fr]
          /\ followers' = [followers EXCEPT ![j] = @ \ fo]
          /\ batch' = [batch EXCEPT ![j] = described]
          /\ Goto(j, IF described = {} THEN "failed" ELSE "insert")
    /\ UNCHANGED <<site, rows, edges, who, cur, pend, wanted, known>>

\* Twitter: insert a stub and commit.  Nothing else is pending, so a row that
\* is there already does no harm: it is loaded.
TwitterInsert(j, e) ==
    /\ Twitter /\ pc[j] = "insert" /\ e \in batch[j]
    /\ cur' = [cur EXCEPT ![j] = e]
    /\ rows' = rows \union {Other(j, e)}
    /\ Goto(j, "append")
    /\ UNCHANGED <<site, edges, who, friends, followers, batch, pend, wanted, known>>

\* Instagram: the list in hand; followers come after all friends.
Listed(j) == IF friends[j] # {} THEN friends[j] ELSE followers[j]

\* Mutant: the commit of the stub does not include the pending edge.
InstagramInsertOnly(j, e) ==
    /\ ~Twitter /\ pc[j] = "insert" /\ e \in Listed(j)
    /\ Other(j, e) \notin rows /\ pend[j] \intersect edges = {}
    /\ cur' = [cur EXCEPT ![j] = e]
    /\ rows' = rows \union {Other(j, e)}
    /\ pend' = [pend EXCEPT ![j] = {}]
    /\ Goto(j, "append")
    /\ UNCHANGED <<site, edges, who, friends, followers, batch, wanted, known>>

\* Instagram: the commit inserts a stub and the edge appended before it.
InstagramInsert(j, e) ==
    /\ ~Twitter /\ pc[j] = "insert" /\ e \in Listed(j)
    /\ Other(j, e) \notin rows /\ pend[j] \intersect edges = {}
    /\ cur' = [cur EXCEPT ![j] = e]
    /\ rows' = rows \union {Other(j, e)}
    /\ edges' = edges \union pend[j]
    /\ pend' = [pend EXCEPT ![j] = {}]
    /\ Goto(j, "append")
    /\ UNCHANGED <<site, who, friends, followers, batch, wanted, known>>

\* Instagram: the stub, or the edge before it, is there already.  The rollback
\* forgets that edge; the row is loaded, if it is the row that exists.
InstagramRollback(j, e) ==
    /\ ~Twitter /\ pc[j] = "insert" /\ e \in Listed(j)
    /\ Other(j, e) \in rows \/ pend[j] \intersect edges # {}
    /\ cur' = [cur EXCEPT ![j] = e]
    /\ pend' = [pend EXCEPT ![j] = {}]
    /\ Goto(j, IF Other(j, e) \in rows THEN "append" ELSE "failed")
    /\ UNCHANGED <<site, rows, edges, who, friends, followers, batch, wanted, known>>

\* Load the list of friends (or followers) and append the profile to it, which
\* changes nothing if it is there.
Append(j) ==
    /\ pc[j] = "append"
    /\ pend' = [pend EXCEPT ![j] = {cur[j]} \ edges]
    /\ IF Twitter
       THEN /\ Goto(j, "commit")
            /\ UNCHANGED <<friends, followers>>
       ELSE /\ friends' = [friends EXCEPT ![j] = @ \ {cur[j]}]
            /\ followers' = [followers EXCEPT ![j] = IF friends[j] = {} THEN @ \ {cur[j]} ELSE @]
            /\ Goto(j, IF friends'[j] \union followers'[j] = {} THEN "done" ELSE "insert")
    /\ UNCHANGED <<site, rows, edges, who, batch, cur, wanted, known>>

\* What a Twitter job does after the relation in hand.
AfterRelation(j) ==
    IF batch[j] # {cur[j]} THEN "insert"
    ELSE IF friends[j] \union followers[j] # {} THEN "lookup" ELSE "done"

\* Mutant: the last relation of a job is left to a commit that never comes.
CommitNotLast(j) ==
    /\ pc[j] = "commit" /\ pend[j] \intersect edges = {}
    /\ edges' = IF AfterRelation(j) = "done" THEN edges ELSE edges \union pend[j]
    /\ pend' = [pend EXCEPT ![j] = {}]
    /\ batch' = [batch EXCEPT ![j] = @ \ {cur[j]}]
    /\ Goto(j, AfterRelation(j))
    /\ UNCHANGED <<site, rows, who, friends, followers, cur, wanted, known>>

\* Mutant: the relation stays in the batch.
CommitAgain(j) ==
    /\ pc[j] = "commit" /\ pend[j] \intersect edges = {}
    /\ edges' = edges \union pend[j]
    /\ pend' = [pend EXCEPT ![j] = {}]
    /\ Goto(j, "insert")
    /\ UNCHANGED <<site, rows, who, friends, followers, batch, cur, wanted, known>>

Commit(j) ==
    /\ pc[j] = "commit" /\ pend[j] \intersect edges = {}
    /\ edges' = edges \union pend[j]
    /\ pend' = [pend EXCEPT ![j] = {}]
    /\ batch' = [batch EXCEPT ![j] = @ \ {cur[j]}]
    /\ Goto(j, AfterRelation(j))
    /\ UNCHANGED <<site, rows, who, friends, followers, cur, wanted, known>>

\* Another job has stored the edge, from its other end, since the list was
\* loaded: nobody catches the error.
CommitConflict(j) ==
    /\ pc[j] = "commit" /\ pend[j] \intersect edges # {}
    /\ pend' = [pend EXCEPT ![j] = {}]
    /\ Goto(j, "failed")
    /\ UNCHANGED <<site, rows, edges, who, friends, followers, batch, cur, wanted, known>>

\* The site or a timeout ends the job, or its process dies: what is pending
\* is lost.
Interrupt(j) ==
    /\ Faults /\ pc[j] \in Running
    /\ pend' = [pend EXCEPT ![j] = {}]
    /\ Goto(j, "failed")
    /\ UNCHANGED <<site, rows, edges, who, friends, followers, batch, cur, wanted, known>>

JobStep(j) ==
    \/ LookUp(j) \/ Append(j) \/ Commit(j) \/ CommitConflict(j)
    \/ \E e \in Edges : TwitterInsert(j, e) \/ InstagramInsert(j, e) \/ InstagramRollback(j, e)

Next == \E j \in Jobs : JobStep(j) \/ Interrupt(j) \/ \E p \in Users : Begin(j, p)

Spec == Init /\ [][Next]_vars

\* Workers are kept alive by supervisor and go on with what they have begun;
\* nothing has to fail.
FairSpec == Spec /\ \A j \in Jobs : WF_vars(JobStep(j))
=============================================================================
