--------------------------- MODULE Timeline_proofs ---------------------------
(***************************************************************************)
(* Proofs about the scraping of posts, for any number of jobs, pages of    *)
(* any size from two posts up and any maximum.                             *)
(***************************************************************************)
EXTENDS TimelineProps, FiniteSetTheorems, TLAPS

-----------------------------------------------------------------------------
(* Finite sets of posts *)

\* Sets of posts are finite.
LEMMA PostsFinite ==
    ASSUME NEW S \in SUBSET Posts
    PROVE  IsFiniteSet(S) /\ Cardinality(S) \in Nat
<1>1. IsFiniteSet(Posts)
  BY SizeAssumption, FS_Interval DEF Posts
<1>2. IsFiniteSet(S)
  BY <1>1, FS_Subset
<1> QED
  BY <1>2, FS_CardinalityType

\* Posts of a set that are newer than i.
Above(S, i) == {k \in S : k > i}

\* A set of posts has a newest one: one with the least set above it.
LEMMA MaxOfPosts ==
    ASSUME NEW S \in SUBSET Posts, S # {}
    PROVE  Max(S) \in S /\ \A i \in S : i <= Max(S)
<1> DEFINE T == {Above(S, i) : i \in S}
<1>1. S \subseteq Int
  BY SizeAssumption DEF Posts
<1>2. T \subseteq FiniteSubsetsOf(S) /\ T # {}
  BY PostsFinite DEF FiniteSubsetsOf, Above
<1>3. PICK A \in T : \A B \in T : ~ (<<B, A>> \in StrictSubsetOrdering(S))
  BY <1>2, WFMin, FS_StrictSubsetOrderingWellFounded
<1>4. PICK m \in S : A = Above(S, m)
  OBVIOUS
<1>5. ASSUME NEW i \in S, i > m PROVE FALSE
  <2> i \in Int /\ m \in Int
    BY <1>1
  <2>1. Above(S, i) \subseteq A /\ i \in A /\ i \notin Above(S, i)
    <3>1. \A k \in S : k > i => k > m
      BY <1>1, <1>5
    <3>2. ~ (i > i)
      OBVIOUS
    <3> QED
      BY <1>4, <1>5, <3>1, <3>2 DEF Above
  <2>2. Above(S, i) \in SUBSET S /\ A \in SUBSET S
    BY <1>4 DEF Above
  <2>3. <<Above(S, i), A>> \in StrictSubsetOrdering(S)
    BY <2>1, <2>2 DEF StrictSubsetOrdering
  <2> QED
    BY <1>3, <2>3
<1>6. \A i \in S : m >= i
  BY <1>1, <1>5
<1> QED
  BY <1>1, <1>6 DEF Max

\* ... and an oldest one.
LEMMA MinOfPosts ==
    ASSUME NEW S \in SUBSET Posts, S # {}
    PROVE  Min(S) \in S /\ \A i \in S : Min(S) <= i
<1> DEFINE R == {LastPost + 1 - i : i \in S}
<1>1. S \subseteq Int /\ LastPost \in Int
  BY SizeAssumption DEF Posts
<1>2. R \in SUBSET Posts /\ R # {}
  <2>1. \A i \in Posts : LastPost + 1 - i \in Posts
    BY <1>1 DEF Posts
  <2> QED
    BY <2>1
<1>3. PICK m \in S : Max(R) = LastPost + 1 - m
  BY <1>2, MaxOfPosts
<1>4. \A i \in S : LastPost + 1 - i \in R
  OBVIOUS
<1>5. \A i \in S : m =< i
  BY <1>1, <1>2, <1>3, <1>4, MaxOfPosts
<1> QED
  BY <1>1, <1>5 DEF Min

\* The newest n posts of a set are at most n; they are above all others; they
\* are all if they are fewer than n.
LEMMA NewestFacts ==
    ASSUME NEW S \in SUBSET Posts, NEW n \in Nat
    PROVE  /\ Newest(S, n) \subseteq S
           /\ \A i \in Newest(S, n) : \A k \in S : k > i => k \in Newest(S, n)
           /\ Cardinality(Newest(S, n)) <= n
           /\ Cardinality(Newest(S, n)) < n => Newest(S, n) = S
<1> DEFINE N == Newest(S, n)
<1>1. N \subseteq S /\ N \in SUBSET Posts /\ S \subseteq Int
  <2>1. Posts \subseteq Int
    BY SizeAssumption DEF Posts
  <2>2. N \subseteq S
    BY DEF Newest
  <2> QED
    BY <2>1, <2>2
<1>2. \A i \in S : i \in N <=> Cardinality(Above(S, i)) < n
  BY DEF Newest, Above
<1>3. \A i \in Int : Above(S, i) \in SUBSET Posts
  BY DEF Above
<1>4. ASSUME NEW i \in N, NEW k \in S, k > i PROVE k \in N
  <2>0. i \in Int /\ k \in Int /\ i \in S
    BY <1>1
  <2>1. Above(S, k) \in SUBSET Above(S, i)
    <3>1. \A l \in S : l > k => l > i
      BY <1>1, <1>4, <2>0
    <3> QED
      BY <3>1 DEF Above
  <2>2. /\ IsFiniteSet(Above(S, i))
        /\ Cardinality(Above(S, i)) \in Nat /\ Cardinality(Above(S, k)) \in Nat
    BY <1>3, <2>0, PostsFinite
  <2>3. Cardinality(Above(S, k)) <= Cardinality(Above(S, i))
    BY <2>1, <2>2, FS_Subset
  <2> QED
    BY <1>2, <2>0, <2>2, <2>3
<1>5. Cardinality(N) <= n
  <2>1. CASE N = {}
    BY <2>1, FS_EmptySet
  <2>2. CASE N # {}
    <3> DEFINE m == Min(N)
    <3>1. m \in N /\ \A i \in N : m <= i
      BY <1>1, <2>2, MinOfPosts
    <3> HIDE DEF m
    <3>2. N \ {m} \in SUBSET Above(S, m) /\ m \in S /\ m \in Int
      <4>1. m \in S /\ m \in Int
        BY <1>1, <3>1
      <4>2. \A i \in N \ {m} : i \in S /\ i > m
        BY <1>1, <3>1, <4>1
      <4> QED
        BY <4>1, <4>2 DEF Above
    <3>3. /\ IsFiniteSet(Above(S, m)) /\ Cardinality(Above(S, m)) \in Nat
          /\ IsFiniteSet(N) /\ Cardinality(N) \in Nat
      BY <1>1, <1>3, <3>2, PostsFinite
    <3>4. Cardinality(N \ {m}) <= Cardinality(Above(S, m))
      BY <3>2, <3>3, FS_Subset
    <3>5. Cardinality(N \ {m}) = Cardinality(N) - 1
      BY <3>1, <3>3, FS_RemoveElement
    <3>6. Cardinality(Above(S, m)) < n
      BY <1>2, <3>1, <3>2
    <3> QED
      BY <3>3, <3>4, <3>5, <3>6
  <2> QED
    BY <2>1, <2>2
<1>6. ASSUME N # S PROVE Cardinality(N) >= n
  <2> DEFINE L == S \ N
             m == Max(L)
  <2>1. L \in SUBSET Posts /\ L # {}
    BY <1>1, <1>6
  <2>2. m \in L /\ \A i \in L : i <= m
    BY <2>1, MaxOfPosts
  <2>3. Above(S, m) \in SUBSET N
    <3> SUFFICES ASSUME NEW i \in S, i > m PROVE i \in N
      BY DEF Above
    <3>1. i \in Int /\ m \in Int
      BY <1>1, <2>2
    <3> QED
      BY <2>2, <3>1
  <2>4. /\ IsFiniteSet(N) /\ Cardinality(N) \in Nat /\ m \in Int
        /\ Cardinality(Above(S, m)) \in Nat
    BY <1>1, <1>3, <2>2, PostsFinite
  <2>5. Cardinality(Above(S, m)) <= Cardinality(N)
    BY <2>3, <2>4, FS_Subset
  <2>6. Cardinality(Above(S, m)) >= n
    BY <1>2, <2>2, <2>4
  <2> QED
    BY <2>4, <2>5, <2>6
<1>7. Cardinality(N) \in Nat
  BY <1>1, PostsFinite
<1> QED
  BY <1>1, <1>4, <1>5, <1>6, <1>7
-----------------------------------------------------------------------------
(* The inductive invariant *)

\* The posts that a job has taken.
Taken(j) == {i \in Posts : got[j][i] > 0}

\* The newest post that a job must not miss: what appears later may be left to
\* another one.
Top(j) == IF recent[j] \/ from[j] = 0 THEN upTo[j] ELSE from[j] - 1

\* No post between two of S is missing.
Convex(S) == \A i, l \in S : i .. l \subseteq S

\* What a job that has begun knows and has taken: a stretch of its range, which
\* for older posts ends just below the oldest stored one.
Stretch(j) ==
    /\ since[j] = IF recent[j] THEN from[j] ELSE 0
    /\ from[j] <= newest /\ upTo[j] <= newest
    /\ \A i \in Taken(j) : Floor(j) < i /\ i <= newest
    /\ ~recent[j] /\ from[j] > 0 =>
          /\ \A i \in Taken(j) : i < from[j]
          /\ Taken(j) # {} => from[j] - 1 \in Taken(j)
    /\ Convex(Taken(j))

\* Between two requests a job has everything from max_id up.
Paged(j) ==
    /\ results[j] < MaxResults
    /\ maxId[j] = 0 => Taken(j) = {} /\ (recent[j] \/ from[j] = 0)
    /\ maxId[j] > 0 =>
          /\ maxId[j] <= newest
          /\ \A i \in Taken(j) : maxId[j] <= i
          /\ maxId[j] \in Taken(j) \/ (Taken(j) = {} /\ ~recent[j] /\ maxId[j] = from[j])
          /\ \A i \in Posts : Floor(j) < i /\ maxId[j] <= i /\ i <= Top(j) => i \in Taken(j)

\* After its last request it has its maximum or its whole range.
Complete(j) ==
    \/ results[j] = MaxResults
    \/ /\ \A i \in Posts : Floor(j) < i /\ i <= Top(j) => i \in Taken(j)
       /\ Taken(j) # {} => Floor(j) + 1 \in Taken(j)

JobInv ==
    /\ \A j \in Jobs, i \in Posts : got[j][i] <= 1
    /\ \A j \in Jobs : pc[j] = "new" => Taken(j) = {}
    /\ \A j \in Running : Stretch(j)
    /\ \A j \in Jobs : pc[j] = "fetch" => Paged(j)
    /\ \A j \in Jobs : pc[j] = "commit" => Complete(j)

\* Without a clash at most two jobs run, and what they looked up about the
\* stored posts still holds.
Apart ==
    clash \/ /\ \A i \in Posts : stored[i] <= 1 \/ Again(i)
             /\ \A j \in Running :
                   /\ from[j] = 0 => Stored = {} /\ Running = {j}
                   /\ from[j] > 0 => from[j] \in Stored
                   /\ \A i \in Stored : IF recent[j] THEN i <= from[j] ELSE from[j] <= i
             /\ \A j, k \in Running : j # k => recent[j] # recent[k]

TimelineInv ==
    /\ TypeOK
    /\ \A i \in Stored : i <= newest
    /\ JobInv
    /\ Apart
    /\ NoHoles
    /\ CaughtUp

-----------------------------------------------------------------------------
(* One request *)

\* What the variables of a state that satisfies TypeOK are, for the provers.
LEMMA Numbers ==
    ASSUME TypeOK
    PROVE  /\ Posts \subseteq Int /\ \A i \in Posts : 1 <= i /\ i <= LastPost
           /\ LastPost \in Nat /\ LastPost > 0 /\ MaxResults \in Nat /\ MaxResults > 0
           /\ newest \in Int /\ 0 <= newest /\ newest <= LastPost
           /\ \A i \in Int : 1 <= i /\ i <= newest => i \in Posts
           /\ \A j \in Jobs :
                 /\ since[j] \in Int /\ 0 <= since[j] /\ maxId[j] \in Int /\ 0 <= maxId[j]
                 /\ from[j] \in Int /\ 0 <= from[j] /\ upTo[j] \in Int /\ 0 <= upTo[j]
                 /\ results[j] \in Int /\ 0 <= results[j]
                 /\ Taken(j) \in SUBSET Posts
                 /\ Floor(j) \in Int /\ 0 <= Floor(j)
                 /\ Floor(j) <= since[j] /\ since[j] - 1 <= Floor(j)
                 /\ ~Twitter \/ ~inclusive => Floor(j) = since[j]
<1>1. /\ Posts \subseteq Int /\ \A i \in Posts : 1 <= i /\ i <= LastPost
      /\ LastPost \in Nat /\ LastPost > 0 /\ MaxResults \in Nat /\ MaxResults > 0
      /\ newest \in Int /\ 0 <= newest /\ newest <= LastPost
      /\ \A i \in Int : 1 <= i /\ i <= newest => i \in Posts
  BY SizeAssumption DEF TypeOK, Posts
<1>2. ASSUME NEW j \in Jobs
      PROVE  /\ since[j] \in Int /\ 0 <= since[j] /\ maxId[j] \in Int /\ 0 <= maxId[j]
             /\ from[j] \in Int /\ 0 <= from[j] /\ upTo[j] \in Int /\ 0 <= upTo[j]
             /\ results[j] \in Int /\ 0 <= results[j]
             /\ Taken(j) \in SUBSET Posts
  BY SizeAssumption DEF TypeOK, Taken
<1>3. ASSUME NEW j \in Jobs
      PROVE  /\ Floor(j) \in Int /\ 0 <= Floor(j)
             /\ Floor(j) <= since[j] /\ since[j] - 1 <= Floor(j)
             /\ ~Twitter \/ ~inclusive => Floor(j) = since[j]
  BY <1>2 DEF Floor
<1> QED
  BY <1>1, <1>2, <1>3

\* The rows of a page: the newest ones that the job may still take.
LEMMA TakeFacts ==
    ASSUME TypeOK, NEW j \in Jobs, \A i \in Posts : got[j][i] <= 1,
           results[j] < MaxResults,
           NEW new \in SUBSET Posts, new \intersect Taken(j) = {}, Take(j, new)
    PROVE  \E T \in SUBSET new :
              /\ new # {} => T # {}
              /\ \A i \in T, k \in new : k > i => k \in T
              /\ got' \in [Jobs -> [Posts -> Nat]] /\ results' \in [Jobs -> Nat]
              /\ \A k \in Jobs : k # j => got'[k] = got[k] /\ results'[k] = results[k]
              /\ \A i \in Posts : got'[j][i] <= 1
              /\ Taken(j)' = Taken(j) \union T
              /\ results'[j] = Cardinality(Taken(j)')
              /\ \/ results'[j] = MaxResults
                 \/ T = new /\ results'[j] < MaxResults
<1> DEFINE n == MaxResults - results[j]
           T == Newest(new, n)
<1>1. /\ results[j] \in Nat /\ MaxResults \in Nat /\ got[j] \in [Posts -> Nat]
      /\ results \in [Jobs -> Nat] /\ got \in [Jobs -> [Posts -> Nat]]
      /\ results[j] = Cardinality(Taken(j)) /\ Taken(j) \in SUBSET Posts
  BY SizeAssumption DEF TypeOK, Taken
<1>2. /\ got' = [got EXCEPT ![j] = [i \in Posts |-> @[i] + IF i \in T THEN 1 ELSE 0]]
      /\ results' = [results EXCEPT ![j] = @ + Cardinality(T)]
  BY DEF Take
<1>3. /\ n \in Nat /\ T \in SUBSET new
      /\ \A i \in T, k \in new : k > i => k \in T
      /\ Cardinality(T) <= n /\ (Cardinality(T) < n => T = new)
  <2>1. n \in Nat
    BY <1>1
  <2> QED
    BY <2>1, NewestFacts
<1>5. /\ IsFiniteSet(T) /\ Cardinality(T) \in Nat
      /\ IsFiniteSet(Taken(j))
  BY <1>1, <1>3, PostsFinite
<1> HIDE DEF T, n
<1>7. /\ got' \in [Jobs -> [Posts -> Nat]] /\ results' \in [Jobs -> Nat]
      /\ \A k \in Jobs : k # j => got'[k] = got[k] /\ results'[k] = results[k]
      /\ \A i \in Posts : got'[j][i] = got[j][i] + IF i \in T THEN 1 ELSE 0
      /\ results'[j] = results[j] + Cardinality(T)
  BY <1>1, <1>2, <1>5
<1>8. Taken(j)' = Taken(j) \union T
  BY <1>1, <1>3, <1>7 DEF Taken
<1>9. \A i \in Posts : got'[j][i] <= 1
  BY <1>1, <1>3, <1>7 DEF Taken
<1>10. results'[j] = Cardinality(Taken(j)')
  <2>1. Taken(j) \intersect T = {}
    BY <1>3
  <2>2. Cardinality(Taken(j) \union T) = Cardinality(Taken(j)) + Cardinality(T) - Cardinality({})
    BY <1>5, <2>1, FS_Union
  <2> QED
    BY <1>1, <1>5, <1>7, <1>8, <2>2, FS_EmptySet
<1>11. \/ results'[j] = MaxResults
       \/ T = new /\ results'[j] < MaxResults
  <2>1. results'[j] <= MaxResults /\ (results'[j] < MaxResults => T = new)
    BY <1>1, <1>3, <1>5, <1>7 DEF n
  <2>2. results'[j] \in Int /\ MaxResults \in Int
    BY <1>1, <1>7
  <2>3. results'[j] = MaxResults \/ results'[j] < MaxResults
    BY <2>1, <2>2
  <2> QED
    BY <2>1, <2>3
<1>12. ASSUME T = {} PROVE new = {}
  <2>1. Cardinality(T) = 0
    BY <1>12, FS_EmptySet
  <2>2. results'[j] = results[j]
    BY <1>1, <1>7, <2>1
  <2> QED
    BY <1>1, <1>11, <1>12, <2>2
<1> QED
  BY <1>3, <1>7, <1>8, <1>9, <1>10, <1>11, <1>12

\* The posts that a request of the job is about.
Missing(j) == {i \in Posts : Floor(j) < i /\ i <= newest /\ (maxId[j] = 0 \/ i < maxId[j])}

\* What a request does at either site: the job takes the newest posts of the
\* range, T, and goes on below them or has its maximum or all.
Requested(j, T) ==
    /\ T \in SUBSET Missing(j) /\ \A i \in T, k \in Missing(j) : k > i => k \in T
    /\ got' \in [Jobs -> [Posts -> Nat]] /\ results' \in [Jobs -> Nat]
    /\ maxId' \in [Jobs -> 0 .. LastPost]
    /\ \A k \in Jobs : k # j =>
          got'[k] = got[k] /\ results'[k] = results[k] /\ maxId'[k] = maxId[k] /\ pc'[k] = pc[k]
    /\ \A i \in Posts : got'[j][i] <= 1
    /\ Taken(j)' = Taken(j) \union T
    /\ results'[j] = Cardinality(Taken(j)')
    /\ pc[j] = "fetch" /\ pc' = [pc EXCEPT ![j] = pc'[j]]
    /\ \/ pc'[j] = "commit" /\ (results'[j] = MaxResults \/ T = Missing(j))
       \/ /\ pc'[j] = "fetch"
          /\ results'[j] < MaxResults
          /\ maxId'[j] \in T /\ \A i \in Taken(j)' : maxId'[j] <= i
    /\ UNCHANGED <<site, inclusive, newest, stored, recent, since, from, upTo, clash, cut>>

\* Below what the job has: the posts of its next request are new to it.
LEMMA MissingIsNew ==
    ASSUME TypeOK, NEW j \in Jobs, Paged(j)
    PROVE  Missing(j) \intersect Taken(j) = {} /\ \A i \in Missing(j), k \in Taken(j) : i < k
<1>1. maxId[j] \in Int /\ maxId[j] >= 0 /\ Posts \subseteq Int
  BY SizeAssumption DEF TypeOK, Posts
<1>2. CASE maxId[j] = 0
  BY <1>2 DEF Paged
<1>3. CASE maxId[j] > 0
  <2>1. \A i \in Missing(j), k \in Taken(j) :
           i \in Int /\ k \in Int /\ i < maxId[j] /\ maxId[j] <= k
    BY <1>1, <1>3 DEF Paged, Missing, Taken
  <2>2. \A i \in Missing(j), k \in Taken(j) : i < k
    BY <1>1, <2>1
  <2> QED
    BY <2>1, <2>2
<1> QED
  BY <1>1, <1>2, <1>3

\* A request to Twitter.
LEMMA TwitterRequest ==
    ASSUME TypeOK, NEW j \in Jobs, JobInv, TwitterFetch(j)
    PROVE  \E T \in SUBSET Missing(j) : Requested(j, T)
<1> DEFINE range == {i \in 1 .. newest : i > Floor(j) /\ (maxId[j] = 0 \/ i <= maxId[j])}
           page == Newest(range, PageSize)
           new == page \ {maxId[j]}
<1>1. /\ newest \in Int /\ 0 <= newest /\ newest <= LastPost /\ LastPost \in Int
      /\ since[j] \in Int /\ 0 <= since[j] /\ maxId[j] \in Int /\ 0 <= maxId[j]
      /\ Floor(j) \in Int /\ (~Twitter => Floor(j) = since[j])
      /\ pc \in [Jobs -> {"new", "fetch", "commit", "done", "failed"}]
      /\ maxId \in [Jobs -> 0 .. LastPost] /\ Posts \subseteq Int
      /\ PageSize \in Nat /\ PageSize > 1 /\ MaxResults \in Nat
  BY SizeAssumption, Numbers DEF TypeOK
<1>2. /\ pc[j] = "fetch" /\ Take(j, new)
      /\ maxId' = [maxId EXCEPT ![j] = IF new = {} THEN @ ELSE Min({i \in Posts : got'[j][i] > 0})]
      /\ pc' = [pc EXCEPT ![j] = IF Cardinality(page) < PageSize \/ (new # {} /\ results'[j] = MaxResults)
                                 THEN "commit" ELSE "fetch"]
      /\ UNCHANGED <<site, inclusive, newest, stored, recent, since, from, upTo, clash, cut>>
  BY DEF TwitterFetch, Goto
<1>3. Paged(j) /\ \A i \in Posts : got[j][i] <= 1
  BY <1>2 DEF JobInv
<1>4. range \in SUBSET Posts /\ range \ {maxId[j]} = Missing(j)
  <2>1. range \in SUBSET Posts
    BY <1>1 DEF Posts
  <2>2. ASSUME NEW i \in Posts PROVE i \in range \ {maxId[j]} <=> i \in Missing(j)
    <3>1. i \in Int /\ 1 <= i
      BY <1>1 DEF Posts
    <3> QED
      BY <1>1, <3>1 DEF Missing
  <2> QED
    BY <2>1, <2>2 DEF Missing
<1>5. /\ page \in SUBSET range /\ Cardinality(page) <= PageSize
      /\ \A i \in page, k \in range : k > i => k \in page
      /\ Cardinality(page) < PageSize => page = range
      /\ IsFiniteSet(page)
  BY <1>1, <1>4, NewestFacts, PostsFinite
<1> HIDE DEF page, range
<1>6. /\ new \in SUBSET Missing(j) /\ \A i \in new, k \in Missing(j) : k > i => k \in new
      /\ page = range => new = Missing(j)
  BY <1>4, <1>5
<1>7. ASSUME new = {} PROVE Cardinality(page) < PageSize
  <2>1. page \in SUBSET {maxId[j]}
    BY <1>7
  <2>2. Cardinality(page) <= Cardinality({maxId[j]}) /\ IsFiniteSet({maxId[j]})
    BY <2>1, FS_Subset, FS_Singleton
  <2>3. Cardinality({maxId[j]}) = 1 /\ Cardinality(page) \in Nat
    BY <1>5, FS_Singleton, FS_CardinalityType
  <2>4. PageSize \in Nat /\ PageSize > 1
    BY <1>1
  <2> QED
    BY <2>2, <2>3, <2>4
<1>8. new \in SUBSET Posts /\ new \intersect Taken(j) = {}
  BY <1>3, <1>6, MissingIsNew DEF Missing
<1>9. results[j] < MaxResults
  BY <1>3 DEF Paged
<1> HIDE DEF new
<1>10. PICK T \in SUBSET new :
              /\ new # {} => T # {}
              /\ \A i \in T, k \in new : k > i => k \in T
              /\ got' \in [Jobs -> [Posts -> Nat]] /\ results' \in [Jobs -> Nat]
              /\ \A k \in Jobs : k # j => got'[k] = got[k] /\ results'[k] = results[k]
              /\ \A i \in Posts : got'[j][i] <= 1
              /\ Taken(j)' = Taken(j) \union T
              /\ results'[j] = Cardinality(Taken(j)')
              /\ \/ results'[j] = MaxResults
                 \/ T = new /\ results'[j] < MaxResults
  BY <1>2, <1>3, <1>8, <1>9, TakeFacts
<1>11. T \in SUBSET Missing(j) /\ \A i \in T, k \in Missing(j) : k > i => k \in T
  BY <1>6, <1>10
<1>12. Taken(j)' = {i \in Posts : got'[j][i] > 0} /\ Taken(j)' \in SUBSET Posts
  BY DEF Taken
<1>13. /\ maxId' \in [Jobs -> 0 .. LastPost]
       /\ \A k \in Jobs : k # j => maxId'[k] = maxId[k] /\ pc'[k] = pc[k]
       /\ pc' = [pc EXCEPT ![j] = pc'[j]]
       /\ new # {} => maxId'[j] = Min(Taken(j)')
  <2>1. new # {} => Taken(j)' # {}
    BY <1>10
  <2>2. new # {} => Min(Taken(j)') \in 0 .. LastPost
    BY <1>1, <1>12, <2>1, MinOfPosts DEF Posts
  <2> QED
    BY <1>1, <1>2, <1>12, <2>2
<1>14. \/ pc'[j] = "commit" /\ (results'[j] = MaxResults \/ T = Missing(j))
       \/ /\ pc'[j] = "fetch"
          /\ results'[j] < MaxResults
          /\ maxId'[j] \in T /\ \A i \in Taken(j)' : maxId'[j] <= i
  <2>1. CASE Cardinality(page) < PageSize
    <3>1. pc'[j] = "commit" /\ new = Missing(j)
      BY <1>1, <1>2, <1>5, <1>6, <2>1
    <3> QED
      BY <1>10, <3>1
  <2>2. CASE ~ (Cardinality(page) < PageSize) /\ results'[j] = MaxResults
    BY <1>1, <1>2, <1>7, <2>2
  <2>3. CASE ~ (Cardinality(page) < PageSize) /\ results'[j] # MaxResults
    <3>1. pc'[j] = "fetch" /\ T = new /\ T # {}
      BY <1>1, <1>2, <1>7, <1>10, <2>3
    <3>2. results'[j] < MaxResults
      BY <1>10, <2>3
    <3>3. /\ maxId'[j] \in Taken(j)' /\ \A i \in Taken(j)' : maxId'[j] <= i
      <4>1. new # {} /\ Taken(j)' # {}
        BY <1>10, <3>1
      <4>2. Min(Taken(j)') \in Taken(j)' /\ \A i \in Taken(j)' : Min(Taken(j)') <= i
        BY <1>12, <4>1, MinOfPosts
      <4> QED
        BY <1>13, <4>1, <4>2
    <3>4. PICK t \in T : TRUE
      BY <3>1
    <3>5. ASSUME maxId'[j] \in Taken(j) PROVE FALSE
      <4>1. t < maxId'[j]
        BY <1>3, <1>11, <3>4, <3>5, MissingIsNew
      <4>2. maxId'[j] <= t
        BY <1>10, <3>3, <3>4
      <4>3. t \in Int /\ maxId'[j] \in Int
        BY <1>1, <1>12, <1>10, <3>3, <3>4
      <4> QED
        BY <4>1, <4>2, <4>3
    <3> QED
      BY <1>10, <3>1, <3>2, <3>3, <3>5
  <2> QED
    BY <2>1, <2>2, <2>3
<1> QED
  BY <1>2, <1>10, <1>11, <1>13, <1>14 DEF Requested

\* A request to Instagram.
LEMMA InstagramRequest ==
    ASSUME TypeOK, NEW j \in Jobs, JobInv, InstagramFetch(j)
    PROVE  \E T \in SUBSET Missing(j) : Requested(j, T)
<1> DEFINE range == {i \in 1 .. newest : i >= since[j] /\ (maxId[j] = 0 \/ i < maxId[j])}
           page == Newest(range, PageSize)
           new == page \ {since[j]}
<1>1. /\ newest \in Int /\ 0 <= newest /\ newest <= LastPost /\ LastPost \in Int
      /\ since[j] \in Int /\ 0 <= since[j] /\ maxId[j] \in Int /\ 0 <= maxId[j]
      /\ Floor(j) \in Int /\ (~Twitter => Floor(j) = since[j])
      /\ pc \in [Jobs -> {"new", "fetch", "commit", "done", "failed"}]
      /\ maxId \in [Jobs -> 0 .. LastPost] /\ Posts \subseteq Int
      /\ PageSize \in Nat /\ PageSize > 1 /\ MaxResults \in Nat
  BY SizeAssumption, Numbers DEF TypeOK
<1>2. /\ ~Twitter /\ pc[j] = "fetch" /\ Take(j, new)
      /\ maxId' = [maxId EXCEPT ![j] = IF page = range THEN @ ELSE Min(page)]
      /\ pc' = [pc EXCEPT ![j] = IF page = range \/ results'[j] = MaxResults THEN "commit" ELSE "fetch"]
      /\ UNCHANGED <<site, inclusive, newest, stored, recent, since, from, upTo, clash, cut>>
  BY DEF InstagramFetch, Goto
<1>3. Paged(j) /\ \A i \in Posts : got[j][i] <= 1
  BY <1>2 DEF JobInv
<1>4. range \in SUBSET Posts /\ range \ {since[j]} = Missing(j) /\ \A i \in range : since[j] <= i
  <2>1. range \in SUBSET Posts
    BY <1>1 DEF Posts
  <2>2. ASSUME NEW i \in Posts
        PROVE  /\ i \in range \ {since[j]} <=> i \in Missing(j)
               /\ i \in range => since[j] <= i
    <3>1. i \in Int /\ 1 <= i
      BY <1>1 DEF Posts
    <3> QED
      BY <1>1, <1>2, <3>1 DEF Missing
  <2> QED
    BY <2>1, <2>2 DEF Missing
<1>5. /\ page \in SUBSET range /\ Cardinality(page) <= PageSize
      /\ \A i \in page, k \in range : k > i => k \in page
      /\ Cardinality(page) < PageSize => page = range
      /\ IsFiniteSet(page)
  BY <1>1, <1>4, NewestFacts, PostsFinite
<1> HIDE DEF page, range
<1>6. /\ new \in SUBSET Missing(j) /\ \A i \in new, k \in Missing(j) : k > i => k \in new
      /\ page = range => new = Missing(j)
  BY <1>4, <1>5
<1>7. ASSUME page # range PROVE page # {} /\ Min(page) \in page /\ new = page
  <2>1. PICK k \in range : k \notin page
    BY <1>5, <1>7
  <2>2. page # {}
    <3>1. Cardinality({}) = 0
      BY FS_EmptySet
    <3> QED
      BY <1>1, <1>5, <1>7, <3>1
  <2>3. Min(page) \in page
    BY <1>4, <1>5, <2>2, MinOfPosts
  <2>4. ASSUME since[j] \in page PROVE FALSE
    <3>1. k \in Int /\ since[j] <= k /\ k # since[j]
      BY <1>1, <1>4, <2>1, <2>4
    <3>2. k > since[j]
      BY <1>1, <3>1
    <3> QED
      BY <1>5, <2>1, <2>4, <3>2
  <2> QED
    BY <2>2, <2>3, <2>4
<1>8. new \in SUBSET Posts /\ new \intersect Taken(j) = {}
  BY <1>3, <1>6, MissingIsNew DEF Missing
<1>9. results[j] < MaxResults
  BY <1>3 DEF Paged
<1>10. PICK T \in SUBSET new :
              /\ new # {} => T # {}
              /\ \A i \in T, k \in new : k > i => k \in T
              /\ got' \in [Jobs -> [Posts -> Nat]] /\ results' \in [Jobs -> Nat]
              /\ \A k \in Jobs : k # j => got'[k] = got[k] /\ results'[k] = results[k]
              /\ \A i \in Posts : got'[j][i] <= 1
              /\ Taken(j)' = Taken(j) \union T
              /\ results'[j] = Cardinality(Taken(j)')
              /\ \/ results'[j] = MaxResults
                 \/ T = new /\ results'[j] < MaxResults
  BY <1>2, <1>3, <1>8, <1>9, TakeFacts
<1>11. T \in SUBSET Missing(j) /\ \A i \in T, k \in Missing(j) : k > i => k \in T
  BY <1>6, <1>10
<1>13. /\ maxId' \in [Jobs -> 0 .. LastPost]
       /\ \A k \in Jobs : k # j => maxId'[k] = maxId[k] /\ pc'[k] = pc[k]
       /\ pc' = [pc EXCEPT ![j] = pc'[j]]
       /\ page # range => maxId'[j] = Min(page)
  <2>1. page # range => Min(page) \in 0 .. LastPost
    <3>1. Posts \subseteq 0 .. LastPost
      BY <1>1 DEF Posts
    <3> QED
      BY <1>4, <1>5, <1>7, <3>1
  <2> QED
    BY <1>1, <1>2, <2>1
<1>14. \/ pc'[j] = "commit" /\ (results'[j] = MaxResults \/ T = Missing(j))
       \/ /\ pc'[j] = "fetch"
          /\ results'[j] < MaxResults
          /\ maxId'[j] \in T /\ \A i \in Taken(j)' : maxId'[j] <= i
  <2>1. CASE page = range
    <3>1. pc'[j] = "commit" /\ new = Missing(j)
      BY <1>1, <1>2, <1>6, <2>1
    <3> QED
      BY <1>10, <3>1
  <2>2. CASE page # range /\ results'[j] = MaxResults
    BY <1>1, <1>2, <2>2
  <2>3. CASE page # range /\ results'[j] # MaxResults
    <3>1. pc'[j] = "fetch" /\ T = page
      BY <1>1, <1>2, <1>7, <1>10, <2>3
    <3>2. results'[j] < MaxResults
      BY <1>10, <2>3
    <3>3. maxId'[j] = Min(page) /\ maxId'[j] \in T
      BY <1>7, <1>13, <2>3, <3>1
    <3>4. ASSUME NEW i \in Taken(j)' PROVE maxId'[j] <= i
      <4>1. CASE i \in T
        BY <1>4, <1>5, <1>7, <2>3, <3>1, <3>3, <4>1, MinOfPosts
      <4>2. CASE i \in Taken(j)
        <5>1. maxId'[j] < i
          BY <1>3, <1>11, <3>3, <4>2, MissingIsNew
        <5>2. i \in Int /\ maxId'[j] \in Int
          BY <1>1, <1>11, <3>3, <4>2 DEF Taken, Missing
        <5> QED
          BY <5>1, <5>2
      <4> QED
        BY <1>10, <3>4, <4>1, <4>2
    <3> QED
      BY <3>1, <3>2, <3>3, <3>4
  <2> QED
    BY <2>1, <2>2, <2>3
<1> QED
  BY <1>2, <1>10, <1>11, <1>13, <1>14 DEF Requested

-----------------------------------------------------------------------------
(* The actions keep the invariant *)

\* A step that leaves the fields of a job alone leaves what is known of it true.
LEMMA OtherJob ==
    ASSUME TypeOK, NEW k \in Jobs, newest' \in Int, newest <= newest',
           UNCHANGED <<site, inclusive>>, since'[k] = since[k], recent'[k] = recent[k], from'[k] = from[k],
           upTo'[k] = upTo[k], maxId'[k] = maxId[k], results'[k] = results[k], got'[k] = got[k]
    PROVE  /\ Taken(k)' = Taken(k) /\ Top(k)' = Top(k) /\ Floor(k)' = Floor(k)
           /\ Stretch(k) => Stretch(k)'
           /\ Paged(k) => Paged(k)'
           /\ Complete(k) => Complete(k)'
<1>1. Taken(k)' = Taken(k) /\ Top(k)' = Top(k) /\ Floor(k)' = Floor(k)
  BY DEF Taken, Top, Floor, Twitter
<1>2. Stretch(k) => Stretch(k)'
  <2> SUFFICES ASSUME Stretch(k) PROVE Stretch(k)'
    OBVIOUS
  <2>1. from'[k] <= newest' /\ upTo'[k] <= newest'
    BY Numbers DEF Stretch
  <2>2. \A i \in Taken(k) : i <= newest'
    BY Numbers DEF Stretch
  <2> QED
    BY <1>1, <2>1, <2>2 DEF Stretch
<1>3. Paged(k) => Paged(k)'
  <2> SUFFICES ASSUME Paged(k) PROVE Paged(k)'
    OBVIOUS
  <2>1. maxId[k] > 0 => maxId[k] <= newest'
    BY Numbers DEF Paged
  <2> QED
    BY <1>1, <2>1 DEF Paged
<1> QED
  BY <1>1, <1>2, <1>3 DEF Complete

\* A request extends the stretch of posts that the job has.
LEMMA RequestStretch ==
    ASSUME TypeOK, NEW j \in Jobs, JobInv, NEW T \in SUBSET Missing(j), Requested(j, T)
    PROVE  Stretch(j)'
<1>1. /\ Stretch(j) /\ Paged(j)
      /\ Taken(j)' = Taken(j) \union T
      /\ \A i \in T, k \in Missing(j) : k > i => k \in T
      /\ UNCHANGED <<newest, recent, since, from, upTo>> /\ Floor(j)' = Floor(j)
  BY DEF Requested, JobInv, Running, Floor, Twitter
<1>2. \A i \in Taken(j) \union T : Floor(j) < i /\ i <= newest
  BY <1>1 DEF Stretch, Missing
<1>3. ASSUME ~recent[j], from[j] > 0
      PROVE  /\ \A i \in Taken(j) \union T : i < from[j]
             /\ Taken(j) \union T # {} => from[j] - 1 \in Taken(j) \union T
  <2>1. maxId[j] > 0 /\ maxId[j] <= from[j]
    BY <1>1, <1>3, Numbers DEF Paged, Stretch
  <2>2. \A i \in T : i < from[j]
    BY <2>1, Numbers DEF Missing
  <2>3. ASSUME Taken(j) = {}, NEW i \in T PROVE from[j] - 1 \in T
    <3>1. Floor(j) = 0 /\ maxId[j] = from[j]
      BY <1>1, <1>3, <2>1, <2>3, Numbers DEF Paged, Stretch
    <3>2. i \in Int /\ 1 <= i /\ i <= from[j] - 1 /\ from[j] <= newest
      BY <1>1, <1>3, <2>2, Numbers DEF Missing, Stretch
    <3>3. from[j] - 1 \in Missing(j)
      BY <1>3, <3>1, <3>2, Numbers DEF Missing
    <3> QED
      BY <1>1, <3>2, <3>3, Numbers
  <2> QED
    BY <1>1, <1>3, <2>2, <2>3 DEF Stretch
<1>4. Convex(Taken(j) \union T)
  <2> SUFFICES ASSUME NEW i \in Taken(j) \union T, NEW l \in Taken(j) \union T,
                      NEW k \in i .. l
               PROVE  k \in Taken(j) \union T
    BY DEF Convex
  <2>1. i \in Int /\ l \in Int /\ k \in Int /\ i <= k /\ k <= l /\ k \in Posts
        /\ Floor(j) < k /\ k <= newest
    BY <1>2, Numbers DEF Missing
  <2>2. CASE k \in Missing(j)
    <3>1. CASE i \in T
      BY <1>1, <2>1, <2>2, <3>1
    <3>2. CASE i \in Taken(j)
      <4>1. k < i
        BY <1>1, <2>2, <3>2, MissingIsNew
      <4> QED
        BY <2>1, <4>1
    <3> QED
      BY <3>1, <3>2
  <2>3. CASE k \notin Missing(j)
    <3>1. maxId[j] > 0 /\ maxId[j] <= k
      BY <2>1, <2>3, Numbers DEF Missing
    <3>2. l \notin T
      BY <2>1, <3>1, Numbers DEF Missing
    <3>3. maxId[j] \in Taken(j) /\ l \in Taken(j)
      BY <1>1, <3>1, <3>2 DEF Paged
    <3>4. k \in maxId[j] .. l
      BY <2>1, <3>1, Numbers
    <3> QED
      BY <1>1, <3>3, <3>4 DEF Stretch, Convex
  <2> QED
    BY <2>2, <2>3
<1> QED
  BY <1>1, <1>2, <1>3, <1>4 DEF Stretch

\* A request leaves nothing out between what it took and what the job had.
LEMMA RequestPages ==
    ASSUME TypeOK, NEW j \in Jobs, JobInv, NEW T \in SUBSET Missing(j), Requested(j, T)
    PROVE  /\ pc'[j] = "fetch" => Paged(j)'
           /\ pc'[j] = "commit" => Complete(j)'
<1>1. /\ Stretch(j) /\ Paged(j)
      /\ Taken(j)' = Taken(j) \union T /\ Top(j)' = Top(j)
      /\ \A i \in T, k \in Missing(j) : k > i => k \in T
      /\ UNCHANGED <<newest, recent, since, from, upTo>> /\ Floor(j)' = Floor(j)
  BY DEF Requested, JobInv, Running, Top, Floor, Twitter
<1>2. Top(j) <= newest /\ Top(j) \in Int
  BY <1>1, Numbers DEF Top, Stretch
<1>3. ASSUME NEW i \in Posts, Floor(j) < i, i <= Top(j) PROVE i \in Taken(j) \/ i \in Missing(j)
  BY <1>1, <1>2, <1>3, Numbers DEF Paged, Missing
<1>4. ASSUME pc'[j] = "fetch" PROVE Paged(j)'
  <2>1. /\ results'[j] < MaxResults
        /\ maxId'[j] \in T /\ \A i \in Taken(j)' : maxId'[j] <= i
    BY <1>4 DEF Requested
  <2>2. maxId'[j] \in Int /\ maxId'[j] > 0 /\ maxId'[j] <= newest'
    BY <1>1, <2>1, Numbers DEF Missing
  <2>3. ASSUME NEW i \in Posts, Floor(j) < i, maxId'[j] <= i, i <= Top(j) PROVE i \in Taken(j)'
    <3>1. CASE i \in Missing(j)
      BY <1>1, <2>1, <2>2, <2>3, <3>1, Numbers
    <3> QED
      BY <1>1, <1>3, <2>3, <3>1
  <2> QED
    BY <1>1, <2>1, <2>2, <2>3 DEF Paged
<1>5. ASSUME pc'[j] = "commit" PROVE Complete(j)'
  <2>1. CASE results'[j] = MaxResults
    BY <2>1 DEF Complete
  <2>2. CASE T = Missing(j)
    <3>1. \A i \in Posts : Floor(j) < i /\ i <= Top(j) => i \in Taken(j)'
      BY <1>1, <1>3, <2>2
    <3>2. ASSUME NEW t \in Taken(j) \union T PROVE Floor(j) + 1 \in Taken(j) \union T
      <4>1. t \in Int /\ Floor(j) + 1 <= t /\ t <= newest
        BY <1>1, Numbers DEF Stretch, Missing
      <4>2. Floor(j) + 1 \in Posts /\ Floor(j) + 1 <= newest
        BY <4>1, Numbers
      <4>3. CASE Floor(j) + 1 \in Missing(j)
        BY <2>2, <4>3
      <4>4. CASE Floor(j) + 1 \notin Missing(j)
        <5>1. maxId[j] > 0 /\ maxId[j] <= Floor(j) + 1
          BY <4>2, <4>4, Numbers DEF Missing
        <5>2. t \notin T
          BY <4>1, <5>1, Numbers DEF Missing
        <5>3. maxId[j] \in Taken(j)
          BY <1>1, <5>1, <5>2 DEF Paged
        <5>4. Floor(j) < maxId[j]
          BY <1>1, <5>3 DEF Stretch
        <5>5. maxId[j] = Floor(j) + 1
          BY <5>1, <5>4, Numbers
        <5> QED
          BY <5>3, <5>5
      <4> QED
        BY <4>3, <4>4
    <3> QED
      BY <1>1, <3>1, <3>2 DEF Complete
  <2> QED
    BY <1>5, <2>1, <2>2 DEF Requested
<1> QED
  BY <1>4, <1>5

\* A request keeps the invariant.
LEMMA RequestInv ==
    ASSUME TimelineInv, NEW j \in Jobs, TwitterFetch(j) \/ InstagramFetch(j)
    PROVE  TimelineInv'
<1>1. TypeOK /\ JobInv /\ newest \in Int /\ newest <= newest
  BY Numbers DEF TimelineInv
<1>2. PICK T \in SUBSET Missing(j) : Requested(j, T)
  BY <1>1, TwitterRequest, InstagramRequest
<1>3. /\ pc[j] = "fetch" /\ pc'[j] \in {"fetch", "commit"}
      /\ pc' = [pc EXCEPT ![j] = pc'[j]]
      /\ \A k \in Jobs : k # j =>
            got'[k] = got[k] /\ results'[k] = results[k] /\ maxId'[k] = maxId[k] /\ pc'[k] = pc[k]
      /\ UNCHANGED <<site, inclusive, newest, stored, recent, since, from, upTo, clash, cut>>
      /\ got' \in [Jobs -> [Posts -> Nat]] /\ results' \in [Jobs -> Nat]
      /\ maxId' \in [Jobs -> 0 .. LastPost]
      /\ \A i \in Posts : got'[j][i] <= 1
      /\ results'[j] = Cardinality(Taken(j)')
  BY <1>2 DEF Requested
<1>4. ASSUME NEW k \in Jobs, k # j
      PROVE  /\ Taken(k)' = Taken(k)
             /\ Stretch(k) => Stretch(k)'
             /\ Paged(k) => Paged(k)'
             /\ Complete(k) => Complete(k)'
  BY <1>1, <1>3, <1>4, OtherJob
<1>5. Running' = Running /\ Stored' = Stored
  BY <1>1, <1>3 DEF Running, Stored, TypeOK
<1>6. TypeOK'
  <2>1. ASSUME NEW k \in Jobs PROVE results'[k] = Cardinality(Taken(k)')
    <3>1. CASE k # j
      BY <1>1, <1>3, <1>4, <3>1 DEF TypeOK, Taken
    <3> QED
      BY <1>3, <3>1
  <2> QED
    BY <1>1, <1>3, <2>1 DEF TypeOK, Taken
<1>7. JobInv'
  <2>1. Stretch(j)' /\ (pc'[j] = "fetch" => Paged(j)') /\ (pc'[j] = "commit" => Complete(j)')
    BY <1>1, <1>2, RequestStretch, RequestPages
  <2>2. \A k \in Jobs, i \in Posts : got'[k][i] <= 1
    BY <1>1, <1>3 DEF JobInv
  <2>3. ASSUME NEW k \in Jobs
        PROVE  /\ pc'[k] = "new" => Taken(k)' = {}
               /\ k \in Running => Stretch(k)'
               /\ pc'[k] = "fetch" => Paged(k)'
               /\ pc'[k] = "commit" => Complete(k)'
    <3>1. CASE k = j
      BY <1>3, <2>1, <3>1
    <3>2. CASE k # j
      <4>1. pc'[k] = pc[k]
        BY <1>3, <3>2
      <4> QED
        BY <1>1, <1>4, <3>2, <4>1 DEF JobInv
    <3> QED
      BY <3>1, <3>2
  <2> QED
    BY <1>5, <2>2, <2>3 DEF JobInv, Running
<1>8. Apart' /\ NoHoles' /\ \A i \in Stored' : i <= newest'
  <2>1. \A i \in Posts : Again(i)' <=> Again(i)
    <3>1. \A k \in Jobs : pc'[k] = "done" <=> pc[k] = "done"
      BY <1>3
    <3> QED
      BY <1>3, <3>1 DEF Again, Twitter
  <2> QED
    BY <1>3, <1>5, <2>1 DEF TimelineInv, Apart, NoHoles
<1>9. CaughtUp'
  BY <1>3, <1>5 DEF TimelineInv, CaughtUp
<1> QED
  BY <1>6, <1>7, <1>8, <1>9 DEF TimelineInv

\* A stretch of stored posts, and the newest and the oldest of them.
LEMMA StoredEnds ==
    ASSUME TypeOK, Stored # {}
    PROVE  /\ Max(Stored) \in Stored /\ \A i \in Stored : i <= Max(Stored)
           /\ Min(Stored) \in Stored /\ \A i \in Stored : Min(Stored) <= i
<1>1. Stored \in SUBSET Posts
  BY DEF Stored
<1> QED
  BY <1>1, MaxOfPosts, MinOfPosts

\* A post that appears keeps the invariant.
LEMMA PublishInv ==
    ASSUME TimelineInv, Publish
    PROVE  TimelineInv'
<1>1. TypeOK /\ newest' = newest + 1 /\ newest' <= LastPost /\ newest' \in Int
  BY Numbers DEF TimelineInv, Publish
<1>2. UNCHANGED <<site, inclusive, stored, pc, recent, since, maxId, results, got, from, upTo, clash, cut>>
  BY DEF Publish, jobVars
<1>3. ASSUME NEW k \in Jobs
      PROVE  /\ Taken(k)' = Taken(k)
             /\ Stretch(k) => Stretch(k)'
             /\ Paged(k) => Paged(k)'
             /\ Complete(k) => Complete(k)'
  <2>1. newest <= newest'
    BY <1>1, Numbers
  <2> QED
    BY <1>1, <1>2, <2>1, OtherJob
<1>4. TypeOK'
  BY <1>1, <1>2, Numbers DEF TypeOK
<1>5. JobInv'
  BY <1>2, <1>3 DEF JobInv, Running, TimelineInv
<1>6. \A i \in Stored' : i <= newest'
  BY <1>1, <1>2, Numbers DEF TimelineInv, Stored
<1>7. Apart' /\ NoHoles' /\ CaughtUp'
  BY <1>2 DEF TimelineInv, Apart, Again, Twitter, NoHoles, CaughtUp, Stored, Running
<1> QED
  BY <1>4, <1>5, <1>6, <1>7 DEF TimelineInv

\* A job that ends without a commit keeps the invariant.
LEMMA InterruptInv ==
    ASSUME TimelineInv, NEW j \in Jobs, Interrupt(j)
    PROVE  TimelineInv'
<1>1. TypeOK /\ newest \in Int /\ newest <= newest
  BY Numbers DEF TimelineInv
<1>2. /\ pc' = [pc EXCEPT ![j] = "failed"] /\ pc'[j] = "failed" /\ pc[j] \in {"fetch", "commit"}
      /\ \A k \in Jobs : k # j => pc'[k] = pc[k]
      /\ UNCHANGED <<site, inclusive, newest, stored, recent, since, maxId, results, got, from, upTo, clash, cut>>
  BY <1>1 DEF Interrupt, Goto, Running, TypeOK
<1>3. ASSUME NEW k \in Jobs
      PROVE  /\ Taken(k)' = Taken(k)
             /\ Stretch(k) => Stretch(k)'
             /\ Paged(k) => Paged(k)'
             /\ Complete(k) => Complete(k)'
  BY <1>1, <1>2, OtherJob
<1>4. TypeOK'
  BY <1>1, <1>2 DEF TypeOK
<1>5. Running' \subseteq Running /\ Stored' = Stored
  BY <1>2 DEF Running, Stored
<1>6. JobInv'
  <2>1. ASSUME NEW k \in Jobs
        PROVE  /\ pc'[k] = "new" => Taken(k)' = {}
               /\ k \in Running' => Stretch(k)'
               /\ pc'[k] = "fetch" => Paged(k)'
               /\ pc'[k] = "commit" => Complete(k)'
    <3>1. CASE k = j
      BY <1>2, <3>1 DEF Running
    <3>2. CASE k # j
      BY <1>2, <1>3, <1>5, <3>2 DEF JobInv, TimelineInv
    <3> QED
      BY <3>1, <3>2
  <2>2. \A k \in Jobs, i \in Posts : got'[k][i] <= 1
    BY <1>2 DEF JobInv, TimelineInv
  <2> QED
    BY <2>1, <2>2 DEF JobInv, Running
<1>7. \A i \in Stored' : i <= newest'
  BY <1>2, <1>5 DEF TimelineInv
<1>8. Apart'
  <2>1. \A i \in Posts : Again(i) => Again(i)'
    <3>1. \A k \in Jobs : pc[k] = "done" => pc'[k] = "done"
      BY <1>2
    <3> QED
      BY <1>2, <3>1 DEF Again, Twitter
  <2> QED
    BY <1>2, <1>5, <2>1 DEF TimelineInv, Apart
<1>9. NoHoles' /\ CaughtUp'
  BY <1>2, <1>5 DEF TimelineInv, NoHoles, CaughtUp
<1> QED
  BY <1>4, <1>6, <1>7, <1>8, <1>9 DEF TimelineInv

\* A job that looks up where to begin keeps the invariant.
LEMMA BeginInv ==
    ASSUME TimelineInv, NEW j \in Jobs, NEW r \in BOOLEAN, Begin(j, r)
    PROVE  TimelineInv'
<1> DEFINE near == IF Stored = {} THEN 0 ELSE IF r THEN Max(Stored) ELSE Min(Stored)
<1>1. TypeOK /\ newest \in Int /\ newest <= newest
  BY Numbers DEF TimelineInv
<1>2. /\ pc[j] = "new"
      /\ recent' = [recent EXCEPT ![j] = r]
      /\ since' = [since EXCEPT ![j] = IF r THEN near ELSE 0]
      /\ maxId' = [maxId EXCEPT ![j] = IF r THEN 0 ELSE near]
      /\ from' = [from EXCEPT ![j] = near] /\ upTo' = [upTo EXCEPT ![j] = newest]
      /\ clash' = (clash \/ Clashes(r))
      /\ pc' = [pc EXCEPT ![j] = "fetch"]
      /\ UNCHANGED <<site, inclusive, newest, stored, results, got, cut>>
  BY DEF Begin, Goto
<1>3. /\ near \in 0 .. LastPost /\ near <= newest
      /\ near = 0 <=> Stored = {}
      /\ near > 0 => near \in Stored /\ \A i \in Stored : IF r THEN i <= near ELSE near <= i
  <2>1. CASE Stored = {}
    BY <1>1, <2>1, Numbers
  <2>2. CASE Stored # {}
    <3>1. near \in Stored /\ \A i \in Stored : IF r THEN i <= near ELSE near <= i
      BY <1>1, <2>2, StoredEnds
    <3>2. near \in Posts /\ near <= newest
      BY <3>1 DEF Stored, TimelineInv
    <3>3. near \in Int /\ 1 <= near /\ near <= LastPost
      BY <1>1, <3>2, Numbers
    <3> QED
      BY <1>1, <2>2, <3>1, <3>2, <3>3, Numbers
  <2> QED
    BY <2>1, <2>2
<1> HIDE DEF near
<1>4. /\ pc'[j] = "fetch" /\ recent'[j] = r /\ since'[j] = (IF r THEN near ELSE 0)
      /\ maxId'[j] = (IF r THEN 0 ELSE near) /\ from'[j] = near /\ upTo'[j] = newest
      /\ results'[j] = results[j] /\ got'[j] = got[j]
  BY <1>1, <1>2 DEF TypeOK
<1>5. ASSUME NEW k \in Jobs, k # j
      PROVE  /\ pc'[k] = pc[k] /\ recent'[k] = recent[k] /\ from'[k] = from[k]
             /\ upTo'[k] = upTo[k] /\ since'[k] = since[k] /\ maxId'[k] = maxId[k]
             /\ results'[k] = results[k] /\ got'[k] = got[k]
  BY <1>1, <1>2, <1>5 DEF TypeOK
<1>6. ASSUME NEW k \in Jobs, k # j
      PROVE  /\ Taken(k)' = Taken(k)
             /\ Stretch(k) => Stretch(k)'
             /\ Paged(k) => Paged(k)'
             /\ Complete(k) => Complete(k)'
  BY <1>1, <1>2, <1>5, <1>6, OtherJob
<1>7. Running' = Running \union {j} /\ Stored' = Stored /\ j \notin Running
  <2>1. \A k \in Jobs : k \in Running' <=> k \in Running \/ k = j
    BY <1>2, <1>4, <1>5 DEF Running
  <2> QED
    BY <1>2, <2>1 DEF Running, Stored
<1>8. TypeOK'
  <2>1. /\ newest \in 0 .. LastPost /\ 0 \in 0 .. LastPost
        /\ clash' \in BOOLEAN
    BY <1>1, <1>2, Numbers DEF TypeOK, Clashes
  <2> QED
    BY <1>1, <1>2, <1>3, <2>1 DEF TypeOK
<1>9. Taken(j)' = {} /\ Taken(j) = {} /\ results'[j] = 0
  <2>1. Taken(j) = {} /\ Taken(j)' = Taken(j)
    BY <1>2, <1>4 DEF TimelineInv, JobInv, Taken
  <2>2. results[j] = Cardinality(Taken(j))
    BY <1>1 DEF TypeOK, Taken
  <2> QED
    BY <1>4, <2>1, <2>2, FS_EmptySet
<1>10. Stretch(j)'
  BY <1>1, <1>2, <1>3, <1>4, <1>9, Numbers DEF Stretch, Convex
<1>11. pc'[j] = "fetch" => Paged(j)'
  <2> SUFFICES ASSUME pc'[j] = "fetch" PROVE Paged(j)'
    OBVIOUS
  <2>1. results'[j] < MaxResults
    BY <1>1, <1>9, Numbers
  <2>2. maxId'[j] = 0 => recent'[j] \/ from'[j] = 0
    BY <1>4
  <2>3. maxId'[j] > 0 => maxId'[j] = near /\ ~recent'[j] /\ from'[j] = near /\ near > 0
    BY <1>3, <1>4
  <2>4. ASSUME maxId'[j] > 0, NEW i \in Posts, maxId'[j] <= i, i <= Top(j)' PROVE FALSE
    <3>1. Top(j)' = near - 1 /\ near \in Int /\ i \in Int
      BY <1>1, <1>3, <2>3, <2>4, Numbers DEF Top
    <3> QED
      BY <2>3, <2>4, <3>1
  <2> QED
    BY <1>2, <1>3, <1>9, <2>1, <2>2, <2>3, <2>4 DEF Paged
<1>13. JobInv'
  <2>1. ASSUME NEW k \in Jobs
        PROVE  /\ pc'[k] = "new" => Taken(k)' = {}
               /\ k \in Running' => Stretch(k)'
               /\ pc'[k] = "fetch" => Paged(k)'
               /\ pc'[k] = "commit" => Complete(k)'
    <3>1. CASE k = j
      BY <1>4, <1>9, <1>10, <1>11, <3>1
    <3>2. CASE k # j
      BY <1>5, <1>6, <1>7, <3>2 DEF JobInv, TimelineInv
    <3> QED
      BY <3>1, <3>2
  <2>2. \A k \in Jobs, i \in Posts : got'[k][i] <= 1
    BY <1>2 DEF JobInv, TimelineInv
  <2> QED
    BY <2>1, <2>2 DEF JobInv, Running
<1>14. Apart'
  <2> SUFFICES ASSUME ~clash' PROVE Apart'
    BY DEF Apart
  <2>1. /\ ~clash
        /\ \A k \in Running : recent[k] # r /\ from[k] # 0 /\ Stored # {}
    BY <1>2 DEF Clashes
  <2>2. /\ \A i \in Posts : stored[i] <= 1 \/ Again(i)
        /\ \A k \in Running :
              /\ from[k] > 0 => from[k] \in Stored
              /\ \A i \in Stored : IF recent[k] THEN i <= from[k] ELSE from[k] <= i
        /\ \A k, l \in Running : k # l => recent[k] # recent[l]
    BY <2>1 DEF Apart, TimelineInv
  <2>3. ASSUME NEW k \in Running'
        PROVE  /\ from'[k] = 0 => Stored' = {} /\ Running' = {k}
               /\ from'[k] > 0 => from'[k] \in Stored'
               /\ \A i \in Stored' : IF recent'[k] THEN i <= from'[k] ELSE from'[k] <= i
    <3>1. CASE k = j
      <4>1. from'[k] = 0 => Stored' = {} /\ Running' = {k}
        BY <1>3, <1>4, <1>7, <2>1, <3>1
      <4>2. Stored' # {} => near > 0
        BY <1>3, <1>7
      <4> QED
        BY <1>3, <1>4, <1>7, <3>1, <4>1, <4>2
    <3>2. CASE k # j
      <4>1. k \in Running /\ k \in Jobs
        BY <1>7, <3>2 DEF Running
      <4> QED
        BY <1>5, <1>7, <2>1, <2>2, <3>2, <4>1
    <3> QED
      BY <3>1, <3>2
  <2>4. ASSUME NEW k \in Running', NEW l \in Running', k # l PROVE recent'[k] # recent'[l]
    <3>1. k \in Jobs /\ l \in Jobs
      BY DEF Running
    <3> QED
      BY <1>4, <1>5, <1>7, <2>1, <2>2, <2>4, <3>1
  <2>5. \A i \in Posts : Again(i) => Again(i)'
    <3>1. \A k \in Jobs : pc[k] = "done" => pc'[k] = "done" /\ since'[k] = since[k]
      BY <1>2, <1>5
    <3> QED
      BY <1>2, <3>1 DEF Again, Twitter
  <2> QED
    BY <1>2, <2>2, <2>3, <2>4, <2>5 DEF Apart
<1>15. NoHoles' /\ \A i \in Stored' : i <= newest'
  BY <1>2, <1>7 DEF TimelineInv, NoHoles
<1>16. CaughtUp'
  <2>1. ASSUME NEW k \in Jobs, pc'[k] = "done", results'[k] < MaxResults
        PROVE  IF recent'[k] \/ from'[k] = 0 THEN from'[k] + 1 .. upTo'[k] \subseteq Stored'
               ELSE 1 .. from'[k] - 1 \subseteq Stored'
    <3>1. k # j
      BY <1>2, <1>4, <2>1
    <3> QED
      BY <1>5, <1>7, <2>1, <3>1 DEF TimelineInv, CaughtUp
  <2> QED
    BY <2>1 DEF CaughtUp
<1> QED
  BY <1>8, <1>13, <1>14, <1>15, <1>16 DEF TimelineInv

\* Two stretches that touch or overlap in one post are one.
LEMMA JoinConvex ==
    ASSUME NEW S \in SUBSET Int, NEW T \in SUBSET Int, Convex(S), Convex(T), NEW m \in S,
           \/ (\A i \in S : i <= m) /\ (\A i \in T : m <= i) /\ (T # {} => m \in T \/ m + 1 \in T)
           \/ (\A i \in S : m <= i) /\ (\A i \in T : i < m) /\ (T # {} => m - 1 \in T)
    PROVE  Convex(S \union T)
<1> SUFFICES ASSUME NEW i \in S \union T, NEW l \in S \union T, NEW k \in i .. l
             PROVE  k \in S \union T
  BY DEF Convex
<1>1. i \in Int /\ l \in Int /\ k \in Int /\ m \in Int /\ i <= k /\ k <= l
  OBVIOUS
<1>2. CASE i \in S /\ l \in S
  BY <1>2 DEF Convex
<1>3. CASE i \in T /\ l \in T
  BY <1>3 DEF Convex
<1>4. CASE i \in S /\ l \in T
  <2>1. m \in T \/ m + 1 \in T
    <3>1. m \in T \/ m + 1 \in T \/ (m <= i /\ l < m)
      BY <1>4
    <3> QED
      BY <1>1, <3>1
  <2>2. k \in i .. m \/ (k \in m .. l /\ k \in m + 1 .. l)
    BY <1>1
  <2> QED
    BY <1>4, <2>1, <2>2 DEF Convex
<1>5. CASE i \in T /\ l \in S
  <2>0. CASE m <= i /\ l <= m
    <3>1. k = m
      BY <1>1, <2>0
    <3> QED
      BY <3>1
  <2>1. ASSUME ~ (m <= i /\ l <= m) PROVE m - 1 \in T
    BY <1>5, <2>1
  <2>2. k \in i .. m - 1 \/ k \in m .. l
    BY <1>1
  <2> QED
    BY <1>5, <2>0, <2>1, <2>2 DEF Convex
<1> QED
  BY <1>2, <1>3, <1>4, <1>5

\* What a job commits is new, but for the post that since_id names if answers
\* include it, and adjoins what is stored unless a job for newer posts has been
\* cut short.
LEMMA CommitAdjoins ==
    ASSUME TimelineInv, NEW j \in Jobs, Commit(j), ~clash
    PROVE  /\ \A i \in Taken(j) \intersect Stored : Twitter /\ inclusive /\ i = since[j]
           /\ ~cut' /\ Convex(Stored) => Convex(Stored \union Taken(j))
<1>1. /\ TypeOK /\ pc[j] = "commit" /\ j \in Running /\ Stretch(j) /\ Complete(j)
      /\ Taken(j) \in SUBSET Posts /\ Taken(j) \in SUBSET Int
      /\ Stored \in SUBSET Posts /\ Stored \in SUBSET Int
      /\ Floor(j) \in Int /\ Floor(j) <= since[j] /\ since[j] - 1 <= Floor(j)
      /\ ~Twitter \/ ~inclusive => Floor(j) = since[j]
  BY Numbers DEF TimelineInv, JobInv, Running, Commit, Stored
<1>2. /\ from[j] = 0 => Stored = {}
      /\ from[j] > 0 => from[j] \in Stored
      /\ \A i \in Stored : IF recent[j] THEN i <= from[j] ELSE from[j] <= i
  BY <1>1 DEF Apart, TimelineInv
<1>3. from[j] \in Int /\ 0 <= from[j] /\ since[j] = (IF recent[j] THEN from[j] ELSE 0)
  BY <1>1, Numbers DEF Stretch
<1>4. CASE from[j] = 0
  <2>1. Stored = {} /\ Convex(Taken(j))
    BY <1>1, <1>2, <1>4 DEF Stretch
  <2> QED
    BY <2>1
<1>5. CASE from[j] > 0 /\ recent[j]
  <2>1. \A i \in Taken(j) : i \in Int /\ Floor(j) < i /\ from[j] <= i
    BY <1>1, <1>3, <1>5 DEF Stretch
  <2>2. ASSUME NEW i \in Taken(j), i \in Stored PROVE Twitter /\ inclusive /\ i = since[j]
    <3>1. i \in Int /\ Floor(j) < i /\ from[j] <= i /\ i <= from[j]
      BY <1>2, <1>5, <2>1, <2>2
    <3>2. i = since[j] /\ Floor(j) # since[j]
      BY <1>1, <1>3, <1>5, <3>1
    <3> QED
      BY <1>1, <3>2 DEF Twitter
  <2>3. ASSUME ~cut', Taken(j) # {} PROVE from[j] \in Taken(j) \/ from[j] + 1 \in Taken(j)
    <3>1. CASE results[j] = MaxResults
      <4> DEFINE S == Taken(j) \union {LastPost}
      <4>1. S \in SUBSET Posts /\ S # {} /\ LastPost \in Int
        BY <1>1, Numbers, SizeAssumption DEF Posts
      <4>2. Min(S) \in S
        BY <4>1, MinOfPosts
      <4>3. ~ (Min(S) > since[j] + 1)
        BY <1>3, <1>5, <2>3, <3>1 DEF Commit, Taken
      <4>4. Min(S) \in Int /\ Min(S) <= from[j] + 1
        BY <1>1, <1>3, <1>5, <4>1, <4>2, <4>3
      <4>5. CASE Min(S) \in Taken(j)
        <5>1. Min(S) = from[j] \/ Min(S) = from[j] + 1
          BY <1>3, <2>1, <4>4, <4>5
        <5> QED
          BY <4>5, <5>1
      <4>6. CASE Min(S) = LastPost
        <5>1. PICK i \in Taken(j) : TRUE
          BY <2>3
        <5>2. i \in Int /\ from[j] <= i /\ i <= LastPost
          BY <1>1, <2>1, Numbers
        <5>3. i = from[j] \/ i = from[j] + 1
          BY <1>3, <4>1, <4>4, <4>6, <5>2
        <5> QED
          BY <5>3
      <4> QED
        BY <4>2, <4>5, <4>6
    <3>2. CASE results[j] # MaxResults
      <4>1. Floor(j) + 1 \in Taken(j)
        BY <1>1, <2>3, <3>2 DEF Complete
      <4>2. Floor(j) + 1 = from[j] \/ Floor(j) + 1 = from[j] + 1
        BY <1>1, <1>3, <1>5
      <4> QED
        BY <4>1, <4>2
    <3> QED
      BY <3>1, <3>2
  <2> QED
    BY <1>1, <1>2, <1>5, <2>1, <2>2, <2>3, JoinConvex DEF Stretch
<1>6. CASE from[j] > 0 /\ ~recent[j]
  <2>1. /\ \A i \in Taken(j) : i < from[j]
        /\ Taken(j) # {} => from[j] - 1 \in Taken(j)
    BY <1>1, <1>6 DEF Stretch
  <2>2. Taken(j) \intersect Stored = {}
    BY <1>1, <1>2, <1>3, <1>6, <2>1
  <2> QED
    BY <1>1, <1>2, <1>6, <2>1, <2>2, JoinConvex DEF Stretch
<1> QED
  BY <1>3, <1>4, <1>5, <1>6

\* A commit keeps the invariant.
LEMMA CommitInv ==
    ASSUME TimelineInv, NEW j \in Jobs, Commit(j)
    PROVE  TimelineInv'
<1>1. /\ TypeOK /\ newest \in Int /\ newest <= newest
      /\ pc[j] = "commit" /\ j \in Running /\ Stretch(j) /\ Complete(j)
      /\ Taken(j) \in SUBSET Posts /\ Stored \in SUBSET Posts
  BY Numbers DEF TimelineInv, JobInv, Running, Commit, Stored
<1>2. /\ stored' = [i \in Posts |-> stored[i] + got[j][i]]
      /\ cut' \in BOOLEAN /\ (cut => cut')
      /\ pc' = [pc EXCEPT ![j] = "done"] /\ pc'[j] = "done"
      /\ \A k \in Jobs : k # j => pc'[k] = pc[k]
      /\ UNCHANGED <<site, inclusive, newest, recent, since, maxId, results, got, from, upTo, clash>>
  BY <1>1 DEF Commit, Goto, TypeOK
<1>3. ASSUME NEW k \in Jobs
      PROVE  /\ Taken(k)' = Taken(k)
             /\ Stretch(k) => Stretch(k)'
             /\ Paged(k) => Paged(k)'
             /\ Complete(k) => Complete(k)'
  BY <1>1, <1>2, OtherJob
<1>4. Running' = Running \ {j}
  BY <1>2 DEF Running
<1>5. /\ stored' \in [Posts -> Nat]
      /\ \A i \in Posts : stored'[i] = stored[i] + got[j][i]
      /\ Stored' = Stored \union Taken(j)
  <2>1. \A i \in Posts : stored[i] \in Nat /\ got[j][i] \in Nat
    BY <1>1 DEF TypeOK
  <2>2. stored' \in [Posts -> Nat] /\ \A i \in Posts : stored'[i] = stored[i] + got[j][i]
    BY <1>2, <2>1
  <2>3. \A i \in Posts : stored'[i] > 0 <=> stored[i] > 0 \/ got[j][i] > 0
    BY <2>1, <2>2
  <2> QED
    BY <2>2, <2>3 DEF Stored, Taken
<1>6. TypeOK'
  BY <1>1, <1>2, <1>5 DEF TypeOK
<1>7. JobInv'
  <2>1. ASSUME NEW k \in Jobs
        PROVE  /\ pc'[k] = "new" => Taken(k)' = {}
               /\ k \in Running' => Stretch(k)'
               /\ pc'[k] = "fetch" => Paged(k)'
               /\ pc'[k] = "commit" => Complete(k)'
    <3>1. CASE k = j
      BY <1>2, <1>4, <3>1
    <3>2. CASE k # j
      BY <1>2, <1>3, <1>4, <3>2 DEF JobInv, TimelineInv
    <3> QED
      BY <3>1, <3>2
  <2>2. \A k \in Jobs, i \in Posts : got'[k][i] <= 1
    BY <1>2 DEF JobInv, TimelineInv
  <2> QED
    BY <2>1, <2>2 DEF JobInv, Running
<1>8. \A i \in Stored' : i <= newest'
  BY <1>1, <1>2, <1>5 DEF TimelineInv, Stretch
<1>9. Apart'
  <2> SUFFICES ASSUME ~clash PROVE Apart'
    BY <1>2 DEF Apart
  <2>1. /\ \A i \in Posts : (stored[i] <= 1 \/ Again(i)) /\ got[j][i] <= 1
        /\ \A k \in Running :
              /\ from[k] = 0 => Stored = {} /\ Running = {k}
              /\ from[k] > 0 => from[k] \in Stored
              /\ \A i \in Stored : IF recent[k] THEN i <= from[k] ELSE from[k] <= i
        /\ \A k, l \in Running : k # l => recent[k] # recent[l]
    BY DEF Apart, TimelineInv, JobInv
  <2>2. \A i \in Taken(j) \intersect Stored : Twitter /\ inclusive /\ i = since[j]
    BY CommitAdjoins
  <2>3. ASSUME NEW i \in Posts PROVE stored'[i] <= 1 \/ Again(i)'
    <3>1. stored[i] \in Nat /\ got[j][i] \in Nat /\ stored'[i] = stored[i] + got[j][i]
      BY <1>1, <1>5 DEF TypeOK
    <3>2. Again(i) => Again(i)'
      <4>1. \A k \in Jobs : pc[k] = "done" => pc'[k] = "done"
        BY <1>2
      <4> QED
        BY <1>2, <4>1 DEF Again, Twitter
    <3>3. CASE i \in Taken(j) \intersect Stored
      <4>1. Twitter' /\ inclusive' /\ pc'[j] = "done" /\ since'[j] = i
        BY <1>2, <2>2, <3>3 DEF Twitter
      <4> QED
        BY <4>1 DEF Again
    <3>4. CASE i \notin Taken(j) \intersect Stored
      <4>1. stored[i] = 0 \/ got[j][i] = 0
        BY <3>1, <3>4 DEF Stored, Taken
      <4> QED
        BY <2>1, <3>1, <3>2, <4>1
    <3> QED
      BY <3>3, <3>4
  <2>4. ASSUME NEW k \in Running, k # j
        PROVE  /\ from[k] > 0 /\ from[k] \in Stored'
               /\ \A i \in Stored' : IF recent[k] THEN i <= from[k] ELSE from[k] <= i
    <3>1. from[k] \in Int /\ from[k] > 0 /\ from[j] \in Int /\ from[j] > 0
      BY <1>1, <2>1, <2>4, Numbers DEF Running
    <3>2. from[k] \in Stored /\ from[j] \in Stored /\ recent[k] # recent[j]
      BY <1>1, <2>1, <2>4, <3>1
    <3>3. recent[k] \in BOOLEAN /\ recent[j] \in BOOLEAN
      BY <1>1 DEF TypeOK, Running
    <3>4. ASSUME NEW i \in Taken(j) PROVE IF recent[k] THEN i <= from[k] ELSE from[k] <= i
      <4>1. i \in Int /\ (IF recent[j] THEN from[j] <= i ELSE i < from[j])
        BY <1>1, <3>1, Numbers DEF Stretch
      <4>2. IF recent[k] THEN from[j] <= from[k] ELSE from[k] <= from[j]
        BY <2>1, <3>2
      <4> QED
        BY <3>1, <3>2, <3>3, <4>1, <4>2
    <3> QED
      BY <1>5, <2>1, <3>1, <3>2, <3>4
  <2>5. ASSUME NEW k \in Running'
        PROVE  /\ from'[k] = 0 => Stored' = {} /\ Running' = {k}
               /\ from'[k] > 0 => from'[k] \in Stored'
               /\ \A i \in Stored' : IF recent'[k] THEN i <= from'[k] ELSE from'[k] <= i
    <3>1. k \in Running /\ k # j /\ from'[k] = from[k] /\ recent'[k] = recent[k]
      BY <1>2, <1>4
    <3>2. from[k] # 0
      BY <1>1, <2>4, <3>1, Numbers DEF Running
    <3> QED
      BY <2>4, <3>1, <3>2
  <2> QED
    BY <1>2, <1>4, <2>1, <2>3, <2>5 DEF Apart
<1>10. NoHoles'
  <2> SUFFICES ASSUME ~clash, ~cut' PROVE Convex(Stored \union Taken(j))
    BY <1>2, <1>5 DEF NoHoles, Convex
  <2>1. Convex(Stored)
    BY <1>2 DEF TimelineInv, NoHoles, Convex
  <2> QED
    BY <2>1, CommitAdjoins
<1>11. CaughtUp'
  <2>1. ASSUME NEW k \in Jobs, pc'[k] = "done", results[k] < MaxResults
        PROVE  IF recent[k] \/ from[k] = 0 THEN from[k] + 1 .. upTo[k] \subseteq Stored'
               ELSE 1 .. from[k] - 1 \subseteq Stored'
    <3>1. CASE k # j
      BY <1>2, <1>5, <2>1, <3>1 DEF TimelineInv, CaughtUp
    <3>2. CASE k = j
      <4>1. results[j] # MaxResults
        BY <1>1, <2>1, <3>2, Numbers
      <4>2. \A i \in Posts : Floor(j) < i /\ i <= Top(j) => i \in Taken(j)
        BY <1>1, <4>1 DEF Complete
      <4>3. /\ from[j] \in Int /\ 0 <= from[j] /\ upTo[j] \in Int
            /\ from[j] <= newest /\ upTo[j] <= newest
            /\ since[j] = (IF recent[j] THEN from[j] ELSE 0)
        BY <1>1, Numbers DEF Stretch
      <4>4. ASSUME NEW i \in Int, since[j] + 1 <= i, i <= Top(j) PROVE i \in Taken(j)
        <5>1. /\ since[j] \in Int /\ 0 <= since[j] /\ Top(j) \in Int /\ Top(j) <= newest
              /\ Floor(j) \in Int /\ Floor(j) <= since[j]
          BY <1>1, <4>3, Numbers DEF Top
        <5>2. i \in Posts /\ Floor(j) < i
          BY <1>1, <4>4, <5>1, Numbers
        <5> QED
          BY <4>2, <4>4, <5>2
      <4>5. since[j] + 1 .. Top(j) \subseteq Taken(j)
        BY <4>3, <4>4 DEF Top
      <4>6. IF recent[j] \/ from[j] = 0 THEN since[j] + 1 .. Top(j) = from[j] + 1 .. upTo[j]
            ELSE since[j] + 1 .. Top(j) = 1 .. from[j] - 1
        BY <4>3 DEF Top
      <4> QED
        BY <1>5, <3>2, <4>5, <4>6
    <3> QED
      BY <3>1, <3>2
  <2> QED
    BY <1>2, <2>1 DEF CaughtUp
<1> QED
  BY <1>6, <1>7, <1>8, <1>9, <1>10, <1>11 DEF TimelineInv

-----------------------------------------------------------------------------
(* The theorems *)

\* The initial states satisfy the invariant.
LEMMA TimelineInit ==
    ASSUME Init
    PROVE  TimelineInv
<1>1. PICK i \in Posts, l \in 0 .. newest :
         stored = [k \in Posts |-> IF k \in i .. l THEN 1 ELSE 0]
  BY DEF Init
<1>2. /\ site \in Sites /\ inclusive \in BOOLEAN /\ newest \in 0 .. LastPost
      /\ pc = [j \in Jobs |-> "new"] /\ recent = [j \in Jobs |-> FALSE]
      /\ since = [j \in Jobs |-> 0] /\ maxId = [j \in Jobs |-> 0]
      /\ results = [j \in Jobs |-> 0] /\ got = [j \in Jobs |-> NoPosts]
      /\ from = [j \in Jobs |-> 0] /\ upTo = [j \in Jobs |-> 0]
      /\ clash = FALSE /\ cut = FALSE
  BY DEF Init
<1>3. LastPost \in Nat /\ Posts \subseteq Int /\ newest \in Int /\ i \in Int /\ l \in Int /\ l <= newest
  BY <1>1, <1>2, SizeAssumption DEF Posts
<1>4. /\ stored \in [Posts -> Nat] /\ \A k \in Posts : stored[k] <= 1
      /\ \A k \in Posts : k \in Stored <=> k \in i .. l
  BY <1>1, <1>3 DEF Stored
<1>5. \A j \in Jobs : Taken(j) = {} /\ \A k \in Posts : got[j][k] = 0
  BY <1>2 DEF Taken, NoPosts
<1>6. TypeOK
  <2>1. \A j \in Jobs : results[j] = Cardinality(Taken(j))
    BY <1>2, <1>5, FS_EmptySet
  <2>2. 0 \in 0 .. LastPost
    BY <1>3
  <2> QED
    BY <1>2, <1>4, <2>1, <2>2 DEF TypeOK, Taken, NoPosts
<1>7. Running = {} /\ \A j \in Jobs : pc[j] = "new"
  BY <1>2 DEF Running
<1>8. JobInv
  BY <1>5, <1>7 DEF JobInv
<1>9. Apart
  BY <1>4, <1>7 DEF Apart
<1>10. \A k \in Stored : k <= newest
  BY <1>3, <1>4 DEF Stored
<1>11. NoHoles
  <2> SUFFICES ASSUME NEW a \in Stored, NEW b \in Stored, NEW k \in a .. b PROVE k \in Stored
    BY DEF NoHoles
  <2>1. a \in Posts /\ b \in Posts /\ a \in i .. l /\ b \in i .. l
    BY <1>4 DEF Stored
  <2>2. k \in Posts /\ k \in i .. l
    BY <1>3, <2>1 DEF Posts
  <2> QED
    BY <1>4, <2>2
<1>12. CaughtUp
  BY <1>7 DEF CaughtUp
<1> QED
  BY <1>6, <1>8, <1>9, <1>10, <1>11, <1>12 DEF TimelineInv

\* Every step keeps the invariant.
LEMMA TimelineNext ==
    ASSUME TimelineInv, [Next]_vars
    PROVE  TimelineInv'
<1>1. CASE Publish
  BY <1>1, PublishInv
<1>2. ASSUME NEW j \in Jobs, TwitterFetch(j) \/ InstagramFetch(j) PROVE TimelineInv'
  BY <1>2, RequestInv
<1>3. ASSUME NEW j \in Jobs, Commit(j) PROVE TimelineInv'
  BY <1>3, CommitInv
<1>4. ASSUME NEW j \in Jobs, Interrupt(j) PROVE TimelineInv'
  BY <1>4, InterruptInv
<1>5. ASSUME NEW j \in Jobs, NEW r \in BOOLEAN, Begin(j, r) PROVE TimelineInv'
  BY <1>5, BeginInv
<1>6. CASE UNCHANGED vars
  <2>1. UNCHANGED <<site, inclusive, newest, stored, pc, recent, since, maxId, results, got, from, upTo,
                    clash, cut>>
    BY <1>6 DEF vars, jobVars
  <2>2. TypeOK'
    BY <2>1 DEF TimelineInv, TypeOK
  <2>3. ASSUME NEW k \in Jobs
        PROVE  /\ Taken(k)' = Taken(k)
               /\ Stretch(k) => Stretch(k)'
               /\ Paged(k) => Paged(k)'
               /\ Complete(k) => Complete(k)'
    <3>1. TypeOK /\ newest \in Int /\ newest <= newest
      BY Numbers DEF TimelineInv
    <3> QED
      BY <2>1, <3>1, OtherJob
  <2>4. JobInv'
    BY <2>1, <2>3 DEF TimelineInv, JobInv, Running
  <2>5. Apart'
    BY <2>1 DEF TimelineInv, Apart, Again, Twitter, Running, Stored
  <2>6. NoHoles' /\ CaughtUp' /\ \A i \in Stored' : i <= newest'
    BY <2>1 DEF TimelineInv, NoHoles, CaughtUp, Stored
  <2> QED
    BY <2>2, <2>4, <2>5, <2>6 DEF TimelineInv
<1> QED
  BY <1>1, <1>2, <1>3, <1>4, <1>5, <1>6 DEF Next, JobStep

\* The invariant holds throughout.
LEMMA TimelineInvariant == Spec => []TimelineInv
<1> QED
  BY TimelineInit, TimelineNext, PTL DEF Spec

\* The counters of a job always agree with the rows that it holds: the number
\* of results that scrape_*_posts compares with the maximum is the number of
\* different posts among the rows that it is going to commit.
THEOREM TimelineTypesCorrect == Spec => []TypeOK
<1>1. TimelineInv => TypeOK
  BY DEF TimelineInv
<1> QED
  BY <1>1, TimelineInvariant, PTL

\* No post is stored twice, although the table has no unique key for it, as
\* long as no two jobs fetch the same range of the profile at a time - but for
\* the post that was the newest one when a job for newer posts began, if
\* Twitter answers with the post that since_id names as well.
THEOREM PostsStoredOnce == Spec => []StoredOnce
<1>1. TimelineInv => StoredOnce
  BY DEF TimelineInv, Apart, StoredOnce
<1> QED
  BY <1>1, TimelineInvariant, PTL

\* The stored posts are a stretch of the timeline without a hole, unless two
\* jobs fetched the same range or one for newer posts stopped at its maximum.
THEOREM TimelineHasNoHoles == Spec => []NoHoles
<1>1. TimelineInv => NoHoles
  BY DEF TimelineInv
<1> QED
  BY <1>1, TimelineInvariant, PTL

\* A job that ends short of its maximum has stored all of its range, with any
\* page size, whatever appears at the site and is stored by others meanwhile.
THEOREM JobsCatchUp == Spec => []CaughtUp
<1>1. TimelineInv => CaughtUp
  BY DEF TimelineInv
<1> QED
  BY <1>1, TimelineInvariant, PTL

-----------------------------------------------------------------------------
(* The page loops come to an end *)

\* At most so many steps are left to a job: the commit, and requests, each for
\* posts below those of the one before.
Remaining(j) ==
    IF pc[j] = "fetch" THEN IF maxId[j] = 0 THEN LastPost + 2 ELSE maxId[j] + 1
    ELSE IF pc[j] = "commit" THEN 1 ELSE 0

\* A step of the job comes nearer to its end, and no step takes it further away.
Nearer ==
    \A j \in Jobs :
       /\ JobStep(j) => Remaining(j)' < Remaining(j)
       /\ j \in Running => Remaining(j)' <= Remaining(j)

LEMMA RequestComesDown ==
    ASSUME TimelineInv, NEW j \in Jobs, TwitterFetch(j) \/ InstagramFetch(j)
    PROVE  /\ Remaining(j)' < Remaining(j)
           /\ \A k \in Jobs : k # j => Remaining(k)' = Remaining(k)
<1>1. TypeOK /\ JobInv
  BY DEF TimelineInv
<1>2. PICK T \in SUBSET Missing(j) : Requested(j, T)
  BY <1>1, TwitterRequest, InstagramRequest
<1>3. \A k \in Jobs : k # j => Remaining(k)' = Remaining(k)
  BY <1>2 DEF Requested, Remaining
<1>4. pc[j] = "fetch" /\ maxId[j] \in Int /\ 0 <= maxId[j] /\ LastPost \in Int /\ 0 < LastPost
  BY <1>1, <1>2, Numbers DEF Requested
<1>5. CASE pc'[j] = "commit"
  <2>1. Remaining(j)' = 1
    BY <1>5 DEF Remaining
  <2>2. Remaining(j) = LastPost + 2 \/ (maxId[j] > 0 /\ Remaining(j) = maxId[j] + 1)
    BY <1>4 DEF Remaining
  <2> QED
    BY <1>3, <1>4, <2>1, <2>2
<1>6. CASE pc'[j] = "fetch"
  <2>1. maxId'[j] \in Missing(j)
    BY <1>2, <1>6 DEF Requested
  <2>2. /\ maxId'[j] \in Int /\ 1 <= maxId'[j] /\ maxId'[j] <= LastPost
        /\ maxId[j] = 0 \/ maxId'[j] < maxId[j]
    BY <1>1, <2>1, Numbers DEF Missing
  <2> QED
    <3>1. Remaining(j)' = maxId'[j] + 1
      BY <1>6, <2>2 DEF Remaining
    <3>2. Remaining(j) = IF maxId[j] = 0 THEN LastPost + 2 ELSE maxId[j] + 1
      BY <1>4 DEF Remaining
    <3> QED
      BY <1>3, <1>4, <2>2, <3>1, <3>2
<1>7. pc'[j] \in {"fetch", "commit"}
  BY <1>2 DEF Requested
<1> QED
  BY <1>3, <1>5, <1>6, <1>7

LEMMA CommitComesDown ==
    ASSUME TimelineInv, NEW j \in Jobs, Commit(j)
    PROVE  /\ Remaining(j)' < Remaining(j)
           /\ \A k \in Jobs : k # j => Remaining(k)' = Remaining(k)
<1>1. TypeOK /\ pc[j] = "commit" /\ pc' = [pc EXCEPT ![j] = "done"] /\ maxId' = maxId
  BY DEF TimelineInv, Commit, Goto
<1>2. pc'[j] = "done" /\ \A k \in Jobs : k # j => pc'[k] = pc[k]
  BY <1>1 DEF TypeOK
<1> QED
  BY <1>1, <1>2 DEF Remaining

LEMMA NobodySetsBack ==
    ASSUME TimelineInv, [Next]_vars, NEW j \in Jobs, j \in Running
    PROVE  Remaining(j)' <= Remaining(j)
<1>1. /\ TypeOK /\ pc[j] \in {"fetch", "commit"} /\ Remaining(j) \in Int /\ 0 <= Remaining(j)
  BY Numbers DEF TimelineInv, Running, Remaining
<1>2. CASE Publish
  BY <1>1, <1>2 DEF Publish, jobVars, Remaining
<1>3. ASSUME NEW k \in Jobs, TwitterFetch(k) \/ InstagramFetch(k) \/ Commit(k)
      PROVE  Remaining(j)' <= Remaining(j)
  <2>1. Remaining(j)' < Remaining(j) \/ Remaining(j)' = Remaining(j)
    BY <1>3, RequestComesDown, CommitComesDown
  <2>2. CASE Remaining(j)' = Remaining(j)
    BY <1>1, <2>2
  <2>3. CASE Remaining(j)' < Remaining(j)
    <3>1. TimelineInv'
      BY TimelineNext
    <3>2. Remaining(j)' \in Int
      BY <3>1, Numbers DEF TimelineInv, TypeOK, Remaining
    <3> QED
      BY <1>1, <2>3, <3>2
  <2> QED
    BY <2>1, <2>2, <2>3
<1>4. ASSUME NEW k \in Jobs, Interrupt(k) PROVE Remaining(j)' <= Remaining(j)
  <2>1. pc' = [pc EXCEPT ![k] = "failed"] /\ maxId' = maxId
    BY <1>4 DEF Interrupt, Goto
  <2>2. pc'[j] = "failed" \/ pc'[j] = pc[j]
    BY <1>1, <2>1 DEF TypeOK
  <2>3. Remaining(j)' = 0 \/ Remaining(j)' = Remaining(j)
    BY <2>1, <2>2 DEF Remaining
  <2> QED
    BY <1>1, <2>3
<1>5. ASSUME NEW k \in Jobs, NEW r \in BOOLEAN, Begin(k, r) PROVE Remaining(j)' <= Remaining(j)
  <2>1. k # j
    BY <1>1, <1>5 DEF Begin
  <2>2. pc'[j] = pc[j] /\ maxId'[j] = maxId[j]
    BY <1>1, <1>5, <2>1 DEF Begin, Goto, TypeOK
  <2>3. Remaining(j)' = Remaining(j)
    BY <2>2 DEF Remaining
  <2> QED
    BY <1>1, <2>3
<1>6. CASE UNCHANGED vars
  BY <1>1, <1>6 DEF vars, jobVars, Remaining
<1> QED
  BY <1>2, <1>3, <1>4, <1>5, <1>6 DEF Next, JobStep

\* The page loops of scrape_twitter_posts and scrape_instagram_posts cannot go on
\* for ever: each request and the commit bring a job nearer to its end, and
\* nothing that happens meanwhile - posts that appear, other jobs, failures -
\* sets it back.  With the fairness of its steps this is why TimelineEnds holds.
THEOREM LoopsComeDown == Spec => [][Nearer]_vars
<1>1. TimelineInv /\ [Next]_vars => [Nearer]_vars
  BY RequestComesDown, CommitComesDown, NobodySetsBack DEF Nearer, JobStep
<1> QED
  BY <1>1, TimelineInvariant, PTL DEF Spec

\* What is left to a job is a number that the length of the timeline bounds.
THEOREM LoopsAreBounded == Spec => [](\A j \in Jobs : Remaining(j) \in 0 .. LastPost + 2)
<1>1. TimelineInv => \A j \in Jobs : Remaining(j) \in 0 .. LastPost + 2
  <2> SUFFICES ASSUME TimelineInv, NEW j \in Jobs PROVE Remaining(j) \in 0 .. LastPost + 2
    OBVIOUS
  <2>1. maxId[j] \in 0 .. LastPost /\ LastPost \in Nat
    BY SizeAssumption DEF TimelineInv, TypeOK
  <2> QED
    BY <2>1 DEF Remaining
<1> QED
  BY <1>1, TimelineInvariant, PTL

=============================================================================
