-------------------------- MODULE LabelsNotes_proofs --------------------------
(***************************************************************************)
(* Proofs about Labels, for any number of requests, labels and names, and  *)
(* about Notes, for any number of notes, of requests that change them and  *)
(* of fetches.                                                             *)
(***************************************************************************)
EXTENDS LabelsProps, NotesProps, FiniteSetTheorems, TLAPS

USE DEF pageVars, fetchVars, viewVars, vars

-----------------------------------------------------------------------------
(* Type correctness *)

\* Removing an element leaves a sequence.
LEMMA RemoveAtType ==
    ASSUME NEW S, NEW s \in Seq(S), NEW k \in DOMAIN s
    PROVE  RemoveAt(s, k) \in Seq(S)
<1>1. SubSeq(s, 1, k - 1) \in Seq(S)
  OBVIOUS
<1>2. SubSeq(s, k + 1, Len(s)) \in Seq(S)
  OBVIOUS
<1> QED
  BY <1>1, <1>2 DEF RemoveAt

\* A sequence of more than one element has a tail.
LEMMA NotEmpty ==
    ASSUME NEW S, NEW s \in Seq(S), Len(s) > 0
    PROVE  s # <<>>
OBVIOUS

\* A request by itself: at which step it can be, for what, and what it has then.
Fits(r) ==
    /\ req[r].step \in {"look"} => req[r].op \in {"put", "submit"}
    /\ req[r].step = "insert" => req[r].op \in {"post", "put", "submit"}
    /\ req[r].step \in {"assign", "flush"} => req[r].op = "put"
    /\ req[r].step = "commit" => req[r].op \in {"post", "put"}
    /\ req[r].step = "announce" => req[r].op = "submit"
    /\ req[r].step = "write" => req[r].op \in {"rename", "delete"}
    /\ req[r].step \in {"look", "insert", "announce"} => req[r].todo # <<>>
    /\ req[r].step = "write" /\ req[r].op = "rename" => req[r].todo # <<>>
    /\ req[r].step \in {"announce", "write"} => req[r].target \in Ids
    /\ req[r].step = "new" => req[r].new = {} /\ req[r].told = {} /\ req[r].got = {}
    /\ req[r].op # "put" => req[r].got = {}
    /\ r > begun => req[r].step = "new"
    /\ req[r].new \subseteq 1 .. given /\ req[r].told \subseteq 1 .. given

\* What a PUT is about to commit is there.
Kept(r) == Inserted(r) \subseteq Visible(r)

TypeInv ==
    /\ TypeOK
    /\ \A r \in Requests : Fits(r) /\ Kept(r)
    /\ rows \subseteq 1 .. given /\ was \subseteq 1 .. given

\* The request that changes is r; of others only "alone" does.
OnlyChanges(r) ==
    /\ req' \in [Requests -> RequestRecord]
    /\ \A q \in Requests \ {r} :
          /\ req'[q].op = req[q].op /\ req'[q].step = req[q].step
          /\ req'[q].todo = req[q].todo /\ req'[q].target = req[q].target
          /\ req'[q].got = req[q].got /\ req'[q].new = req[q].new
          /\ req'[q].old = req[q].old /\ req'[q].told = req[q].told

\* The request goes on, without a word.
Keeps(r) ==
    /\ OnlyChanges(r) /\ was' = was /\ given' = given
    /\ req'[r].op = req[r].op /\ req'[r].new = req[r].new /\ req'[r].told = req[r].told
    /\ \/ req'[r].step \in {"look", "insert", "assign", "flush", "commit"}
       \/ req'[r].step = "done" /\ req[r].op = "submit"

\* A request is begun; it has said nothing and inserted nothing.
Begins ==
    /\ was' = was /\ given' = given
    /\ \E r \in Requests :
         /\ OnlyChanges(r) /\ req[r].step = "new"
         /\ req[r].new = {} /\ req[r].told = {} /\ req'[r].new = {} /\ req'[r].told = {}
         /\ req'[r].step \in {"insert", "look", "assign", "write"}

LEMMA TypeInit == Init => TypeInv
<1> SUFFICES ASSUME Init PROVE TypeInv
  OBVIOUS
<1>1. PICK n \in Names \union {Refused} : name = [i \in Ids |-> IF i = 1 THEN n ELSE Refused]
  BY DEF Init
<1>2. rows \subseteq {1} /\ rows \subseteq Ids
  BY <1>1 DEF Init
<1>3. given \in 0 .. MaxLabels
  <2>1. CASE rows = {}
    <3>1. Cardinality({}) = 0
      BY FS_EmptySet, Zenon
    <3>2. given = 0
      BY <2>1, <3>1 DEF Init
    <3> QED
      BY <3>2, LabelsAssumption
  <2>2. CASE rows # {}
    <3>1. rows = {1} /\ 1 \in Ids
      BY <1>2, <2>2
    <3>2. Cardinality(rows) = 1
      BY <3>1, FS_Singleton
    <3> QED
      BY <3>1, <3>2, LabelsAssumption DEF Init, Ids
  <2> QED
    BY <2>1, <2>2
<1>4. shown \in Seq(Written)
  <2>1. CASE attached = {}
    BY <2>1 DEF Init
  <2>2. CASE attached # {}
    <3>1. 1 \in rows /\ name[1] # Refused
      BY <1>2, <2>2 DEF Init
    <3>2. name[1] \in Written
      BY <1>1, <1>2, <3>1, LabelsAssumption
    <3> QED
      BY <2>2, <3>2 DEF Init
  <2> QED
    BY <2>1, <2>2
<1>5. <<>> \in Seq(Written) /\ 0 \in 0 .. MaxLabels /\ 0 \in 0 .. MaxRequests
  BY LabelsAssumption
<1>6. req \in [Requests -> RequestRecord]
  BY <1>5 DEF Init, Cleared, RequestRecord, Steps
<1>7. TypeOK
  <2>1. \A r \in Requests : req[r].new = {}
    BY DEF Init, Cleared
  <2>2. /\ answers \in Seq([labels : SUBSET Ids, overtaken : BOOLEAN])
        /\ profiles \in Seq([labels : Seq(Names), overtaken : BOOLEAN])
        /\ heard \in 0 .. MaxHeard
    BY LabelsAssumption DEF Init
  <2>3. name \in [Ids -> Names \union {Refused}]
    BY <1>1
  <2>4. attached \subseteq rows
    BY DEF Init
  <2> QED
    BY <1>2, <1>3, <1>4, <1>5, <1>6, <2>1, <2>2, <2>3, <2>4 DEF Init, TypeOK
<1>8. ASSUME NEW r \in Requests PROVE Fits(r) /\ Kept(r)
  <2>1. /\ req[r].step = "new" /\ req[r].new = {} /\ req[r].told = {} /\ req[r].got = {}
    BY DEF Init, Cleared
  <2> QED
    BY <2>1 DEF Fits, Kept, Inserted, In
<1>9. rows \subseteq 1 .. given /\ was \subseteq 1 .. given
  <2>1. was = rows /\ given = Cardinality(rows)
    BY DEF Init
  <2>2. CASE rows = {}
    BY <2>1, <2>2
  <2>3. CASE rows # {}
    <3>1. rows = {1}
      BY <1>2, <2>3
    <3>2. Cardinality({1}) = 1
      BY FS_Singleton
    <3>3. given = 1
      BY <2>1, <3>1, <3>2
    <3> QED
      BY <2>1, <3>1, <3>3
  <2> QED
    BY <2>2, <2>3
<1> QED
  BY <1>7, <1>8, <1>9 DEF TypeInv

\* The others still fit, if no label goes that they are about to give away.
LEMMA OthersFit ==
    ASSUME TypeInv, NEW r \in Requests, OnlyChanges(r),
           begun' \in Nat, begun' >= begun, given' \in Nat, given' >= given,
           \A q \in Requests \ {r} : rows \intersect Inserted(q) \subseteq rows'
    PROVE  \A q \in Requests \ {r} : Fits(q)' /\ Kept(q)'
<1> SUFFICES ASSUME NEW q \in Requests \ {r} PROVE Fits(q)' /\ Kept(q)'
  OBVIOUS
<1>1. /\ req'[q].op = req[q].op /\ req'[q].step = req[q].step
      /\ req'[q].todo = req[q].todo /\ req'[q].target = req[q].target
      /\ req'[q].got = req[q].got /\ req'[q].new = req[q].new
      /\ req'[q].old = req[q].old /\ req'[q].told = req[q].told
      /\ Fits(q) /\ Kept(q)
  BY DEF OnlyChanges, TypeInv
<1>2. given \in Nat /\ begun \in Nat /\ q \in Nat
  BY DEF TypeInv, TypeOK, Requests
<1>3. Fits(q)'
  BY <1>1, <1>2 DEF Fits
<1>4. Kept(q)'
  BY <1>1 DEF Kept, Inserted, In, Visible
<1> QED
  BY <1>3, <1>4

\* The step that follows a name.
LEMMA AfterType ==
    ASSUME TypeOK, NEW r \in Requests, req[r].todo # <<>>
    PROVE  /\ Head(req[r].todo) \in Written /\ Tail(req[r].todo) \in Seq(Written)
           /\ req[r].op = "post" => After(r) \in {"insert", "commit"}
           /\ req[r].op = "put" => After(r) \in {"look", "assign"}
           /\ req[r].op = "submit" => After(r) \in {"look", "done"}
           /\ After(r) \in {"look", "insert"} => Tail(req[r].todo) # <<>>
<1>1. req[r].todo \in Seq(Written)
  BY DEF TypeOK, RequestRecord
<1>2. Head(req[r].todo) \in Written /\ Tail(req[r].todo) \in Seq(Written)
  BY <1>1
<1>3. ASSUME Len(req[r].todo) > 1 PROVE Tail(req[r].todo) # <<>>
  <2>1. Tail(req[r].todo) \in Seq(Written) /\ Len(Tail(req[r].todo)) > 0
    BY <1>1, <1>3
  <2> QED
    BY <2>1, NotEmpty
<1>4. req[r].op = "post" => After(r) = IF Len(req[r].todo) > 1 THEN "insert" ELSE "commit"
  BY DEF After
<1>5. req[r].op = "put" => After(r) = IF Len(req[r].todo) > 1 THEN "look" ELSE "assign"
  BY DEF After
<1>6. req[r].op \notin {"post", "put"} =>
         After(r) = IF Len(req[r].todo) > 1 THEN "look" ELSE "done"
  BY DEF After
<1> QED
  BY <1>2, <1>3, <1>4, <1>5, <1>6

\* What one action writes, if its request fits afterwards.
LEMMA OneRequest ==
    ASSUME NEW r \in Requests, NEW p \in RequestRecord,
           req \in [Requests -> RequestRecord], req' = [req EXCEPT ![r] = p]
    PROVE  OnlyChanges(r) /\ req'[r] = p
BY DEF OnlyChanges

\* A request that is over fits, and leaves nothing to keep.
LEMMA OverFits ==
    ASSUME TypeInv, NEW r \in Requests, NEW step \in Ended, Over(r, step),
           req[r].step # "new", begun' = begun, given' = given
    PROVE  /\ OnlyChanges(r) /\ Fits(r)' /\ Kept(r)'
           /\ req'[r].new = {} /\ req'[r].op = req[r].op /\ req'[r].step = step
           /\ req'[r].told = req[r].told
<1>1. req[r] \in RequestRecord /\ req \in [Requests -> RequestRecord]
  BY DEF TypeInv, TypeOK
<1>2. PICK rec : rec = Cleared(req[r].op, step, req[r].told)
  OBVIOUS
<1>3. /\ rec \in RequestRecord /\ rec.step = step /\ rec.op = req[r].op /\ rec.new = {}
      /\ rec.got = {} /\ rec.told = req[r].told
  BY <1>1, <1>2, LabelsAssumption DEF Cleared, RequestRecord, Steps, Ended
<1>4. req' = [req EXCEPT ![r] = rec]
  BY <1>2 DEF Over
<1>5. OnlyChanges(r) /\ req'[r] = rec
  BY <1>1, <1>3, <1>4, OneRequest
<1>6. req[r].told \subseteq 1 .. given /\ r <= begun
  BY DEF TypeInv, Fits, TypeOK, Requests
<1>7. step \notin {"look", "insert", "assign", "flush", "commit", "announce", "write", "new"}
  BY DEF Ended
<1>8. begun \in Nat /\ r \in Nat
  BY DEF TypeInv, TypeOK, Requests
<1>9. Fits(r)'
  BY <1>3, <1>5, <1>6, <1>7, <1>8 DEF Fits
<1>10. Kept(r)'
  BY <1>3, <1>5, <1>7 DEF Kept, Inserted, In
<1> QED
  BY <1>3, <1>5, <1>9, <1>10

\* The types, once the one request that changes fits.
LEMMA StepType ==
    ASSUME TypeInv, NEW r \in Requests, OnlyChanges(r), Fits(r)', Kept(r)',
           \A q \in Requests \ {r} : req'[r].new \intersect req[q].new = {},
           \A q \in Requests \ {r} : rows \intersect Inserted(q) \subseteq rows',
           begun' \in 0 .. MaxRequests, begun' >= begun, given' \in 0 .. MaxLabels, given' >= given,
           name' \in [Ids -> Names \union {Refused}], attached' \subseteq rows',
           rows' \subseteq 1 .. given', was' \subseteq 1 .. given',
           lastPut' \in 0 .. MaxRequests, shown' \in Seq(Written), asks' \in Nat, gets' \in Nat,
           answers' = answers, listed' = listed, renamed' \subseteq Ids, early' = early,
           late' = late, own' \in BOOLEAN, clean' \in BOOLEAN,
           UNCHANGED <<profiles, heard, behind>>
    PROVE  TypeInv'
<1>1. begun' \in Nat /\ given' \in Nat
  BY LabelsAssumption
<1>2. \A q \in Requests \ {r} : Fits(q)' /\ Kept(q)'
  BY <1>1, OthersFit
<1>3. ASSUME NEW p \in Requests, NEW q \in Requests, p # q
      PROVE  req'[p].new \intersect req'[q].new = {}
  <2>1. \A o \in Requests \ {r} : req'[o].new = req[o].new
    BY DEF OnlyChanges
  <2>2. req[p].new \intersect req[q].new = {}
    BY <1>3 DEF TypeInv, TypeOK
  <2> QED
    BY <1>3, <2>1, <2>2
<1>4. req' \in [Requests -> RequestRecord]
  BY DEF OnlyChanges
<1>5. rows' \subseteq Ids /\ was' \subseteq Ids
  BY LabelsAssumption DEF Ids
<1>6. TypeOK'
  BY <1>3, <1>4, <1>5 DEF TypeInv, TypeOK
<1> QED
  BY <1>2, <1>6 DEF TypeInv

\* Steps that write nothing but requests, names and fetches of the page.
LEMMA LocalType ==
    ASSUME TypeInv, NEW r \in Requests, OnlyChanges(r), Fits(r)', Kept(r)',
           req'[r].new \subseteq req[r].new, name' \in [Ids -> Names \union {Refused}],
           asks' \in Nat,
           UNCHANGED <<rows, given, attached, begun, viewVars, answers, listed, early, late,
                       was, renamed, clean>>
    PROVE  TypeInv'
<1>1. /\ attached \subseteq rows /\ rows \subseteq 1 .. given /\ was \subseteq 1 .. given
      /\ lastPut \in 0 .. MaxRequests /\ shown \in Seq(Written)
      /\ renamed \subseteq Ids /\ clean \in BOOLEAN /\ own \in BOOLEAN /\ gets \in Nat
      /\ given \in 0 .. MaxLabels /\ begun \in 0 .. MaxRequests
  BY DEF TypeInv, TypeOK
<1>2. given >= given /\ begun >= begun
  BY <1>1
<1>3. \A q \in Requests \ {r} : req'[r].new \intersect req[q].new = {}
  BY DEF TypeInv, TypeOK
<1>4. \A q \in Requests \ {r} : rows \intersect Inserted(q) \subseteq rows'
  OBVIOUS
<1> QED
  BY <1>1, <1>2, <1>3, <1>4, StepType

\* A refusal keeps the types.
LEMMA RefuseType ==
    ASSUME TypeInv, NEW r \in Requests, Refuse(r), req[r].step # "new"
    PROVE  TypeInv'
<1>1. OnlyChanges(r) /\ Fits(r)' /\ Kept(r)' /\ req'[r].new = {}
  BY OverFits DEF Refuse, Ended
<1>2. name' \in [Ids -> Names \union {Refused}] /\ asks' \in Nat
  BY DEF Refuse, TypeInv, TypeOK
<1> QED
  BY <1>1, <1>2, LocalType DEF Refuse

\* A request that is begun, with what the view does about it.
LEMMA BeginType ==
    ASSUME TypeInv, NEW op, NEW step, NEW names \in Seq(Written), NEW i \in 0 .. MaxLabels,
           Begin(op, step, names, i),
           \/ op = "post" /\ step = "insert" /\ names # <<>>
           \/ op = "submit" /\ step = "look" /\ names # <<>>
           \/ op = "put" /\ step = "look" /\ names # <<>>
           \/ op = "put" /\ step = "assign"
           \/ op = "rename" /\ step = "write" /\ names # <<>> /\ i \in Ids
           \/ op = "delete" /\ step = "write" /\ i \in Ids,
           shown' \in Seq(Written), lastPut' \in 0 .. MaxRequests, clean' \in BOOLEAN,
           own' \in BOOLEAN, UNCHANGED fetchVars
    PROVE  TypeInv' /\ Begins
<1> PICK r : r = begun + 1
  OBVIOUS
<1>1. /\ begun \in 0 .. MaxRequests /\ begun' = r /\ r \in Requests
      /\ begun' \in 0 .. MaxRequests /\ begun' >= begun /\ r > begun
  BY LabelsAssumption DEF TypeInv, TypeOK, Begin, Requests
<1>2. req[r] \in RequestRecord /\ req \in [Requests -> RequestRecord]
  BY <1>1 DEF TypeInv, TypeOK
<1>3. PICK p : p = [req[r] EXCEPT !.op = op, !.step = step, !.todo = names, !.target = i]
  OBVIOUS
<1>4. /\ p \in RequestRecord /\ p.op = op /\ p.step = step /\ p.todo = names
      /\ p.target = i /\ p.new = req[r].new /\ p.told = req[r].told /\ p.got = req[r].got
  <2>1. op \in {"post", "put", "submit", "rename", "delete"} /\ step \in Steps
    BY DEF Steps
  <2> QED
    BY <1>2, <1>3, <2>1 DEF RequestRecord
<1>5. req' = [req EXCEPT ![r] = p]
  <2>1. req' = [req EXCEPT ![r].op = op, ![r].step = step, ![r].todo = names, ![r].target = i]
    BY DEF Begin
  <2> QED
    BY <1>1, <1>2, <1>3, <2>1
<1>6. OnlyChanges(r) /\ req'[r] = p
  BY <1>1, <1>2, <1>4, <1>5, OneRequest
<1>7. req[r].step = "new" /\ req[r].new = {} /\ req[r].told = {} /\ req[r].got = {}
  BY <1>1 DEF TypeInv, Fits
<1>8. Fits(r)'
  BY <1>1, <1>4, <1>6, <1>7 DEF Fits
<1>9. Kept(r)'
  BY <1>4, <1>6, <1>7 DEF Kept, Inserted, In
<1>10. /\ rows' = rows /\ given' = given /\ attached' = attached /\ name' = name
       /\ asks' = asks /\ answers' = answers /\ listed' = listed /\ early' = early
       /\ late' = late /\ was' = was /\ renamed' = renamed
       /\ UNCHANGED <<profiles, heard, behind>> /\ gets' = gets
  BY DEF Begin
<1>11. \A q \in Requests \ {r} : req'[r].new \intersect req[q].new = {}
  BY <1>4, <1>6, <1>7
<1>12. /\ attached \subseteq rows /\ rows \subseteq 1 .. given /\ was \subseteq 1 .. given
       /\ asks \in Nat /\ gets \in Nat /\ renamed \subseteq Ids /\ given \in 0 .. MaxLabels
       /\ name \in [Ids -> Names \union {Refused}]
  BY DEF TypeInv, TypeOK
<1>13. given >= given
  BY <1>12
<1>14. TypeInv'
  BY <1>1, <1>6, <1>8, <1>9, <1>10, <1>11, <1>12, <1>13, StepType
<1> QED
  BY <1>1, <1>4, <1>6, <1>7, <1>10, <1>14 DEF Begins

\* Looking for a label.
LEMMA LookType ==
    ASSUME TypeInv, NEW r \in Requests, Look(r)
    PROVE  TypeInv' /\ Keeps(r)
<1>1. req[r] \in RequestRecord /\ req \in [Requests -> RequestRecord] /\ In(r, "look")
  BY DEF TypeInv, TypeOK, Look
<1>2. Fits(r) /\ req[r].op \in {"put", "submit"} /\ req[r].todo # <<>>
  BY <1>1 DEF TypeInv, Fits, In
<1>3. name' \in [Ids -> Names \union {Refused}] /\ asks' \in Nat
  BY DEF Look, TypeInv, TypeOK
<1>4. CASE Found(r) = {}
  <2>1. req' = [req EXCEPT ![r].step = "insert"]
    BY <1>4 DEF Look
  <2>2. PICK p : p = [req[r] EXCEPT !.step = "insert"]
    OBVIOUS
  <2>3. /\ p \in RequestRecord /\ p.op = req[r].op /\ p.step = "insert" /\ p.todo = req[r].todo
        /\ p.new = req[r].new /\ p.told = req[r].told /\ p.got = req[r].got
    BY <1>1, <2>2 DEF RequestRecord, Steps
  <2>4. OnlyChanges(r) /\ req'[r] = p
    BY <1>1, <2>1, <2>2, <2>3, OneRequest
  <2>5. Fits(r)'
    BY <1>1, <1>2, <2>3, <2>4 DEF Fits, In, Look
  <2>6. Kept(r)'
    BY <2>3, <2>4 DEF Kept, Inserted, In
  <2>7. TypeInv'
    BY <1>3, <2>3, <2>4, <2>5, <2>6, LocalType DEF Look
  <2>8. was' = was /\ given' = given
    BY DEF Look
  <2> QED
    BY <2>3, <2>4, <2>7, <2>8 DEF Keeps
<1>5. CASE Found(r) # {}
  <2>1. PICK t, g : /\ t = Tail(req[r].todo)
                    /\ g = IF req[r].op = "put" THEN req[r].got \union Found(r) ELSE req[r].got
    OBVIOUS
  <2>2. PICK p : p = [req[r] EXCEPT !.step = After(r), !.todo = t, !.got = g]
    OBVIOUS
  <2>3. req' = [req EXCEPT ![r] = p]
    <3>1. req' = [req EXCEPT ![r].step = After(r), ![r].todo = t, ![r].got = g]
      BY <1>1, <1>5, <2>1 DEF Look
    <3> QED
      BY <1>1, <2>2, <3>1
  <2>4. /\ t \in Seq(Written) /\ g \subseteq Ids
        /\ After(r) \in {"look", "assign", "done"} /\ After(r) \in Steps
        /\ req[r].op = "put" => After(r) \in {"look", "assign"}
        /\ req[r].op = "submit" => After(r) \in {"look", "done"}
        /\ After(r) = "look" => t # <<>>
        /\ req[r].op = "submit" => g = {}
    <3>1. Found(r) \subseteq Ids
      BY <1>1 DEF Found, Visible, TypeInv, TypeOK, RequestRecord
    <3>2. TypeOK
      BY DEF TypeInv
    <3>3. /\ t \in Seq(Written)
          /\ req[r].op = "put" => After(r) \in {"look", "assign"}
          /\ req[r].op = "submit" => After(r) \in {"look", "done"}
          /\ After(r) \in {"look", "insert"} => t # <<>>
      BY <1>2, <2>1, <3>2, AfterType
    <3>4. req[r].got \subseteq Ids
      BY <1>1 DEF RequestRecord
    <3>5. g \subseteq Ids /\ (req[r].op = "submit" => g = {})
      BY <1>2, <2>1, <3>1, <3>4 DEF Fits
    <3>6. After(r) \in {"look", "assign", "done"}
      BY <1>2, <3>3
    <3>7. After(r) \in Steps
      BY <3>6 DEF Steps
    <3>8. After(r) = "look" => t # <<>>
      BY <3>3, Zenon
    <3> QED
      BY <3>3, <3>5, <3>6, <3>7, <3>8
  <2>5. /\ p \in RequestRecord /\ p.op = req[r].op /\ p.step = After(r) /\ p.todo = t
        /\ p.new = req[r].new /\ p.told = req[r].told /\ p.got = g
    BY <1>1, <2>2, <2>4 DEF RequestRecord
  <2>6. OnlyChanges(r) /\ req'[r] = p
    BY <1>1, <2>3, <2>5, OneRequest
  <2>7. Fits(r)'
    BY <1>1, <1>2, <2>4, <2>5, <2>6 DEF Fits, In, Look
  <2>8. Kept(r)'
    BY <2>4, <2>5, <2>6 DEF Kept, Inserted, In
  <2>9. TypeInv'
    BY <1>3, <2>5, <2>6, <2>7, <2>8, LocalType DEF Look
  <2>10. was' = was /\ given' = given
    BY DEF Look
  <2> QED
    BY <1>2, <2>4, <2>5, <2>6, <2>9, <2>10 DEF Keeps
<1> QED
  BY <1>4, <1>5

\* The name that is inserted or written is a name, if it is not refused.
LEMMA NameIsName ==
    ASSUME TypeInv, NEW r \in Requests, req[r].todo # <<>>, Next1(r) # Refused
    PROVE  Next1(r) \in Names
<1>1. Head(req[r].todo) \in Written
  BY AfterType DEF TypeInv
<1> QED
  BY <1>1, LabelsAssumption DEF Next1

\* Inserting a label, within a transaction.
LEMMA InsertType ==
    ASSUME TypeInv, NEW r \in Requests, Insert(r)
    PROVE  /\ TypeInv' /\ OnlyChanges(r) /\ was' = was /\ given' = given + 1
           /\ req[r].op \in {"post", "put"} /\ req'[r].op = req[r].op
           /\ req'[r].new = req[r].new \union {given + 1}
           /\ req'[r].told = req[r].told \union {given + 1}
           /\ req[r].step = "insert" /\ req'[r].step \notin Ended
<1>1. req[r] \in RequestRecord /\ req \in [Requests -> RequestRecord] /\ In(r, "insert")
  BY DEF TypeInv, TypeOK, Insert
<1>2. Fits(r) /\ req[r].op \in {"post", "put"} /\ req[r].todo # <<>>
  BY <1>1 DEF TypeInv, Fits, In, Insert
<1>3. /\ given \in 0 .. MaxLabels /\ given' = given + 1 /\ given' \in 0 .. MaxLabels
      /\ given + 1 \in Ids /\ given' >= given /\ 1 .. given' = (1 .. given) \union {given + 1}
      /\ given + 1 \notin 1 .. given
  BY LabelsAssumption DEF TypeInv, TypeOK, Insert, Ids
<1>4. name' \in [Ids -> Names \union {Refused}]
  <2>1. Next1(r) \in Names
    BY <1>2, NameIsName DEF Insert
  <2> QED
    BY <1>3, <2>1 DEF Insert, TypeInv, TypeOK
<1>5. PICK t, n, o, g : /\ t = Tail(req[r].todo) /\ n = req[r].new \union {given + 1}
                        /\ o = req[r].told \union {given + 1}
                        /\ g = IF req[r].op = "put" THEN req[r].got \union {given + 1}
                               ELSE req[r].got
  OBVIOUS
<1>6. PICK p : p = [req[r] EXCEPT !.step = After(r), !.todo = t, !.new = n, !.told = o,
                                  !.got = g]
  OBVIOUS
<1>7. req' = [req EXCEPT ![r] = p]
  <2>1. req' = [req EXCEPT ![r].step = After(r), ![r].todo = t, ![r].new = n, ![r].told = o,
                           ![r].got = g]
    BY <1>1, <1>5 DEF Insert
  <2> QED
    BY <1>1, <1>6, <2>1
<1>8. /\ t \in Seq(Written) /\ n \subseteq Ids /\ o \subseteq Ids /\ g \subseteq Ids
      /\ After(r) \in {"look", "assign", "insert", "commit"} /\ After(r) \in Steps
      /\ req[r].op = "put" => After(r) \in {"look", "assign"}
      /\ req[r].op = "post" => After(r) \in {"insert", "commit"} /\ g = {}
      /\ After(r) \in {"look", "insert"} => t # <<>>
  <2>1. TypeOK
    BY DEF TypeInv
  <2>2. /\ t \in Seq(Written)
        /\ req[r].op = "put" => After(r) \in {"look", "assign"}
        /\ req[r].op = "post" => After(r) \in {"insert", "commit"}
        /\ After(r) \in {"look", "insert"} => t # <<>>
    BY <1>2, <1>5, <2>1, AfterType
  <2>3. req[r].got \subseteq Ids /\ req[r].new \subseteq Ids /\ req[r].told \subseteq Ids
    BY <1>1 DEF RequestRecord
  <2>4. n \subseteq Ids /\ o \subseteq Ids /\ g \subseteq Ids /\ (req[r].op = "post" => g = {})
    BY <1>2, <1>3, <1>5, <2>3 DEF Fits
  <2>5. After(r) \in {"look", "assign", "insert", "commit"}
    BY <1>2, <2>2
  <2>6. After(r) \in Steps
    BY <2>5 DEF Steps
  <2> QED
    BY <2>2, <2>4, <2>5, <2>6
<1>9. /\ p \in RequestRecord /\ p.op = req[r].op /\ p.step = After(r) /\ p.todo = t
      /\ p.new = n /\ p.told = o /\ p.got = g
  BY <1>1, <1>6, <1>8 DEF RequestRecord
<1>10. OnlyChanges(r) /\ req'[r] = p
  BY <1>1, <1>7, <1>9, OneRequest
<1>11. begun' = begun /\ begun \in 0 .. MaxRequests /\ begun >= begun
  BY DEF Insert, TypeInv, TypeOK
<1>12. Fits(r)'
  <2>1. n \subseteq 1 .. given' /\ o \subseteq 1 .. given'
    BY <1>2, <1>3, <1>5 DEF Fits
  <2> QED
    BY <1>1, <1>2, <1>8, <1>9, <1>10, <1>11, <2>1 DEF Fits, In
<1>13. Kept(r)'
  BY <1>2, <1>8, <1>9, <1>10 DEF Kept, Inserted, In
<1>14. ASSUME NEW q \in Requests \ {r} PROVE req'[r].new \intersect req[q].new = {}
  <2>1. req[r].new \intersect req[q].new = {}
    BY DEF TypeInv, TypeOK
  <2>2. given + 1 \notin req[q].new
    BY <1>3 DEF TypeInv, Fits
  <2> QED
    BY <1>5, <1>9, <1>10, <2>1, <2>2
<1>15. /\ rows' = rows /\ attached' = attached /\ asks' \in Nat
       /\ answers' = answers /\ listed' = listed /\ early' = early /\ late' = late
       /\ was' = was /\ renamed' = renamed /\ shown' = shown /\ lastPut' = lastPut
       /\ clean' = clean /\ UNCHANGED <<own, gets, profiles, heard, behind>>
  BY DEF Insert, TypeInv, TypeOK
<1>16. /\ attached \subseteq rows /\ rows \subseteq 1 .. given' /\ was \subseteq 1 .. given'
       /\ renamed \subseteq Ids /\ shown \in Seq(Written) /\ lastPut \in 0 .. MaxRequests
       /\ clean \in BOOLEAN /\ own \in BOOLEAN /\ gets \in Nat
  BY <1>3 DEF TypeInv, TypeOK
<1>17. TypeInv'
  BY <1>3, <1>4, <1>10, <1>11, <1>12, <1>13, <1>14, <1>15, <1>16, StepType
<1> QED
  BY <1>1, <1>2, <1>3, <1>5, <1>8, <1>9, <1>10, <1>15, <1>17 DEF Ended, In

\* Inserting a label, committed at once.
LEMMA InsertCommitType ==
    ASSUME TypeInv, NEW r \in Requests, InsertCommit(r)
    PROVE  /\ TypeInv' /\ OnlyChanges(r) /\ was' = was \union {given + 1}
           /\ given' = given + 1 /\ req[r].op = "submit" /\ req'[r].op = "submit"
           /\ req'[r].new = req[r].new /\ req'[r].told = req[r].told
           /\ req'[r].step = "announce" /\ req'[r].target = given + 1
<1>1. req[r] \in RequestRecord /\ req \in [Requests -> RequestRecord] /\ In(r, "insert")
  BY DEF TypeInv, TypeOK, InsertCommit
<1>2. Fits(r) /\ req[r].op = "submit" /\ req[r].todo # <<>>
  BY <1>1 DEF TypeInv, Fits, In, InsertCommit
<1>3. /\ given \in 0 .. MaxLabels /\ given' = given + 1 /\ given' \in 0 .. MaxLabels
      /\ given + 1 \in Ids /\ given' >= given /\ 1 .. given' = (1 .. given) \union {given + 1}
  BY LabelsAssumption DEF TypeInv, TypeOK, InsertCommit, Ids
<1>4. name' \in [Ids -> Names \union {Refused}]
  <2>1. Next1(r) \in Names
    BY <1>2, NameIsName DEF InsertCommit
  <2> QED
    BY <1>3, <2>1 DEF InsertCommit, TypeInv, TypeOK
<1>5. PICK p : p = [req[r] EXCEPT !.step = "announce", !.target = given + 1]
  OBVIOUS
<1>6. req' = [req EXCEPT ![r] = p]
  BY <1>1, <1>5 DEF InsertCommit
<1>7. given + 1 \in 0 .. MaxLabels
  BY <1>3
<1>8. /\ p \in RequestRecord /\ p.op = req[r].op /\ p.step = "announce" /\ p.target = given + 1
      /\ p.todo = req[r].todo /\ p.new = req[r].new /\ p.told = req[r].told /\ p.got = req[r].got
  BY <1>1, <1>5, <1>7 DEF RequestRecord, Steps
<1>9. OnlyChanges(r) /\ req'[r] = p
  BY <1>1, <1>6, <1>8, OneRequest
<1>10. begun' = begun /\ begun \in 0 .. MaxRequests /\ begun >= begun
  BY DEF InsertCommit, TypeInv, TypeOK
<1>11. Fits(r)'
  BY <1>1, <1>2, <1>3, <1>8, <1>9, <1>10 DEF Fits, In
<1>12. Kept(r)'
  BY <1>8, <1>9 DEF Kept, Inserted, In
<1>13. \A q \in Requests \ {r} : req'[r].new \intersect req[q].new = {}
  BY <1>8, <1>9 DEF TypeInv, TypeOK
<1>14. /\ rows' = rows \union {given + 1} /\ attached' = attached /\ asks' = asks
       /\ answers' = answers /\ listed' = listed /\ early' = early /\ late' = late
       /\ was' = was \union {given + 1} /\ renamed' = renamed /\ shown' = shown
       /\ lastPut' = lastPut /\ clean' = clean /\ UNCHANGED <<own, gets, profiles, heard, behind>>
  BY DEF InsertCommit
<1>15. /\ attached' \subseteq rows' /\ rows' \subseteq 1 .. given' /\ was' \subseteq 1 .. given'
       /\ renamed \subseteq Ids /\ shown \in Seq(Written) /\ lastPut \in 0 .. MaxRequests
       /\ clean \in BOOLEAN /\ asks \in Nat /\ own \in BOOLEAN /\ gets \in Nat
       /\ \A q \in Requests \ {r} : rows \intersect Inserted(q) \subseteq rows'
  BY <1>3, <1>14 DEF TypeInv, TypeOK
<1>16. TypeInv'
  BY <1>3, <1>4, <1>9, <1>10, <1>11, <1>12, <1>13, <1>14, <1>15, StepType
<1> QED
  BY <1>2, <1>3, <1>8, <1>9, <1>14, <1>16

\* Announcing a label that a submission has committed.
LEMMA AnnounceType ==
    ASSUME TypeInv, NEW r \in Requests, Announce(r)
    PROVE  /\ TypeInv' /\ OnlyChanges(r) /\ was' = was /\ given' = given
           /\ req[r].op = "submit" /\ req[r].step = "announce" /\ req'[r].op = "submit"
           /\ req'[r].new = req[r].new /\ req'[r].told = req[r].told \union {req[r].target}
           /\ req'[r].step \in {"look", "done"}
<1>1. req[r] \in RequestRecord /\ req \in [Requests -> RequestRecord] /\ In(r, "announce")
  BY DEF TypeInv, TypeOK, Announce
<1>2. Fits(r) /\ req[r].op = "submit" /\ req[r].todo # <<>> /\ req[r].target \in rows
  BY <1>1 DEF TypeInv, Fits, In, Announce
<1>3. PICK t, o : t = Tail(req[r].todo) /\ o = req[r].told \union {req[r].target}
  OBVIOUS
<1>4. PICK p : p = [req[r] EXCEPT !.step = After(r), !.todo = t, !.target = 0, !.told = o]
  OBVIOUS
<1>5. req' = [req EXCEPT ![r] = p]
  <2>1. req' = [req EXCEPT ![r].step = After(r), ![r].todo = t, ![r].target = 0, ![r].told = o]
    BY <1>1, <1>3 DEF Announce
  <2> QED
    BY <1>1, <1>4, <2>1
<1>6. /\ t \in Seq(Written) /\ o \subseteq Ids /\ o \subseteq 1 .. given
      /\ After(r) \in {"look", "done"} /\ After(r) \in Steps
      /\ After(r) = "look" => t # <<>>
  <2>1. TypeOK
    BY DEF TypeInv
  <2>2. t \in Seq(Written) /\ After(r) \in {"look", "done"} /\ (After(r) \in {"look", "insert"} => t # <<>>)
    BY <1>2, <1>3, <2>1, AfterType
  <2>3. o \subseteq Ids /\ o \subseteq 1 .. given
    BY <1>1, <1>2, <1>3 DEF RequestRecord, TypeInv, TypeOK, Fits
  <2>4. After(r) \in Steps
    BY <2>2 DEF Steps
  <2> QED
    BY <2>2, <2>3, <2>4
<1>7. 0 \in 0 .. MaxLabels
  BY LabelsAssumption
<1>8. /\ p \in RequestRecord /\ p.op = req[r].op /\ p.step = After(r) /\ p.todo = t
      /\ p.new = req[r].new /\ p.told = o /\ p.got = req[r].got
  BY <1>1, <1>4, <1>6, <1>7 DEF RequestRecord
<1>9. OnlyChanges(r) /\ req'[r] = p
  BY <1>1, <1>5, <1>8, OneRequest
<1>10. Fits(r)'
  BY <1>1, <1>2, <1>6, <1>8, <1>9 DEF Fits, In, Announce
<1>11. Kept(r)'
  BY <1>6, <1>8, <1>9 DEF Kept, Inserted, In
<1>12. name' \in [Ids -> Names \union {Refused}] /\ asks' \in Nat
  BY DEF Announce, TypeInv, TypeOK
<1>13. TypeInv'
  BY <1>8, <1>9, <1>10, <1>11, <1>12, LocalType DEF Announce
<1> QED
  BY <1>1, <1>2, <1>3, <1>6, <1>8, <1>9, <1>13 DEF Announce, In

\* Reading the labels of the profile, and comparing.
LEMMA AssignType ==
    ASSUME TypeInv, NEW r \in Requests, Assign(r)
    PROVE  TypeInv' /\ Keeps(r)
<1>1. req \in [Requests -> RequestRecord] /\ In(r, "assign")
  BY DEF TypeInv, TypeOK, Assign
<1>2. Fits(r) /\ req[r].op = "put" /\ attached \subseteq Ids
  BY <1>1 DEF TypeInv, TypeOK, Fits, In
<1>3. PICK others : /\ others = {q \in Requests \ {r} : In(q, "flush") \/ In(q, "commit")}
                    /\ req' = [q \in Requests |->
                         IF q = r THEN [req[r] EXCEPT !.step = "flush", !.old = attached,
                                                      !.alone = others = {}]
                         ELSE IF q \in others THEN [req[q] EXCEPT !.alone = FALSE] ELSE req[q]]
  BY DEF Assign
<1>4. PICK b \in BOOLEAN : b = (others = {})
  OBVIOUS
<1>5. req'[r] = [req[r] EXCEPT !.step = "flush", !.old = attached, !.alone = b]
  BY <1>3, <1>4
<1>6. /\ req'[r] \in RequestRecord /\ req'[r].op = req[r].op /\ req'[r].step = "flush"
      /\ req'[r].todo = req[r].todo /\ req'[r].new = req[r].new /\ req'[r].told = req[r].told
      /\ req'[r].got = req[r].got
  <2>1. req[r] \in RequestRecord
    BY <1>1
  <2> QED
    BY <1>2, <1>5, <2>1 DEF RequestRecord, Steps
<1>7. ASSUME NEW q \in Requests \ {r}
      PROVE  /\ req'[q] \in RequestRecord /\ req'[q].op = req[q].op
             /\ req'[q].step = req[q].step /\ req'[q].todo = req[q].todo
             /\ req'[q].target = req[q].target /\ req'[q].got = req[q].got
             /\ req'[q].new = req[q].new /\ req'[q].old = req[q].old
             /\ req'[q].told = req[q].told
  <2>1. req[q] \in RequestRecord
    BY <1>1
  <2>2. req'[q] = [req[q] EXCEPT !.alone = FALSE] \/ req'[q] = req[q]
    BY <1>3
  <2> QED
    BY <2>1, <2>2 DEF RequestRecord
<1>8. OnlyChanges(r)
  <2>1. req' = [q \in Requests |-> req'[q]]
    BY <1>3
  <2>2. \A q \in Requests : req'[q] \in RequestRecord
    BY <1>6, <1>7
  <2>3. req' \in [Requests -> RequestRecord]
    BY <2>1, <2>2
  <2> QED
    BY <1>7, <2>3 DEF OnlyChanges
<1>9. Fits(r)'
  BY <1>1, <1>2, <1>6 DEF Fits, In, Assign
<1>10. Kept(r)'
  BY <1>6 DEF Kept, Inserted, In
<1>11. name' \in [Ids -> Names \union {Refused}] /\ asks' \in Nat
  BY DEF Assign, TypeInv, TypeOK
<1>12. TypeInv'
  BY <1>6, <1>8, <1>9, <1>10, <1>11, LocalType DEF Assign
<1>13. was' = was /\ given' = given
  BY DEF Assign
<1> QED
  BY <1>6, <1>8, <1>12, <1>13 DEF Keeps

\* Writing the joins.
LEMMA FlushType ==
    ASSUME TypeInv, NEW r \in Requests, Flush(r)
    PROVE  TypeInv' /\ (Refuse(r) \/ Keeps(r))
<1>1. req[r] \in RequestRecord /\ req \in [Requests -> RequestRecord] /\ In(r, "flush")
  BY DEF TypeInv, TypeOK, Flush
<1>2. CASE Refuse(r)
  BY <1>1, <1>2, RefuseType DEF In
<1>3. CASE ~Refuse(r)
  <2>1. /\ ~Stale(r) /\ req' = [req EXCEPT ![r].step = "commit"]
        /\ UNCHANGED <<name, rows, given, attached, begun, viewVars, pageVars, was, renamed, clean>>
    BY <1>3 DEF Flush
  <2>2. Fits(r) /\ req[r].op = "put"
    BY <1>1 DEF TypeInv, Fits, In
  <2>3. PICK p : p = [req[r] EXCEPT !.step = "commit"]
    OBVIOUS
  <2>4. /\ p \in RequestRecord /\ p.op = req[r].op /\ p.step = "commit" /\ p.todo = req[r].todo
        /\ p.new = req[r].new /\ p.told = req[r].told /\ p.got = req[r].got
        /\ p.old = req[r].old
    BY <1>1, <2>3 DEF RequestRecord, Steps
  <2>5. OnlyChanges(r) /\ req'[r] = p
    BY <1>1, <2>1, <2>3, <2>4, OneRequest
  <2>6. Fits(r)'
    BY <1>1, <2>1, <2>2, <2>4, <2>5 DEF Fits, In
  <2>7. Kept(r)'
    <3>1. req[r].got \ req[r].old \subseteq Visible(r)
      BY <2>1 DEF Stale
    <3> QED
      BY <2>1, <2>4, <2>5, <3>1 DEF Kept, Inserted, In, Visible
  <2>8. name' \in [Ids -> Names \union {Refused}] /\ asks' \in Nat
    BY <2>1 DEF TypeInv, TypeOK
  <2>9. TypeInv'
    BY <2>1, <2>4, <2>5, <2>6, <2>7, <2>8, LocalType
  <2>10. was' = was /\ given' = given
    BY <2>1
  <2> QED
    BY <2>4, <2>5, <2>9, <2>10 DEF Keeps
<1> QED
  BY <1>2, <1>3

\* What of the state has the same types after a step that ends a request.
LEMMA TypeFacts ==
    ASSUME TypeInv
    PROVE  /\ attached \subseteq rows /\ rows \subseteq 1 .. given /\ was \subseteq 1 .. given
           /\ renamed \subseteq Ids /\ shown \in Seq(Written) /\ lastPut \in 0 .. MaxRequests
           /\ clean \in BOOLEAN /\ asks \in Nat /\ given \in 0 .. MaxLabels /\ given >= given
           /\ own \in BOOLEAN /\ gets \in Nat /\ gets + 1 \in Nat
           /\ begun \in 0 .. MaxRequests /\ begun >= begun
           /\ name \in [Ids -> Names \union {Refused}]
BY DEF TypeInv, TypeOK

\* The commit of a POST or a PUT.
LEMMA CommitType ==
    ASSUME TypeInv, NEW r \in Requests, Commit(r)
    PROVE  TypeInv'
<1>1. In(r, "commit") /\ Fits(r) /\ Kept(r)
  BY DEF TypeInv, Commit, Stores
<1>2. Over(r, "done") /\ req[r].step # "new" /\ "done" \in Ended
  BY <1>1 DEF Commit, Stores, In, Ended
<1>3. /\ rows' = rows \union req[r].new /\ was' = was \union req[r].new
      /\ attached' = (attached \ Deleted(r)) \union Inserted(r)
      /\ clean' = (IF req[r].op = "put" THEN r = lastPut /\ req[r].alone ELSE clean)
      /\ UNCHANGED <<name, given, begun, shown, lastPut, own, profiles, heard, behind,
                     pageVars, renamed>>
      /\ gets' = gets \/ gets' = gets + 1
  BY DEF Commit, Stores
<1>4. OnlyChanges(r) /\ Fits(r)' /\ Kept(r)' /\ req'[r].new = {}
  BY <1>2, <1>3, OverFits
<1>5. attached' \subseteq rows' /\ rows' \subseteq 1 .. given' /\ was' \subseteq 1 .. given'
  BY <1>1, <1>3, TypeFacts DEF Fits, Kept, Visible
<1>6. clean' \in BOOLEAN
  <2>1. req[r].alone \in BOOLEAN
    BY DEF TypeInv, TypeOK, RequestRecord
  <2> QED
    BY <1>3, <2>1, TypeFacts
<1>7. /\ \A q \in Requests \ {r} : req'[r].new \intersect req[q].new = {}
      /\ \A q \in Requests \ {r} : rows \intersect Inserted(q) \subseteq rows'
  BY <1>3, <1>4
<1> QED
  BY <1>3, <1>4, <1>5, <1>6, <1>7, TypeFacts, StepType

\* Renaming and deleting a label.
LEMMA RenameType ==
    ASSUME TypeInv, NEW r \in Requests, Rename(r)
    PROVE  TypeInv'
<1>1. In(r, "write") /\ req[r].op = "rename" /\ req[r].step # "new" /\ Fits(r)
  BY DEF TypeInv, Rename, In
<1>2. CASE Refuse(r)
  BY <1>1, <1>2, RefuseType
<1>3. CASE ~Refuse(r)
  <2>1. /\ CanRename(r) /\ name' = [name EXCEPT ![req[r].target] = Next1(r)]
        /\ renamed' = renamed \union {req[r].target} /\ Over(r, "done")
        /\ UNCHANGED <<rows, given, attached, begun, viewVars, pageVars, was, clean>>
    BY <1>3 DEF Rename
  <2>2. OnlyChanges(r) /\ Fits(r)' /\ Kept(r)' /\ req'[r].new = {}
    BY <1>1, <2>1, OverFits DEF Ended
  <2>3. Next1(r) \in Names
    BY <1>1, <2>1, NameIsName DEF Fits, In, CanRename
  <2>4. req[r].target \in Ids
    BY <1>1 DEF Fits, In
  <2>5. name' \in [Ids -> Names \union {Refused}] /\ renamed' \subseteq Ids
    BY <2>1, <2>3, <2>4, TypeFacts
  <2>6. /\ \A q \in Requests \ {r} : req'[r].new \intersect req[q].new = {}
        /\ \A q \in Requests \ {r} : rows \intersect Inserted(q) \subseteq rows'
    BY <2>1, <2>2
  <2> QED
    BY <2>1, <2>2, <2>5, <2>6, TypeFacts, StepType
<1> QED
  BY <1>2, <1>3

LEMMA DeleteType ==
    ASSUME TypeInv, NEW r \in Requests, Delete(r)
    PROVE  TypeInv'
<1>1. In(r, "write") /\ req[r].step # "new" /\ req[r].target \notin Flushed(r)
  BY DEF Delete, In
<1>2. CASE Refuse(r)
  BY <1>1, <1>2, RefuseType
<1>3. CASE ~Refuse(r)
  <2>1. /\ req[r].target \notin attached /\ rows' = rows \ {req[r].target} /\ Over(r, "done")
        /\ UNCHANGED <<name, given, attached, begun, viewVars, pageVars, was, renamed, clean>>
    BY <1>3 DEF Delete
  <2>2. OnlyChanges(r) /\ Fits(r)' /\ Kept(r)' /\ req'[r].new = {}
    BY <1>1, <2>1, OverFits DEF Ended
  <2>3. /\ \A q \in Requests \ {r} : req'[r].new \intersect req[q].new = {}
        /\ \A q \in Requests \ {r} : rows \intersect Inserted(q) \subseteq rows'
    BY <1>1, <2>1, <2>2 DEF Flushed
  <2>4. attached' \subseteq rows' /\ rows' \subseteq 1 .. given' /\ was' \subseteq 1 .. given'
    BY <2>1, TypeFacts
  <2> QED
    BY <2>1, <2>2, <2>3, <2>4, TypeFacts, StepType
<1> QED
  BY <1>2, <1>3

\* The database ends a request that waits.
LEMMA AbortType ==
    ASSUME TypeInv, NEW r \in Requests, Abort(r)
    PROVE  TypeInv'
<1>1. PICK q \in Requests : Waits(r, q)
  BY DEF Abort, Deadlocked
<1>2. In(r, "insert") \/ In(r, "write")
  BY <1>1 DEF Waits, Wanted
<1> QED
  BY <1>2, RefuseType DEF Abort, In

LEMMA RequestStepType ==
    ASSUME TypeInv, NEW r \in Requests, RequestStep(r)
    PROVE  TypeInv'
<1>1. CASE Look(r)
  BY <1>1, LookType
<1>2. CASE Clash(r)
  BY <1>2, RefuseType DEF Clash, In
<1>3. CASE Insert(r)
  BY <1>3, InsertType
<1>4. CASE InsertCommit(r)
  BY <1>4, InsertCommitType
<1>5. CASE Announce(r)
  BY <1>5, AnnounceType
<1>6. CASE AnnounceGone(r)
  BY <1>6, RefuseType DEF AnnounceGone, In
<1>7. CASE Assign(r)
  BY <1>7, AssignType
<1>8. CASE Flush(r)
  BY <1>8, FlushType
<1>9. CASE Commit(r)
  BY <1>9, CommitType
<1>10. CASE Rename(r)
  BY <1>10, RenameType
<1>11. CASE Delete(r)
  BY <1>11, DeleteType
<1>12. CASE Abort(r)
  BY <1>12, AbortType
<1> QED
  BY <1>1, <1>2, <1>3, <1>4, <1>5, <1>6, <1>7, <1>8, <1>9, <1>10, <1>11, <1>12
  DEF RequestStep

\* The requests of users.
LEMMA AskType ==
    ASSUME TypeInv,
           \/ \E names \in Lists : Post(names) \/ Submit(names) \/ PutElsewhere(names)
           \/ \E s \in Written : AddLabel(s)
           \/ \E k \in 1 .. MaxRequests : RemoveLabel(k)
           \/ \E i \in rows : AskDelete(i) \/ \E s \in Written : AskRename(i, s)
    PROVE  TypeInv' /\ Begins
<1>1. 0 \in 0 .. MaxLabels /\ rows \subseteq Ids /\ Ids \subseteq 0 .. MaxLabels
  BY LabelsAssumption DEF TypeInv, TypeOK, Ids
<1>2. CASE \E names \in Lists : Post(names) \/ Submit(names) \/ PutElsewhere(names)
  <2>1. PICK names \in Lists : Post(names) \/ Submit(names) \/ PutElsewhere(names)
    BY <1>2
  <2>2. names \in Seq(Written) /\ names # <<>>
    BY LabelsAssumption
  <2>3. /\ shown' \in Seq(Written) /\ lastPut' \in 0 .. MaxRequests /\ clean' \in BOOLEAN
        /\ own' \in BOOLEAN /\ UNCHANGED fetchVars
    BY <2>1, TypeFacts DEF Post, Submit, PutElsewhere
  <2>4. CASE Post(names)
    BY <1>1, <2>2, <2>3, <2>4, BeginType DEF Post
  <2>5. CASE Submit(names)
    BY <1>1, <2>2, <2>3, <2>5, BeginType DEF Submit
  <2>6. CASE PutElsewhere(names)
    BY <1>1, <2>2, <2>3, <2>6, BeginType DEF PutElsewhere
  <2> QED
    BY <2>1, <2>4, <2>5, <2>6
<1>3. ASSUME NEW labels \in Seq(Written), Put(labels)
      PROVE  TypeInv' /\ Begins
  <2>1. /\ Begin("put", IF labels = <<>> THEN "assign" ELSE "look", labels, 0)
        /\ shown' \in Seq(Written) /\ clean' \in BOOLEAN /\ own' \in BOOLEAN
        /\ UNCHANGED fetchVars
    BY <1>3 DEF Put
  <2>2. lastPut' \in 0 .. MaxRequests
    <3>1. lastPut' = begun + 1 /\ begun < MaxRequests /\ begun \in 0 .. MaxRequests
      BY <1>3, TypeFacts DEF Put, Begin
    <3> QED
      BY <3>1, LabelsAssumption
  <2>3. CASE labels = <<>>
    BY <1>1, <2>1, <2>2, <2>3, BeginType
  <2>4. CASE labels # <<>>
    BY <1>1, <2>1, <2>2, <2>4, BeginType
  <2> QED
    BY <2>3, <2>4
<1>4. CASE \E s \in Written : AddLabel(s)
  <2>1. PICK s \in Written : Put(Append(shown, s))
    BY <1>4 DEF AddLabel
  <2>2. Append(shown, s) \in Seq(Written)
    BY TypeFacts
  <2> QED
    BY <1>3, <2>1, <2>2
<1>5. CASE \E k \in 1 .. MaxRequests : RemoveLabel(k)
  <2>1. PICK k \in DOMAIN shown : Put(RemoveAt(shown, k))
    BY <1>5 DEF RemoveLabel
  <2>2. RemoveAt(shown, k) \in Seq(Written)
    BY TypeFacts, RemoveAtType
  <2> QED
    BY <1>3, <2>1, <2>2
<1>6. CASE \E i \in rows : AskDelete(i) \/ \E s \in Written : AskRename(i, s)
  <2>1. PICK i \in rows : AskDelete(i) \/ \E s \in Written : AskRename(i, s)
    BY <1>6
  <2>2. i \in Ids /\ i \in 0 .. MaxLabels
    BY <1>1
  <2>3. /\ shown' \in Seq(Written) /\ lastPut' \in 0 .. MaxRequests /\ clean' \in BOOLEAN
        /\ own' \in BOOLEAN /\ UNCHANGED fetchVars
    BY <2>1, TypeFacts DEF AskDelete, AskRename
  <2>4. CASE AskDelete(i)
    <3>1. <<>> \in Seq(Written)
      OBVIOUS
    <3>2. Begin("delete", "write", <<>>, i)
      BY <2>4 DEF AskDelete
    <3> QED
      BY <2>2, <2>3, <3>1, <3>2, BeginType
  <2>5. CASE \E s \in Written : AskRename(i, s)
    <3>1. PICK s \in Written : AskRename(i, s)
      BY <2>5
    <3>2. <<s>> \in Seq(Written) /\ <<s>> # <<>>
      OBVIOUS
    <3>3. Begin("rename", "write", <<s>>, i)
      BY <3>1 DEF AskRename
    <3> QED
      BY <2>2, <2>3, <3>2, <3>3, BeginType
  <2> QED
    BY <2>1, <2>4, <2>5
<1> QED
  BY <1>2, <1>4, <1>5, <1>6

\* What is left of the answers.
LEMMA WithoutType ==
    ASSUME NEW S, NEW list \in Seq([labels : S, overtaken : BOOLEAN]), NEW k \in DOMAIN list
    PROVE  /\ Without(list, k) \in Seq([labels : S, overtaken : BOOLEAN])
           /\ list[k].labels \in S /\ list[k].overtaken \in BOOLEAN
<1> DEFINE Answers == [labels : S, overtaken : BOOLEAN]
<1> HIDE DEF Answers
<1>1. list \in Seq(Answers)
  BY DEF Answers
<1>2. Len(list) \in Nat /\ k \in 1 .. Len(list) /\ \A j \in 1 .. Len(list) : list[j] \in Answers
  BY <1>1
<1>3. Len(list) - 1 \in Nat
  BY <1>2
<1>4. ASSUME NEW j \in 1 .. Len(list) - 1
      PROVE  (IF j < k THEN [list[j] EXCEPT !.overtaken = TRUE] ELSE list[j + 1]) \in Answers
  <2>1. list[j] \in Answers /\ list[j + 1] \in Answers
    BY <1>2
  <2> QED
    BY <2>1 DEF Answers
<1>5. Without(list, k) \in Seq(Answers)
  BY <1>3, <1>4 DEF Without
<1>6. list[k] \in Answers
  BY <1>2
<1> QED
  BY <1>5, <1>6 DEF Answers

\* The names of labels that are stored are names.
NamedRows == \A i \in rows : name[i] \in Names

\* A client that fetches, or is told to.
FetchStep ==
    \/ PageRead \/ \E k \in DOMAIN answers : PageAnswer(k) \/ PageFail(k)
    \/ ProfileEvent \/ ProfileRead
    \/ \E k \in DOMAIN profiles : ProfileAnswer(k) \/ ProfileFail(k)

\* Clients that fetch leave all else as it is.
LEMMA FetchFrame ==
    ASSUME FetchStep
    PROVE  /\ UNCHANGED <<name, rows, given, attached, req, begun, lastPut, was, renamed, clean>>
           /\ UNCHANGED pageVars \/ UNCHANGED viewVars
BY DEF FetchStep, PageRead, PageAnswer, PageFail, ProfileEvent, ProfileRead, ProfileAnswer, ProfileFail

\* The page and the view keep their types.
LEMMA PageType ==
    ASSUME TypeInv, PageRead \/ \E k \in DOMAIN answers : PageAnswer(k) \/ PageFail(k)
    PROVE  /\ asks' \in Nat /\ listed' \subseteq Ids /\ early' \subseteq Ids /\ late' \in BOOLEAN
           /\ answers' \in Seq([labels : SUBSET Ids, overtaken : BOOLEAN])
<1>1. /\ answers \in Seq([labels : SUBSET Ids, overtaken : BOOLEAN]) /\ asks \in Nat
      /\ late \in BOOLEAN /\ listed \subseteq Ids /\ early \subseteq Ids /\ rows \subseteq Ids
  BY DEF TypeInv, TypeOK
<1>2. CASE PageRead
  <2>1. UNION {req[q].new : q \in Requests} \subseteq Ids
    BY DEF TypeInv, TypeOK, RequestRecord
  <2>2. [labels |-> rows, overtaken |-> FALSE] \in [labels : SUBSET Ids, overtaken : BOOLEAN]
    BY <1>1
  <2>3. answers' \in Seq([labels : SUBSET Ids, overtaken : BOOLEAN])
    BY <1>1, <1>2, <2>2 DEF PageRead
  <2> QED
    BY <1>1, <1>2, <2>1, <2>3 DEF PageRead
<1>3. ASSUME NEW k \in DOMAIN answers, PageAnswer(k) \/ PageFail(k)
      PROVE  /\ listed' \subseteq Ids /\ late' \in BOOLEAN /\ asks' = asks /\ early' = early
             /\ answers' \in Seq([labels : SUBSET Ids, overtaken : BOOLEAN])
  <2>1. answers' = Without(answers, k) /\ asks' = asks /\ early' = early
    BY <1>3 DEF PageAnswer, PageFail
  <2>2. /\ answers' \in Seq([labels : SUBSET Ids, overtaken : BOOLEAN])
        /\ answers[k].labels \in SUBSET Ids /\ answers[k].overtaken \in BOOLEAN
    BY <1>1, <2>1, WithoutType
  <2>3. listed' \subseteq Ids /\ late' \in BOOLEAN
    BY <1>1, <1>3, <2>2 DEF PageAnswer, PageFail
  <2> QED
    BY <2>1, <2>2, <2>3
<1> QED
  BY <1>1, <1>2, <1>3

LEMMA ProfileType ==
    ASSUME TypeInv, NamedRows,
           \/ ProfileEvent \/ ProfileRead
           \/ \E k \in DOMAIN profiles : ProfileAnswer(k) \/ ProfileFail(k)
    PROVE  /\ shown' \in Seq(Written) /\ own' \in BOOLEAN /\ gets' \in Nat
           /\ profiles' \in Seq([labels : Seq(Names), overtaken : BOOLEAN])
           /\ heard' \in 0 .. MaxHeard /\ behind' \in BOOLEAN
<1>1. /\ profiles \in Seq([labels : Seq(Names), overtaken : BOOLEAN]) /\ gets \in Nat
      /\ shown \in Seq(Written) /\ own \in BOOLEAN /\ heard \in 0 .. MaxHeard
      /\ behind \in BOOLEAN /\ attached \subseteq rows
  BY DEF TypeInv, TypeOK
<1>2. CASE ProfileEvent
  <2>1. heard + 1 \in 0 .. MaxHeard
    BY <1>1, <1>2, LabelsAssumption DEF ProfileEvent
  <2> QED
    BY <1>1, <1>2, <2>1 DEF ProfileEvent
<1>3. CASE ProfileRead
  <2>1. {name[i] : i \in attached} \in SUBSET Names
    BY <1>1 DEF NamedRows
  <2>2. Sorted({name[i] : i \in attached}) \in Seq(Names)
    BY <2>1, SortedAssumption
  <2>3. PICK a : a = [labels |-> Sorted({name[i] : i \in attached}), overtaken |-> FALSE]
    OBVIOUS
  <2>4. a \in [labels : Seq(Names), overtaken : BOOLEAN]
    BY <2>2, <2>3
  <2>5. profiles' = Append(profiles, a)
    BY <1>3, <2>3 DEF ProfileRead
  <2>6. profiles' \in Seq([labels : Seq(Names), overtaken : BOOLEAN])
    BY <1>1, <2>4, <2>5
  <2> QED
    BY <1>1, <1>3, <2>6 DEF ProfileRead
<1>4. ASSUME NEW k \in DOMAIN profiles, ProfileAnswer(k) \/ ProfileFail(k)
      PROVE  /\ shown' \in Seq(Written) /\ own' \in BOOLEAN /\ gets' = gets /\ heard' = heard
             /\ profiles' \in Seq([labels : Seq(Names), overtaken : BOOLEAN])
             /\ behind' \in BOOLEAN
  <2>1. profiles' = Without(profiles, k)
    BY <1>4 DEF ProfileAnswer, ProfileFail
  <2>2. /\ profiles' \in Seq([labels : Seq(Names), overtaken : BOOLEAN])
        /\ profiles[k].labels \in Seq(Names) /\ profiles[k].overtaken \in BOOLEAN
    BY <1>1, <2>1, WithoutType
  <2>3. \A s \in Seq(Names) : s \in Seq(Written)
    BY LabelsAssumption
  <2> QED
    BY <1>1, <1>4, <2>2, <2>3 DEF ProfileAnswer, ProfileFail
<1> QED
  BY <1>1, <1>2, <1>3, <1>4

\* Requests that do not change keep what they are.
LEMMA FetchType ==
    ASSUME TypeInv, NamedRows, FetchStep
    PROVE  TypeInv'
<1>1. UNCHANGED <<name, rows, given, attached, req, begun, lastPut, was, renamed, clean>>
  BY FetchFrame
<1>2. /\ asks' \in Nat /\ listed' \subseteq Ids /\ early' \subseteq Ids /\ late' \in BOOLEAN
      /\ answers' \in Seq([labels : SUBSET Ids, overtaken : BOOLEAN])
  <2>1. CASE PageRead \/ \E k \in DOMAIN answers : PageAnswer(k) \/ PageFail(k)
    BY <2>1, PageType
  <2>2. CASE UNCHANGED pageVars
    BY <2>2 DEF TypeInv, TypeOK
  <2> QED
    BY <2>1, <2>2 DEF FetchStep, ProfileEvent, ProfileRead, ProfileAnswer, ProfileFail
<1>3. /\ shown' \in Seq(Written) /\ own' \in BOOLEAN /\ gets' \in Nat
      /\ profiles' \in Seq([labels : Seq(Names), overtaken : BOOLEAN])
      /\ heard' \in 0 .. MaxHeard /\ behind' \in BOOLEAN
  <2>1. CASE \/ ProfileEvent \/ ProfileRead
             \/ \E k \in DOMAIN profiles : ProfileAnswer(k) \/ ProfileFail(k)
    BY <2>1, ProfileType
  <2>2. CASE UNCHANGED viewVars
    BY <2>2 DEF TypeInv, TypeOK
  <2> QED
    BY <2>1, <2>2 DEF FetchStep, PageRead, PageAnswer, PageFail
<1>4. TypeOK'
  BY <1>1, <1>2, <1>3 DEF TypeInv, TypeOK
<1>5. \A r \in Requests : Fits(r)' /\ Kept(r)'
  BY <1>1 DEF TypeInv, Fits, Kept, Inserted, In, Visible
<1> QED
  BY <1>1, <1>4, <1>5 DEF TypeInv

\* The steps of clients that ask for nothing to be changed are those that fetch.
LEMMA NextSteps ==
    ASSUME Next
    PROVE  \/ \E r \in Requests : RequestStep(r)
           \/ FetchStep
           \/ \E names \in Lists : Post(names) \/ Submit(names) \/ PutElsewhere(names)
           \/ \E s \in Written : AddLabel(s)
           \/ \E k \in 1 .. MaxRequests : RemoveLabel(k)
           \/ \E i \in rows : AskDelete(i) \/ \E s \in Written : AskRename(i, s)
BY DEF Next, FetchStep

LEMMA TypeStep == TypeInv /\ NamedRows /\ [Next]_vars => TypeInv'
<1> SUFFICES ASSUME TypeInv, NamedRows, [Next]_vars PROVE TypeInv'
  OBVIOUS
<1>1. CASE \E r \in Requests : RequestStep(r)
  BY <1>1, RequestStepType
<1>2. CASE FetchStep
  BY <1>2, FetchType
<1>3. CASE UNCHANGED vars
  BY <1>3 DEF TypeInv, TypeOK, Fits, Kept, Inserted, In, Visible
<1> QED
  BY <1>1, <1>2, <1>3, AskType, NextSteps

-----------------------------------------------------------------------------
(* What is announced is stored *)

\* What a request has announced, against what it has inserted and what is stored.
Honest(r) ==
    /\ req[r].op = "submit" => /\ req[r].new = {} /\ req[r].told \subseteq was
                               /\ req[r].step = "announce" => req[r].target \in was
    /\ req[r].op # "submit" /\ req[r].step \notin Ended => req[r].told = req[r].new
    /\ req[r].op \in {"rename", "delete"} => req[r].told = {}
    /\ req[r].step \in Ended => req[r].new = {}
    /\ req[r].step = "done" => req[r].told \subseteq was
    /\ req[r].step = "refused" /\ req[r].op # "submit" => req[r].told \intersect was = {}
    /\ req[r].new \intersect was = {}

\* What one request announces within its transaction no other inserts.
Apart(r, q) == req[r].op # "submit" => req[r].told \intersect req[q].new = {}

HonestInv ==
    /\ \A r \in Requests : Honest(r)
    /\ \A r, q \in Requests : r # q => Apart(r, q)

LEMMA HonestInit == Init => HonestInv
<1> SUFFICES ASSUME Init PROVE HonestInv
  OBVIOUS
<1>1. \A r \in Requests : /\ req[r].op = "none" /\ req[r].step = "new"
                          /\ req[r].new = {} /\ req[r].told = {}
  BY DEF Init, Cleared
<1> QED
  BY <1>1 DEF HonestInv, Honest, Apart, Ended

\* The others stay honest when one request moves.
LEMMA OthersHonest ==
    ASSUME TypeInv, HonestInv, NEW r \in Requests, OnlyChanges(r), Honest(r)',
           given' \in Nat,
           was \subseteq was', was' \subseteq was \union req[r].new \union ((1 .. given') \ (1 .. given)),
           req'[r].new \subseteq req[r].new \union ((1 .. given') \ (1 .. given)),
           req'[r].op # "submit" =>
              /\ req'[r].told \subseteq req[r].told \union ((1 .. given') \ (1 .. given))
              /\ req[r].op # "submit" \/ req[r].told = {}
    PROVE  HonestInv'
<1> DEFINE Fresh == (1 .. given') \ (1 .. given)
<1> HIDE DEF Fresh
<1>1. \A q \in Requests : req[q].told \intersect Fresh = {} /\ req[q].new \intersect Fresh = {}
  BY DEF TypeInv, Fits, Fresh
<1>2. \A q \in Requests \ {r} :
         /\ req'[q].op = req[q].op /\ req'[q].step = req[q].step /\ req'[q].target = req[q].target
         /\ req'[q].new = req[q].new /\ req'[q].told = req[q].told
  BY DEF OnlyChanges
<1>3. was \subseteq was' /\ was' \subseteq was \union req[r].new \union Fresh
  BY DEF Fresh
<1>4. ASSUME NEW q \in Requests \ {r} PROVE Honest(q)'
  <2>1. Honest(q) /\ Apart(q, r)
    BY DEF HonestInv
  <2>2. req[q].new \intersect req[r].new = {}
    BY DEF TypeInv, TypeOK
  <2>3. req[q].op # "submit" => req[q].told \intersect req[r].new = {}
    BY <2>1 DEF Apart
  <2> QED
    BY <1>1, <1>2, <1>3, <2>1, <2>2, <2>3 DEF Honest
<1>5. ASSUME NEW p \in Requests, NEW q \in Requests, p # q PROVE Apart(p, q)'
  <2>1. Apart(p, q)
    BY <1>5 DEF HonestInv
  <2>2. CASE p # r /\ q # r
    BY <1>2, <2>1, <2>2 DEF Apart
  <2>3. CASE p # r /\ q = r
    <3>1. req'[r].new \subseteq req[r].new \union Fresh
      BY DEF Fresh
    <3> QED
      BY <1>1, <1>2, <2>1, <2>3, <3>1 DEF Apart
  <2>4. CASE p = r
    <3>1. req'[r].op # "submit" => /\ req'[r].told \subseteq req[r].told \union Fresh
                                   /\ req[r].op # "submit" \/ req[r].told = {}
      BY DEF Fresh
    <3> QED
      BY <1>1, <1>2, <1>5, <2>1, <2>4, <3>1 DEF Apart
  <2> QED
    BY <2>2, <2>3, <2>4
<1> QED
  BY <1>4, <1>5 DEF HonestInv

\* Steps that announce nothing and store nothing.
LEMMA KeepsHonest ==
    ASSUME TypeInv, HonestInv, NEW r \in Requests, Keeps(r), req[r].step \notin Ended
    PROVE  HonestInv'
<1>1. given' \in Nat
  BY LabelsAssumption DEF Keeps, TypeInv, TypeOK
<1>2. Honest(r)'
  BY DEF Keeps, Honest, HonestInv, Ended
<1> QED
  BY <1>1, <1>2, OthersHonest DEF Keeps

LEMMA BeginsHonest ==
    ASSUME TypeInv, HonestInv, Begins
    PROVE  HonestInv'
<1>1. PICK r \in Requests :
         /\ OnlyChanges(r)
         /\ req[r].new = {} /\ req[r].told = {} /\ req'[r].new = {} /\ req'[r].told = {}
         /\ req'[r].step \in {"insert", "look", "assign", "write"}
  BY DEF Begins
<1>2. given' \in Nat /\ was' = was
  BY LabelsAssumption DEF Begins, TypeInv, TypeOK
<1>3. Honest(r)'
  BY <1>1, <1>2 DEF Honest, Ended
<1> QED
  BY <1>1, <1>2, <1>3, OthersHonest

\* A request that ends: with an error, or with what it has stored.
LEMMA EndsHonest ==
    ASSUME TypeInv, HonestInv, NEW r \in Requests, NEW step \in Ended, Over(r, step),
           req[r].step # "new", req[r].step \notin Ended, begun' = begun, given' = given,
           \/ step = "refused" /\ was' = was
           \/ step = "done" /\ was' = was \union req[r].new
    PROVE  HonestInv'
<1>1. /\ OnlyChanges(r) /\ req'[r].new = {} /\ req'[r].op = req[r].op /\ req'[r].step = step
      /\ req'[r].told = req[r].told
  BY OverFits
<1>2. given' \in Nat
  BY LabelsAssumption DEF TypeInv, TypeOK
<1>3. Honest(r) /\ was \subseteq was' /\ was' \subseteq was \union req[r].new
  BY DEF HonestInv
<1>4. Honest(r)'
  BY <1>1, <1>3 DEF Honest, Ended
<1> QED
  BY <1>1, <1>2, <1>3, <1>4, OthersHonest

LEMMA RefuseHonest ==
    ASSUME TypeInv, HonestInv, NEW r \in Requests, Refuse(r), req[r].step # "new",
           req[r].step \notin Ended
    PROVE  HonestInv'
BY EndsHonest DEF Refuse, Ended

LEMMA RequestStepHonest ==
    ASSUME TypeInv, HonestInv, NEW r \in Requests, RequestStep(r)
    PROVE  HonestInv'
<1>1. CASE Look(r)
  BY <1>1, LookType, KeepsHonest DEF Look, In, Ended
<1>2. CASE Clash(r)
  BY <1>2, RefuseHonest DEF Clash, In, Ended
<1>3. CASE Insert(r)
  <2>1. /\ OnlyChanges(r) /\ was' = was /\ given' = given + 1
        /\ req[r].op \in {"post", "put"} /\ req'[r].op = req[r].op
        /\ req'[r].new = req[r].new \union {given + 1}
        /\ req'[r].told = req[r].told \union {given + 1}
        /\ req[r].step = "insert" /\ req'[r].step \notin Ended
    BY <1>3, InsertType
  <2>2. /\ given \in Nat /\ given' \in Nat /\ (1 .. given') \ (1 .. given) = {given + 1}
        /\ given + 1 \notin was
    BY <2>1, LabelsAssumption DEF TypeInv, TypeOK
  <2>3. Honest(r)
    BY DEF HonestInv
  <2>4. Honest(r)'
    BY <2>1, <2>2, <2>3 DEF Honest, Ended
  <2> QED
    BY <2>1, <2>2, <2>4, OthersHonest
<1>4. CASE InsertCommit(r)
  <2>1. /\ OnlyChanges(r) /\ was' = was \union {given + 1} /\ given' = given + 1
        /\ req[r].op = "submit" /\ req'[r].op = "submit"
        /\ req'[r].new = req[r].new /\ req'[r].told = req[r].told
        /\ req'[r].step = "announce" /\ req'[r].target = given + 1
    BY <1>4, InsertCommitType
  <2>2. given \in Nat /\ given' \in Nat /\ (1 .. given') \ (1 .. given) = {given + 1}
    BY <2>1, LabelsAssumption DEF TypeInv, TypeOK
  <2>3. Honest(r)
    BY DEF HonestInv
  <2>4. Honest(r)'
    BY <2>1, <2>3 DEF Honest, Ended
  <2> QED
    BY <2>1, <2>2, <2>4, OthersHonest
<1>5. CASE Announce(r)
  <2>1. /\ OnlyChanges(r) /\ was' = was /\ given' = given
        /\ req[r].op = "submit" /\ req[r].step = "announce" /\ req'[r].op = "submit"
        /\ req'[r].new = req[r].new /\ req'[r].told = req[r].told \union {req[r].target}
        /\ req'[r].step \in {"look", "done"}
    BY <1>5, AnnounceType
  <2>2. given' \in Nat
    BY <2>1, LabelsAssumption DEF TypeInv, TypeOK
  <2>3. Honest(r)
    BY DEF HonestInv
  <2>4. Honest(r)'
    BY <2>1, <2>3 DEF Honest, Ended
  <2> QED
    BY <2>1, <2>2, <2>4, OthersHonest
<1>6. CASE AnnounceGone(r)
  BY <1>6, RefuseHonest DEF AnnounceGone, In, Ended
<1>7. CASE Assign(r)
  BY <1>7, AssignType, KeepsHonest DEF Assign, In, Ended
<1>8. CASE Flush(r)
  <2>1. req[r].step # "new" /\ req[r].step \notin Ended
    BY <1>8 DEF Flush, In, Ended
  <2> QED
    BY <1>8, <2>1, FlushType, KeepsHonest, RefuseHonest
<1>9. CASE Commit(r)
  BY <1>9, EndsHonest DEF Commit, Stores, In, Ended
<1>10. CASE Rename(r)
  <2>1. req[r].step # "new" /\ req[r].step \notin Ended /\ req[r].op = "rename"
    BY <1>10 DEF Rename, In, Ended
  <2>2. CASE Refuse(r)
    BY <2>1, <2>2, RefuseHonest
  <2>3. CASE ~Refuse(r)
    <3>1. Over(r, "done") /\ was' = was /\ begun' = begun /\ given' = given
      BY <1>10, <2>3 DEF Rename
    <3>2. req[r].new = {}
      BY <2>1 DEF HonestInv, Honest
    <3> QED
      BY <2>1, <3>1, <3>2, EndsHonest DEF Ended
  <2> QED
    BY <2>2, <2>3
<1>11. CASE Delete(r)
  <2>1. req[r].step # "new" /\ req[r].step \notin Ended /\ req[r].op = "delete"
    BY <1>11 DEF Delete, In, Ended
  <2>2. CASE Refuse(r)
    BY <2>1, <2>2, RefuseHonest
  <2>3. CASE ~Refuse(r)
    <3>1. Over(r, "done") /\ was' = was /\ begun' = begun /\ given' = given
      BY <1>11, <2>3 DEF Delete
    <3>2. req[r].new = {}
      BY <2>1 DEF HonestInv, Honest
    <3> QED
      BY <2>1, <3>1, <3>2, EndsHonest DEF Ended
  <2> QED
    BY <2>2, <2>3
<1>12. CASE Abort(r)
  <2>1. PICK q \in Requests : Waits(r, q)
    BY <1>12 DEF Abort, Deadlocked
  <2>2. In(r, "insert") \/ In(r, "write")
    BY <2>1 DEF Waits, Wanted
  <2> QED
    BY <1>12, <2>2, RefuseHonest DEF Abort, In, Ended
<1> QED
  BY <1>1, <1>2, <1>3, <1>4, <1>5, <1>6, <1>7, <1>8, <1>9, <1>10, <1>11, <1>12
  DEF RequestStep

LEMMA HonestStep == TypeInv /\ HonestInv /\ [Next]_vars => HonestInv'
<1> SUFFICES ASSUME TypeInv, HonestInv, [Next]_vars PROVE HonestInv'
  OBVIOUS
<1>1. CASE \E r \in Requests : RequestStep(r)
  BY <1>1, RequestStepHonest
<1>2. CASE FetchStep
  BY <1>2, FetchFrame DEF HonestInv, Honest, Apart
<1>3. CASE UNCHANGED vars
  BY <1>3 DEF HonestInv, Honest, Apart
<1> QED
  BY <1>1, <1>2, <1>3, AskType, BeginsHonest, NextSteps

-----------------------------------------------------------------------------
(* What the page lists *)

\* The list that the last fetch that was read has brought, or will bring, has
\* the label; or the page is about to fetch again, or shows an older answer.
Coming(i) ==
    \/ asks > 0
    \/ answers # <<>> /\ ~answers[Len(answers)].overtaken /\ i \in answers[Len(answers)].labels
    \/ (answers = <<>> \/ answers[Len(answers)].overtaken) /\ (late \/ i \in listed)

\* A label that no fetch will bring: the last one came before its commit, and
\* no submission has announced it.
Early(i) == i \in early /\ \A r \in Requests : req[r].op = "submit" => i \notin req[r].told

PageInv ==
    /\ answers # <<>> /\ answers[Len(answers)].overtaken =>
          \A k \in DOMAIN answers : answers[k].overtaken
    /\ asks = 0 => \A r \in Requests : req[r].new \subseteq early
    /\ \A i \in rows :
          \/ Coming(i) \/ Early(i)
          \/ \E r \in Requests : req[r].step = "announce" /\ req[r].target = i

LEMMA PageInit == Init => PageInv
BY DEF Init, PageInv, Coming, Cleared

\* While the page is about to fetch nothing is missing.
LEMMA PageAsked ==
    ASSUME PageInv, UNCHANGED <<answers, listed, late, early>>, asks' \in Nat, asks' > 0
    PROVE  PageInv'
<1>1. asks' # 0
  OBVIOUS
<1> QED
  BY <1>1 DEF PageInv, Coming

\* A step of a request that sends no event: the labels it stores are early or
\* it is going to announce them, and it forgets none that it has to announce.
LEMMA PageFrame ==
    ASSUME PageInv, NEW r \in Requests, OnlyChanges(r),
           UNCHANGED <<asks, answers, listed, late, early>>,
           asks = 0 => req'[r].new \subseteq early,
           \A i \in rows' \ rows : \/ asks > 0 \/ Early(i)'
                                   \/ req'[r].step = "announce" /\ req'[r].target = i,
           req'[r].op = "submit" => /\ req'[r].told \subseteq req[r].told
                                    /\ req[r].op = "submit" \/ req'[r].told = {},
           req[r].step = "announce" => req[r].target \notin rows'
    PROVE  PageInv'
<1>1. \A q \in Requests \ {r} :
         /\ req'[q].op = req[q].op /\ req'[q].step = req[q].step
         /\ req'[q].target = req[q].target
         /\ req'[q].new = req[q].new /\ req'[q].told = req[q].told
  BY DEF OnlyChanges
<1>2. asks' = 0 => \A q \in Requests : req'[q].new \subseteq early'
  BY <1>1 DEF PageInv
<1>3. ASSUME NEW i \in rows'
      PROVE  \/ Coming(i)' \/ Early(i)'
             \/ \E q \in Requests : req'[q].step = "announce" /\ req'[q].target = i
  <2>1. CASE i \notin rows
    BY <2>1 DEF Coming
  <2>2. CASE i \in rows
    <3>1. CASE Coming(i)
      BY <3>1 DEF Coming
    <3>2. CASE Early(i)
      <4>1. ASSUME NEW q \in Requests, req'[q].op = "submit" PROVE i \notin req'[q].told
        BY <1>1, <3>2, <4>1 DEF Early
      <4> QED
        BY <3>2, <4>1 DEF Early
    <3>3. ASSUME NEW q \in Requests, req[q].step = "announce", req[q].target = i
          PROVE  \E p \in Requests : req'[p].step = "announce" /\ req'[p].target = i
      BY <1>1, <3>3
    <3> QED
      BY <2>2, <3>1, <3>2, <3>3 DEF PageInv
  <2> QED
    BY <2>1, <2>2
<1>4. answers' # <<>> /\ answers'[Len(answers')].overtaken =>
        \A k \in DOMAIN answers' : answers'[k].overtaken
  BY DEF PageInv
<1> QED
  BY <1>2, <1>3, <1>4 DEF PageInv

\* A request that ends without storing anything.
LEMMA PageRefuse ==
    ASSUME TypeInv, PageInv, NEW r \in Requests, Refuse(r),
           req[r].step = "announce" => req[r].target \notin rows, req[r].step # "new"
    PROVE  PageInv'
<1>1. Over(r, "refused") /\ "refused" \in Ended /\ begun' = begun /\ given' = given
  BY DEF Refuse, Ended
<1>2. /\ OnlyChanges(r) /\ req'[r].new = {} /\ req'[r].op = req[r].op
      /\ req'[r].told = req[r].told
  BY <1>1, OverFits
<1>3. UNCHANGED <<rows, asks, answers, listed, late, early>>
  BY DEF Refuse
<1> QED
  BY <1>2, <1>3, PageFrame

\* Steps that keep what a request has said and inserted.
LEMMA PageKeeps ==
    ASSUME PageInv, NEW r \in Requests, Keeps(r), req[r].step # "announce",
           UNCHANGED <<rows, asks, answers, listed, late, early>>
    PROVE  PageInv'
<1>1. asks = 0 => req'[r].new \subseteq early
  BY DEF Keeps, PageInv
<1> QED
  BY <1>1, PageFrame DEF Keeps

LEMMA PageBegins ==
    ASSUME PageInv, Begins, UNCHANGED <<rows, asks, answers, listed, late, early>>
    PROVE  PageInv'
<1>1. PICK r \in Requests :
         /\ OnlyChanges(r) /\ req[r].step = "new"
         /\ req[r].new = {} /\ req[r].told = {} /\ req'[r].new = {} /\ req'[r].told = {}
         /\ req'[r].step \in {"insert", "look", "assign", "write"}
  BY DEF Begins
<1> QED
  BY <1>1, PageFrame

\* The page reads: what is stored now is what it will show.
LEMMA PageReads ==
    ASSUME TypeInv, PageInv, PageRead
    PROVE  PageInv'
<1>1. PICK a : a = [labels |-> rows, overtaken |-> FALSE]
  OBVIOUS
<1>2. /\ answers' = Append(answers, a) /\ rows' = rows /\ req' = req
      /\ early' = UNION {req[q].new : q \in Requests}
  BY <1>1 DEF PageRead
<1>3. answers \in Seq([labels : SUBSET Ids, overtaken : BOOLEAN])
  BY DEF TypeInv, TypeOK
<1>4. Len(answers') = Len(answers) + 1 /\ answers'[Len(answers) + 1] = a /\ answers' # <<>>
  BY <1>2, <1>3
<1>5. a.labels = rows /\ a.overtaken = FALSE
  BY <1>1
<1>6. answers'[Len(answers')] = a
  BY <1>4
<1>7. \A i \in rows' : Coming(i)'
  BY <1>2, <1>4, <1>5, <1>6 DEF Coming
<1>8. \A q \in Requests : req'[q].new \subseteq early'
  BY <1>2
<1> QED
  BY <1>5, <1>6, <1>7, <1>8 DEF PageInv

\* An answer arrives, or will not.
LEMMA PageAnswers ==
    ASSUME TypeInv, PageInv, NEW k \in DOMAIN answers, PageAnswer(k) \/ PageFail(k)
    PROVE  PageInv'
<1> DEFINE n == Len(answers)
<1>1. /\ answers \in Seq([labels : SUBSET Ids, overtaken : BOOLEAN])
      /\ asks' = asks /\ rows' = rows /\ req' = req /\ early' = early
      /\ \/ listed' = answers[k].labels /\ late' = answers[k].overtaken
         \/ listed' = listed /\ late' = (late \/ ~answers[k].overtaken)
      /\ answers' = [j \in 1 .. n - 1 |->
             IF j < k THEN [answers[j] EXCEPT !.overtaken = TRUE] ELSE answers[j + 1]]
  BY DEF PageAnswer, PageFail, Without, TypeInv, TypeOK
<1>2. n \in Nat /\ k \in 1 .. n /\ DOMAIN answers = 1 .. n
  BY <1>1
<1>3. DOMAIN answers' = 1 .. n - 1 /\ Len(answers') = n - 1
  <2>1. n - 1 \in Nat
    BY <1>2
  <2> QED
    BY <1>1, <2>1
<1>4. \A j \in 1 .. n : answers[j] \in [labels : SUBSET Ids, overtaken : BOOLEAN]
  <2>1. \A S : answers \in Seq(S) => \A j \in 1 .. Len(answers) : answers[j] \in S
    OBVIOUS
  <2> QED
    BY <1>1, <2>1
<1>5. ASSUME NEW j \in 1 .. n - 1, j < k PROVE answers'[j].overtaken
  BY <1>1, <1>2, <1>4, <1>5
<1>6. ASSUME NEW j \in 1 .. n - 1, ~(j < k) PROVE answers'[j] = answers[j + 1] /\ j + 1 \in 1 .. n
  BY <1>1, <1>2, <1>6
<1>7. answers[n].overtaken => \A j \in 1 .. n : answers[j].overtaken
  BY <1>2 DEF PageInv
<1> HIDE DEF n
<1>8. CASE k = n
  <2>1. \A j \in 1 .. n - 1 : answers'[j].overtaken
    BY <1>2, <1>5, <1>8
  <2>2. answers' = <<>> \/ answers'[Len(answers')].overtaken
    <3>1. CASE n = 1
      BY <1>1, <1>2, <3>1
    <3>2. CASE n # 1
      <4>1. n - 1 \in 1 .. n - 1
        BY <1>2, <3>2
      <4> QED
        BY <1>3, <2>1, <4>1
    <3> QED
      BY <3>1, <3>2
  <2>3. ASSUME NEW i \in rows, Coming(i) PROVE Coming(i)'
    <3>1. CASE asks > 0
      BY <1>1, <3>1 DEF Coming
    <3>2. CASE ~answers[n].overtaken /\ i \in answers[n].labels
      <4>1. late' \/ i \in listed'
        BY <1>1, <1>8, <3>2
      <4> QED
        BY <2>2, <4>1 DEF Coming
    <3>3. CASE ~(asks > 0) /\ answers[n].overtaken
      <4>1. late \/ i \in listed
        BY <1>2, <2>3, <3>3 DEF Coming, n
      <4>2. late' \/ i \in listed'
        BY <1>1, <1>8, <3>3, <4>1
      <4> QED
        BY <2>2, <4>2 DEF Coming
    <3>4. answers # <<>>
      BY <1>2
    <3> QED
      BY <2>3, <3>1, <3>2, <3>3, <3>4 DEF Coming, n
  <2>4. \A i \in rows' : Early(i) => Early(i)'
    BY <1>1 DEF Early
  <2>5. \A j \in DOMAIN answers' : answers'[j].overtaken
    BY <1>3, <2>1
  <2>6. asks' = 0 => \A q \in Requests : req'[q].new \subseteq early'
    BY <1>1 DEF PageInv
  <2>7. \A i \in rows' :
          \/ Coming(i)' \/ Early(i)'
          \/ \E r \in Requests : req'[r].step = "announce" /\ req'[r].target = i
    BY <1>1, <2>3, <2>4 DEF PageInv
  <2> QED
    BY <2>5, <2>6, <2>7 DEF PageInv
<1>9. CASE k # n
  <2>1. n - 1 \in 1 .. n - 1 /\ ~(n - 1 < k) /\ (n - 1) + 1 = n /\ k \in 1 .. n
    BY <1>2, <1>9
  <2>2. answers'[n - 1] = answers[(n - 1) + 1]
    BY <1>6, <2>1
  <2>3. answers'[Len(answers')] = answers[n] /\ answers' # <<>>
    BY <1>3, <2>1, <2>2
  <2>4. ASSUME answers[n].overtaken, NEW j \in DOMAIN answers' PROVE answers'[j].overtaken
    BY <1>3, <1>5, <1>6, <1>7, <2>4
  <2>5. ASSUME NEW i \in rows, Coming(i) PROVE Coming(i)'
    <3>1. CASE asks > 0
      BY <1>1, <3>1 DEF Coming
    <3>2. CASE ~answers[n].overtaken /\ i \in answers[n].labels
      BY <2>3, <3>2 DEF Coming
    <3>3. CASE ~(asks > 0) /\ answers[n].overtaken
      <4>1. answers[k].overtaken /\ (late \/ i \in listed)
        BY <1>2, <1>7, <2>1, <2>5, <3>3 DEF Coming, n
      <4>2. late' \/ i \in listed'
        BY <1>1, <4>1
      <4> QED
        BY <2>3, <3>3, <4>2 DEF Coming
    <3>4. answers # <<>>
      BY <1>2
    <3> QED
      BY <2>5, <3>1, <3>2, <3>3, <3>4 DEF Coming, n
  <2>6. \A i \in rows' : Early(i) => Early(i)'
    BY <1>1 DEF Early
  <2>7. asks' = 0 => \A q \in Requests : req'[q].new \subseteq early'
    BY <1>1 DEF PageInv
  <2>8. \A i \in rows' :
          \/ Coming(i)' \/ Early(i)'
          \/ \E r \in Requests : req'[r].step = "announce" /\ req'[r].target = i
    BY <1>1, <2>5, <2>6 DEF PageInv
  <2> QED
    BY <2>3, <2>4, <2>7, <2>8 DEF PageInv
<1> QED
  BY <1>8, <1>9

LEMMA PageRequestStep ==
    ASSUME TypeInv, HonestInv, PageInv, NEW r \in Requests, RequestStep(r)
    PROVE  PageInv'
<1>0. asks \in Nat
  BY DEF TypeInv, TypeOK
<1>1. CASE Look(r)
  BY <1>1, LookType, PageKeeps DEF Look, In
<1>2. CASE Clash(r)
  BY <1>2, PageRefuse DEF Clash, In
<1>3. CASE Insert(r)
  BY <1>0, <1>3, PageAsked DEF Insert
<1>4. CASE InsertCommit(r)
  <2>1. /\ OnlyChanges(r) /\ req[r].op = "submit" /\ req'[r].op = "submit"
        /\ req'[r].new = req[r].new /\ req'[r].told = req[r].told
        /\ req'[r].step = "announce" /\ req'[r].target = given + 1
    BY <1>4, InsertCommitType
  <2>2. /\ rows' = rows \union {given + 1} /\ req[r].step # "announce"
        /\ UNCHANGED <<asks, answers, listed, late, early>>
    BY <1>4 DEF InsertCommit, In
  <2>3. asks = 0 => req'[r].new \subseteq early
    BY <2>1 DEF PageInv
  <2> QED
    BY <2>1, <2>2, <2>3, PageFrame
<1>5. CASE Announce(r)
  BY <1>0, <1>5, PageAsked DEF Announce
<1>6. CASE AnnounceGone(r)
  BY <1>6, PageRefuse DEF AnnounceGone, In
<1>7. CASE Assign(r)
  BY <1>7, AssignType, PageKeeps DEF Assign, In
<1>8. CASE Flush(r)
  <2>1. In(r, "flush")
    BY <1>8 DEF Flush
  <2>2. CASE Refuse(r)
    BY <2>1, <2>2, PageRefuse DEF In
  <2>3. CASE ~Refuse(r)
    <3>1. Keeps(r) /\ UNCHANGED <<rows, asks, answers, listed, late, early>>
      BY <1>8, <2>3, FlushType DEF Flush
    <3> QED
      BY <2>1, <3>1, PageKeeps DEF In
  <2> QED
    BY <2>2, <2>3
<1>9. CASE Commit(r)
  <2>1. /\ In(r, "commit") /\ rows' = rows \union req[r].new /\ Over(r, "done")
        /\ UNCHANGED <<asks, answers, listed, late, early>> /\ begun' = begun /\ given' = given
    BY <1>9 DEF Commit, Stores
  <2>2. /\ OnlyChanges(r) /\ req'[r].new = {} /\ req'[r].op = req[r].op
        /\ req'[r].told = req[r].told
    BY <2>1, OverFits DEF Ended, In
  <2>3. req[r].op \in {"post", "put"}
    BY <2>1 DEF TypeInv, Fits, In
  <2>4. ASSUME NEW i \in rows' \ rows, asks = 0 PROVE Early(i)'
    <3>1. i \in req[r].new /\ i \in early /\ i \notin was
      BY <2>1, <2>4 DEF PageInv, HonestInv, Honest
    <3>2. ASSUME NEW q \in Requests, req'[q].op = "submit" PROVE i \notin req'[q].told
      <4>1. req[q].op = "submit" /\ req'[q].told = req[q].told
        BY <2>2, <2>3, <3>2 DEF OnlyChanges
      <4> QED
        BY <3>1, <4>1 DEF HonestInv, Honest
    <3> QED
      BY <2>1, <3>1, <3>2 DEF Early
  <2>5. asks > 0 \/ asks = 0
    BY <1>0
  <2>6. \A i \in rows' \ rows : asks > 0 \/ Early(i)'
    BY <2>4, <2>5
  <2> QED
    BY <2>1, <2>2, <2>3, <2>6, PageFrame DEF In
<1>10. CASE Rename(r)
  <2>1. In(r, "write")
    BY <1>10 DEF Rename
  <2>2. CASE Refuse(r)
    BY <2>1, <2>2, PageRefuse DEF In
  <2>3. CASE ~Refuse(r)
    <3>1. /\ Over(r, "done") /\ begun' = begun /\ given' = given
          /\ UNCHANGED <<rows, asks, answers, listed, late, early>>
      BY <1>10, <2>3 DEF Rename
    <3>2. /\ OnlyChanges(r) /\ req'[r].new = {} /\ req'[r].op = req[r].op
          /\ req'[r].told = req[r].told
      BY <2>1, <3>1, OverFits DEF Ended, In
    <3> QED
      BY <2>1, <3>1, <3>2, PageFrame DEF In
  <2> QED
    BY <2>2, <2>3
<1>11. CASE Delete(r)
  <2>1. In(r, "write")
    BY <1>11 DEF Delete
  <2>2. CASE Refuse(r)
    BY <2>1, <2>2, PageRefuse DEF In
  <2>3. CASE ~Refuse(r)
    <3>1. /\ Over(r, "done") /\ begun' = begun /\ given' = given /\ rows' \subseteq rows
          /\ UNCHANGED <<asks, answers, listed, late, early>>
      BY <1>11, <2>3 DEF Delete
    <3>2. /\ OnlyChanges(r) /\ req'[r].new = {} /\ req'[r].op = req[r].op
          /\ req'[r].told = req[r].told
      BY <2>1, <3>1, OverFits DEF Ended, In
    <3> QED
      BY <2>1, <3>1, <3>2, PageFrame DEF In
  <2> QED
    BY <2>2, <2>3
<1>12. CASE Abort(r)
  <2>1. PICK q \in Requests : Waits(r, q)
    BY <1>12 DEF Abort, Deadlocked
  <2>2. In(r, "insert") \/ In(r, "write")
    BY <2>1 DEF Waits, Wanted
  <2> QED
    BY <1>12, <2>2, PageRefuse DEF Abort, In
<1> QED
  BY <1>1, <1>2, <1>3, <1>4, <1>5, <1>6, <1>7, <1>8, <1>9, <1>10, <1>11, <1>12
  DEF RequestStep

LEMMA PageStep == TypeInv /\ HonestInv /\ PageInv /\ [Next]_vars => PageInv'
<1> SUFFICES ASSUME TypeInv, HonestInv, PageInv, [Next]_vars PROVE PageInv'
  OBVIOUS
<1>1. CASE \E r \in Requests : RequestStep(r)
  BY <1>1, PageRequestStep
<1>2. CASE PageRead
  BY <1>2, PageReads
<1>3. ASSUME NEW k \in DOMAIN answers, PageAnswer(k) \/ PageFail(k) PROVE PageInv'
  BY <1>3, PageAnswers
<1>4. ASSUME \/ \E names \in Lists : Post(names) \/ Submit(names) \/ PutElsewhere(names)
             \/ \E s \in Written : AddLabel(s)
             \/ \E k \in 1 .. MaxRequests : RemoveLabel(k)
             \/ \E i \in rows : AskDelete(i) \/ \E s \in Written : AskRename(i, s)
      PROVE  PageInv'
  <2>1. Begins
    BY <1>4, AskType
  <2>2. UNCHANGED <<rows, asks, answers, listed, late, early>>
    BY <1>4 DEF Post, Submit, PutElsewhere, AddLabel, RemoveLabel, Put, AskDelete, AskRename, Begin
  <2> QED
    BY <2>1, <2>2, PageBegins
<1>5. ASSUME \/ UNCHANGED vars \/ ProfileEvent \/ ProfileRead
             \/ \E k \in DOMAIN profiles : ProfileAnswer(k) \/ ProfileFail(k)
      PROVE  PageInv'
  <2>1. UNCHANGED <<rows, req, pageVars>>
    BY <1>5 DEF ProfileEvent, ProfileRead, ProfileAnswer, ProfileFail
  <2> QED
    BY <2>1 DEF PageInv, Coming, Early
<1> QED
  BY <1>1, <1>2, <1>3, <1>4, <1>5 DEF Next

-----------------------------------------------------------------------------
(* What the view shows *)

\* The labels of the last PUT so far, against the names that the view shows.
Matches(r) ==
    /\ Range(req[r].todo) \subseteq Range(shown)
    /\ req[r].got \intersect renamed = {} =>
          /\ \A s \in Range(shown) :
                s \in Range(req[r].todo) \/ \E i \in req[r].got : name[i] = Stored(s)
          /\ \A i \in req[r].got : \E s \in Range(shown) : name[i] = Stored(s)

\* A request by itself.
Sound(r) ==
    /\ req[r].got \subseteq was \union req[r].new
    /\ req[r].step = "new" \/ req[r].op # "put" => req[r].old = {} /\ ~req[r].alone
    /\ r = lastPut => req[r].op = "put"
    /\ req[r].op = "put" /\ req[r].step \in {"assign", "flush", "commit"} => req[r].todo = <<>>
    /\ \A i \in req[r].new : name[i] \in Names
    /\ own /\ r = lastPut /\ req[r].step \in {"look", "insert", "assign", "flush", "commit"} => Matches(r)

\* A PUT that has seen no other beside it knows the labels of the profile.
Alone(r) ==
    req[r].alone /\ req[r].step \in {"flush", "commit"} =>
       /\ req[r].old = attached
       /\ \A q \in Requests \ {r} :
             /\ req[q].step # "flush"
             /\ req[q].step = "commit" => req[q].op = "post"

\* What the last PUT of the view has sent is stored, if it was alone.
EditStored == own /\ clean => Agree

ViewInv ==
    /\ rows \subseteq was /\ lastPut <= begun /\ NamedRows
    /\ \A r \in Requests : Sound(r) /\ Alone(r)
    /\ EditStored

\* The elements of a sequence are its head and those of its tail.
LEMMA HeadAndTail ==
    ASSUME NEW S, NEW s \in Seq(S), s # <<>>
    PROVE  /\ Head(s) \in Range(s) /\ Range(Tail(s)) \subseteq Range(s)
           /\ \A x \in Range(s) : x = Head(s) \/ x \in Range(Tail(s))
           /\ Len(s) <= 1 => Tail(s) = <<>>
<1>1. Len(s) \in Nat /\ Len(s) >= 1 /\ DOMAIN s = 1 .. Len(s) /\ Head(s) = s[1]
  OBVIOUS
<1>2. /\ Tail(s) \in Seq(S) /\ Len(Tail(s)) = Len(s) - 1
      /\ \A i \in 1 .. Len(s) - 1 : Tail(s)[i] = s[i + 1]
  OBVIOUS
<1>3. DOMAIN Tail(s) = 1 .. Len(s) - 1
  BY <1>1, <1>2
<1>4. Head(s) \in Range(s)
  BY <1>1 DEF Range
<1>5. ASSUME NEW x \in Range(Tail(s)) PROVE x \in Range(s)
  <2>1. PICK i \in 1 .. Len(s) - 1 : x = Tail(s)[i]
    BY <1>3, <1>5 DEF Range
  <2>2. x = s[i + 1] /\ i + 1 \in 1 .. Len(s)
    BY <1>1, <1>2, <2>1
  <2> QED
    BY <1>1, <2>2 DEF Range
<1>6. ASSUME NEW x \in Range(s), x # Head(s) PROVE x \in Range(Tail(s))
  <2>1. PICK i \in 1 .. Len(s) : x = s[i]
    BY <1>1 DEF Range
  <2>2. i - 1 \in 1 .. Len(s) - 1 /\ (i - 1) + 1 = i
    BY <1>1, <1>6, <2>1
  <2>3. x = Tail(s)[i - 1]
    BY <1>2, <2>1, <2>2
  <2> QED
    BY <1>3, <2>2, <2>3 DEF Range
<1>7. Len(s) <= 1 => Tail(s) = <<>>
  BY <1>1, <1>2
<1> QED
  BY <1>4, <1>5, <1>6, <1>7

\* A PUT that has looked at its last name has none left.
LEMMA AfterAssign ==
    ASSUME TypeInv, NEW r \in Requests, req[r].todo # <<>>, req[r].op = "put"
    PROVE  After(r) = "assign" => Tail(req[r].todo) = <<>>
<1>1. req[r].todo \in Seq(Written)
  BY DEF TypeInv, TypeOK, RequestRecord
<1>2. After(r) = IF Len(req[r].todo) > 1 THEN "look" ELSE "assign"
  BY DEF After
<1>3. Len(req[r].todo) \in Nat
  BY <1>1
<1>4. After(r) = "assign" => Len(req[r].todo) <= 1
  BY <1>2, <1>3
<1> QED
  BY <1>1, <1>4, HeadAndTail

LEMMA ViewInit == Init => ViewInv
<1> SUFFICES ASSUME Init PROVE ViewInv
  OBVIOUS
<1>1. \A r \in Requests : /\ req[r].op = "none" /\ req[r].step = "new" /\ req[r].got = {}
                          /\ req[r].new = {} /\ req[r].old = {} /\ ~req[r].alone
  BY DEF Init, Cleared
<1>2. lastPut = 0 /\ begun = 0 /\ was = rows /\ ~clean
  BY DEF Init
<1>3. \A i \in rows : name[i] \in Names
  BY DEF Init
<1>4. \A r \in Requests : Sound(r) /\ Alone(r)
  BY <1>1, <1>2 DEF Sound, Alone, Requests
<1> QED
  BY <1>2, <1>3, <1>4 DEF ViewInv, EditStored, NamedRows

\* Labels are named again only by who renames them or rolls back; of the other
\* requests a step changes nothing, unless it tells them that they are not alone.
Mild(r) ==
    /\ OnlyChanges(r) /\ was \subseteq was' /\ renamed \subseteq renamed'
    /\ \A i \in (1 .. given) \ req[r].new :
          name'[i] = name[i] \/ (i \in renamed' /\ name'[i] \in Names)
    /\ \A q \in Requests \ {r} : req'[q].alone => req[q].alone

\* The request stores no labels of the profile.
Passing(r) ==
    /\ Mild(r) /\ attached' = attached /\ req'[r].step # "new"
    /\ req[r].op = "put" => req'[r].step # "done"

\* What a request has been given, and who else has it not.
LEMMA Given ==
    ASSUME TypeInv, HonestInv, ViewInv, NEW r \in Requests, NEW q \in Requests \ {r}
    PROVE  /\ req[q].got \subseteq (1 .. given) \ req[r].new
           /\ req[q].new \subseteq (1 .. given) \ req[r].new
           /\ rows \subseteq (1 .. given) \ req[r].new
<1>1. req[q].got \subseteq was \union req[q].new /\ rows \subseteq was
  BY DEF ViewInv, Sound
<1>2. was \subseteq 1 .. given /\ req[q].new \subseteq 1 .. given
  BY DEF TypeInv, Fits
<1>3. req[r].new \intersect was = {}
  BY DEF HonestInv, Honest
<1>4. req[q].new \intersect req[r].new = {}
  BY DEF TypeInv, TypeOK
<1> QED
  BY <1>1, <1>2, <1>3, <1>4

\* The others remain sound.
LEMMA OthersSound ==
    ASSUME TypeInv, HonestInv, ViewInv, NEW r \in Requests, Mild(r),
           \/ UNCHANGED <<lastPut, shown, own>>
           \/ lastPut' = r
    PROVE  \A q \in Requests \ {r} : Sound(q)'
<1> SUFFICES ASSUME NEW q \in Requests \ {r} PROVE Sound(q)'
  OBVIOUS
<1>1. /\ req'[q].op = req[q].op /\ req'[q].step = req[q].step /\ req'[q].todo = req[q].todo
      /\ req'[q].got = req[q].got /\ req'[q].new = req[q].new /\ req'[q].old = req[q].old
      /\ req'[q].alone => req[q].alone
  BY DEF Mild, OnlyChanges
<1>2. Sound(q) /\ was \subseteq was' /\ renamed \subseteq renamed'
  BY DEF ViewInv, Mild
<1>3. \A i \in (1 .. given) \ req[r].new :
         name'[i] = name[i] \/ (i \in renamed' /\ name'[i] \in Names)
  BY DEF Mild
<1>4. /\ req[q].got \subseteq (1 .. given) \ req[r].new
      /\ req[q].new \subseteq (1 .. given) \ req[r].new
  BY Given
<1>5. \A i \in req'[q].new : name'[i] \in Names
  BY <1>1, <1>2, <1>3, <1>4 DEF Sound
<1>6. ASSUME own', q = lastPut', req'[q].step \in {"look", "insert", "assign", "flush", "commit"}
      PROVE  Matches(q)'
  <2>1. q = lastPut /\ shown' = shown /\ own /\ Matches(q)
    BY <1>1, <1>2, <1>6 DEF Sound
  <2>2. Range(req'[q].todo) \subseteq Range(shown')
    BY <1>1, <2>1 DEF Matches
  <2>3. ASSUME req'[q].got \intersect renamed' = {}
        PROVE  /\ \A s \in Range(shown') :
                     s \in Range(req'[q].todo) \/ \E i \in req'[q].got : name'[i] = Stored(s)
               /\ \A i \in req'[q].got : \E s \in Range(shown') : name'[i] = Stored(s)
    <3>1. req[q].got \intersect renamed = {} /\ \A i \in req[q].got : name'[i] = name[i]
      BY <1>1, <1>2, <1>3, <1>4, <2>3
    <3> QED
      BY <1>1, <2>1, <3>1 DEF Matches
  <2> QED
    BY <2>2, <2>3 DEF Matches
<1>7. q = lastPut' => req'[q].op = "put"
  BY <1>1, <1>2 DEF Sound
<1>8. /\ req'[q].got \subseteq was' \union req'[q].new
      /\ req'[q].step = "new" \/ req'[q].op # "put" => req'[q].old = {} /\ ~req'[q].alone
      /\ req'[q].op = "put" /\ req'[q].step \in {"assign", "flush", "commit"} => req'[q].todo = <<>>
  BY <1>1, <1>2 DEF Sound
<1> QED
  BY <1>5, <1>6, <1>7, <1>8 DEF Sound

\* The others that were alone remain so, if the step does not come between.
LEMMA OthersAlone ==
    ASSUME ViewInv, NEW r \in Requests, Mild(r),
           \A q \in Requests \ {r} :
              req'[q].alone /\ req[q].step \in {"flush", "commit"} =>
                 /\ attached' = attached /\ req'[r].step # "flush"
                 /\ req'[r].step = "commit" => req'[r].op = "post"
    PROVE  \A q \in Requests \ {r} : Alone(q)'
<1> SUFFICES ASSUME NEW q \in Requests \ {r}, req'[q].alone,
                    req'[q].step \in {"flush", "commit"}
             PROVE  /\ req'[q].old = attached'
                    /\ \A p \in Requests \ {q} :
                          /\ req'[p].step # "flush"
                          /\ req'[p].step = "commit" => req'[p].op = "post"
  BY DEF Alone
<1>1. /\ req'[q].step = req[q].step /\ req'[q].old = req[q].old /\ req[q].alone
  BY DEF Mild, OnlyChanges
<1>2. /\ attached' = attached /\ req'[r].step # "flush"
      /\ req'[r].step = "commit" => req'[r].op = "post"
  BY <1>1
<1>3. /\ req[q].old = attached
      /\ \A p \in Requests \ {q} :
            /\ req[p].step # "flush"
            /\ req[p].step = "commit" => req[p].op = "post"
  BY <1>1 DEF ViewInv, Alone
<1>4. \A p \in Requests \ {r} : req'[p].step = req[p].step /\ req'[p].op = req[p].op
  BY DEF Mild, OnlyChanges
<1> QED
  BY <1>1, <1>2, <1>3, <1>4

\* The names of the profile's labels stay, unless one of them is renamed.
LEMMA ShownKept ==
    ASSUME TypeInv, HonestInv, ViewInv, NEW r \in Requests, Mild(r),
           UNCHANGED <<attached, shown, own>>, clean' => clean
    PROVE  EditStored'
<1>1. attached \subseteq (1 .. given) \ req[r].new
  <2>1. attached \subseteq rows /\ rows \subseteq was /\ was \subseteq 1 .. given
    BY DEF TypeInv, TypeOK, ViewInv
  <2>2. req[r].new \intersect was = {}
    BY DEF HonestInv, Honest
  <2> QED
    BY <2>1, <2>2
<1> SUFFICES ASSUME own', clean', attached' \intersect renamed' = {}
             PROVE  {name'[i] : i \in attached'} = {Stored(s) : s \in Range(shown')}
  BY DEF EditStored, Agree
<1>2. \A i \in attached : name'[i] = name[i]
  BY <1>1 DEF Mild
<1>3. {name[i] : i \in attached} = {Stored(s) : s \in Range(shown)}
  BY DEF Mild, ViewInv, EditStored, Agree
<1>4. {name'[i] : i \in attached} = {name[i] : i \in attached}
  BY <1>2
<1> QED
  BY <1>3, <1>4

\* A step of one request that leaves the profile and its view as they are.
LEMMA ViewFrame ==
    ASSUME TypeInv, HonestInv, ViewInv, NEW r \in Requests, Mild(r),
           UNCHANGED <<attached, shown, lastPut, own, clean, begun>>,
           \A i \in rows' \ rows : name'[i] \in Names /\ i \in was',
           req'[r].step # "flush", req'[r].step = "commit" => req'[r].op = "post",
           Sound(r)', Alone(r)'
    PROVE  ViewInv'
<1>1. \A q \in Requests : Sound(q)' /\ Alone(q)'
  BY OthersSound, OthersAlone
<1>2. EditStored'
  BY ShownKept
<1>3. rows' \subseteq was' /\ lastPut' <= begun'
  BY DEF ViewInv, Mild
<1>4. ASSUME NEW i \in rows' PROVE name'[i] \in Names
  <2>1. CASE i \in rows
    <3>1. i \in (1 .. given) \ req[r].new
      <4>1. rows \subseteq was /\ was \subseteq 1 .. given
        BY DEF TypeInv, ViewInv
      <4>2. req[r].new \intersect was = {}
        BY DEF HonestInv, Honest
      <4> QED
        BY <2>1, <4>1, <4>2
    <3>2. name[i] \in Names
      BY <2>1 DEF ViewInv, NamedRows
    <3> QED
      BY <3>1, <3>2 DEF Mild
  <2> QED
    BY <2>1
<1> QED
  BY <1>1, <1>2, <1>3, <1>4 DEF ViewInv, NamedRows

\* What ends leaves nothing behind.
LEMMA OverSound ==
    ASSUME TypeInv, ViewInv, NEW r \in Requests, NEW step \in Ended, Over(r, step),
           lastPut' = lastPut
    PROVE  /\ Sound(r)' /\ Alone(r)' /\ req'[r].step = step
           /\ \A q \in Requests \ {r} : req'[q] = req[q]
<1>1. req \in [Requests -> RequestRecord]
  BY DEF TypeInv, TypeOK
<1>2. /\ req'[r].step = step /\ req'[r].op = req[r].op /\ req'[r].got = {} /\ req'[r].new = {}
      /\ req'[r].old = {} /\ req'[r].alone = FALSE
  BY <1>1 DEF Over, Cleared
<1>3. step \notin {"look", "insert", "assign", "flush", "commit"}
  BY DEF Ended
<1>4. r = lastPut => req[r].op = "put"
  BY DEF ViewInv, Sound
<1>5. Sound(r)'
  BY <1>2, <1>3, <1>4 DEF Sound
<1>6. Alone(r)'
  BY <1>2 DEF Alone
<1>7. \A q \in Requests \ {r} : req'[q] = req[q]
  BY <1>1 DEF Over
<1> QED
  BY <1>2, <1>5, <1>6, <1>7

LEMMA RefuseView ==
    ASSUME TypeInv, HonestInv, ViewInv, NEW r \in Requests, Refuse(r), req[r].step # "new"
    PROVE  ViewInv' /\ Passing(r)
<1>1. /\ Over(r, "refused") /\ "refused" \in Ended
      /\ name' = [i \in Ids |-> IF i \in req[r].new THEN Refused ELSE name[i]]
      /\ UNCHANGED <<rows, given, attached, begun, shown, lastPut, own, was, renamed, clean>>
  BY DEF Refuse, Ended
<1>2. /\ OnlyChanges(r) /\ Sound(r)' /\ Alone(r)' /\ req'[r].step = "refused"
      /\ \A q \in Requests \ {r} : req'[q] = req[q]
  BY <1>1, OverFits, OverSound
<1>3. 1 .. given \subseteq Ids
  BY LabelsAssumption DEF TypeInv, TypeOK, Ids
<1>4. Mild(r)
  BY <1>1, <1>2, <1>3 DEF Mild
<1> QED
  BY <1>1, <1>2, <1>4, ViewFrame DEF Passing

LEMMA LookView ==
    ASSUME TypeInv, HonestInv, ViewInv, NEW r \in Requests, Look(r)
    PROVE  ViewInv' /\ Passing(r)
<1>1. /\ req \in [Requests -> RequestRecord] /\ req[r] \in RequestRecord /\ Fits(r) /\ Sound(r)
      /\ In(r, "look")
  BY DEF TypeInv, TypeOK, ViewInv, Look
<1>2. /\ req[r].step = "look" /\ req[r].op \in {"put", "submit"} /\ req[r].todo # <<>>
      /\ req[r].todo \in Seq(Written)
  BY <1>1 DEF Fits, In, RequestRecord
<1>3. UNCHANGED <<name, rows, given, attached, begun, shown, lastPut, own, was, renamed, clean>>
  BY DEF Look
<1>4. OnlyChanges(r)
  BY LookType DEF Keeps
<1>5. \A q \in Requests \ {r} : req'[q] = req[q]
  BY <1>1 DEF Look
<1>6. Mild(r)
  BY <1>3, <1>4, <1>5 DEF Mild
<1>7. CASE Found(r) = {}
  <2>1. req'[r] = [req[r] EXCEPT !.step = "insert"]
    BY <1>1, <1>7 DEF Look
  <2>2. /\ req'[r].step = "insert" /\ req'[r].op = req[r].op /\ req'[r].todo = req[r].todo
        /\ req'[r].got = req[r].got /\ req'[r].new = req[r].new /\ req'[r].old = req[r].old
        /\ req'[r].alone = req[r].alone
    BY <1>1, <2>1 DEF RequestRecord
  <2>3. own /\ r = lastPut => Matches(r)'
    BY <1>1, <1>2, <1>3, <2>2 DEF Sound, Matches
  <2>4. Sound(r)'
    BY <1>1, <1>3, <2>2, <2>3 DEF Sound
  <2>5. Alone(r)'
    BY <2>2 DEF Alone
  <2> QED
    BY <1>3, <1>6, <2>2, <2>4, <2>5, ViewFrame DEF Passing
<1>8. CASE Found(r) # {}
  <2>1. PICK t, g : /\ t = Tail(req[r].todo)
                    /\ g = IF req[r].op = "put" THEN req[r].got \union Found(r) ELSE req[r].got
    OBVIOUS
  <2>2. req' = [req EXCEPT ![r].step = After(r), ![r].todo = t, ![r].got = g]
    BY <1>1, <1>8, <2>1 DEF Look
  <2>3. req'[r] = [req[r] EXCEPT !.step = After(r), !.todo = t, !.got = g]
    BY <1>1, <2>2
  <2>4. /\ req'[r].step = After(r) /\ req'[r].op = req[r].op /\ req'[r].todo = t
        /\ req'[r].got = g /\ req'[r].new = req[r].new /\ req'[r].old = req[r].old
        /\ req'[r].alone = req[r].alone
    BY <1>1, <2>3 DEF RequestRecord
  <2>5. /\ req[r].op = "put" => After(r) \in {"look", "assign"}
        /\ req[r].op = "submit" => After(r) \in {"look", "done"}
    BY <1>2, AfterType DEF TypeInv
  <2>6. After(r) # "flush" /\ After(r) # "commit"
    BY <1>2, <2>5
  <2>7. req[r].op = "put" /\ After(r) = "assign" => t = <<>>
    BY <1>2, <2>1, AfterAssign
  <2>8. Found(r) \subseteq was \union req[r].new
    BY DEF Found, Visible, ViewInv
  <2>9. g \subseteq was \union req[r].new
    BY <1>1, <2>1, <2>8 DEF Sound
  <2>10. /\ Head(req[r].todo) \in Range(req[r].todo)
         /\ Range(t) \subseteq Range(req[r].todo)
         /\ \A s \in Range(req[r].todo) : s = Head(req[r].todo) \/ s \in Range(t)
    BY <1>2, <2>1, HeadAndTail
  <2>11. ASSUME own, r = lastPut PROVE Matches(r)'
    <3>1. Matches(r) /\ req[r].op = "put" /\ g = req[r].got \union Found(r)
      BY <1>1, <1>2, <2>1, <2>11 DEF Sound
    <3>2. Range(t) \subseteq Range(shown)
      BY <2>10, <3>1 DEF Matches
    <3>3. ASSUME NEW i \in Found(r) PROVE name[i] = Stored(Head(req[r].todo))
      <4>1. name[i] = Head(req[r].todo) /\ i \in rows \union req[r].new
        BY <3>1 DEF Found, Visible
      <4>2. name[i] \in Names
        BY <1>1, <4>1 DEF ViewInv, NamedRows, Sound
      <4> QED
        BY <4>1, <4>2, LabelsAssumption
    <3>4. ASSUME g \intersect renamed = {}
          PROVE  /\ \A s \in Range(shown) :
                       s \in Range(t) \/ \E i \in g : name[i] = Stored(s)
                 /\ \A i \in g : \E s \in Range(shown) : name[i] = Stored(s)
      <4>1. /\ \A s \in Range(shown) :
                  s \in Range(req[r].todo) \/ \E i \in req[r].got : name[i] = Stored(s)
            /\ \A i \in req[r].got : \E s \in Range(shown) : name[i] = Stored(s)
        BY <3>1, <3>4 DEF Matches
      <4>2. Head(req[r].todo) \in Range(shown)
        BY <2>10, <3>1 DEF Matches
      <4>3. PICK j \in Found(r) : TRUE
        BY <1>8
      <4>4. name[j] = Stored(Head(req[r].todo)) /\ j \in g
        BY <3>1, <3>3
      <4>5. ASSUME NEW s \in Range(shown)
            PROVE  s \in Range(t) \/ \E i \in g : name[i] = Stored(s)
        BY <2>10, <3>1, <4>1, <4>4
      <4>6. ASSUME NEW i \in g PROVE \E s \in Range(shown) : name[i] = Stored(s)
        BY <3>1, <3>3, <4>1, <4>2
      <4> QED
        BY <4>5, <4>6
    <3> QED
      BY <1>3, <2>4, <3>2, <3>4 DEF Matches
  <2>12. r = lastPut => req[r].op = "put"
    BY <1>1 DEF Sound
  <2>13. /\ req'[r].step = "new" \/ req'[r].op # "put" => req'[r].old = {} /\ ~req'[r].alone
         /\ \A i \in req'[r].new : name'[i] \in Names
    BY <1>1, <1>2, <1>3, <2>4, <2>5 DEF Sound
  <2>14. Sound(r)'
    BY <1>3, <2>4, <2>6, <2>7, <2>9, <2>11, <2>12, <2>13 DEF Sound
  <2>15. Alone(r)'
    BY <2>4, <2>6 DEF Alone
  <2> QED
    BY <1>2, <1>3, <1>6, <2>4, <2>5, <2>6, <2>14, <2>15, ViewFrame DEF Passing
<1> QED
  BY <1>7, <1>8

LEMMA InsertView ==
    ASSUME TypeInv, HonestInv, ViewInv, NEW r \in Requests, Insert(r)
    PROVE  ViewInv' /\ Passing(r)
<1>1. /\ req \in [Requests -> RequestRecord] /\ req[r] \in RequestRecord /\ Fits(r) /\ Sound(r)
      /\ In(r, "insert")
  BY DEF TypeInv, TypeOK, ViewInv, Insert
<1>2. /\ req[r].step = "insert" /\ req[r].op \in {"put", "post"} /\ req[r].todo # <<>>
      /\ req[r].todo \in Seq(Written)
  BY <1>1 DEF Fits, In, Insert, RequestRecord
<1>3. UNCHANGED <<rows, attached, begun, shown, lastPut, own, was, renamed, clean>>
  BY DEF Insert
<1>4. OnlyChanges(r)
  BY InsertType
<1>5. \A q \in Requests \ {r} : req'[q] = req[q]
  BY <1>1 DEF Insert
<1>6. given \in Nat /\ given + 1 \in Ids /\ given + 1 \notin 1 .. given
  BY LabelsAssumption DEF TypeInv, TypeOK, Insert, Ids
<1>7. /\ name' = [name EXCEPT ![given + 1] = Next1(r)]
      /\ name \in [Ids -> Names \union {Refused}]
  BY DEF TypeInv, TypeOK, Insert
<1>8. name'[given + 1] = Next1(r) /\ \A i \in 1 .. given : name'[i] = name[i]
  BY <1>6, <1>7
<1>9. Next1(r) \in Names
  BY <1>2, NameIsName DEF Insert
<1>10. Mild(r)
  BY <1>3, <1>4, <1>5, <1>8 DEF Mild
<1>11. PICK t, n, o, g : /\ t = Tail(req[r].todo) /\ n = req[r].new \union {given + 1}
                         /\ o = req[r].told \union {given + 1}
                         /\ g = IF req[r].op = "put" THEN req[r].got \union {given + 1}
                                ELSE req[r].got
  OBVIOUS
<1>12. req' = [req EXCEPT ![r].step = After(r), ![r].todo = t, ![r].new = n, ![r].told = o,
                          ![r].got = g]
  BY <1>1, <1>11 DEF Insert
<1>13. req'[r] = [req[r] EXCEPT !.step = After(r), !.todo = t, !.new = n, !.told = o, !.got = g]
  BY <1>1, <1>12
<1>14. /\ req'[r].step = After(r) /\ req'[r].op = req[r].op /\ req'[r].todo = t
       /\ req'[r].got = g /\ req'[r].new = n /\ req'[r].old = req[r].old
       /\ req'[r].alone = req[r].alone
  BY <1>1, <1>13 DEF RequestRecord
<1>15. /\ req[r].op = "put" => After(r) \in {"look", "assign"}
       /\ req[r].op = "post" => After(r) \in {"insert", "commit"}
  BY <1>2, AfterType DEF TypeInv
<1>16. req[r].op = "put" /\ After(r) = "assign" => t = <<>>
  BY <1>2, <1>11, AfterAssign
<1>17. req[r].got \subseteq 1 .. given /\ req[r].new \subseteq 1 .. given
  BY <1>1 DEF Sound, Fits, TypeInv
<1>18. /\ Head(req[r].todo) \in Range(req[r].todo)
       /\ Range(t) \subseteq Range(req[r].todo)
       /\ \A s \in Range(req[r].todo) : s = Head(req[r].todo) \/ s \in Range(t)
  BY <1>2, <1>11, HeadAndTail
<1>19. ASSUME own, r = lastPut PROVE Matches(r)'
  <2>1. Matches(r) /\ req[r].op = "put" /\ g = req[r].got \union {given + 1}
    BY <1>1, <1>2, <1>11, <1>19 DEF Sound
  <2>2. Range(t) \subseteq Range(shown) /\ Head(req[r].todo) \in Range(shown)
    BY <1>18, <2>1 DEF Matches
  <2>3. name'[given + 1] = Stored(Head(req[r].todo))
    BY <1>8 DEF Next1
  <2>4. \A i \in req[r].got : name'[i] = name[i]
    BY <1>8, <1>17
  <2>5. ASSUME g \intersect renamed = {}
        PROVE  /\ \A s \in Range(shown) :
                     s \in Range(t) \/ \E i \in g : name'[i] = Stored(s)
               /\ \A i \in g : \E s \in Range(shown) : name'[i] = Stored(s)
    <3>1. /\ \A s \in Range(shown) :
                s \in Range(req[r].todo) \/ \E i \in req[r].got : name[i] = Stored(s)
          /\ \A i \in req[r].got : \E s \in Range(shown) : name[i] = Stored(s)
      BY <2>1, <2>5 DEF Matches
    <3>2. ASSUME NEW s \in Range(shown)
          PROVE  s \in Range(t) \/ \E i \in g : name'[i] = Stored(s)
      BY <1>18, <2>1, <2>3, <2>4, <3>1
    <3>3. ASSUME NEW i \in g PROVE \E s \in Range(shown) : name'[i] = Stored(s)
      BY <2>1, <2>2, <2>3, <2>4, <3>1
    <3> QED
      BY <3>2, <3>3
  <2> QED
    BY <1>3, <1>14, <2>2, <2>5 DEF Matches
<1>20. /\ r = lastPut => req[r].op = "put"
       /\ g \subseteq was \union n
       /\ \A i \in n : name'[i] \in Names
       /\ req[r].op # "put" => req[r].old = {} /\ ~req[r].alone
  BY <1>1, <1>8, <1>9, <1>11, <1>17 DEF Sound
<1>21. After(r) # "new" /\ After(r) # "flush" /\ (After(r) = "commit" => req[r].op = "post")
  BY <1>2, <1>15
<1>22. Sound(r)'
  BY <1>2, <1>3, <1>14, <1>15, <1>16, <1>19, <1>20, <1>21 DEF Sound
<1>23. Alone(r)'
  BY <1>14, <1>20, <1>21 DEF Alone
<1> QED
  BY <1>2, <1>3, <1>10, <1>14, <1>15, <1>21, <1>22, <1>23, ViewFrame DEF Passing

LEMMA InsertCommitView ==
    ASSUME TypeInv, HonestInv, ViewInv, NEW r \in Requests, InsertCommit(r)
    PROVE  ViewInv' /\ Passing(r)
<1>1. /\ req \in [Requests -> RequestRecord] /\ req[r] \in RequestRecord /\ Fits(r) /\ Sound(r)
      /\ In(r, "insert") /\ req[r].op = "submit"
  BY DEF TypeInv, TypeOK, ViewInv, InsertCommit
<1>2. req[r].step = "insert" /\ req[r].todo # <<>>
  BY <1>1 DEF Fits, In
<1>3. UNCHANGED <<attached, begun, shown, lastPut, own, renamed, clean>>
  BY DEF InsertCommit
<1>4. OnlyChanges(r)
  BY InsertCommitType
<1>5. \A q \in Requests \ {r} : req'[q] = req[q]
  BY <1>1 DEF InsertCommit
<1>6. given \in Nat /\ given + 1 \in Ids /\ given + 1 \notin 1 .. given
  BY LabelsAssumption DEF TypeInv, TypeOK, InsertCommit, Ids
<1>7. /\ name' = [name EXCEPT ![given + 1] = Next1(r)]
      /\ name \in [Ids -> Names \union {Refused}]
      /\ rows' = rows \union {given + 1} /\ was' = was \union {given + 1}
  BY DEF TypeInv, TypeOK, InsertCommit
<1>8. name'[given + 1] = Next1(r) /\ \A i \in 1 .. given : name'[i] = name[i]
  BY <1>6, <1>7
<1>9. Next1(r) \in Names
  BY <1>2, NameIsName DEF InsertCommit
<1>10. Mild(r)
  BY <1>3, <1>4, <1>5, <1>7, <1>8 DEF Mild
<1>11. req'[r] = [req[r] EXCEPT !.step = "announce", !.target = given + 1]
  BY <1>1 DEF InsertCommit
<1>12. /\ req'[r].step = "announce" /\ req'[r].op = req[r].op
       /\ req'[r].got = req[r].got /\ req'[r].new = req[r].new /\ req'[r].old = req[r].old
       /\ req'[r].alone = req[r].alone
  BY <1>1, <1>11 DEF RequestRecord
<1>13. \A i \in req[r].new : name'[i] \in Names
  BY <1>1, <1>8 DEF Sound, Fits
<1>14. Sound(r)'
  BY <1>1, <1>3, <1>7, <1>12, <1>13 DEF Sound
<1>15. Alone(r)'
  BY <1>12 DEF Alone
<1>16. \A i \in rows' \ rows : name'[i] \in Names /\ i \in was'
  BY <1>7, <1>8, <1>9
<1> QED
  BY <1>3, <1>10, <1>12, <1>14, <1>15, <1>16, ViewFrame DEF Passing

LEMMA AnnounceView ==
    ASSUME TypeInv, HonestInv, ViewInv, NEW r \in Requests, Announce(r)
    PROVE  ViewInv' /\ Passing(r)
<1>1. /\ req \in [Requests -> RequestRecord] /\ req[r] \in RequestRecord /\ Sound(r)
  BY DEF TypeInv, TypeOK, ViewInv
<1>2. /\ OnlyChanges(r) /\ req[r].op = "submit" /\ req'[r].op = "submit"
      /\ req'[r].new = req[r].new /\ req'[r].step \in {"look", "done"}
  BY AnnounceType
<1>3. UNCHANGED <<name, rows, attached, begun, shown, lastPut, own, was, renamed, clean>>
  BY DEF Announce
<1>4. \A q \in Requests \ {r} : req'[q] = req[q]
  BY <1>1 DEF Announce
<1>5. req'[r].got = req[r].got /\ req'[r].old = req[r].old /\ req'[r].alone = req[r].alone
  BY <1>1 DEF Announce, RequestRecord
<1>6. Mild(r)
  BY <1>2, <1>3, <1>4 DEF Mild
<1>7. Sound(r)'
  BY <1>1, <1>2, <1>3, <1>5 DEF Sound
<1>8. Alone(r)'
  BY <1>2 DEF Alone
<1> QED
  BY <1>2, <1>3, <1>6, <1>7, <1>8, ViewFrame DEF Passing

\* The labels of the profile are read: who is about to write them is no longer
\* alone, and the reader is alone only if nobody is.
LEMMA AssignView ==
    ASSUME TypeInv, HonestInv, ViewInv, NEW r \in Requests, Assign(r)
    PROVE  ViewInv' /\ Passing(r)
<1>1. /\ req \in [Requests -> RequestRecord] /\ req[r] \in RequestRecord /\ Fits(r) /\ Sound(r)
      /\ req[r].step = "assign"
  BY DEF TypeInv, TypeOK, ViewInv, Assign, In
<1>2. req[r].op = "put" /\ req[r].todo = <<>>
  BY <1>1 DEF Fits, Sound
<1>3. UNCHANGED <<name, rows, given, attached, begun, shown, lastPut, own, was, renamed, clean>>
  BY DEF Assign
<1>4. OnlyChanges(r)
  BY AssignType DEF Keeps
<1>5. PICK others : /\ others = {q \in Requests \ {r} : In(q, "flush") \/ In(q, "commit")}
                    /\ req' = [q \in Requests |->
                         IF q = r THEN [req[r] EXCEPT !.step = "flush", !.old = attached,
                                                      !.alone = others = {}]
                         ELSE IF q \in others THEN [req[q] EXCEPT !.alone = FALSE] ELSE req[q]]
  BY DEF Assign
<1>6. PICK b \in BOOLEAN : b = (others = {})
  OBVIOUS
<1>7. req'[r] = [req[r] EXCEPT !.step = "flush", !.old = attached, !.alone = b]
  BY <1>5, <1>6
<1>8. /\ req'[r].op = "put" /\ req'[r].step = "flush" /\ req'[r].todo = req[r].todo
      /\ req'[r].new = req[r].new /\ req'[r].got = req[r].got /\ req'[r].old = attached
      /\ req'[r].alone = b
  BY <1>1, <1>2, <1>7 DEF RequestRecord
<1>9. ASSUME NEW q \in others PROVE req'[q].alone = FALSE
  <2>1. q \in Requests \ {r} /\ req[q] \in RequestRecord
    BY <1>1, <1>5
  <2>2. req'[q] = [req[q] EXCEPT !.alone = FALSE]
    BY <1>5, <2>1
  <2> QED
    BY <2>1, <2>2 DEF RequestRecord
<1>10. ASSUME NEW q \in Requests \ {r}, q \notin others PROVE req'[q] = req[q]
  BY <1>5, <1>10
<1>11. \A q \in Requests \ {r} : req[q].step \in {"flush", "commit"} => q \in others
  BY <1>5 DEF In
<1>12. Mild(r)
  <2>1. \A q \in Requests \ {r} : req'[q].alone => req[q].alone
    BY <1>9, <1>10
  <2> QED
    BY <1>3, <1>4, <2>1 DEF Mild
<1>13. own /\ r = lastPut => Matches(r)'
  BY <1>1, <1>3, <1>8 DEF Sound, Matches
<1>14. Sound(r)'
  BY <1>1, <1>2, <1>3, <1>8, <1>13 DEF Sound
<1>15. Alone(r)'
  <2>1. ASSUME b, NEW q \in Requests \ {r} PROVE req'[q].step \notin {"flush", "commit"}
    <3>1. req[q].step \notin {"flush", "commit"}
      BY <1>6, <1>11, <2>1
    <3> QED
      BY <1>4, <3>1 DEF OnlyChanges
  <2> QED
    BY <1>3, <1>8, <2>1 DEF Alone
<1>16. \A q \in Requests \ {r} : Sound(q)'
  BY <1>3, <1>12, OthersSound
<1>17. \A q \in Requests \ {r} : Alone(q)'
  <2>1. ASSUME NEW q \in Requests \ {r}, req'[q].alone, req[q].step \in {"flush", "commit"}
        PROVE  FALSE
    BY <1>9, <1>11, <2>1
  <2> QED
    BY <1>12, <2>1, OthersAlone
<1>18. EditStored'
  BY <1>3, <1>12, ShownKept
<1>19. \A q \in Requests : Sound(q)' /\ Alone(q)'
  BY <1>14, <1>15, <1>16, <1>17
<1>20. /\ rows' \subseteq was' /\ lastPut' <= begun'
       /\ NamedRows'
  BY <1>3 DEF ViewInv, NamedRows
<1> QED
  BY <1>3, <1>8, <1>12, <1>18, <1>19, <1>20 DEF ViewInv, Passing

\* Who was alone until now is the only one to write.
LEMMA FlushView ==
    ASSUME TypeInv, HonestInv, ViewInv, NEW r \in Requests, Flush(r), ~Refuse(r)
    PROVE  ViewInv' /\ Passing(r)
<1>1. /\ req \in [Requests -> RequestRecord] /\ req[r] \in RequestRecord /\ Fits(r) /\ Sound(r)
      /\ Alone(r) /\ req[r].step = "flush"
  BY DEF TypeInv, TypeOK, ViewInv, Flush, In
<1>2. req[r].op = "put"
  BY <1>1 DEF Fits
<1>3. /\ req' = [req EXCEPT ![r].step = "commit"]
      /\ UNCHANGED <<name, rows, given, attached, begun, shown, lastPut, own, was, renamed, clean>>
  BY DEF Flush
<1>4. OnlyChanges(r)
  BY FlushType DEF Keeps
<1>5. \A q \in Requests \ {r} : req'[q] = req[q]
  BY <1>1, <1>3
<1>6. req'[r] = [req[r] EXCEPT !.step = "commit"]
  BY <1>1, <1>3
<1>7. /\ req'[r].op = "put" /\ req'[r].step = "commit" /\ req'[r].todo = req[r].todo
      /\ req'[r].new = req[r].new /\ req'[r].got = req[r].got /\ req'[r].old = req[r].old
      /\ req'[r].alone = req[r].alone
  BY <1>1, <1>2, <1>6 DEF RequestRecord
<1>8. Mild(r)
  BY <1>3, <1>4, <1>5 DEF Mild
<1>9. own /\ r = lastPut => Matches(r)'
  BY <1>1, <1>3, <1>7 DEF Sound, Matches
<1>10. Sound(r)'
  BY <1>1, <1>2, <1>3, <1>7, <1>9 DEF Sound
<1>11. Alone(r)'
  BY <1>1, <1>3, <1>5, <1>7 DEF Alone
<1>12. \A q \in Requests \ {r} : Sound(q)'
  BY <1>3, <1>8, OthersSound
<1>13. \A q \in Requests \ {r} : Alone(q)'
  <2>1. ASSUME NEW q \in Requests \ {r}, req'[q].alone, req[q].step \in {"flush", "commit"}
        PROVE  FALSE
    <3>1. Alone(q) /\ req[q].alone
      BY <1>5, <2>1 DEF ViewInv
    <3> QED
      BY <1>1, <2>1, <3>1 DEF Alone
  <2> QED
    BY <1>8, <2>1, OthersAlone
<1>14. EditStored'
  BY <1>3, <1>8, ShownKept
<1>15. \A q \in Requests : Sound(q)' /\ Alone(q)'
  BY <1>10, <1>11, <1>12, <1>13
<1>16. /\ rows' \subseteq was' /\ lastPut' <= begun'
       /\ NamedRows'
  BY <1>3 DEF ViewInv, NamedRows
<1> QED
  BY <1>3, <1>7, <1>8, <1>14, <1>15, <1>16 DEF ViewInv, Passing

\* The commit: of the last PUT, if it was alone, the profile has just its labels.
LEMMA CommitView ==
    ASSUME TypeInv, HonestInv, ViewInv, NEW r \in Requests, Commit(r)
    PROVE  ViewInv' /\ (req[r].op # "put" => Passing(r))
<1>1. /\ Fits(r) /\ Sound(r) /\ Alone(r) /\ req[r].step = "commit"
  BY DEF TypeInv, ViewInv, Commit, Stores, In
<1>2. /\ rows' = rows \union req[r].new /\ was' = was \union req[r].new
      /\ attached' = (attached \ (req[r].old \ req[r].got)) \union (req[r].got \ req[r].old)
      /\ clean' = (IF req[r].op = "put" THEN r = lastPut /\ req[r].alone ELSE clean)
      /\ Over(r, "done") /\ "done" \in Ended
      /\ UNCHANGED <<name, given, begun, shown, lastPut, own, renamed>>
  BY <1>1 DEF Commit, Stores, In, Deleted, Inserted, Ended
<1>3. OnlyChanges(r)
  BY <1>1, <1>2, OverFits
<1>4. /\ Sound(r)' /\ Alone(r)' /\ req'[r].step = "done"
      /\ \A q \in Requests \ {r} : req'[q] = req[q]
  BY <1>2, OverSound
<1>5. Mild(r)
  BY <1>2, <1>3, <1>4 DEF Mild
<1>6. req[r].op # "put" => attached' = attached
  <2>1. req[r].op # "put" => req[r].got = {} /\ req[r].old = {}
    BY <1>1 DEF Fits, Sound
  <2> QED
    BY <1>2, <2>1
<1>7. \A q \in Requests \ {r} : Sound(q)'
  BY <1>2, <1>5, OthersSound
<1>8. \A q \in Requests \ {r} : Alone(q)'
  <2>1. ASSUME NEW q \in Requests \ {r}, req'[q].alone, req[q].step \in {"flush", "commit"}
        PROVE  attached' = attached
    <3>1. Alone(q) /\ req[q].alone
      BY <1>4, <2>1 DEF ViewInv
    <3>2. req[r].op = "post"
      BY <1>1, <2>1, <3>1 DEF Alone
    <3> QED
      BY <1>6, <3>2
  <2> QED
    BY <1>4, <1>5, <2>1, OthersAlone
<1>9. EditStored'
  <2>1. CASE req[r].op # "put"
    BY <1>2, <1>5, <1>6, <2>1, ShownKept
  <2>2. CASE req[r].op = "put"
    <3> SUFFICES ASSUME own', clean', attached' \intersect renamed' = {}
                 PROVE  {name'[i] : i \in attached'} = {Stored(s) : s \in Range(shown')}
      BY DEF EditStored, Agree
    <3>1. own /\ r = lastPut /\ req[r].alone
      BY <1>2, <2>2
    <3>2. req[r].old = attached /\ Matches(r) /\ req[r].todo = <<>>
      BY <1>1, <2>2, <3>1 DEF Alone, Sound
    <3>3. attached' = req[r].got
      BY <1>2, <3>2
    <3>4. req[r].got \intersect renamed = {}
      BY <1>2, <3>3
    <3>5. Range(<<>>) = {}
      BY DEF Range
    <3>6. /\ \A s \in Range(shown) : \E i \in req[r].got : name[i] = Stored(s)
          /\ \A i \in req[r].got : \E s \in Range(shown) : name[i] = Stored(s)
      BY <3>2, <3>4, <3>5 DEF Matches
    <3>7. {name[i] : i \in req[r].got} = {Stored(s) : s \in Range(shown)}
      BY <3>6
    <3> QED
      BY <1>2, <3>3, <3>7
  <2> QED
    BY <2>1, <2>2
<1>10. \A q \in Requests : Sound(q)' /\ Alone(q)'
  BY <1>4, <1>7, <1>8
<1>11. /\ rows' \subseteq was' /\ lastPut' <= begun'
       /\ NamedRows'
  BY <1>1, <1>2 DEF ViewInv, NamedRows, Sound
<1> QED
  BY <1>4, <1>5, <1>6, <1>9, <1>10, <1>11 DEF ViewInv, Passing

LEMMA RenameView ==
    ASSUME TypeInv, HonestInv, ViewInv, NEW r \in Requests, Rename(r), ~Refuse(r)
    PROVE  ViewInv' /\ Passing(r)
<1>1. In(r, "write") /\ req[r].op = "rename" /\ Fits(r) /\ "done" \in Ended
  BY DEF TypeInv, Rename, Ended
<1>2. /\ CanRename(r) /\ name' = [name EXCEPT ![req[r].target] = Next1(r)]
      /\ renamed' = renamed \union {req[r].target} /\ Over(r, "done")
      /\ UNCHANGED <<rows, given, attached, begun, shown, lastPut, own, was, clean>>
  BY DEF Rename
<1>3. Next1(r) \in Names /\ req[r].target \in Ids
  BY <1>1, <1>2, NameIsName DEF Fits, In, CanRename
<1>4. OnlyChanges(r)
  BY <1>1, <1>2, OverFits DEF In
<1>5. /\ Sound(r)' /\ Alone(r)' /\ req'[r].step = "done"
      /\ \A q \in Requests \ {r} : req'[q] = req[q]
  BY <1>1, <1>2, OverSound
<1>6. name \in [Ids -> Names \union {Refused}] /\ 1 .. given \subseteq Ids
  BY LabelsAssumption DEF TypeInv, TypeOK, Ids
<1>7. Mild(r)
  BY <1>2, <1>3, <1>4, <1>5, <1>6 DEF Mild
<1> QED
  BY <1>1, <1>2, <1>5, <1>7, ViewFrame DEF Passing

LEMMA DeleteView ==
    ASSUME TypeInv, HonestInv, ViewInv, NEW r \in Requests, Delete(r), ~Refuse(r)
    PROVE  ViewInv' /\ Passing(r)
<1>1. In(r, "write") /\ req[r].op = "delete" /\ "done" \in Ended
  BY DEF Delete, Ended
<1>2. /\ rows' = rows \ {req[r].target} /\ Over(r, "done")
      /\ UNCHANGED <<name, given, attached, begun, shown, lastPut, own, was, renamed, clean>>
  BY DEF Delete
<1>3. OnlyChanges(r)
  BY <1>1, <1>2, OverFits DEF In
<1>4. /\ Sound(r)' /\ Alone(r)' /\ req'[r].step = "done"
      /\ \A q \in Requests \ {r} : req'[q] = req[q]
  BY <1>1, <1>2, OverSound
<1>5. Mild(r)
  BY <1>2, <1>3, <1>4 DEF Mild
<1> QED
  BY <1>1, <1>2, <1>4, <1>5, ViewFrame DEF Passing

LEMMA ViewRequestStep ==
    ASSUME TypeInv, HonestInv, ViewInv, NEW r \in Requests, RequestStep(r)
    PROVE  ViewInv' /\ (~(Commit(r) /\ req[r].op = "put") => Passing(r))
<1>1. CASE Clash(r)
  BY <1>1, RefuseView DEF Clash, In
<1>2. CASE AnnounceGone(r)
  BY <1>2, RefuseView DEF AnnounceGone, In
<1>3. CASE Flush(r)
  BY <1>3, FlushView, RefuseView DEF Flush, In
<1>4. CASE Rename(r)
  BY <1>4, RenameView, RefuseView DEF Rename, In
<1>5. CASE Delete(r)
  BY <1>5, DeleteView, RefuseView DEF Delete, In
<1>6. CASE Abort(r)
  <2>1. PICK q \in Requests : Waits(r, q)
    BY <1>6 DEF Abort, Deadlocked
  <2>2. In(r, "insert") \/ In(r, "write")
    BY <2>1 DEF Waits, Wanted
  <2> QED
    BY <1>6, <2>2, RefuseView DEF Abort, In
<1> QED
  BY <1>1, <1>2, <1>3, <1>4, <1>5, <1>6, LookView, InsertView, InsertCommitView,
     AnnounceView, AssignView, CommitView DEF RequestStep

\* A request is begun; if it is a PUT, it is the view's last, and has all the
\* names still before it.
LEMMA BeginView ==
    ASSUME TypeInv, HonestInv, ViewInv, NEW op, NEW step \in {"insert", "look", "assign", "write"},
           NEW names \in Seq(Written), NEW i \in 0 .. MaxLabels, Begin(op, step, names, i),
           op \in {"post", "put", "submit", "rename", "delete"},
           step = "assign" => names = <<>>,
           \/ UNCHANGED <<shown, lastPut, own, clean>>
           \/ op = "put" /\ shown' = names /\ lastPut' = begun + 1 /\ clean' = FALSE
    PROVE  ViewInv'
<1> PICK r : r = begun + 1
  OBVIOUS
<1>1. /\ begun \in Nat /\ begun' = r /\ r \in Requests /\ r > begun
  BY LabelsAssumption DEF TypeInv, TypeOK, Begin, Requests
<1>2. req[r] \in RequestRecord /\ req \in [Requests -> RequestRecord] /\ Sound(r)
  BY <1>1 DEF TypeInv, TypeOK, ViewInv
<1>3. req[r].step = "new" /\ req[r].new = {} /\ req[r].got = {}
  BY <1>1 DEF TypeInv, Fits
<1>4. req' = [req EXCEPT ![r].op = op, ![r].step = step, ![r].todo = names, ![r].target = i]
  BY DEF Begin
<1>5. PICK p : p = [req[r] EXCEPT !.op = op, !.step = step, !.todo = names, !.target = i]
  OBVIOUS
<1>6. /\ p \in RequestRecord /\ p.op = op /\ p.step = step /\ p.todo = names
      /\ p.new = req[r].new /\ p.got = req[r].got /\ p.old = req[r].old
      /\ p.alone = req[r].alone
  <2>1. step \in Steps
    BY DEF Steps
  <2> QED
    BY <1>2, <1>5, <2>1 DEF RequestRecord
<1>7. req' = [req EXCEPT ![r] = p]
  BY <1>1, <1>2, <1>4, <1>5
<1>8. OnlyChanges(r) /\ req'[r] = p /\ \A q \in Requests \ {r} : req'[q] = req[q]
  BY <1>1, <1>2, <1>6, <1>7, OneRequest
<1>9. UNCHANGED <<name, rows, given, attached, was, renamed>>
  BY DEF Begin
<1>10. Mild(r)
  BY <1>1, <1>8, <1>9 DEF Mild
<1>11. p.new = {} /\ p.got = {} /\ p.old = {} /\ ~p.alone
  BY <1>2, <1>3, <1>6 DEF Sound
<1>12. r = lastPut' => op = "put" /\ shown' = names
  <2>1. lastPut <= begun /\ lastPut \in Nat
    BY DEF ViewInv, TypeInv, TypeOK
  <2> QED
    BY <1>1, <2>1
<1>13. r = lastPut' => Matches(r)'
  BY <1>1, <1>6, <1>8, <1>11, <1>12 DEF Matches
<1>14. Sound(r)'
  <2>1. step \notin {"new", "flush", "commit"}
    OBVIOUS
  <2> QED
    BY <1>1, <1>6, <1>8, <1>11, <1>12, <1>13, <2>1 DEF Sound
<1>15. Alone(r)'
  BY <1>6, <1>8, <1>11 DEF Alone
<1>16. \A q \in Requests \ {r} : Sound(q)'
  BY <1>1, <1>10, OthersSound
<1>17. \A q \in Requests \ {r} : Alone(q)'
  <2>1. step # "flush" /\ step # "commit"
    OBVIOUS
  <2> QED
    BY <1>1, <1>6, <1>8, <1>9, <1>10, <2>1, OthersAlone
<1>18. EditStored'
  <2>1. CASE clean' = FALSE
    BY <2>1 DEF EditStored
  <2>2. CASE UNCHANGED <<shown, own, clean>>
    BY <1>1, <1>9, <1>10, <2>2, ShownKept
  <2> QED
    BY <2>1, <2>2
<1>19. \A q \in Requests : Sound(q)' /\ Alone(q)'
  BY <1>14, <1>15, <1>16, <1>17
<1>20. rows' \subseteq was' /\ NamedRows'
  BY <1>9 DEF ViewInv, NamedRows
<1>21. lastPut' <= begun'
  <2>1. lastPut <= begun /\ lastPut \in Nat
    BY DEF ViewInv, TypeInv, TypeOK
  <2> QED
    BY <1>1, <2>1
<1> QED
  BY <1>18, <1>19, <1>20, <1>21 DEF ViewInv

LEMMA AskView ==
    ASSUME TypeInv, HonestInv, ViewInv,
           \/ \E names \in Lists : Post(names) \/ Submit(names) \/ PutElsewhere(names)
           \/ \E s \in Written : AddLabel(s)
           \/ \E k \in 1 .. MaxRequests : RemoveLabel(k)
           \/ \E i \in rows : AskDelete(i) \/ \E s \in Written : AskRename(i, s)
    PROVE  ViewInv'
<1>1. 0 \in 0 .. MaxLabels /\ rows \subseteq 0 .. MaxLabels
  BY LabelsAssumption DEF TypeInv, TypeOK, Ids
<1>2. CASE \E names \in Lists : Post(names) \/ Submit(names) \/ PutElsewhere(names)
  <2>1. PICK names \in Lists : Post(names) \/ Submit(names) \/ PutElsewhere(names)
    BY <1>2
  <2>2. names \in Seq(Written)
    BY LabelsAssumption
  <2>3. CASE Post(names)
    BY <1>1, <2>2, <2>3, BeginView DEF Post
  <2>4. CASE Submit(names)
    BY <1>1, <2>2, <2>4, BeginView DEF Submit
  <2>5. CASE PutElsewhere(names)
    BY <1>1, <2>2, <2>5, BeginView DEF PutElsewhere
  <2> QED
    BY <2>1, <2>3, <2>4, <2>5
<1>3. ASSUME NEW labels \in Seq(Written), Put(labels) PROVE ViewInv'
  <2>1. PICK step : step = IF labels = <<>> THEN "assign" ELSE "look"
    OBVIOUS
  <2>2. /\ Begin("put", step, labels, 0) /\ shown' = labels /\ lastPut' = begun + 1
        /\ clean' = FALSE
    BY <1>3, <2>1 DEF Put
  <2> QED
    BY <1>1, <2>1, <2>2, BeginView
<1>4. CASE \E s \in Written : AddLabel(s)
  <2>1. PICK s \in Written : Put(Append(shown, s))
    BY <1>4 DEF AddLabel
  <2>2. Append(shown, s) \in Seq(Written)
    BY TypeFacts
  <2> QED
    BY <1>3, <2>1, <2>2
<1>5. CASE \E k \in 1 .. MaxRequests : RemoveLabel(k)
  <2>1. PICK k \in DOMAIN shown : Put(RemoveAt(shown, k))
    BY <1>5 DEF RemoveLabel
  <2>2. RemoveAt(shown, k) \in Seq(Written)
    BY TypeFacts, RemoveAtType
  <2> QED
    BY <1>3, <2>1, <2>2
<1>6. CASE \E i \in rows : AskDelete(i) \/ \E s \in Written : AskRename(i, s)
  <2>1. PICK i \in rows : AskDelete(i) \/ \E s \in Written : AskRename(i, s)
    BY <1>6
  <2>2. i \in 0 .. MaxLabels
    BY <1>1
  <2>3. CASE AskDelete(i)
    <3>1. <<>> \in Seq(Written)
      OBVIOUS
    <3> QED
      BY <2>2, <2>3, <3>1, BeginView DEF AskDelete
  <2>4. CASE \E s \in Written : AskRename(i, s)
    <3>1. PICK s \in Written : AskRename(i, s)
      BY <2>4
    <3>2. <<s>> \in Seq(Written)
      OBVIOUS
    <3> QED
      BY <2>2, <3>1, <3>2, BeginView DEF AskRename
  <2> QED
    BY <2>1, <2>3, <2>4
<1> QED
  BY <1>2, <1>4, <1>5, <1>6

LEMMA ViewStep == TypeInv /\ HonestInv /\ ViewInv /\ [Next]_vars => ViewInv'
<1> SUFFICES ASSUME TypeInv, HonestInv, ViewInv, [Next]_vars PROVE ViewInv'
  OBVIOUS
<1>1. CASE \E r \in Requests : RequestStep(r)
  BY <1>1, ViewRequestStep
<1>2. ASSUME FetchStep \/ UNCHANGED vars PROVE ViewInv'
  <2>1. /\ UNCHANGED <<name, rows, given, attached, req, begun, lastPut, was, renamed, clean>>
        /\ UNCHANGED <<shown, own>> \/ ~own'
    <3>1. FetchStep => UNCHANGED <<shown, own>> \/ ~own'
      BY DEF FetchStep, PageRead, PageAnswer, PageFail, ProfileEvent, ProfileRead,
             ProfileAnswer, ProfileFail
    <3> QED
      BY <1>2, <3>1, FetchFrame
  <2>2. ASSUME NEW r \in Requests PROVE Sound(r)' /\ Alone(r)'
    <3>1. own' /\ Matches(r) => own /\ Matches(r)'
      BY <2>1 DEF Matches
    <3>2. own' => own
      BY <2>1
    <3>3. Sound(r) /\ Alone(r)
      BY DEF ViewInv
    <3> QED
      BY <2>1, <3>1, <3>2, <3>3 DEF Sound, Alone
  <2>3. EditStored'
    BY <2>1 DEF ViewInv, EditStored, Agree
  <2> QED
    BY <2>1, <2>2, <2>3 DEF ViewInv, NamedRows
<1> QED
  BY <1>1, <1>2, AskView, NextSteps

-----------------------------------------------------------------------------
(* What the view shows when everything is answered *)

\* No answer is on its way that has not been overtaken; if the last one has
\* been, all have.
Spent(list) == list = <<>> \/ list[Len(list)].overtaken
InOrder(list) ==
    list # <<>> /\ list[Len(list)].overtaken => \A k \in DOMAIN list : list[k].overtaken

LEMMA WithoutSpent ==
    ASSUME NEW S, NEW list \in Seq([labels : S, overtaken : BOOLEAN]), NEW k \in DOMAIN list,
           InOrder(list)
    PROVE  /\ InOrder(Without(list, k))
           /\ k = Len(list) \/ list[Len(list)].overtaken => Spent(Without(list, k))
           /\ k # Len(list) => /\ Without(list, k) # <<>>
                              /\ Without(list, k)[Len(Without(list, k))] = list[Len(list)]
           /\ list[Len(list)].overtaken => list[k].overtaken
           /\ list # <<>>
<1> PICK n, w : n = Len(list) /\ w = Without(list, k)
  OBVIOUS
<1>1. n \in Nat /\ k \in 1 .. n /\ DOMAIN list = 1 .. n /\ list # <<>>
  OBVIOUS
<1>2. \A j \in 1 .. n : list[j] \in [labels : S, overtaken : BOOLEAN]
  <2>1. \A T : list \in Seq(T) => \A j \in 1 .. Len(list) : list[j] \in T
    OBVIOUS
  <2> QED
    BY <2>1
<1>3. w = [j \in 1 .. n - 1 |-> IF j < k THEN [list[j] EXCEPT !.overtaken = TRUE] ELSE list[j + 1]]
  BY DEF Without
<1>4. DOMAIN w = 1 .. n - 1 /\ Len(w) = n - 1
  <2>1. n - 1 \in Nat
    BY <1>1
  <2> QED
    BY <1>3, <2>1
<1>5. ASSUME NEW j \in 1 .. n - 1, j < k PROVE w[j].overtaken
  BY <1>1, <1>2, <1>3, <1>5
<1>6. ASSUME NEW j \in 1 .. n - 1, ~(j < k) PROVE w[j] = list[j + 1] /\ j + 1 \in 1 .. n
  BY <1>1, <1>3, <1>6
<1>7. list[n].overtaken => \A j \in 1 .. n : list[j].overtaken
  BY <1>1 DEF InOrder
<1>8. ASSUME k = n \/ list[n].overtaken, NEW j \in 1 .. n - 1 PROVE w[j].overtaken
  <2>1. CASE j < k
    BY <1>5, <2>1
  <2>2. CASE ~(j < k)
    BY <1>1, <1>6, <1>7, <1>8, <2>2
  <2> QED
    BY <2>1, <2>2
<1>9. ASSUME k # n PROVE w # <<>> /\ w[Len(w)] = list[n]
  <2>1. n - 1 \in 1 .. n - 1 /\ ~(n - 1 < k) /\ (n - 1) + 1 = n
    BY <1>1, <1>9
  <2>2. w[n - 1] = list[(n - 1) + 1]
    BY <1>6, <2>1
  <2>3. w # <<>>
    BY <1>4, <2>1
  <2> QED
    BY <1>4, <2>1, <2>2, <2>3
<1>10. ASSUME k = n \/ list[n].overtaken PROVE Spent(w)
  <2>1. CASE n = 1
    BY <1>3, <2>1 DEF Spent
  <2>2. CASE n # 1
    <3>1. n - 1 \in 1 .. n - 1
      BY <1>1, <2>2
    <3> QED
      BY <1>4, <1>8, <1>10, <3>1 DEF Spent
  <2> QED
    BY <2>1, <2>2
<1>11. InOrder(w)
  <2>1. CASE k = n \/ list[n].overtaken
    BY <1>4, <1>8, <2>1 DEF InOrder
  <2>2. CASE k # n /\ ~list[n].overtaken
    BY <1>9, <2>2 DEF InOrder
  <2> QED
    BY <2>1, <2>2
<1> QED
  BY <1>1, <1>7, <1>9, <1>10, <1>11

\* The labels of the profile have these names.
Named(list) ==
    attached \intersect renamed = {} => Range(list) = {name[i] : i \in attached}

\* What the view has read last has the labels of the profile, or it will read
\* again; once this answer is there, the view shows it, or an edit that is not
\* stored.
Informed ==
    \/ gets > 0
    \/ ~Spent(profiles) /\ Named(profiles[Len(profiles)].labels)
    \/ Spent(profiles) /\ (behind \/ IF own THEN req[lastPut].step # "done" ELSE Named(shown))

ToldInv ==
    /\ own => lastPut \in Requests /\ req[lastPut].step # "new"
    /\ InOrder(profiles) /\ Informed

LEMMA ToldInit == Init => ToldInv
<1> SUFFICES ASSUME Init PROVE ToldInv
  OBVIOUS
<1>1. profiles = <<>> /\ own = FALSE
  BY DEF Init
<1>2. Range(shown) = {name[i] : i \in attached}
  <2>1. PICK n \in Names \union {Refused} : name = [i \in Ids |-> IF i = 1 THEN n ELSE Refused]
    BY DEF Init
  <2>2. CASE attached = {}
    BY <2>2 DEF Init, Range
  <2>3. CASE attached # {}
    <3>1. attached = {1}
      BY <2>1, <2>3 DEF Init
    <3>2. shown = <<name[1]>>
      BY <2>3 DEF Init
    <3>3. Range(shown) = {name[1]}
      BY <3>2 DEF Range
    <3> QED
      BY <3>1, <3>3
  <2> QED
    BY <2>2, <2>3
<1> QED
  BY <1>1, <1>2 DEF ToldInv, InOrder, Informed, Spent, Named

\* Labels of the profile keep their names, unless they are renamed.
LEMMA NamedKept ==
    ASSUME TypeInv, HonestInv, ViewInv, NEW r \in Requests, Mild(r), attached' = attached,
           NEW list, Named(list)
    PROVE  attached \intersect renamed' = {} => Range(list) = {name'[i] : i \in attached}
<1>1. attached \subseteq (1 .. given) \ req[r].new
  <2>1. attached \subseteq rows /\ rows \subseteq was /\ was \subseteq 1 .. given
    BY DEF TypeInv, TypeOK, ViewInv
  <2>2. req[r].new \intersect was = {}
    BY DEF HonestInv, Honest
  <2> QED
    BY <2>1, <2>2
<1> SUFFICES ASSUME attached \intersect renamed' = {} PROVE Range(list) = {name'[i] : i \in attached}
  OBVIOUS
<1>2. \A i \in attached : name'[i] = name[i]
  BY <1>1 DEF Mild
<1>3. Range(list) = {name[i] : i \in attached}
  BY DEF Mild, Named
<1> QED
  BY <1>2, <1>3

\* A step of a request that stores no labels of the profile.
LEMMA ToldFrame ==
    ASSUME TypeInv, HonestInv, ViewInv, ToldInv, NEW r \in Requests, Mild(r),
           UNCHANGED <<attached, shown, lastPut, own, gets, profiles, behind>>,
           req'[r].step # "new", req[r].op = "put" => req'[r].step # "done"
    PROVE  ToldInv'
<1>1. \A q \in Requests \ {r} : req'[q].step = req[q].step
  BY DEF Mild, OnlyChanges
<1>2. own => lastPut' \in Requests /\ req'[lastPut'].step # "new"
  BY <1>1 DEF ToldInv
<1>3. \A list : Named(list) => Named(list)'
  BY NamedKept DEF Named
<1>4. own /\ req[lastPut].step # "done" => req'[lastPut].step # "done"
  BY <1>1 DEF ToldInv, ViewInv, Sound
<1>5. Informed'
  <2>1. CASE gets > 0
    BY <2>1 DEF Informed
  <2>2. CASE ~Spent(profiles) /\ Named(profiles[Len(profiles)].labels)
    BY <1>3, <2>2 DEF Informed, Spent, Named
  <2>3. CASE Spent(profiles) /\ (behind \/ IF own THEN req[lastPut].step # "done" ELSE Named(shown))
    BY <1>3, <1>4, <2>3 DEF Informed, Spent, Named
  <2> QED
    BY <2>1, <2>2, <2>3 DEF ToldInv, Informed
<1> QED
  BY <1>2, <1>5 DEF ToldInv, InOrder

\* A request that stores nothing yet, or none of the labels of the profile.
LEMMA ToldRequestStep ==
    ASSUME TypeInv, HonestInv, ViewInv, ToldInv, NEW r \in Requests, RequestStep(r)
    PROVE  ToldInv'
<1>1. CASE Commit(r) /\ req[r].op = "put"
  <2>1. /\ Over(r, "done") /\ gets' = gets + 1 /\ begun' = begun /\ given' = given
        /\ UNCHANGED <<lastPut, own, profiles>> /\ req[r].step # "new"
    BY <1>1 DEF Commit, Stores, In
  <2>2. OnlyChanges(r) /\ req'[r].step = "done"
    BY <2>1, OverFits DEF Ended
  <2>3. gets' > 0
    BY <2>1 DEF TypeInv, TypeOK
  <2>4. own => lastPut' \in Requests /\ req'[lastPut'].step # "new"
    BY <2>1, <2>2 DEF ToldInv, OnlyChanges
  <2> QED
    BY <2>1, <2>3, <2>4 DEF ToldInv, InOrder, Informed
<1>2. CASE ~(Commit(r) /\ req[r].op = "put")
  <2>1. Passing(r)
    BY <1>2, ViewRequestStep
  <2>2. UNCHANGED <<shown, lastPut, own, gets, profiles, behind>>
    BY <1>2 DEF RequestStep, Look, Clash, Insert, InsertCommit, Announce, AnnounceGone, Assign,
                Flush, Commit, Stores, Rename, Delete, Abort, Refuse
  <2> QED
    BY <2>1, <2>2, ToldFrame DEF Passing
<1> QED
  BY <1>1, <1>2

\* A request is begun.
LEMMA ToldBegins ==
    ASSUME TypeInv, HonestInv, ViewInv, ToldInv,
           \/ \E names \in Lists : Post(names) \/ Submit(names) \/ PutElsewhere(names)
           \/ \E s \in Written : AddLabel(s)
           \/ \E k \in 1 .. MaxRequests : RemoveLabel(k)
           \/ \E i \in rows : AskDelete(i) \/ \E s \in Written : AskRename(i, s)
    PROVE  ToldInv'
<1>1. PICK op, step, names, i :
        /\ Begin(op, step, names, i) /\ UNCHANGED <<gets, profiles, behind>>
        /\ step \in {"insert", "look", "assign", "write"}
        /\ \/ UNCHANGED <<shown, lastPut, own>>
           \/ lastPut' = begun + 1 /\ own' = TRUE
  <2>1. ASSUME NEW labels, Put(labels)
        PROVE  \E step : /\ Begin("put", step, labels, 0) /\ UNCHANGED <<gets, profiles, behind>>
                         /\ step \in {"insert", "look", "assign", "write"}
                         /\ lastPut' = begun + 1 /\ own' = TRUE
    BY <2>1 DEF Put
  <2> QED
    BY <2>1 DEF Post, Submit, PutElsewhere, AddLabel, RemoveLabel, AskDelete, AskRename
<1> PICK r : r = begun + 1
  OBVIOUS
<1>2. r \in Requests /\ r > begun /\ begun \in Nat
  BY <1>1, LabelsAssumption DEF TypeInv, TypeOK, Begin, Requests
<1>3. /\ \A q \in Requests \ {r} : req'[q] = req[q]
      /\ req'[r].step = step
  <2>1. req \in [Requests -> RequestRecord] /\ req[r] \in RequestRecord
    BY <1>2 DEF TypeInv, TypeOK
  <2>2. req' = [req EXCEPT ![r].op = op, ![r].step = step, ![r].todo = names, ![r].target = i]
    BY <1>1 DEF Begin
  <2>3. req'[r] = [req[r] EXCEPT !.op = op, !.step = step, !.todo = names, !.target = i]
    BY <1>2, <2>1, <2>2
  <2> QED
    BY <1>2, <2>1, <2>2, <2>3 DEF RequestRecord
<1>4. UNCHANGED <<name, attached, renamed>>
  BY <1>1 DEF Begin
<1>5. step # "new" /\ step # "done"
  BY <1>1
<1>6. own' => lastPut' \in Requests /\ req'[lastPut'].step # "new"
  BY <1>1, <1>2, <1>3, <1>5 DEF ToldInv
<1>7. CASE UNCHANGED <<shown, lastPut, own>>
  <2>1. own => lastPut \in Requests \ {r}
    BY <1>2 DEF ToldInv, ViewInv
  <2> QED
    BY <1>1, <1>3, <1>4, <1>6, <1>7, <2>1 DEF ToldInv, InOrder, Informed, Spent, Named
<1>8. CASE lastPut' = r /\ own' = TRUE
  <2>1. req'[lastPut'].step # "done"
    BY <1>3, <1>5, <1>8
  <2> QED
    BY <1>1, <1>4, <1>6, <1>8, <2>1 DEF ToldInv, InOrder, Informed, Spent, Named
<1> QED
  BY <1>1, <1>7, <1>8

\* The view reads the labels of the profile.
LEMMA ToldRead ==
    ASSUME TypeInv, ViewInv, ToldInv, ProfileRead
    PROVE  ToldInv'
<1>1. PICK a : a = [labels |-> Sorted({name[i] : i \in attached}), overtaken |-> FALSE]
  OBVIOUS
<1>2. /\ profiles' = Append(profiles, a)
      /\ UNCHANGED <<name, attached, req, renamed, lastPut, own>>
  BY <1>1 DEF ProfileRead
<1>3. profiles \in Seq([labels : Seq(Names), overtaken : BOOLEAN])
  BY DEF TypeInv, TypeOK
<1>4. profiles' # <<>> /\ profiles'[Len(profiles')] = a
  BY <1>2, <1>3
<1>5. a.overtaken = FALSE /\ Range(a.labels) = {name[i] : i \in attached}
  <2>1. {name[i] : i \in attached} \in SUBSET Names
    BY DEF TypeInv, TypeOK, ViewInv, NamedRows
  <2> QED
    BY <1>1, <2>1, SortedAssumption
<1> QED
  BY <1>2, <1>4, <1>5 DEF ToldInv, InOrder, Informed, Spent, Named

\* An answer arrives, or will not.
LEMMA ToldAnswer ==
    ASSUME TypeInv, ToldInv, NEW k \in DOMAIN profiles, ProfileAnswer(k) \/ ProfileFail(k)
    PROVE  ToldInv'
<1>1. /\ profiles \in Seq([labels : Seq(Names), overtaken : BOOLEAN])
      /\ profiles' = Without(profiles, k)
      /\ UNCHANGED <<name, attached, req, renamed, lastPut, gets>>
      /\ own' => own
  BY DEF ProfileAnswer, ProfileFail, TypeInv, TypeOK
<1>2. /\ InOrder(profiles')
      /\ k = Len(profiles) \/ profiles[Len(profiles)].overtaken => Spent(profiles')
      /\ k # Len(profiles) => /\ profiles' # <<>>
                             /\ profiles'[Len(profiles')] = profiles[Len(profiles)]
      /\ profiles[Len(profiles)].overtaken => profiles[k].overtaken
      /\ profiles # <<>>
  BY <1>1, WithoutSpent DEF ToldInv
<1>3. Informed'
  <2>1. CASE gets > 0
    BY <1>1, <2>1 DEF Informed
  <2>2. CASE ~Spent(profiles) /\ Named(profiles[Len(profiles)].labels)
    <3>1. CASE k # Len(profiles)
      BY <1>1, <1>2, <2>2, <3>1 DEF Informed, Spent, Named
    <3>2. CASE k = Len(profiles)
      <4>1. Spent(profiles') /\ ~profiles[k].overtaken
        BY <1>2, <2>2, <3>2 DEF Spent
      <4>2. CASE ProfileAnswer(k)
        BY <1>1, <2>2, <3>2, <4>1, <4>2 DEF ProfileAnswer, Informed, Named
      <4>3. CASE ProfileFail(k)
        BY <4>1, <4>3 DEF ProfileFail, Informed
      <4> QED
        BY <4>2, <4>3
    <3> QED
      BY <3>1, <3>2
  <2>3. CASE Spent(profiles) /\ (behind \/ IF own THEN req[lastPut].step # "done" ELSE Named(shown))
    <3>1. Spent(profiles') /\ profiles[k].overtaken
      BY <1>2, <2>3 DEF Spent
    <3>2. CASE ProfileAnswer(k)
      BY <3>1, <3>2 DEF ProfileAnswer, Informed
    <3>3. CASE ProfileFail(k)
      BY <1>1, <2>3, <3>1, <3>3 DEF ProfileFail, Informed, Named
    <3> QED
      BY <3>2, <3>3
  <2> QED
    BY <2>1, <2>2, <2>3 DEF ToldInv, Informed
<1> QED
  BY <1>1, <1>2, <1>3 DEF ToldInv

LEMMA ToldStep == TypeInv /\ HonestInv /\ ViewInv /\ ToldInv /\ [Next]_vars => ToldInv'
<1> SUFFICES ASSUME TypeInv, HonestInv, ViewInv, ToldInv, [Next]_vars PROVE ToldInv'
  OBVIOUS
<1>1. CASE \E r \in Requests : RequestStep(r)
  BY <1>1, ToldRequestStep
<1>2. CASE ProfileRead
  BY <1>2, ToldRead
<1>3. ASSUME NEW k \in DOMAIN profiles, ProfileAnswer(k) \/ ProfileFail(k) PROVE ToldInv'
  BY <1>3, ToldAnswer
<1>4. CASE ProfileEvent
  <2>1. gets' > 0 /\ UNCHANGED <<req, lastPut, own, profiles>>
    BY <1>4 DEF ProfileEvent, TypeInv, TypeOK
  <2> QED
    BY <2>1 DEF ToldInv, InOrder, Informed
<1>5. ASSUME \/ UNCHANGED vars \/ PageRead
             \/ \E k \in DOMAIN answers : PageAnswer(k) \/ PageFail(k)
      PROVE  ToldInv'
  <2>1. UNCHANGED <<name, attached, req, renamed, viewVars>>
    BY <1>5 DEF PageRead, PageAnswer, PageFail
  <2> QED
    BY <2>1 DEF ToldInv, InOrder, Informed, Spent, Named
<1> QED
  BY <1>1, <1>2, <1>3, <1>4, <1>5, ToldBegins DEF Next

-----------------------------------------------------------------------------
(* The theorems *)

LabelsInv == TypeInv /\ HonestInv /\ PageInv /\ ViewInv /\ ToldInv

LEMMA LabelsInvHolds == Spec => []LabelsInv
<1>1. Init => LabelsInv
  BY TypeInit, HonestInit, PageInit, ViewInit, ToldInit DEF LabelsInv
<1>2. ViewInv => NamedRows
  BY DEF ViewInv
<1>3. LabelsInv /\ [Next]_vars => LabelsInv'
  BY <1>2, TypeStep, HonestStep, PageStep, ViewStep, ToldStep DEF LabelsInv
<1> QED
  BY <1>1, <1>3, PTL DEF Spec

(***************************************************************************)
(* The state is well typed; in particular a profile has labels only that   *)
(* are stored, whoever deletes labels while profiles are saved             *)
(* (label_join_profile in lib/model/profile.py), and no label is inserted  *)
(* by two requests.                                                        *)
(***************************************************************************)
THEOREM LabelTypesCorrect == Spec => []TypeOK
<1>1. LabelsInv => TypeOK
  BY DEF LabelsInv, TypeInv
<1> QED
  BY <1>1, LabelsInvHolds, PTL

(***************************************************************************)
(* For any number of requests, names and labels: what a request that was   *)
(* answered without an error has announced is stored, and nothing of what  *)
(* a refused one has announced; what a submission announces is stored in   *)
(* any case (label.py, profile.py).                                        *)
(***************************************************************************)
THEOREM AnnouncedIsKept == Spec => []AllOrNothing
<1>1. LabelsInv => AllOrNothing
  BY DEF LabelsInv, HonestInv, Honest, AllOrNothing
<1> QED
  BY <1>1, LabelsInvHolds, PTL

LEMMA PageListsAll == PageInv => PageFollowsEvents
<1> SUFFICES ASSUME PageInv, Quiet, asks = 0, answers = <<>>, ~late, NEW i \in rows \ listed
             PROVE  Early(i)
  BY DEF PageFollowsEvents, Early
<1>1. ~Coming(i)
  BY DEF Coming
<1>2. \A r \in Requests : req[r].step # "announce"
  BY DEF Quiet, Ended
<1> QED
  BY <1>1, <1>2 DEF PageInv

LEMMA ViewShowsAll == TypeInv /\ ViewInv /\ ToldInv => ShownIsStored
<1> SUFFICES ASSUME TypeInv, ViewInv, ToldInv, Quiet, gets = 0, profiles = <<>>, ~behind,
                    own => req[lastPut].step # "refused",
                    attached \intersect renamed = {}
             PROVE  {name[i] : i \in attached} = {Stored(s) : s \in Range(shown)}
  BY DEF ShownIsStored, ViewInv, EditStored, Agree
<1>1. ~own
  <2>1. own => req[lastPut].step \in {"done", "refused"}
    BY DEF ToldInv, Quiet, Ended
  <2> QED
    BY <2>1 DEF ToldInv, Informed, Spent
<1>2. Range(shown) = {name[i] : i \in attached}
  BY <1>1 DEF ToldInv, Informed, Spent, Named
<1>3. \A i \in attached : name[i] \in Names
  BY DEF TypeInv, TypeOK, ViewInv, NamedRows
<1>4. \A s \in Range(shown) : Stored(s) = s
  BY <1>2, <1>3, LabelsAssumption
<1>5. {Stored(s) : s \in Range(shown)} = Range(shown)
  BY <1>4
<1> QED
  BY <1>2, <1>5

(***************************************************************************)
(* For any number of requests, names and labels: once everything is        *)
(* answered the view of a profile shows the labels that are stored,        *)
(* whatever answers have taken edits back meanwhile, unless the newest     *)
(* answer was lost or overwritten, or the last PUT was refused; and the    *)
(* profile has what the view's last PUT asked for if it committed last and *)
(* alone (profile.py, view.dart).                                          *)
(***************************************************************************)
THEOREM ViewAgrees == Spec => []ShownIsStored
<1>1. LabelsInv => ShownIsStored
  BY ViewShowsAll DEF LabelsInv
<1> QED
  BY <1>1, LabelsInvHolds, PTL

(***************************************************************************)
(* For any number of requests, names and labels: once everything is        *)
(* answered the page lists every label but those that were announced       *)
(* before their commit, unless its newest answer was lost or overwritten   *)
(* (label.py, label/list.dart).                                            *)
(***************************************************************************)
THEOREM PageAgrees == Spec => []PageFollowsEvents
<1>1. LabelsInv => PageFollowsEvents
  BY PageListsAll DEF LabelsInv
<1> QED
  BY <1>1, LabelsInvHolds, PTL

-----------------------------------------------------------------------------
(* Notes *)

USE DEF writerVars, noteViewVars, notePageVars, notesVars

-----------------------------------------------------------------------------
(* Types, and the history of the table *)

Started == {w \in Writers : wpc[w] # "new"}
Finished == {w \in Writers : wpc[w] = "over"}

\* Each request commits once and sends one event at most, and each event makes
\* the page send one request.
Counted ==
    /\ Len(log) = 1 + Cardinality(Started)
    /\ sent + Len(wire) <= 1 + Cardinality(Finished)

\* What a note contains carries the number of its commit; a note is there from
\* its first commit until it is deleted, and contains newer and newer things.
History ==
    /\ \A k \in 1 .. Len(log), n \in NoteIds : log[k][n] <= k
    /\ \A n \in NoteIds, j, k, l \in 1 .. Len(log) :
          j <= k /\ k <= l /\ log[j][n] # 0 /\ log[l][n] # 0 =>
             /\ log[k][n] # 0 /\ log[j][n] <= log[k][n] /\ log[k][n] <= log[l][n]

\* What the requests hold in their hands when they publish.
Holding ==
    \A w \in Writers :
       /\ wpc[w] = "publish" =>
             /\ wread[w] # 0
             /\ \E k \in 1 .. Len(log) : wread[w] = log[k][wnote[w]]
       /\ wpc[w] = "publish deletion" =>
             /\ Rows[wnote[w]] = 0 /\ Everywhere(wnote[w]) # {}
             /\ \A k \in 1 .. Len(log) : log[k][wnote[w]] < wread[w]

\* Answers know the table as it was at some time; a request that has not been
\* sent has not been read.
Reads ==
    /\ vread <= Len(log) /\ (vstep \in {"read", "open"} => vread # 0)
    /\ pending \subseteq 1 .. sent
    /\ \A k \in Fetches : pread[k] <= Len(log) /\ (k > sent => pread[k] = 0)
    /\ newest <= Len(log)

NotesBase == NotesTypes /\ Counted /\ History /\ Holding /\ Reads

LEMMA TableFacts ==
    ASSUME NotesBase
    PROVE  /\ Len(log) \in Nat /\ Len(log) >= 1 /\ DOMAIN log = 1 .. Len(log)
           /\ \A k \in 1 .. Len(log) : log[k] \in Tables
           /\ \A k \in 1 .. Len(log), n \in NoteIds : log[k][n] \in Nat
           /\ Rows = log[Len(log)] /\ Rows \in Tables
           /\ \A n \in NoteIds : Rows[n] \in Nat
           /\ Cardinality(Writers) \in Nat
<1>1. Cardinality(Writers) \in Nat
  BY FS_CardinalityType, NotesAssumption
<1>2. log \in Seq(Tables) /\ Len(log) \in Commits \ {0}
  BY DEF NotesBase, NotesTypes
<1>3. Len(log) \in Nat /\ Len(log) >= 1 /\ DOMAIN log = 1 .. Len(log)
  BY <1>1, <1>2 DEF Commits
<1>4. \A k \in 1 .. Len(log) : log[k] \in Tables
  BY <1>2, <1>3
<1>5. \A c \in Commits : c \in Nat
  BY <1>1 DEF Commits
<1>6. \A k \in 1 .. Len(log), n \in NoteIds : log[k][n] \in Nat
  BY <1>4, <1>5 DEF Tables
<1>7. Len(log) \in 1 .. Len(log)
  BY <1>3
<1> QED
  BY <1>1, <1>3, <1>4, <1>6, <1>7 DEF Rows

\* The set of the requests that have begun, or ended, when one of them moves.
LEMMA OneMore ==
    ASSUME NEW S, S \subseteq Writers, NEW w \in Writers, w \notin S
    PROVE  /\ IsFiniteSet(S) /\ Cardinality(S) \in Nat
           /\ Cardinality(S \union {w}) = Cardinality(S) + 1
           /\ Cardinality(S) + 1 <= Cardinality(Writers)
<1>1. IsFiniteSet(S)
  BY FS_Subset, NotesAssumption
<1>2. Cardinality(S \union {w}) = Cardinality(S) + 1 /\ Cardinality(S) \in Nat
  BY <1>1, FS_AddElement, FS_CardinalityType
<1>3. Cardinality(S \union {w}) <= Cardinality(Writers)
  BY FS_Subset, NotesAssumption
<1> QED
  BY <1>1, <1>2, <1>3

LEMMA FewerThanAll ==
    ASSUME NEW S, S \subseteq Writers
    PROVE  Cardinality(S) \in Nat /\ Cardinality(S) <= Cardinality(Writers)
BY FS_Subset, FS_CardinalityType, NotesAssumption

LEMMA NotesBaseInit == NotesInit => NotesBase
<1> SUFFICES ASSUME NotesInit PROVE NotesBase
  OBVIOUS
<1>1. Cardinality(Writers) \in Nat
  BY FS_CardinalityType, NotesAssumption
<1>2. 0 \in Commits /\ 1 \in Commits /\ 1 \in Fetches
  BY <1>1 DEF Commits, Fetches
<1>3. PICK T \in SUBSET NoteIds : log = <<[n \in NoteIds |-> IF n \in T THEN 1 ELSE 0]>>
  BY DEF NotesInit
<1>4. [n \in NoteIds |-> IF n \in T THEN 1 ELSE 0] \in Tables
  BY <1>2 DEF Tables
<1>5. /\ log \in Seq(Tables) /\ Len(log) = 1
      /\ \A n \in NoteIds : log[1][n] = IF n \in T THEN 1 ELSE 0
  BY <1>3, <1>4
<1>6. NoNotes \in Tables
  BY <1>2 DEF NoNotes, Tables
<1>7. wire = <<>> /\ wire \in Seq([note : NoteIds, at : Commits, deleted : BOOLEAN]) /\ Len(wire) = 0
  BY DEF NotesInit
<1>8. pread = [k \in Fetches |-> 0] /\ pread \in [Fetches -> Commits]
  BY <1>2 DEF NotesInit
<1>9. NotesTypes
  <2>1. log \in Seq(Tables) /\ Len(log) \in Commits \ {0}
    BY <1>2, <1>5
  <2>2. /\ wpc \in [Writers -> {"new", "reload", "publish", "publish deletion", "over"}]
        /\ wnote \in [Writers -> NoteIds] /\ wread \in [Writers -> Commits]
    BY <1>2 DEF NotesInit
  <2>3. /\ told \in Tables /\ view \in Tables /\ page \in Tables
        /\ vstep = "closed" /\ vread \in Commits /\ sent \in Fetches /\ pending \subseteq Fetches
        /\ newest \in Commits
    BY <1>2, <1>6 DEF NotesInit
  <2>4. missed = {} /\ crossed = {} /\ raced = {} /\ spoiled = FALSE /\ stale = FALSE
    BY DEF NotesInit
  <2> QED
    BY <1>7, <1>8, <2>1, <2>2, <2>3, <2>4 DEF NotesTypes
<1>10. Started = {} /\ Finished = {}
  BY DEF NotesInit, Started, Finished
<1>11. Cardinality({}) = 0
  BY FS_EmptySet, Zenon
<1>12. Counted
  <2>1. sent = 1
    BY DEF NotesInit
  <2> QED
    BY <1>5, <1>7, <1>10, <1>11, <2>1 DEF Counted
<1>13. History
  BY <1>5 DEF History
<1>14. Holding
  BY DEF NotesInit, Holding
<1>15. Reads
  <2>1. sent = 1 /\ pending = {1} /\ vread = 0 /\ vstep = "closed" /\ newest = 0
    BY DEF NotesInit
  <2> QED
    BY <1>5, <1>8, <2>1 DEF Reads
<1> QED
  BY <1>9, <1>12, <1>13, <1>14, <1>15 DEF NotesBase

\* A commit: the table with another content of one note is added to the log.
Rewrite(w, c) ==
    /\ wpc[w] = "new" /\ Store(wnote[w], c)
    /\ c \in {0, Len(log) + 1}
    /\ c = 0 => Rows[wnote[w]] # 0
    /\ Rows[wnote[w]] # 0 \/ Everywhere(wnote[w]) = {}
    /\ wpc' = [wpc EXCEPT ![w] = IF c = 0 THEN "publish deletion" ELSE "reload"]
    /\ wread' = IF c = 0 THEN [wread EXCEPT ![w] = Len(log) + 1] ELSE wread
    /\ UNCHANGED <<wnote, wire, told, view, vstep, vread, raced, page, sent, pending, pread,
                   newest, spoiled, stale, missed, crossed>>

LEMMA EachRewrites ==
    ASSUME NotesBase, NEW w \in Writers, CreateNote(w) \/ ChangeNote(w) \/ DeleteNote(w)
    PROVE  \E c : Rewrite(w, c)
<1>1. Len(log) + 1 # 0
  BY TableFacts
<1>2. ASSUME CreateNote(w) \/ ChangeNote(w) PROVE Rewrite(w, Len(log) + 1)
  BY <1>1, <1>2 DEF CreateNote, ChangeNote, Goto, Rewrite
<1>3. ASSUME DeleteNote(w) PROVE Rewrite(w, 0)
  BY <1>3 DEF DeleteNote, Goto, Rewrite
<1> QED
  BY <1>2, <1>3

\* The log after a commit.
LEMMA LogGrows ==
    ASSUME NotesBase, NEW w \in Writers, NEW c, Rewrite(w, c)
    PROVE  /\ wnote[w] \in NoteIds /\ Len(log) + 1 \in Commits /\ c \in Commits
           /\ Len(log') = Len(log) + 1 /\ log' \in Seq(Tables)
           /\ \A k \in 1 .. Len(log) : log'[k] = log[k]
           /\ log'[Len(log) + 1] = Rows' /\ Rows' = [Rows EXCEPT ![wnote[w]] = c]
           /\ Rows'[wnote[w]] = c
           /\ \A n \in NoteIds \ {wnote[w]} : Rows'[n] = Rows[n]
           /\ Started' = Started \union {w} /\ w \notin Started /\ Finished' = Finished
<1>1. /\ Len(log) \in Nat /\ log \in Seq(Tables) /\ Rows \in Tables /\ Cardinality(Writers) \in Nat
      /\ wnote[w] \in NoteIds /\ wpc \in [Writers -> {"new", "reload", "publish", "publish deletion", "over"}]
  BY TableFacts DEF NotesBase, NotesTypes
<1>2. Started' = Started \union {w} /\ w \notin Started /\ Finished' = Finished
  BY <1>1 DEF Rewrite, Started, Finished
<1>3. Len(log) = 1 + Cardinality(Started) /\ Started \subseteq Writers
  BY DEF NotesBase, Counted, Started
<1>4. Cardinality(Started) + 1 <= Cardinality(Writers) /\ Cardinality(Started) \in Nat
  BY <1>2, <1>3, OneMore
<1>5. Len(log) + 1 \in Commits /\ 0 \in Commits
  <2>1. Cardinality(Writers) \in Nat /\ Len(log) \in Nat
    BY <1>1
  <2>2. Len(log) + 1 <= Cardinality(Writers) + 1
    BY <1>3, <1>4, <2>1
  <2> QED
    BY <2>1, <2>2 DEF Commits
<1>6. c \in Commits
  BY <1>5 DEF Rewrite
<1>7. PICK T : T = [Rows EXCEPT ![wnote[w]] = c]
  OBVIOUS
<1>8. T \in Tables /\ T[wnote[w]] = c /\ \A n \in NoteIds \ {wnote[w]} : T[n] = Rows[n]
  BY <1>1, <1>6, <1>7 DEF Tables
<1>9. log' = Append(log, T)
  BY <1>7 DEF Rewrite, Store
<1>10. /\ Len(log') = Len(log) + 1 /\ log' \in Seq(Tables) /\ log'[Len(log) + 1] = T
       /\ \A k \in 1 .. Len(log) : log'[k] = log[k]
  <2>1. \A S : log \in Seq(S) /\ T \in S =>
          /\ Len(Append(log, T)) = Len(log) + 1 /\ Append(log, T) \in Seq(S)
          /\ Append(log, T)[Len(log) + 1] = T
          /\ \A k \in 1 .. Len(log) : Append(log, T)[k] = log[k]
    OBVIOUS
  <2> QED
    BY <1>1, <1>8, <1>9, <2>1
<1>11. Rows' = T
  BY <1>10 DEF Rows
<1> QED
  BY <1>1, <1>2, <1>5, <1>6, <1>7, <1>8, <1>10, <1>11

LEMMA RewriteBase ==
    ASSUME NotesBase, NEW w \in Writers, NEW c, Rewrite(w, c)
    PROVE  NotesBase'
<1> DEFINE n == wnote[w]
           L == Len(log)
<1>1. /\ n \in NoteIds /\ L + 1 \in Commits /\ c \in Commits
      /\ Len(log') = L + 1 /\ log' \in Seq(Tables)
      /\ \A k \in 1 .. L : log'[k] = log[k]
      /\ log'[L + 1] = Rows' /\ Rows' = [Rows EXCEPT ![n] = c]
      /\ Rows'[n] = c
      /\ \A m \in NoteIds \ {n} : Rows'[m] = Rows[m]
      /\ Started' = Started \union {w} /\ w \notin Started /\ Finished' = Finished
  BY LogGrows
<1>2. /\ L \in Nat /\ L >= 1 /\ Rows = log[L]
      /\ \A k \in 1 .. L, m \in NoteIds : log[k][m] \in Nat
      /\ \A m \in NoteIds : Rows[m] \in Nat
  BY TableFacts
<1>3. /\ wpc[w] = "new" /\ c \in {0, L + 1}
      /\ c = 0 => Rows[n] # 0
      /\ Rows[n] # 0 \/ Everywhere(n) = {}
      /\ wpc' = [wpc EXCEPT ![w] = IF c = 0 THEN "publish deletion" ELSE "reload"]
      /\ wread' = IF c = 0 THEN [wread EXCEPT ![w] = L + 1] ELSE wread
      /\ wnote' = wnote
      /\ UNCHANGED <<wire, told, view, vstep, vread, raced, page, sent, pending, pread,
                     newest, spoiled, stale, missed, crossed>>
  BY DEF Rewrite
<1>4. wpc \in [Writers -> {"new", "reload", "publish", "publish deletion", "over"}]
      /\ wread \in [Writers -> Commits]
  BY DEF NotesBase, NotesTypes
<1>5. NotesTypes'
  <2>1. wpc' \in [Writers -> {"new", "reload", "publish", "publish deletion", "over"}]
    BY <1>3, <1>4
  <2>2. wread' \in [Writers -> Commits]
    BY <1>1, <1>3, <1>4
  <2>3. Len(log') \in Commits \ {0}
    BY <1>1, <1>2
  <2> QED
    BY <1>1, <1>3, <2>1, <2>2, <2>3 DEF NotesBase, NotesTypes
<1>6. Counted'
  <2>1. Started \subseteq Writers
    BY DEF Started
  <2>2. Cardinality(Started \union {w}) = Cardinality(Started) + 1 /\ Cardinality(Started) \in Nat
    BY <1>1, <2>1, OneMore
  <2>3. Len(log') = 1 + Cardinality(Started')
    BY <1>1, <2>2 DEF NotesBase, Counted
  <2> QED
    BY <1>1, <1>3, <2>3 DEF NotesBase, Counted
<1> HIDE DEF n, L
<1>c. (c = 0 \/ c = L + 1) /\ (c = 0 => Rows[n] # 0) /\ (Rows[n] # 0 \/ Everywhere(n) = {})
  BY <1>3
<1>7. ASSUME NEW m \in NoteIds, NEW k \in 1 .. L + 1
      PROVE  /\ k \in 1 .. L => log'[k][m] = log[k][m] /\ log[k][m] \in Nat
             /\ k \notin 1 .. L => /\ k = L + 1
                                   /\ m # n => log'[k][m] = log[L][m]
                                   /\ m = n => log'[k][m] = c
  <2>1. CASE k \in 1 .. L
    BY <1>1, <1>2, <2>1
  <2>2. CASE k \notin 1 .. L
    <3>1. k = L + 1
      BY <1>2, <2>2
    <3>2. log'[k] = Rows'
      BY <1>1, <3>1
    <3>3. (m # n => Rows'[m] = log[L][m]) /\ (m = n => Rows'[m] = c)
      BY <1>1, <1>2
    <3> QED
      BY <2>2, <3>1, <3>2, <3>3
  <2> QED
    BY <2>1, <2>2
<1>8. History'
  <2>1. \A k \in 1 .. L, m \in NoteIds : log[k][m] <= k
    BY DEF NotesBase, History, L
  <2>2. \A m \in NoteIds, j, k, l \in 1 .. L :
          j <= k /\ k <= l /\ log[j][m] # 0 /\ log[l][m] # 0 =>
             /\ log[k][m] # 0 /\ log[j][m] <= log[k][m] /\ log[k][m] <= log[l][m]
    BY DEF NotesBase, History, L
  <2>3. ASSUME NEW k \in 1 .. L + 1, NEW m \in NoteIds PROVE log'[k][m] <= k
    <3>1. CASE k \in 1 .. L
      BY <1>7, <2>1, <3>1
    <3>2. CASE k \notin 1 .. L
      <4>1. L \in 1 .. L /\ log[L][m] \in Nat /\ log[L][m] <= L
        BY <1>2, <2>1
      <4>2. c <= L + 1
        BY <1>2, <1>c
      <4> QED
        BY <1>2, <1>7, <3>2, <4>1, <4>2
    <3> QED
      BY <3>1, <3>2
  <2>4. ASSUME NEW m \in NoteIds, NEW j \in 1 .. L + 1, NEW k \in 1 .. L + 1, NEW l \in 1 .. L + 1,
               j <= k, k <= l, log'[j][m] # 0, log'[l][m] # 0
        PROVE  /\ log'[k][m] # 0 /\ log'[j][m] <= log'[k][m] /\ log'[k][m] <= log'[l][m]
    <3>1. CASE l \in 1 .. L
      <4>1. j \in 1 .. L /\ k \in 1 .. L
        BY <1>2, <2>4, <3>1
      <4> QED
        BY <1>7, <2>2, <2>4, <3>1, <4>1
    <3>2. CASE l \notin 1 .. L /\ m # n
      <4>1. L \in 1 .. L /\ log'[l][m] = log[L][m]
        BY <1>2, <1>7, <3>2
      <4>2. PICK i \in 1 .. L : i = IF j \in 1 .. L THEN j ELSE L
        BY <4>1
      <4>3. PICK h \in 1 .. L : h = IF k \in 1 .. L THEN k ELSE L
        BY <4>1
      <4>4. i <= h /\ h <= L
        BY <1>2, <2>4, <4>2, <4>3
      <4>5. log'[j][m] = log[i][m] /\ log'[k][m] = log[h][m]
        BY <1>7, <3>2, <4>2, <4>3
      <4> QED
        BY <2>2, <2>4, <4>1, <4>4, <4>5
    <3>3. CASE l \notin 1 .. L /\ m = n
      <4>1. c = L + 1 /\ log'[l][m] = c /\ c # 0
        BY <1>2, <1>c, <1>7, <2>4, <3>3
      <4>2. CASE k \notin 1 .. L
        <5>1. log'[k][m] = c
          BY <1>7, <3>3, <4>2
        <5>2. log'[j][m] <= c
          <6>1. CASE j \in 1 .. L
            BY <1>2, <1>7, <2>1, <4>1, <6>1
          <6>2. CASE j \notin 1 .. L
            BY <1>2, <1>7, <3>3, <4>1, <6>2
          <6> QED
            BY <6>1, <6>2
        <5> QED
          BY <1>2, <4>1, <5>1, <5>2
      <4>3. CASE k \in 1 .. L
        <5>1. j \in 1 .. L /\ L \in 1 .. L
          BY <1>2, <2>4, <4>3
        <5>2. log[j][m] # 0 /\ log'[j][m] = log[j][m] /\ log'[k][m] = log[k][m]
          BY <1>7, <2>4, <4>3, <5>1
        <5>3. Rows[n] # 0
          <6>1. j \in Everywhere(n)
            BY <3>3, <5>1, <5>2 DEF Everywhere, L
          <6> QED
            BY <1>c, <6>1
        <5>4. log[L][m] # 0
          BY <1>2, <3>3, <5>3
        <5>5. k <= L
          BY <4>3
        <5>6. log[k][m] # 0 /\ log[j][m] <= log[k][m]
          BY <2>2, <2>4, <4>3, <5>1, <5>2, <5>4, <5>5
        <5>7. log[k][m] <= k /\ log[k][m] \in Nat
          BY <1>2, <2>1, <4>3
        <5>8. log[k][m] <= c
          BY <1>2, <4>1, <5>5, <5>7
        <5> QED
          BY <4>1, <5>2, <5>6, <5>8
      <4> QED
        BY <4>2, <4>3
    <3> QED
      BY <3>1, <3>2, <3>3
  <2> QED
    BY <1>1, <2>3, <2>4 DEF History
<1>9. Holding'
  <2>1. ASSUME NEW v \in Writers \ {w}
        PROVE  wpc'[v] = wpc[v] /\ wread'[v] = wread[v] /\ wnote[v] \in NoteIds /\ wread[v] \in Nat
    <3>1. \A b \in Commits : b \in Nat
      BY TableFacts DEF Commits
    <3> QED
      BY <1>3, <1>4, <3>1 DEF NotesBase, NotesTypes
  <2>2. ASSUME NEW v \in Writers, wpc'[v] = "publish"
        PROVE  wread'[v] # 0 /\ \E k \in 1 .. L + 1 : wread'[v] = log'[k][wnote[v]]
    <3>1. v # w
      BY <1>3, <1>4, <2>2
    <3>2. wread[v] # 0 /\ \E k \in 1 .. L : wread[v] = log[k][wnote[v]]
      BY <2>1, <2>2, <3>1 DEF NotesBase, Holding, L
    <3>3. PICK k \in 1 .. L : wread[v] = log[k][wnote[v]]
      BY <3>2
    <3>4. k \in 1 .. L + 1 /\ log'[k] = log[k]
      BY <1>1, <1>2
    <3> QED
      BY <2>1, <3>1, <3>2, <3>3, <3>4
  <2>3. ASSUME NEW v \in Writers, wpc'[v] = "publish deletion"
        PROVE  /\ Rows'[wnote[v]] = 0 /\ Everywhere(wnote[v])' # {}
               /\ \A k \in 1 .. L + 1 : log'[k][wnote[v]] < wread'[v]
    <3>1. ASSUME NEW m \in NoteIds, NEW k \in 1 .. L, log[k][m] # 0, m = wnote[v]
          PROVE  Everywhere(wnote[v])' # {}
      <4>1. k \in 1 .. Len(log') /\ log'[k][m] # 0
        BY <1>1, <1>2, <3>1
      <4>2. wnote' = wnote
        BY <1>3
      <4> QED
        BY <3>1, <4>1, <4>2 DEF Everywhere
    <3>2. CASE v = w
      <4>1. c = 0 /\ wread'[v] = L + 1 /\ wnote[v] = n
        BY <1>3, <1>4, <2>3, <3>2 DEF n
      <4>2. Rows[n] # 0 /\ L \in 1 .. L /\ log[L][n] # 0
        BY <1>2, <1>c, <4>1
      <4>3. Everywhere(wnote[v])' # {}
        BY <1>1, <3>1, <4>1, <4>2
      <4>4. ASSUME NEW k \in 1 .. L + 1 PROVE log'[k][n] < L + 1
        <5>1. \A h \in 1 .. L : log[h][n] <= h
          BY <1>1 DEF NotesBase, History, L
        <5>2. CASE k \in 1 .. L
          BY <1>1, <1>2, <1>7, <5>1, <5>2
        <5>3. CASE k \notin 1 .. L
          BY <1>1, <1>2, <1>7, <4>1, <5>3
        <5> QED
          BY <5>2, <5>3
      <4> QED
        BY <1>1, <4>1, <4>3, <4>4
    <3>3. CASE v # w
      <4>1. /\ Rows[wnote[v]] = 0 /\ Everywhere(wnote[v]) # {}
            /\ \A k \in 1 .. L : log[k][wnote[v]] < wread[v]
        BY <2>1, <2>3, <3>3 DEF NotesBase, Holding, L
      <4>2. wnote[v] # n /\ wnote[v] \in NoteIds
        BY <1>3, <2>1, <3>3, <4>1
      <4>3. PICK h \in 1 .. L : log[h][wnote[v]] # 0
        BY <4>1 DEF Everywhere, L
      <4>4. Everywhere(wnote[v])' # {}
        BY <3>1, <4>2, <4>3
      <4>5. wread[v] > 0 /\ wread'[v] = wread[v]
        BY <1>2, <2>1, <3>3, <4>1, <4>2, <4>3
      <4>6. Rows'[wnote[v]] = 0 /\ log[L][wnote[v]] = 0
        BY <1>1, <1>2, <4>1, <4>2
      <4>7. ASSUME NEW k \in 1 .. L + 1 PROVE log'[k][wnote[v]] < wread'[v]
        BY <1>7, <4>1, <4>2, <4>5, <4>6
      <4> QED
        BY <4>4, <4>6, <4>7
    <3> QED
      BY <3>2, <3>3
  <2>4. wnote' = wnote /\ Len(log') = L + 1
    BY <1>1, <1>3
  <2> QED
    BY <2>2, <2>3, <2>4 DEF Holding
<1>10. Reads'
  <2>1. vread \in Nat /\ newest \in Nat /\ pread \in [Fetches -> Nat]
    <3>1. \A b \in Commits : b \in Nat
      BY TableFacts DEF Commits
    <3> QED
      BY <3>1 DEF NotesBase, NotesTypes
  <2>2. Reads /\ Len(log') = L + 1
    BY <1>1 DEF NotesBase
  <2>3. vread <= L + 1 /\ newest <= L + 1 /\ \A k \in Fetches : pread[k] <= L + 1
    BY <1>2, <2>1, <2>2 DEF Reads, L
  <2> QED
    BY <1>3, <2>2, <2>3 DEF Reads
<1> QED
  BY <1>5, <1>6, <1>8, <1>9, <1>10 DEF NotesBase

NoteSteps == {"new", "reload", "publish", "publish deletion", "over"}
Events == [note : NoteIds, at : Commits, deleted : BOOLEAN]

\* What the bounds are made of.
LEMMA Bounds ==
    ASSUME NotesBase
    PROVE  /\ Cardinality(Writers) \in Nat
           /\ Commits = 0 .. Cardinality(Writers) + 1 /\ Fetches = 1 .. Cardinality(Writers) + 1
           /\ \A c \in Commits : c \in Nat
           /\ sent \in Fetches /\ sent \in Nat /\ Len(wire) \in Nat /\ wire \in Seq(Events)
           /\ pread \in [Fetches -> Commits] /\ newest \in Nat
           /\ \A k \in Fetches : pread[k] \in Nat
           /\ 0 \in Commits /\ NoNotes \in Tables
<1>1. Cardinality(Writers) \in Nat
  BY TableFacts
<1>2. Commits = 0 .. Cardinality(Writers) + 1 /\ Fetches = 1 .. Cardinality(Writers) + 1
  BY DEF Commits, Fetches
<1>3. (\A c \in Commits : c \in Nat) /\ 0 \in Commits /\ \A k \in Fetches : k \in Nat
  BY <1>1, <1>2
<1>4. wire \in Seq(Events) /\ sent \in Fetches /\ pread \in [Fetches -> Commits] /\ newest \in Commits
  BY DEF NotesBase, NotesTypes, Events
<1>5. Len(wire) \in Nat
  BY <1>4
<1>6. NoNotes \in Tables
  BY <1>3 DEF NoNotes, Tables
<1> QED
  BY <1>1, <1>2, <1>3, <1>4, <1>5, <1>6

\* Steps of the client: the table and the requests are as before.
LEMMA ClientFrame ==
    ASSUME NotesBase, UNCHANGED <<log, wpc, wnote, wread>>, NotesTypes', sent' + Len(wire') <= sent + Len(wire),
           sent' \in Nat, Len(wire') \in Nat, Reads'
    PROVE  NotesBase'
<1>1. Started' = Started /\ Finished' = Finished
  BY DEF Started, Finished
<1>2. Cardinality(Finished) \in Nat
  BY FewerThanAll DEF Finished
<1>3. sent + Len(wire) <= 1 + Cardinality(Finished) /\ Len(log) = 1 + Cardinality(Started)
  BY DEF NotesBase, Counted
<1>4. sent \in Nat /\ Len(wire) \in Nat
  BY Bounds
<1>5. sent' + Len(wire') <= 1 + Cardinality(Finished)
  BY <1>2, <1>3, <1>4
<1>6. Counted'
  BY <1>1, <1>3, <1>5 DEF Counted
<1>7. History'
  BY DEF NotesBase, History
<1>8. Holding'
  BY DEF NotesBase, Holding, Rows, Everywhere
<1> QED
  BY <1>6, <1>7, <1>8 DEF NotesBase

LEMMA ReloadBase ==
    ASSUME NotesBase, NEW w \in Writers, Reload(w)
    PROVE  NotesBase'
<1> DEFINE n == wnote[w]
<1>1. /\ wpc \in [Writers -> NoteSteps] /\ wread \in [Writers -> Commits] /\ n \in NoteIds
      /\ Len(log) \in Commits
  BY DEF NotesBase, NotesTypes, NoteSteps
<1>2. Rows \in Tables /\ Len(log) \in Nat /\ Len(log) >= 1
  BY TableFacts
<1>3. Rows[n] \in Commits
  BY <1>1, <1>2 DEF Tables
<1>4. /\ wpc[w] = "reload" /\ wpc' = [wpc EXCEPT ![w] = IF Rows[n] = 0 THEN "over" ELSE "publish"]
      /\ wread' = [wread EXCEPT ![w] = Rows[n]]
      /\ UNCHANGED <<log, wnote, wire, told, view, vstep, vread, raced, page, sent, pending, pread,
                     newest, spoiled, stale, missed, crossed>>
  BY DEF Reload, Goto
<1>5. wpc' \in [Writers -> NoteSteps] /\ wread' \in [Writers -> Commits]
  BY <1>1, <1>3, <1>4 DEF NoteSteps
<1>6. NotesTypes'
  BY <1>4, <1>5 DEF NotesBase, NotesTypes, NoteSteps
<1>7. Started' = Started
  BY <1>1, <1>4 DEF Started
<1>8. Finished' = Finished \/ (Finished' = Finished \union {w} /\ w \notin Finished)
  BY <1>1, <1>4 DEF Finished
<1>9. Cardinality(Finished) \in Nat /\ Cardinality(Finished') \in Nat /\ Cardinality(Finished) <= Cardinality(Finished')
  <2>1. Finished \subseteq Writers
    BY DEF Finished
  <2>2. Cardinality(Finished) \in Nat
    BY <2>1, FewerThanAll
  <2>3. w \notin Finished => Cardinality(Finished \union {w}) = Cardinality(Finished) + 1
    BY <2>1, OneMore
  <2> QED
    BY <1>8, <2>2, <2>3
<1>10. Counted'
  <2>1. sent \in Nat /\ Len(wire) \in Nat
    BY Bounds
  <2>2. sent + Len(wire) <= 1 + Cardinality(Finished) /\ Len(log) = 1 + Cardinality(Started)
    BY DEF NotesBase, Counted
  <2>3. sent + Len(wire) <= 1 + Cardinality(Finished')
    BY <1>9, <2>1, <2>2
  <2> QED
    BY <1>4, <1>7, <2>2, <2>3 DEF Counted
<1>11. History'
  BY <1>4 DEF NotesBase, History
<1>12. Holding'
  <2> SUFFICES ASSUME NEW v \in Writers
               PROVE  /\ wpc'[v] = "publish" =>
                           wread'[v] # 0 /\ \E k \in 1 .. Len(log) : wread'[v] = log[k][wnote[v]]
                      /\ wpc'[v] = "publish deletion" =>
                           /\ Rows[wnote[v]] = 0 /\ Everywhere(wnote[v]) # {}
                           /\ \A k \in 1 .. Len(log) : log[k][wnote[v]] < wread'[v]
    BY <1>4 DEF Holding, Rows, Everywhere
  <2>1. CASE v = w
    <3>1. wread'[v] = Rows[n] /\ wpc'[v] # "publish deletion" /\ (wpc'[v] = "publish" => Rows[n] # 0)
      BY <1>1, <1>4, <2>1
    <3>2. Len(log) \in 1 .. Len(log) /\ Rows[n] = log[Len(log)][n]
      BY <1>2 DEF Rows
    <3> QED
      BY <2>1, <3>1, <3>2
  <2>2. CASE v # w
    <3>1. wpc'[v] = wpc[v] /\ wread'[v] = wread[v]
      BY <1>1, <1>4, <2>2
    <3> QED
      BY <3>1 DEF NotesBase, Holding
  <2> QED
    BY <2>1, <2>2
<1>13. Reads'
  BY <1>4 DEF NotesBase, Reads
<1> QED
  BY <1>6, <1>10, <1>11, <1>12, <1>13 DEF NotesBase

\* A request ends: it has published, or it has been killed.
Ends(w) ==
    /\ wpc[w] \in {"reload", "publish", "publish deletion"} /\ wpc' = [wpc EXCEPT ![w] = "over"]
    /\ UNCHANGED <<log, wnote, wread, view, vstep, vread, raced, page, sent, pending, pread, newest,
                   spoiled, stale>>

LEMMA EndsBase ==
    ASSUME NotesBase, NEW w \in Writers, Ends(w),
           wire' = wire \/ wire' = Append(wire, Event(w)),
           told' = told \/ told' = [told EXCEPT ![wnote[w]] = IF wread[w] < @ THEN @ ELSE wread[w]],
           missed' \subseteq missed \union {wnote[w]}, crossed' \subseteq crossed \union {wnote[w]}
    PROVE  NotesBase'
<1>1. /\ wpc \in [Writers -> NoteSteps] /\ wread[w] \in Commits /\ wnote[w] \in NoteIds
      /\ told \in Tables /\ missed \subseteq NoteIds /\ crossed \subseteq NoteIds
  BY DEF NotesBase, NotesTypes, NoteSteps
<1>2. /\ wpc[w] # "over" /\ wpc[w] # "new" /\ wpc' = [wpc EXCEPT ![w] = "over"]
      /\ UNCHANGED <<log, wnote, wread, view, vstep, vread, raced, page, sent, pending, pread, newest,
                     spoiled, stale>>
  BY DEF Ends
<1>3. wpc' \in [Writers -> NoteSteps] /\ Started' = Started /\ Finished' = Finished \union {w} /\ w \notin Finished
  BY <1>1, <1>2 DEF Started, Finished, NoteSteps
<1>4. Cardinality(Finished') = Cardinality(Finished) + 1 /\ Cardinality(Finished) \in Nat
  BY <1>3, OneMore DEF Finished
<1>5. wire' \in Seq(Events) /\ Len(wire') \in Nat /\ Len(wire') <= Len(wire) + 1
  <2>1. Event(w) \in Events
    BY <1>1 DEF Event, Events
  <2>2. \A S : wire \in Seq(S) /\ Event(w) \in S =>
          Append(wire, Event(w)) \in Seq(S) /\ Len(Append(wire, Event(w))) = Len(wire) + 1
    OBVIOUS
  <2> QED
    BY <2>1, <2>2, Bounds
<1>6. told' \in Tables
  BY <1>1 DEF Tables
<1>7. NotesTypes'
  BY <1>1, <1>2, <1>3, <1>5, <1>6 DEF NotesBase, NotesTypes, NoteSteps, Events
<1>8. Counted'
  <2>1. sent + Len(wire) <= 1 + Cardinality(Finished) /\ Len(log) = 1 + Cardinality(Started)
    BY DEF NotesBase, Counted
  <2>2. sent \in Nat /\ Len(wire) \in Nat
    BY Bounds
  <2>3. sent + Len(wire') <= 1 + Cardinality(Finished')
    BY <1>4, <1>5, <2>1, <2>2
  <2> QED
    BY <1>2, <1>3, <2>1, <2>3 DEF Counted
<1>9. History'
  BY <1>2 DEF NotesBase, History
<1>10. Holding'
  <2>1. \A v \in Writers : wpc'[v] \in {"publish", "publish deletion"} => wpc'[v] = wpc[v]
    BY <1>1, <1>2
  <2>2. UNCHANGED <<log, wnote, wread>> /\ Rows' = Rows /\ \A n : Everywhere(n)' = Everywhere(n)
    BY <1>2 DEF Rows, Everywhere
  <2> SUFFICES ASSUME NEW v \in Writers
               PROVE  /\ wpc'[v] = "publish" =>
                           wread[v] # 0 /\ \E k \in 1 .. Len(log) : wread[v] = log[k][wnote[v]]
                      /\ wpc'[v] = "publish deletion" =>
                           /\ Rows[wnote[v]] = 0 /\ Everywhere(wnote[v]) # {}
                           /\ \A k \in 1 .. Len(log) : log[k][wnote[v]] < wread[v]
    BY <2>2 DEF Holding
  <2> QED
    BY <2>1 DEF NotesBase, Holding
<1>11. Reads'
  BY <1>2 DEF NotesBase, Reads
<1> QED
  BY <1>7, <1>8, <1>9, <1>10, <1>11 DEF NotesBase

LEMMA PublishCases ==
    ASSUME NEW w \in Writers, Publish(w)
    PROVE  /\ Ends(w)
           /\ wire' = wire \/ wire' = Append(wire, Event(w))
           /\ told' = told \/ told' = [told EXCEPT ![wnote[w]] = IF wread[w] < @ THEN @ ELSE wread[w]]
           /\ missed' \subseteq missed \union {wnote[w]} /\ crossed' \subseteq crossed \union {wnote[w]}
BY DEF Publish, Ends, Goto

LEMMA DieEnds ==
    ASSUME NEW w \in Writers, Die(w)
    PROVE  Ends(w) /\ missed' = missed \union {wnote[w]} /\ wire' = wire /\ told' = told /\ crossed' = crossed
BY DEF Die, Ends, Goto

LEMMA MergeType ==
    ASSUME NEW m \in Tables, NEW a \in Tables
    PROVE  Merge(m, a) \in Tables
BY DEF Merge, Tables

\* The answer to the view is a table that the log has.
LEMMA ViewReads ==
    ASSUME NotesBase
    PROVE  /\ vread \in Nat /\ vread <= Len(log)
           /\ vstep \in {"read", "open"} => vread \in 1 .. Len(log) /\ log[vread] \in Tables
<1>1. vread \in Nat
  BY Bounds DEF NotesBase, NotesTypes
<1>2. vread <= Len(log) /\ (vstep \in {"read", "open"} => vread # 0)
  BY DEF NotesBase, Reads
<1> QED
  BY <1>1, <1>2, TableFacts

LEMMA ViewStepBase ==
    ASSUME NotesBase, ViewAsk \/ ViewRead \/ ViewAnswer
    PROVE  NotesBase'
<1>0. /\ Len(log) \in Nat /\ Len(log) >= 1 /\ Len(log) \in Commits
      /\ sent \in Nat /\ Len(wire) \in Nat
  BY TableFacts, Bounds DEF NotesBase, NotesTypes
<1>1. NotesTypes' /\ Reads'
  <2>1. CASE ViewAsk
    BY <2>1, Bounds DEF ViewAsk, NotesBase, NotesTypes, Reads
  <2>2. CASE ViewRead
    <3>1. /\ vstep' = "read" /\ vread' = Len(log)
          /\ UNCHANGED <<log, wpc, wnote, wread, wire, told, view, raced, page, sent, pending, pread,
                         newest, spoiled, stale, missed, crossed>>
      BY <2>2 DEF ViewRead
    <3>2. NotesTypes'
      BY <1>0, <3>1 DEF NotesBase, NotesTypes
    <3>3. vread' <= Len(log) /\ vread' # 0
      BY <1>0, <3>1
    <3> QED
      BY <3>1, <3>2, <3>3 DEF NotesBase, Reads
  <2>3. CASE ViewAnswer
    <3>0. vstep = "read" /\ view \in Tables
      BY <2>3 DEF ViewAnswer, NotesBase, NotesTypes
    <3>1. log[vread] \in Tables /\ view \in Tables /\ vread # 0
      BY <3>0, ViewReads
    <3>2. Merge(view, log[vread]) \in Tables
      BY <3>1, MergeType
    <3> QED
      BY <2>3, <3>1, <3>2 DEF ViewAnswer, NotesBase, NotesTypes, Reads
  <2> QED
    BY <2>1, <2>2, <2>3
<1>2. UNCHANGED <<log, wpc, wnote, wread, sent, wire>>
  BY DEF ViewAsk, ViewRead, ViewAnswer
<1> QED
  BY <1>0, <1>1, <1>2, ClientFrame

LEMMA PageStepBase ==
    ASSUME NotesBase, NEW k \in Fetches, NotesRead(k) \/ NotesAnswer(k) \/ NotesFail(k)
    PROVE  NotesBase'
<1>0. /\ Len(log) \in Nat /\ Len(log) >= 1 /\ Len(log) \in Commits
      /\ sent \in Nat /\ Len(wire) \in Nat
  BY TableFacts, Bounds DEF NotesBase, NotesTypes
<1>1. pread \in [Fetches -> Commits] /\ pread[k] \in Nat /\ pread[k] <= Len(log) /\ newest \in Commits
  BY Bounds DEF NotesBase, NotesTypes, Reads
<1>2. NotesTypes' /\ Reads'
  <2>1. CASE NotesRead(k)
    <3>1. pread' = [pread EXCEPT ![k] = Len(log)] /\ k \in 1 .. sent
      BY <2>1 DEF NotesRead, NotesBase, Reads
    <3>2. pread' \in [Fetches -> Commits]
      BY <1>0, <1>1, <3>1
    <3>3. \A i \in Fetches : pread'[i] <= Len(log) /\ (i > sent => pread'[i] = 0)
      BY <1>0, <1>1, <3>1 DEF NotesBase, Reads
    <3>4. UNCHANGED <<log, wpc, wnote, wread, wire, told, view, vstep, vread, raced, page, sent, pending,
                      newest, spoiled, stale, missed, crossed>>
      BY <2>1 DEF NotesRead
    <3> QED
      BY <3>2, <3>3, <3>4 DEF NotesBase, NotesTypes, Reads
  <2>2. CASE NotesAnswer(k)
    <3>0. pread[k] # 0 /\ page \in Tables
      BY <2>2 DEF NotesAnswer, NotesBase, NotesTypes
    <3>1. pread[k] \in 1 .. Len(log) /\ log[pread[k]] \in Tables /\ page \in Tables
      BY <1>0, <1>1, <3>0, TableFacts
    <3>2. Merge(page, log[pread[k]]) \in Tables
      BY <3>1, MergeType
    <3>3. /\ page' = Merge(page, log[pread[k]]) /\ pending' = pending \ {k}
          /\ newest' = newest \/ newest' = pread[k]
          /\ stale' = (stale \/ pread[k] < newest) /\ spoiled' = (spoiled \/ k # sent)
          /\ UNCHANGED <<log, wpc, wnote, wread, wire, told, view, vstep, vread, raced, sent, pread,
                         missed, crossed>>
      BY <2>2 DEF NotesAnswer
    <3>4. NotesTypes'
      BY <1>1, <3>2, <3>3 DEF NotesBase, NotesTypes
    <3>5. Reads'
      BY <1>1, <3>3 DEF NotesBase, Reads
    <3> QED
      BY <3>4, <3>5
  <2>3. CASE NotesFail(k)
    BY <2>3 DEF NotesFail, NotesBase, NotesTypes, Reads
  <2> QED
    BY <2>1, <2>2, <2>3
<1>3. UNCHANGED <<log, wpc, wnote, wread, sent, wire>>
  BY DEF NotesRead, NotesAnswer, NotesFail
<1> QED
  BY <1>0, <1>2, <1>3, ClientFrame

LEMMA HeadAndRest ==
    ASSUME NEW S, NEW s \in Seq(S), s # <<>>
    PROVE  /\ Head(s) \in S /\ Tail(s) \in Seq(S) /\ Len(s) \in Nat /\ Len(s) >= 1
           /\ Len(Tail(s)) = Len(s) - 1
           /\ Head(s) = s[1] /\ \A i \in 1 .. Len(s) - 1 : Tail(s)[i] = s[i + 1]
OBVIOUS

LEMMA HandleBase ==
    ASSUME NotesBase, Handle
    PROVE  NotesBase'
<1> DEFINE e == Head(wire)
<1>1. /\ wire # <<>> /\ wire' = Tail(wire) /\ view' = NoteListener(e)
      /\ raced' = IF WillUndo(e) THEN raced \union {e.note}
                  ELSE IF vstep = "open" THEN raced \ {e.note} ELSE raced
      /\ page' = NoNotes /\ sent' = sent + 1 /\ pending' = pending \union {sent + 1}
      /\ newest' = 0 /\ spoiled' = FALSE /\ stale' = FALSE
      /\ UNCHANGED <<log, wpc, wnote, wread, told, vstep, vread, pread, missed, crossed>>
  BY DEF Handle, Send
<1>2. e \in Events /\ Tail(wire) \in Seq(Events) /\ Len(wire') = Len(wire) - 1 /\ Len(wire) >= 1
      /\ Len(wire) \in Nat /\ sent \in Nat
  BY <1>1, Bounds, HeadAndRest
<1>3. e.note \in NoteIds /\ e.at \in Commits
  BY <1>2 DEF Events
<1> HIDE DEF e
<1>4. view' \in Tables
  BY <1>1, <1>3, Bounds DEF NoteListener, NotesBase, NotesTypes, Tables
<1>5. sent + 1 \in Fetches
  <2>1. Cardinality(Finished) <= Cardinality(Writers) /\ Cardinality(Finished) \in Nat
    BY FewerThanAll DEF Finished
  <2>2. sent + Len(wire) <= 1 + Cardinality(Finished)
    BY DEF NotesBase, Counted
  <2>3. sent + 1 <= 1 + Cardinality(Writers) /\ Cardinality(Writers) \in Nat
    BY <1>2, <2>1, <2>2, Bounds
  <2> QED
    BY <1>2, <2>3 DEF Fetches
<1>6. NotesTypes'
  <2>1. raced' \subseteq NoteIds
    BY <1>1, <1>3 DEF NotesBase, NotesTypes
  <2>2. page' \in Tables /\ sent' \in Fetches /\ pending' \subseteq Fetches /\ newest' \in Commits
    BY <1>1, <1>5, Bounds DEF NotesBase, NotesTypes
  <2>3. wire' \in Seq([note : NoteIds, at : Commits, deleted : BOOLEAN])
    BY <1>1, <1>2 DEF Events
  <2> QED
    BY <1>1, <1>4, <2>1, <2>2, <2>3 DEF NotesBase, NotesTypes
<1>7. Reads'
  <2>1. pending' \subseteq 1 .. sent'
    BY <1>1, <1>2 DEF NotesBase, Reads
  <2>2. \A k \in Fetches : k > sent' => pread[k] = 0
    <3>1. \A k \in Fetches : k \in Nat
      BY Bounds
    <3> QED
      BY <1>1, <1>2, <3>1 DEF NotesBase, Reads
  <2>3. newest' <= Len(log)
    BY <1>1, TableFacts
  <2> QED
    BY <1>1, <2>1, <2>2, <2>3 DEF NotesBase, Reads
<1>8. sent' + Len(wire') <= sent + Len(wire) /\ sent' \in Nat /\ Len(wire') \in Nat
  BY <1>1, <1>2
<1> QED
  BY <1>1, <1>6, <1>7, <1>8, ClientFrame

LEMMA NotesBaseStep == NotesBase /\ [NotesNext]_notesVars => NotesBase'
<1> SUFFICES ASSUME NotesBase, [NotesNext]_notesVars PROVE NotesBase'
  OBVIOUS
<1>1. ASSUME NEW w \in Writers, CreateNote(w) \/ ChangeNote(w) \/ DeleteNote(w) PROVE NotesBase'
  BY <1>1, EachRewrites, RewriteBase
<1>2. ASSUME NEW w \in Writers, WriterStep(w) PROVE NotesBase'
  BY <1>2, ReloadBase, PublishCases, EndsBase DEF WriterStep
<1>3. ASSUME NEW w \in Writers, Die(w) PROVE NotesBase'
  BY <1>3, DieEnds, EndsBase
<1>4. CASE ClientStep
  BY <1>4, ViewStepBase, HandleBase, PageStepBase DEF ClientStep
<1>5. ASSUME NEW k \in Fetches, NotesFail(k) PROVE NotesBase'
  BY <1>5, PageStepBase
<1>6. CASE UNCHANGED notesVars
  <2>1. NotesTypes' /\ Reads'
    BY <1>6 DEF NotesBase, NotesTypes, Reads
  <2>2. UNCHANGED <<log, wpc, wnote, wread, sent, wire>>
    BY <1>6
  <2>3. sent' + Len(wire') <= sent + Len(wire) /\ sent' \in Nat /\ Len(wire') \in Nat
    BY <2>2, Bounds
  <2> QED
    BY <2>1, <2>2, <2>3, ClientFrame
<1> QED
  BY <1>1, <1>2, <1>3, <1>4, <1>5, <1>6 DEF NotesNext

-----------------------------------------------------------------------------
(* What the view shows *)

\* A request is going to tell what is so about a note.
Owed(n) ==
    \E w \in Writers :
       /\ wnote[w] = n
       /\ \/ wpc[w] = "reload" /\ Rows[n] # 0
          \/ wpc[w] = "publish" /\ wread[w] = Rows[n]
          \/ wpc[w] = "publish deletion"

\* Events have told of all that a note contained before.
Known(n) == \A k \in 1 .. Len(log) : log[k][n] # Rows[n] => log[k][n] < told[n]

\* An event that tells what is so.
Right(e) == (e.deleted <=> Rows[e.note] = 0) /\ (~e.deleted => e.at = Rows[e.note])

\* Events about a note, and the last of them.
About(n) == {k \in DOMAIN wire : wire[k].note = n}
LastAbout(n, k) == k \in About(n) /\ \A i \in About(n) : i <= k

\* The view shows the row, or will do so with its answer.
Seen(n) ==
    /\ vstep = "asked" => view[n] \in {0, Rows[n]}
    /\ vstep = "read" /\ n \notin raced =>
          IF log[vread][n] = 0 THEN view[n] = Rows[n] ELSE log[vread][n] = Rows[n]
    /\ vstep = "open" /\ n \notin raced => view[n] = Rows[n]

Followed(n) ==
    /\ \A k \in DOMAIN wire : LastAbout(n, k) => Right(wire[k])
    /\ About(n) = {} => Seen(n)

NoteViewInv ==
    /\ \A n \in NoteIds \ missed : Owed(n) \/ Known(n)
    /\ \A n \in NoteIds \ (missed \union crossed) : Owed(n) \/ Followed(n)

LEMMA NoteViewInit == NotesInit => NoteViewInv
<1> SUFFICES ASSUME NotesInit PROVE NoteViewInv
  OBVIOUS
<1>1. NotesBase
  BY NotesBaseInit
<1>2. Len(log) = 1 /\ wire = <<>> /\ vstep = "closed"
  BY DEF NotesInit
<1>3. \A k \in 1 .. Len(log) : log[k] = Rows
  BY <1>2 DEF Rows
<1> QED
  BY <1>2, <1>3 DEF NoteViewInv, Known, Followed, About, LastAbout, Seen

\* What the log has of a note that is there is not newer than its row.
LEMMA RowIsNewest ==
    ASSUME NotesBase, NEW n \in NoteIds, Rows[n] # 0, NEW k \in 1 .. Len(log)
    PROVE  log[k][n] <= Rows[n]
<1>1. /\ Len(log) \in 1 .. Len(log) /\ Rows = log[Len(log)] /\ k <= Len(log)
      /\ log[k][n] \in Nat /\ Rows[n] \in Nat
  BY TableFacts
<1>2. CASE log[k][n] = 0
  BY <1>1, <1>2
<1>3. CASE log[k][n] # 0
  BY <1>1, <1>3 DEF NotesBase, History
<1> QED
  BY <1>2, <1>3

\* A commit: the request owes an event about its note; nothing else is
\* different for other notes.
LEMMA RewriteNoteView ==
    ASSUME NotesBase, NoteViewInv, NEW w \in Writers, NEW c, Rewrite(w, c)
    PROVE  NoteViewInv'
<1> DEFINE n == wnote[w]
<1>1. /\ n \in NoteIds /\ Len(log') = Len(log) + 1
      /\ \A k \in 1 .. Len(log) : log'[k] = log[k]
      /\ log'[Len(log) + 1] = Rows' /\ Rows'[n] = c
      /\ \A m \in NoteIds \ {n} : Rows'[m] = Rows[m]
  BY LogGrows
<1>2. /\ wpc[w] = "new" /\ wpc' = [wpc EXCEPT ![w] = IF c = 0 THEN "publish deletion" ELSE "reload"]
      /\ wread' = IF c = 0 THEN [wread EXCEPT ![w] = Len(log) + 1] ELSE wread
      /\ UNCHANGED <<wnote, wire, told, view, vstep, vread, raced, missed, crossed>>
  BY DEF Rewrite
<1>3. wpc \in [Writers -> NoteSteps] /\ Len(log) \in Nat /\ wread \in [Writers -> Commits]
  BY TableFacts DEF NotesBase, NotesTypes, NoteSteps
<1>4. Owed(n)'
  <2>1. wnote'[w] = n /\ (c = 0 => wpc'[w] = "publish deletion") /\ (c # 0 => wpc'[w] = "reload" /\ Rows'[n] # 0)
    BY <1>1, <1>2, <1>3
  <2> QED
    BY <2>1 DEF Owed
<1>5. ASSUME NEW m \in NoteIds \ {n}
      PROVE  /\ Owed(m) => Owed(m)'
             /\ Known(m) => Known(m)'
             /\ Followed(m) => Followed(m)'
  <2>1. \A v \in Writers \ {w} : wpc'[v] = wpc[v] /\ wread'[v] = wread[v]
    BY <1>2, <1>3
  <2>2. ASSUME Owed(m) PROVE Owed(m)'
    BY <1>1, <1>2, <2>1, <2>2 DEF Owed
  <2>3. ASSUME Known(m) PROVE Known(m)'
    <3> SUFFICES ASSUME NEW k \in 1 .. Len(log) + 1, log'[k][m] # Rows'[m]
                 PROVE  log'[k][m] < told[m]
      BY <1>1, <1>2 DEF Known
    <3>1. k \in 1 .. Len(log) /\ log'[k][m] = log[k][m] /\ log[k][m] # Rows[m]
      BY <1>1, <1>3
    <3> QED
      BY <2>3, <3>1 DEF Known
  <2>4. ASSUME Followed(m) PROVE Followed(m)'
    <3>1. ASSUME Seen(m) PROVE Seen(m)'
      <4>1. vstep = "read" => log'[vread] = log[vread]
        BY <1>1, ViewReads
      <4> QED
        BY <1>1, <1>2, <3>1, <4>1 DEF Seen
    <3>2. \A k \in DOMAIN wire : LastAbout(m, k)' = LastAbout(m, k) /\ About(m)' = About(m)
      BY <1>2 DEF LastAbout, About
    <3>3. \A k \in About(m) : Right(wire[k]) => Right(wire[k])'
      BY <1>1, <1>2 DEF Right, About
    <3>4. \A k \in DOMAIN wire : LastAbout(m, k) => k \in About(m)
      BY DEF LastAbout
    <3>5. About(m)' = About(m)
      BY <1>2 DEF About
    <3> QED
      BY <1>2, <2>4, <3>1, <3>2, <3>3, <3>4, <3>5 DEF Followed
  <2> QED
    BY <2>2, <2>3, <2>4
<1> QED
  BY <1>2, <1>4, <1>5 DEF NoteViewInv

\* A step that leaves table, events and view as they are, and in which nobody
\* who owed an event about a note forgets it, unless it is lost.
LEMMA NoteViewFrame ==
    ASSUME NoteViewInv,
           UNCHANGED <<log, wire, told, view, vstep, vread, raced, crossed>>, missed \subseteq missed',
           \A n \in NoteIds \ missed' : Owed(n) => Owed(n)'
    PROVE  NoteViewInv'
<1>1. \A n \in NoteIds : (Known(n) => Known(n)') /\ (Followed(n) => Followed(n)')
  BY DEF Known, Followed, LastAbout, About, Right, Seen, Rows
<1> QED
  BY <1>1 DEF NoteViewInv

\* Who owes an event before it reads the row again owes one afterwards.
LEMMA ReloadOwed ==
    ASSUME NotesBase, NEW w \in Writers, Reload(w)
    PROVE  \A n \in NoteIds : Owed(n) => Owed(n)'
<1>1. /\ wpc[w] = "reload" /\ wread' = [wread EXCEPT ![w] = Rows[wnote[w]]]
      /\ wpc' = [wpc EXCEPT ![w] = IF Rows[wnote[w]] = 0 THEN "over" ELSE "publish"]
      /\ UNCHANGED <<log, wnote, wire, told, view, vstep, vread, raced, missed, crossed>>
  BY DEF Reload, Goto
<1>2. wpc \in [Writers -> NoteSteps] /\ wread \in [Writers -> Commits]
  BY DEF NotesBase, NotesTypes, NoteSteps
<1>3. \A v \in Writers \ {w} : wpc'[v] = wpc[v] /\ wread'[v] = wread[v]
  BY <1>1, <1>2
<1>4. Rows' = Rows
  BY <1>1 DEF Rows
<1>5. ASSUME NEW n \in NoteIds, Owed(n) PROVE Owed(n)'
  <2>1. PICK v \in Writers : /\ wnote[v] = n
                             /\ \/ wpc[v] = "reload" /\ Rows[n] # 0
                                \/ wpc[v] = "publish" /\ wread[v] = Rows[n]
                                \/ wpc[v] = "publish deletion"
    BY <1>5 DEF Owed
  <2>2. CASE v = w
    <3>1. wpc'[v] = "publish" /\ wread'[v] = Rows[n]
      BY <1>1, <1>2, <2>1, <2>2
    <3> QED
      BY <1>1, <1>4, <2>1, <3>1 DEF Owed
  <2>3. CASE v # w
    BY <1>1, <1>3, <1>4, <2>1, <2>3 DEF Owed
  <2> QED
    BY <2>2, <2>3
<1> QED
  BY <1>5

LEMMA ReloadNoteView ==
    ASSUME NotesBase, NoteViewInv, NEW w \in Writers, Reload(w)
    PROVE  NoteViewInv'
BY ReloadOwed, NoteViewFrame DEF Reload

\* The event of a request is lost with it.
LEMMA LostNoteView ==
    ASSUME NotesBase, NoteViewInv, NEW w \in Writers, Ends(w),
           UNCHANGED <<wire, told, crossed>>, missed' = missed \union {wnote[w]}
    PROVE  NoteViewInv'
<1>1. /\ wpc' = [wpc EXCEPT ![w] = "over"]
      /\ UNCHANGED <<log, wnote, wread, view, vstep, vread, raced>>
  BY DEF Ends
<1>2. wpc \in [Writers -> NoteSteps]
  BY DEF NotesBase, NotesTypes, NoteSteps
<1>3. \A v \in Writers \ {w} : wpc'[v] = wpc[v]
  BY <1>1, <1>2
<1>4. ASSUME NEW n \in NoteIds \ missed', Owed(n) PROVE Owed(n)'
  <2>1. n # wnote[w] /\ Rows' = Rows
    BY <1>1 DEF Rows
  <2> QED
    BY <1>1, <1>3, <1>4, <2>1 DEF Owed
<1> QED
  BY <1>1, <1>4, NoteViewFrame

\* An event that is added to those on their way is the last about its note.
LEMMA EventAdded ==
    ASSUME NotesBase, NEW e, wire' = Append(wire, e), e.note \in NoteIds
    PROVE  /\ Len(wire') = Len(wire) + 1 /\ wire'[Len(wire) + 1] = e
           /\ \A k \in DOMAIN wire : wire'[k] = wire[k]
           /\ About(e.note)' # {}
           /\ \A k \in DOMAIN wire' : LastAbout(e.note, k)' => k = Len(wire) + 1
           /\ \A n \in NoteIds \ {e.note} :
                 About(n)' = About(n) /\ \A k \in About(n) : LastAbout(n, k)' => LastAbout(n, k)
<1> DEFINE L == Len(wire)
<1>1. L \in Nat /\ DOMAIN wire = 1 .. L
  BY Bounds
<1>2. Len(wire') = L + 1 /\ wire'[L + 1] = e /\ DOMAIN wire' = 1 .. L + 1
      /\ \A k \in 1 .. L : wire'[k] = wire[k]
  BY <1>1, Bounds
<1> HIDE DEF L
<1>3. L + 1 \in About(e.note)'
  BY <1>1, <1>2 DEF About
<1>4. ASSUME NEW k \in DOMAIN wire', LastAbout(e.note, k)' PROVE k = L + 1
  <2>1. k \in 1 .. L + 1 /\ L + 1 <= k
    BY <1>2, <1>3, <1>4 DEF LastAbout
  <2> QED
    BY <1>1, <2>1
<1>5. ASSUME NEW n \in NoteIds \ {e.note}
      PROVE  About(n)' = About(n) /\ \A k \in About(n) : LastAbout(n, k)' => LastAbout(n, k)
  <2>1. About(n)' = {k \in 1 .. L + 1 : wire'[k].note = n}
    BY <1>2 DEF About
  <2>2. About(n)' = About(n)
    BY <1>1, <1>2, <2>1 DEF About
  <2> QED
    BY <2>2 DEF LastAbout
<1> QED
  BY <1>1, <1>2, <1>3, <1>4, <1>5 DEF L

LEMMA SentNoteView ==
    ASSUME NotesBase, NoteViewInv, NEW w \in Writers, Ends(w), wpc[w] # "reload",
           wire' = Append(wire, Event(w)),
           missed' = IF Current(w) THEN missed \ {wnote[w]} ELSE missed,
           crossed' = IF Current(w) THEN crossed \ {wnote[w]}
                      ELSE crossed \union {m \in {wnote[w]} : wread[w] < told[wnote[w]]},
           told' = [told EXCEPT ![wnote[w]] = IF wread[w] < @ THEN @ ELSE wread[w]]
    PROVE  NoteViewInv'
<1>n. PICK n \in NoteIds : n = wnote[w]
  BY DEF NotesBase, NotesTypes
<1>e. PICK e : e = Event(w)
  OBVIOUS
<1>1. /\ wpc[w] \in {"publish", "publish deletion"} /\ wpc' = [wpc EXCEPT ![w] = "over"]
      /\ UNCHANGED <<log, wnote, wread, view, vstep, vread, raced>> /\ Rows' = Rows
  BY DEF Ends, Rows
<1>2. wpc \in [Writers -> NoteSteps] /\ wread[w] \in Nat /\ told \in Tables
  BY Bounds DEF NotesBase, NotesTypes, NoteSteps
<1>3. /\ e.note = n /\ e.at = wread[w] /\ e.deleted = (wpc[w] = "publish deletion")
  BY <1>n, <1>e DEF Event
<1>4. /\ wread[w] <= told'[n] /\ told[n] <= told'[n] /\ told[n] \in Nat /\ told'[n] \in Nat
      /\ \A m \in NoteIds \ {n} : told'[m] = told[m]
  BY <1>n, <1>2, Bounds DEF Tables
<1>5. \A v \in Writers \ {w} : wpc'[v] = wpc[v]
  BY <1>1, <1>2
<1>6. /\ Len(wire') = Len(wire) + 1 /\ wire'[Len(wire) + 1] = e
      /\ \A k \in DOMAIN wire : wire'[k] = wire[k]
      /\ About(n)' # {}
      /\ \A k \in DOMAIN wire' : LastAbout(n, k)' => k = Len(wire) + 1
      /\ \A m \in NoteIds \ {n} :
            About(m)' = About(m) /\ \A k \in About(m) : LastAbout(m, k)' => LastAbout(m, k)
  BY <1>2, <1>3, <1>e, EventAdded
<1>7. Current(w) <=> wpc[w] = "publish deletion" \/ wread[w] = Rows[n]
  BY <1>n DEF Current
<1>8. /\ missed' = IF Current(w) THEN missed \ {n} ELSE missed
      /\ crossed' = IF Current(w) THEN crossed \ {n}
                    ELSE crossed \union {m \in {n} : wread[w] < told[n]}
  BY <1>n
<1>9. ASSUME Known(n) PROVE Known(n)'
  <2>1. \A k \in 1 .. Len(log) : log[k][n] \in Nat
    BY <1>2, TableFacts
  <2>2. \A k \in 1 .. Len(log) : log[k][n] < told[n] => log[k][n] < told'[n]
    BY <1>4, <2>1
  <2> QED
    BY <1>1, <1>9, <2>2 DEF Known
\* An event that tells what is so.
<1>10. ASSUME Current(w) PROVE Known(n)' /\ Right(e)
  <2>1. CASE wpc[w] = "publish deletion"
    <3>1. Rows[n] = 0 /\ \A k \in 1 .. Len(log) : log[k][n] < wread[w]
      BY <1>n, <2>1 DEF NotesBase, Holding
    <3>2. \A k \in 1 .. Len(log) : log[k][n] \in Nat
      BY <1>2, TableFacts
    <3>3. \A k \in 1 .. Len(log) : log[k][n] < told'[n]
      BY <1>2, <1>4, <3>1, <3>2
    <3> QED
      BY <1>1, <1>3, <2>1, <3>1, <3>3 DEF Known, Right
  <2>2. CASE wpc[w] # "publish deletion"
    <3>1. wpc[w] = "publish" /\ wread[w] = Rows[n] /\ Rows[n] # 0
      BY <1>1, <1>7, <1>10, <2>2 DEF NotesBase, Holding
    <3>2. ASSUME NEW k \in 1 .. Len(log), log[k][n] # Rows[n] PROVE log[k][n] < told'[n]
      <4>1. log[k][n] <= Rows[n] /\ log[k][n] \in Nat /\ Rows[n] \in Nat
        BY <1>2, <3>1, RowIsNewest, TableFacts
      <4> QED
        BY <1>4, <3>1, <3>2, <4>1
    <3> QED
      BY <1>1, <1>3, <3>1, <3>2 DEF Known, Right
  <2> QED
    BY <2>1, <2>2
<1>11. ASSUME ~Current(w), Owed(n) PROVE Owed(n)'
  <2>1. PICK v \in Writers : /\ wnote[v] = n
                             /\ \/ wpc[v] = "reload" /\ Rows[n] # 0
                                \/ wpc[v] = "publish" /\ wread[v] = Rows[n]
                                \/ wpc[v] = "publish deletion"
    BY <1>11 DEF Owed
  <2>2. v # w
    BY <1>1, <1>7, <1>11, <2>1
  <2> QED
    BY <1>1, <1>5, <2>1, <2>2 DEF Owed
<1>12. ASSUME NEW m \in NoteIds \ {n}
       PROVE  (Owed(m) => Owed(m)') /\ (Known(m) => Known(m)') /\ (Followed(m) => Followed(m)')
  <2>1. wnote[w] # m
    BY <1>n
  <2>2. Owed(m) => Owed(m)'
    BY <1>1, <1>5, <2>1 DEF Owed
  <2>3. Known(m) => Known(m)'
    BY <1>1, <1>4 DEF Known
  <2>4. Seen(m) => Seen(m)'
    BY <1>1 DEF Seen
  <2>5. ASSUME Followed(m) PROVE Followed(m)'
    <3>1. \A k : LastAbout(m, k)' => k \in DOMAIN wire /\ LastAbout(m, k) /\ wire'[k] = wire[k]
      BY <1>6 DEF LastAbout, About
    <3> QED
      BY <1>1, <1>6, <2>4, <2>5, <3>1 DEF Followed, Right
  <2> QED
    BY <2>2, <2>3, <2>5
<1>13. ASSUME n \notin missed' PROVE Owed(n)' \/ Known(n)'
  <2>1. CASE Current(w)
    BY <1>10, <2>1
  <2>2. CASE ~Current(w)
    BY <1>2, <1>8, <1>9, <1>11, <1>13, <2>2 DEF NoteViewInv
  <2> QED
    BY <2>1, <2>2
<1>14. ASSUME n \notin missed' \union crossed' PROVE Owed(n)' \/ Followed(n)'
  <2>1. CASE Current(w)
    <3>1. Right(e)'
      BY <1>1, <1>10, <2>1 DEF Right
    <3> QED
      BY <1>6, <2>1, <1>10, <1>1, <1>3 DEF Followed, Right
  <2>2. CASE ~Current(w)
    <3>1. n \notin missed /\ n \notin crossed /\ ~(wread[w] < told[n])
      BY <1>8, <1>14, <2>2
    <3>2. wpc[w] = "publish" /\ wread[w] # Rows[n]
      BY <1>1, <1>7, <2>2
    <3>3. PICK k \in 1 .. Len(log) : wread[w] = log[k][n]
      BY <1>n, <3>2 DEF NotesBase, Holding
    <3>4. ~Known(n)
      BY <3>1, <3>2, <3>3 DEF Known
    <3> QED
      BY <1>2, <1>11, <2>2, <3>1, <3>4 DEF NoteViewInv
  <2> QED
    BY <2>1, <2>2
<1>15. \A m \in NoteIds \ {n} : (m \in missed' <=> m \in missed) /\ (m \in crossed' <=> m \in crossed)
  BY <1>8
<1> QED
  BY <1>12, <1>13, <1>14, <1>15 DEF NoteViewInv

LEMMA PublishNoteView ==
    ASSUME NotesBase, NoteViewInv, NEW w \in Writers, Publish(w)
    PROVE  NoteViewInv'
<1>1. Ends(w) /\ wpc[w] # "reload"
  BY PublishCases DEF Publish
<1>2. \/ /\ wire' = Append(wire, Event(w))
         /\ missed' = IF Current(w) THEN missed \ {wnote[w]} ELSE missed
         /\ crossed' = IF Current(w) THEN crossed \ {wnote[w]}
                       ELSE crossed \union {m \in {wnote[w]} : wread[w] < told[wnote[w]]}
         /\ told' = [told EXCEPT ![wnote[w]] = IF wread[w] < @ THEN @ ELSE wread[w]]
      \/ UNCHANGED <<wire, told, crossed>> /\ missed' = missed \union {wnote[w]}
  BY DEF Publish
<1> QED
  BY <1>1, <1>2, SentNoteView, LostNoteView

LEMMA ViewStepNoteView ==
    ASSUME NotesBase, NoteViewInv, ViewAsk \/ ViewRead \/ ViewAnswer
    PROVE  NoteViewInv'
<1>1. UNCHANGED <<log, wpc, wnote, wread, wire, told, raced, missed, crossed>>
  BY DEF ViewAsk, ViewRead, ViewAnswer
<1>2. Rows' = Rows
  BY <1>1 DEF Rows
<1>3. ASSUME NEW n \in NoteIds
      PROVE  Owed(n)' = Owed(n) /\ Known(n)' = Known(n)
  BY <1>1, <1>2 DEF Owed, Known
<1>4. ASSUME NEW n \in NoteIds, Seen(n) PROVE Seen(n)'
  <2>1. CASE ViewAsk
    BY <1>2, <2>1 DEF ViewAsk, Seen, NoNotes
  <2>2. CASE ViewRead
    <3>1. vstep = "asked" /\ vstep' = "read" /\ vread' = Len(log) /\ view' = view /\ view[n] \in {0, Rows[n]}
      BY <1>4, <2>2 DEF ViewRead, Seen
    <3>2. log[vread'] = Rows
      BY <3>1 DEF Rows
    <3> QED
      BY <1>1, <1>2, <3>1, <3>2 DEF Seen
  <2>3. CASE ViewAnswer
    <3>1. vstep = "read" /\ vstep' = "open" /\ view' = Merge(view, log[vread])
      BY <2>3 DEF ViewAnswer
    <3>2. view'[n] = IF log[vread][n] # 0 THEN log[vread][n] ELSE view[n]
      BY <3>1 DEF Merge
    <3> QED
      BY <1>1, <1>2, <1>4, <3>1, <3>2 DEF Seen
  <2> QED
    BY <2>1, <2>2, <2>3
<1>5. ASSUME NEW n \in NoteIds, Followed(n) PROVE Followed(n)'
  BY <1>1, <1>2, <1>4, <1>5 DEF Followed, LastAbout, About, Right
<1> QED
  BY <1>1, <1>3, <1>5 DEF NoteViewInv

\* The first event is taken from those on their way.
LEMMA EventTaken ==
    ASSUME NotesBase, wire # <<>>, wire' = Tail(wire), NEW n \in NoteIds
    PROVE  /\ \A k \in DOMAIN wire' : LastAbout(n, k)' =>
                 k + 1 \in DOMAIN wire /\ LastAbout(n, k + 1) /\ wire'[k] = wire[k + 1]
           /\ 1 \in DOMAIN wire /\ wire[1] = Head(wire) /\ wire[1] \in Events
           /\ About(n)' = {} /\ Head(wire).note = n => LastAbout(n, 1)
           /\ About(n)' = {} /\ Head(wire).note # n => About(n) = {}
<1> DEFINE L == Len(wire)
<1>1. /\ L \in Nat /\ L >= 1 /\ DOMAIN wire = 1 .. L /\ DOMAIN wire' = 1 .. L - 1
      /\ wire[1] = Head(wire) /\ wire[1] \in Events /\ \A k \in 1 .. L - 1 : wire'[k] = wire[k + 1]
  BY Bounds, HeadAndRest
<1> HIDE DEF L
<1>2. ASSUME NEW k \in DOMAIN wire', LastAbout(n, k)'
      PROVE  k + 1 \in DOMAIN wire /\ LastAbout(n, k + 1) /\ wire'[k] = wire[k + 1]
  <2>1. k \in 1 .. L - 1 /\ k + 1 \in 1 .. L /\ wire'[k] = wire[k + 1]
    BY <1>1, <1>2
  <2>2. wire[k + 1].note = n
    BY <1>2, <2>1 DEF LastAbout, About
  <2>3. ASSUME NEW i \in About(n) PROVE i <= k + 1
    <3>1. i \in 1 .. L /\ wire[i].note = n
      BY <1>1, <2>3 DEF About
    <3>2. CASE i = 1
      BY <2>1, <3>2
    <3>3. CASE i # 1
      <4>1. i - 1 \in 1 .. L - 1 /\ wire'[i - 1] = wire[i]
        BY <1>1, <3>1, <3>3
      <4>2. i - 1 \in About(n)'
        BY <1>1, <3>1, <4>1 DEF About
      <4>3. i - 1 <= k
        BY <1>2, <4>2 DEF LastAbout
      <4> QED
        BY <2>1, <3>1, <4>3
    <3> QED
      BY <3>2, <3>3
  <2> QED
    BY <1>1, <2>1, <2>2, <2>3 DEF LastAbout, About
<1>3. ASSUME About(n)' = {} PROVE About(n) \subseteq {1}
  <2>1. ASSUME NEW i \in About(n), i # 1 PROVE FALSE
    <3>1. i \in 1 .. L /\ wire[i].note = n
      BY <1>1, <2>1 DEF About
    <3>2. i - 1 \in 1 .. L - 1 /\ wire'[i - 1] = wire[i]
      BY <1>1, <2>1, <3>1
    <3>3. i - 1 \in About(n)'
      BY <1>1, <3>1, <3>2 DEF About
    <3> QED
      BY <1>3, <3>3
  <2> QED
    BY <2>1
<1>4. ASSUME About(n)' = {}, Head(wire).note = n PROVE LastAbout(n, 1)
  <2>1. 1 \in About(n)
    BY <1>1, <1>4 DEF About
  <2> QED
    BY <1>3, <1>4, <2>1 DEF LastAbout
<1>5. ASSUME About(n)' = {}, Head(wire).note # n PROVE About(n) = {}
  <2>1. 1 \notin About(n)
    BY <1>1, <1>5 DEF About
  <2> QED
    BY <1>3, <1>5, <2>1
<1> QED
  BY <1>1, <1>2, <1>4, <1>5

\* The view shows what an event tells that tells what is so, or has noted that
\* the answer on its way will undo it.
LEMMA RightIsSeen ==
    ASSUME NotesBase, Handle, Right(Head(wire)), NEW n \in NoteIds, Head(wire).note = n
    PROVE  Seen(n)'
<1>n. PICK e : e = Head(wire)
  OBVIOUS
<1>1. e \in Events /\ e.note \in NoteIds /\ e.deleted \in BOOLEAN /\ e.at \in Nat
  <2>1. Head(wire) \in Events
    BY Bounds, HeadAndRest DEF Handle
  <2> QED
    BY <1>n, <2>1, Bounds DEF Events
<1>2. n = e.note
  BY <1>n
<1>3. /\ view' = NoteListener(e) /\ UNCHANGED <<log, vstep, vread>>
      /\ raced' = IF WillUndo(e) THEN raced \union {n}
                  ELSE IF vstep = "open" THEN raced \ {n} ELSE raced
  BY <1>n, <1>2 DEF Handle
<1>4. Rows' = Rows /\ (e.deleted <=> Rows[n] = 0) /\ (~e.deleted => e.at = Rows[n])
  BY <1>n, <1>2, <1>3 DEF Right, Rows
<1>5. view \in Tables
  BY DEF NotesBase, NotesTypes
<1>6. vstep # "closed" => view'[n] = Rows[n]
  BY <1>2, <1>3, <1>4, <1>5 DEF NoteListener, Tables
<1>7. ASSUME vstep = "read", n \notin raced', log[vread][n] # 0 PROVE log[vread][n] = Rows[n]
  <2>1. ~e.deleted /\ ~(log[vread][n] < e.at)
    BY <1>2, <1>3, <1>7 DEF WillUndo
  <2>2. vread \in 1 .. Len(log) /\ log[vread][n] \in Nat /\ Rows[n] \in Nat
    BY <1>7, ViewReads, TableFacts
  <2>3. log[vread][n] <= Rows[n]
    BY <1>4, <2>1, <2>2, RowIsNewest
  <2> QED
    BY <1>4, <2>1, <2>2, <2>3
<1> QED
  BY <1>3, <1>4, <1>6, <1>7 DEF Seen

LEMMA HandleNoteView ==
    ASSUME NotesBase, NoteViewInv, Handle
    PROVE  NoteViewInv'
<1>1. /\ wire # <<>> /\ wire' = Tail(wire) /\ view' = NoteListener(Head(wire))
      /\ raced' = IF WillUndo(Head(wire)) THEN raced \union {Head(wire).note}
                  ELSE IF vstep = "open" THEN raced \ {Head(wire).note} ELSE raced
      /\ UNCHANGED <<log, wpc, wnote, wread, told, vstep, vread, missed, crossed>>
      /\ Rows' = Rows
  BY DEF Handle, Rows
<1>2. ASSUME NEW n \in NoteIds PROVE Owed(n)' = Owed(n) /\ Known(n)' = Known(n)
  BY <1>1 DEF Owed, Known
<1>3. ASSUME NEW n \in NoteIds, Followed(n) PROVE Followed(n)'
  <2>1. ASSUME NEW k \in DOMAIN wire', LastAbout(n, k)' PROVE Right(wire[k])'
    <3>1. k + 1 \in DOMAIN wire /\ LastAbout(n, k + 1) /\ wire'[k] = wire[k + 1]
      BY <1>1, <2>1, EventTaken
    <3>2. Right(wire[k + 1])
      BY <1>3, <3>1 DEF Followed
    <3> QED
      BY <1>1, <3>1, <3>2 DEF Right
  <2>2. ASSUME About(n)' = {} PROVE Seen(n)'
    <3>1. CASE Head(wire).note = n
      <4>1. LastAbout(n, 1) /\ 1 \in DOMAIN wire /\ wire[1] = Head(wire)
        BY <1>1, <2>2, <3>1, EventTaken
      <4>2. Right(Head(wire))
        BY <1>3, <4>1 DEF Followed
      <4> QED
        BY <3>1, <4>2, RightIsSeen
    <3>2. CASE Head(wire).note # n
      <4>1. Seen(n)
        BY <1>1, <1>3, <2>2, <3>2, EventTaken DEF Followed
      <4>2. view'[n] = view[n] /\ (n \in raced' <=> n \in raced)
        BY <1>1, <3>2 DEF NoteListener, NotesBase, NotesTypes, Tables
      <4> QED
        BY <1>1, <4>1, <4>2 DEF Seen
    <3> QED
      BY <3>1, <3>2
  <2> QED
    BY <2>1, <2>2 DEF Followed
<1> QED
  BY <1>1, <1>2, <1>3 DEF NoteViewInv

\* The page, and nothing else.
LEMMA PageOnly ==
    ASSUME NEW k \in Fetches, NotesRead(k) \/ NotesAnswer(k) \/ NotesFail(k)
    PROVE  UNCHANGED <<log, wpc, wnote, wread, wire, told, view, vstep, vread, raced, missed, crossed>>
BY DEF NotesRead, NotesAnswer, NotesFail

LEMMA QuietNoteView ==
    ASSUME NoteViewInv,
           UNCHANGED <<log, wpc, wnote, wread, wire, told, view, vstep, vread, raced, missed, crossed>>
    PROVE  NoteViewInv'
<1>1. \A n \in NoteIds : Owed(n) => Owed(n)'
  BY DEF Owed, Rows
<1> QED
  BY <1>1, NoteViewFrame

LEMMA NoteViewStep == NotesBase /\ NoteViewInv /\ [NotesNext]_notesVars => NoteViewInv'
<1> SUFFICES ASSUME NotesBase, NoteViewInv, [NotesNext]_notesVars PROVE NoteViewInv'
  OBVIOUS
<1>1. ASSUME NEW w \in Writers, CreateNote(w) \/ ChangeNote(w) \/ DeleteNote(w) PROVE NoteViewInv'
  BY <1>1, EachRewrites, RewriteNoteView
<1>2. ASSUME NEW w \in Writers, WriterStep(w) PROVE NoteViewInv'
  BY <1>2, ReloadNoteView, PublishNoteView DEF WriterStep
<1>3. ASSUME NEW w \in Writers, Die(w) PROVE NoteViewInv'
  BY <1>3, DieEnds, LostNoteView
<1>4. CASE ClientStep
  BY <1>4, ViewStepNoteView, HandleNoteView, PageOnly, QuietNoteView DEF ClientStep
<1>5. ASSUME NEW k \in Fetches, NotesFail(k) PROVE NoteViewInv'
  BY <1>5, PageOnly, QuietNoteView
<1>6. CASE UNCHANGED notesVars
  BY <1>6, QuietNoteView
<1> QED
  BY <1>1, <1>2, <1>3, <1>4, <1>5, <1>6 DEF NotesNext

-----------------------------------------------------------------------------
(* What the page shows *)

\* The page has read the rows in its last request, or will learn that there is
\* something to read.  What it shows comes from this request alone, unless it
\* is spoiled, and is overwritten by it, unless something staler came later.
NotePageInv ==
    /\ missed = {} =>
          wire # <<>> \/ (\E n \in NoteIds : Owed(n)) \/ pread[sent] = 0 \/ log[pread[sent]] = Rows
    /\ ~spoiled =>
          IF sent \in pending THEN page = NoNotes ELSE pread[sent] # 0 /\ page = log[pread[sent]]
    /\ ~stale =>
          /\ newest # 0 => \A n \in NoteIds : log[newest][n] # 0 => page[n] = log[newest][n]
          /\ sent \notin pending => pread[sent] # 0 /\ pread[sent] <= newest

LEMMA NotePageInit == NotesInit => NotePageInv
<1> SUFFICES ASSUME NotesInit PROVE NotePageInv
  OBVIOUS
<1>1. pread = [k \in Fetches |-> 0] /\ sent = 1 /\ pending = {1} /\ page = NoNotes /\ newest = 0
  BY DEF NotesInit
<1>2. sent \in Fetches
  BY NotesBaseInit, Bounds
<1> QED
  BY <1>1, <1>2 DEF NotePageInv

\* The page stands still; requests that owe events still owe them, or an event
\* is on its way, or has been lost.
LEMMA NotePageFrame ==
    ASSUME NotesBase, NotePageInv,
           UNCHANGED <<page, sent, pending, pread, newest, spoiled, stale>>,
           \A k \in 1 .. Len(log) : log'[k] = log[k],
           \/ missed' # {} \/ wire' # <<>> \/ \E n \in NoteIds : Owed(n)'
           \/ /\ missed' = missed /\ wire' = wire /\ log' = log
              /\ \A n \in NoteIds : Owed(n) => Owed(n)'
    PROVE  NotePageInv'
<1>1. sent \in Fetches /\ pread[sent] \in Nat /\ pread[sent] <= Len(log)
      /\ newest \in Nat /\ newest <= Len(log) /\ Len(log) \in Nat
  BY Bounds, TableFacts DEF NotesBase, Reads
<1>2. (pread[sent] # 0 => log'[pread[sent]] = log[pread[sent]]) /\ (newest # 0 => log'[newest] = log[newest])
  BY <1>1
<1>3. missed' = {} =>
        wire' # <<>> \/ (\E n \in NoteIds : Owed(n)') \/ pread[sent] = 0 \/ log'[pread[sent]] = Rows'
  BY <1>2 DEF NotePageInv, Rows
<1>4. ~spoiled => IF sent \in pending THEN page = NoNotes
                  ELSE pread[sent] # 0 /\ page = log'[pread[sent]]
  BY <1>2 DEF NotePageInv
<1>5. ~stale => /\ newest # 0 => \A n \in NoteIds : log'[newest][n] # 0 => page[n] = log'[newest][n]
                /\ sent \notin pending => pread[sent] # 0 /\ pread[sent] <= newest
  BY <1>2 DEF NotePageInv
<1>6. NoNotes' = NoNotes
  BY DEF NoNotes
<1> QED
  BY <1>3, <1>4, <1>5, <1>6 DEF NotePageInv

LEMMA RewriteNotePage ==
    ASSUME NotesBase, NotePageInv, NEW w \in Writers, NEW c, Rewrite(w, c)
    PROVE  NotePageInv'
<1>1. \A k \in 1 .. Len(log) : log'[k] = log[k]
  BY LogGrows
<1>2. /\ UNCHANGED <<page, sent, pending, pread, newest, spoiled, stale, wnote>>
      /\ wpc' = [wpc EXCEPT ![w] = IF c = 0 THEN "publish deletion" ELSE "reload"]
  BY DEF Rewrite
<1>3. PICK n \in NoteIds : n = wnote[w]
  BY LogGrows
<1>4. wpc'[w] = IF c = 0 THEN "publish deletion" ELSE "reload"
  BY <1>2 DEF NotesBase, NotesTypes
<1>5. Rows'[n] = c
  BY <1>3, LogGrows
<1>6. Owed(n)'
  BY <1>2, <1>3, <1>4, <1>5 DEF Owed
<1> QED
  BY <1>1, <1>2, <1>6, NotePageFrame

LEMMA WriterNotePage ==
    ASSUME NotesBase, NotePageInv, NEW w \in Writers, Reload(w) \/ Publish(w) \/ Die(w)
    PROVE  NotePageInv'
<1>1. UNCHANGED <<log, page, sent, pending, pread, newest, spoiled, stale>>
  BY DEF Reload, Publish, Die
<1>2. CASE Reload(w)
  <2>1. missed' = missed /\ wire' = wire
    BY <1>2 DEF Reload
  <2>2. \A n \in NoteIds : Owed(n) => Owed(n)'
    BY <1>2, ReloadOwed
  <2> QED
    BY <1>1, <2>1, <2>2, NotePageFrame
<1>3. CASE Publish(w) /\ wire' = Append(wire, Event(w))
  <2>1. wire' # <<>>
    <3>1. Event(w) \in Events
      BY DEF Event, Events, NotesBase, NotesTypes
    <3>2. \A S, e : wire \in Seq(S) /\ e \in S => Len(Append(wire, e)) = Len(wire) + 1
      OBVIOUS
    <3>3. Len(wire') = Len(wire) + 1 /\ Len(wire) \in Nat
      BY <1>3, <3>1, <3>2, Bounds
    <3>4. Len(<<>>) = 0
      OBVIOUS
    <3> QED
      BY <3>3, <3>4
  <2> QED
    BY <1>1, <2>1, NotePageFrame
<1>4. CASE missed' = missed \union {wnote[w]}
  BY <1>1, <1>4, NotePageFrame
<1> QED
  BY <1>2, <1>3, <1>4 DEF Publish, Die

LEMMA QuietNotePage ==
    ASSUME NotesBase, NotePageInv,
           UNCHANGED <<log, wpc, wnote, wread, wire, missed, page, sent, pending, pread, newest, spoiled, stale>>
    PROVE  NotePageInv'
<1>1. \A n \in NoteIds : Owed(n) => Owed(n)'
  BY DEF Owed, Rows
<1> QED
  BY <1>1, NotePageFrame

LEMMA HandleNotePage ==
    ASSUME NotesBase, NotePageInv, Handle, NotesBase'
    PROVE  NotePageInv'
<1>1. /\ page' = NoNotes /\ sent' = sent + 1 /\ pending' = pending \union {sent + 1}
      /\ newest' = 0 /\ pread' = pread
  BY DEF Handle, Send
<1>2. sent \in Nat /\ sent + 1 \in Fetches
  BY <1>1, Bounds DEF NotesBase, NotesTypes
<1>3. pread[sent + 1] = 0
  BY <1>2 DEF NotesBase, Reads
<1>4. NoNotes' = NoNotes
  BY DEF NoNotes
<1> QED
  BY <1>1, <1>3, <1>4 DEF NotePageInv

LEMMA ReadNotePage ==
    ASSUME NotesBase, NotePageInv, NEW k \in Fetches, NotesRead(k)
    PROVE  NotePageInv'
<1>1. /\ k \in pending /\ pread[k] = 0 /\ pread' = [pread EXCEPT ![k] = Len(log)]
      /\ UNCHANGED <<log, wpc, wnote, wread, wire, page, sent, pending, newest, spoiled, stale, missed>>
  BY DEF NotesRead
<1>2. /\ sent \in Fetches /\ pread \in [Fetches -> Commits] /\ Rows' = Rows /\ Rows = log[Len(log)]
      /\ NoNotes' = NoNotes
  BY <1>1, Bounds DEF Rows, NoNotes
<1>3. ASSUME missed = {}
      PROVE  wire # <<>> \/ (\E n \in NoteIds : Owed(n)) \/ pread'[sent] = 0 \/ log[pread'[sent]] = Rows
  <2>1. CASE k = sent
    BY <1>1, <1>2, <2>1
  <2>2. CASE k # sent
    BY <1>1, <1>2, <1>3, <2>2 DEF NotePageInv
  <2> QED
    BY <2>1, <2>2
<1>4. \A n \in NoteIds : Owed(n)' = Owed(n)
  BY <1>1, <1>2 DEF Owed
<1>5. sent \notin pending => pread'[sent] = pread[sent]
  BY <1>1, <1>2
<1> QED
  BY <1>1, <1>2, <1>3, <1>4, <1>5 DEF NotePageInv

LEMMA AnswerNotePage ==
    ASSUME NotesBase, NotePageInv, NEW k \in Fetches, NotesAnswer(k)
    PROVE  NotePageInv'
<1>1. /\ k \in pending /\ pread[k] # 0 /\ pending' = pending \ {k}
      /\ page' = Merge(page, log[pread[k]])
      /\ newest' = IF pread[k] < newest THEN newest ELSE pread[k]
      /\ stale' = (stale \/ pread[k] < newest) /\ spoiled' = (spoiled \/ k # sent)
      /\ UNCHANGED <<log, wpc, wnote, wread, wire, sent, pread, missed>>
  BY DEF NotesAnswer
<1>2. /\ pread[k] \in 1 .. Len(log) /\ log[pread[k]] \in Tables /\ newest \in Nat /\ pread[k] \in Nat
      /\ pread[sent] \in Nat
  <2>1. pread[k] \in Nat /\ newest \in Nat /\ pread[sent] \in Nat
    BY Bounds
  <2>2. pread[k] <= Len(log)
    BY DEF NotesBase, Reads
  <2> QED
    BY <1>1, <2>1, <2>2, TableFacts
<1>3. \A n \in NoteIds : page'[n] = IF log[pread[k]][n] # 0 THEN log[pread[k]][n] ELSE page[n]
  BY <1>1 DEF Merge
<1>4. ASSUME ~spoiled' PROVE k = sent /\ page' = log[pread[sent]]
  <2>1. k = sent /\ page = NoNotes
    BY <1>1, <1>4 DEF NotePageInv
  <2>2. Merge(NoNotes, log[pread[k]]) = log[pread[k]]
    BY <1>2 DEF Merge, NoNotes, Tables
  <2> QED
    BY <1>1, <2>1, <2>2
<1>5. ASSUME ~stale'
      PROVE  /\ newest' = pread[k]
             /\ sent \notin pending' => pread[sent] # 0 /\ pread[sent] <= newest'
  <2>0. ~stale /\ ~(pread[k] < newest)
    BY <1>1, <1>5
  <2>1. ~stale /\ newest' = pread[k] /\ newest <= pread[k]
    BY <1>1, <1>2, <2>0
  <2>2. CASE k = sent
    BY <1>1, <1>2, <2>1, <2>2
  <2>3. CASE k # sent
    BY <1>1, <1>2, <2>1, <2>3 DEF NotePageInv
  <2> QED
    BY <2>1, <2>2, <2>3
<1>6. \A n \in NoteIds : Owed(n)' = Owed(n)
  BY <1>1 DEF Owed, Rows
<1>7. missed' = {} =>
        wire' # <<>> \/ (\E n \in NoteIds : Owed(n)') \/ pread'[sent'] = 0 \/ log'[pread'[sent']] = Rows'
  BY <1>1, <1>6 DEF NotePageInv, Rows
<1>8. ~spoiled' => IF sent' \in pending' THEN page' = NoNotes'
                   ELSE pread'[sent'] # 0 /\ page' = log'[pread'[sent']]
  BY <1>1, <1>4
<1>9. ~stale' =>
        /\ newest' # 0 => \A n \in NoteIds : log'[newest'][n] # 0 => page'[n] = log'[newest'][n]
        /\ sent' \notin pending' => pread'[sent'] # 0 /\ pread'[sent'] <= newest'
  BY <1>1, <1>3, <1>5
<1> QED
  BY <1>7, <1>8, <1>9 DEF NotePageInv

LEMMA FailNotePage ==
    ASSUME NotesBase, NotePageInv, NEW k \in Fetches, NotesFail(k)
    PROVE  NotePageInv'
<1>1. /\ pending' = pending \ {k}
      /\ stale' = (stale \/ k = sent) /\ spoiled' = (spoiled \/ k = sent)
      /\ UNCHANGED <<log, wpc, wnote, wread, wire, page, sent, pread, newest, missed>>
  BY DEF NotesFail
<1>2. /\ \A n \in NoteIds : Owed(n)' = Owed(n)
      /\ Rows' = Rows /\ NoNotes' = NoNotes
  BY <1>1 DEF Owed, Rows, NoNotes
<1>3. k # sent => (sent \in pending' <=> sent \in pending)
  BY <1>1
<1> QED
  BY <1>1, <1>2, <1>3 DEF NotePageInv

LEMMA NotePageStep == NotesBase /\ NotesBase' /\ NotePageInv /\ [NotesNext]_notesVars => NotePageInv'
<1> SUFFICES ASSUME NotesBase, NotesBase', NotePageInv, [NotesNext]_notesVars PROVE NotePageInv'
  OBVIOUS
<1>1. ASSUME NEW w \in Writers, CreateNote(w) \/ ChangeNote(w) \/ DeleteNote(w) PROVE NotePageInv'
  BY <1>1, EachRewrites, RewriteNotePage
<1>2. ASSUME NEW w \in Writers, WriterStep(w) \/ Die(w) PROVE NotePageInv'
  BY <1>2, WriterNotePage DEF WriterStep
<1>3. CASE ViewAsk \/ ViewRead \/ ViewAnswer
  BY <1>3, QuietNotePage DEF ViewAsk, ViewRead, ViewAnswer
<1>4. CASE Handle
  BY <1>4, HandleNotePage
<1>5. ASSUME NEW k \in Fetches, NotesRead(k) \/ NotesAnswer(k) \/ NotesFail(k) PROVE NotePageInv'
  BY <1>5, ReadNotePage, AnswerNotePage, FailNotePage
<1>6. CASE UNCHANGED notesVars
  BY <1>6, QuietNotePage
<1> QED
  BY <1>1, <1>2, <1>3, <1>4, <1>5, <1>6 DEF NotesNext, ClientStep

-----------------------------------------------------------------------------
(* The theorems *)

NotesInv == NotesBase /\ NoteViewInv /\ NotePageInv

LEMMA NotesInvHolds == NotesSpec => []NotesInv
<1>1. NotesInit => NotesInv
  BY NotesBaseInit, NoteViewInit, NotePageInit DEF NotesInv
<1>2. NotesInv /\ [NotesNext]_notesVars => NotesInv'
  BY NotesBaseStep, NoteViewStep, NotePageStep DEF NotesInv
<1> QED
  BY <1>1, <1>2, PTL DEF NotesSpec

(***************************************************************************)
(* For any number of notes and requests every reachable state is well      *)
(* typed: in particular the page sends no more requests than there are     *)
(* events, and one (notes.dart).                                           *)
(***************************************************************************)
THEOREM NoteTypesCorrect == NotesSpec => []NotesTypes
<1>1. NotesInv => NotesTypes
  BY DEF NotesInv, NotesBase
<1> QED
  BY <1>1, NotesInvHolds, PTL

\* Nobody owes anything when all requests have ended.
LEMMA NothingOwed == Settled => \A n \in NoteIds : ~Owed(n)
BY DEF Settled, Owed

LEMMA ViewIsRight == NotesInv => ViewFollows
<1> SUFFICES ASSUME NotesInv, Settled, vstep = "open", NEW n \in NoteIds \ Trouble
             PROVE  view[n] = Rows[n]
  BY DEF ViewFollows
<1>1. n \notin missed \union crossed /\ n \notin raced /\ About(n) = {}
  BY DEF Trouble, Settled, About
<1>2. Followed(n)
  BY <1>1, NothingOwed DEF NotesInv, NoteViewInv
<1> QED
  BY <1>1, <1>2 DEF Followed, Seen

LEMMA PageIsRight == NotesInv => PageFollows
<1> SUFFICES ASSUME NotesInv, Settled, pending = {}, missed = {}
             PROVE  /\ ~spoiled => page = Rows
                    /\ ~stale => \A n \in NoteIds : Rows[n] # 0 => page[n] = Rows[n]
  BY DEF PageFollows
<1>1. pread[sent] = 0 \/ log[pread[sent]] = Rows
  BY NothingOwed DEF NotesInv, NotePageInv, Settled
<1>2. ASSUME ~spoiled PROVE page = Rows
  BY <1>1, <1>2 DEF NotesInv, NotePageInv
<1>3. ASSUME ~stale, NEW n \in NoteIds, Rows[n] # 0 PROVE page[n] = Rows[n]
  <2>1. NotesBase
    BY DEF NotesInv
  <2>2. pread[sent] # 0 /\ pread[sent] <= newest /\ log[pread[sent]] = Rows
    BY <1>1, <1>3 DEF NotesInv, NotePageInv
  <2>3. /\ pread[sent] \in Nat /\ newest \in Nat /\ newest <= Len(log) /\ Len(log) \in Nat /\ Len(log) >= 1
        /\ Rows = log[Len(log)]
    BY <2>1, Bounds, TableFacts DEF NotesBase, Reads
  <2>4. pread[sent] \in 1 .. Len(log) /\ newest \in 1 .. Len(log) /\ newest # 0
    BY <2>2, <2>3
  <2>5. log[newest][n] # 0 /\ Rows[n] <= log[newest][n] /\ log[newest][n] <= Rows[n]
    BY <1>3, <2>1, <2>2, <2>3, <2>4 DEF NotesBase, History
  <2>6. log[newest][n] = Rows[n]
    BY <2>1, <2>4, <2>5, TableFacts
  <2> QED
    BY <1>3, <2>4, <2>6 DEF NotesInv, NotePageInv
<1> QED
  BY <1>2, <1>3

(***************************************************************************)
(* For any number of notes and requests: when things have settled, the     *)
(* view of a profile and the page of its notes show what is stored, except *)
(* notes whose last event was lost, overtaken or undone by an older        *)
(* answer, and pages to which answers were added in the wrong order        *)
(* (view.dart, notes.dart, note.py).                                       *)
(***************************************************************************)
THEOREM NotesAgree == NotesSpec => []NotesFollow
<1>1. NotesInv => NotesFollow
  BY ViewIsRight, PageIsRight DEF NotesFollow
<1> QED
  BY <1>1, NotesInvHolds, PTL
=============================================================================
