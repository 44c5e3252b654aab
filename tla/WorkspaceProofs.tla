-------------------------- MODULE WorkspaceProofs --------------------------
(***************************************************************************)
(* Proofs about Workspace, for any number of workflows, resources,         *)
(* requests and versions: the versions of a workflow are numbered in the   *)
(* order of their commits, and no name is taken away under a use that was  *)
(* there all the while.                                                    *)
(***************************************************************************)
EXTENDS Workspace, TLAPS

-----------------------------------------------------------------------------
(* What requests carry.                                                    *)

SaveRequest == [pc : {"insert", "update"}, workflow : Workflows, version : Nat, def : Definitions]

TakeRequest ==
  [pc : {"refs", "mentions", "write"}, op : {"delete", "rename"}, target : Resources,
   name : Names, new : Names \cup {"gone"}]

ReqOK == req \in [Requests -> {Idle} \cup SaveRequest \cup TakeRequest]

\* A request is of one kind, told by where it is.
LEMMA Kinds ==
  ASSUME ReqOK, NEW r \in Requests
  PROVE  /\ At(r, "idle") \/ At(r, "insert") \/ At(r, "update") \/ Taking(r)
         /\ At(r, "insert") \/ At(r, "update") => req[r] \in SaveRequest
         /\ Taking(r) => req[r] \in TakeRequest
  BY DEF ReqOK, At, Taking, Idle, SaveRequest, TakeRequest

-----------------------------------------------------------------------------
(* Versions.                                                               *)

\* The versions of each workflow are numbered, and a dead one has none.
Numbered ==
  /\ life \in [Workflows -> {"unborn", "live", "gone"}]
  /\ versions \in [Workflows -> Seq(Nat)]
  /\ current \in [Workflows -> Nat]
  /\ \A w \in Workflows : life[w] # "live" => versions[w] = <<>>

\* A number that was taken is the next one or an older one, once inserted the next.
Ahead ==
  \A r \in Requests :
    /\ At(r, "insert") => life[req[r].workflow] # "unborn"
    /\ At(r, "insert") /\ life[req[r].workflow] = "live" =>
         req[r].version \in 1..(Len(versions[req[r].workflow]) + 1)
    /\ At(r, "update") =>
         /\ life[req[r].workflow] = "live"
         /\ req[r].version = Len(versions[req[r].workflow]) + 1

\* One transaction at a time holds an uncommitted version of a workflow.
OneInserted ==
  \A p, r \in Requests :
    At(p, "update") /\ At(r, "update") /\ req[p].workflow = req[r].workflow => p = r

VersionsOK == Numbered /\ VersionsInOrder /\ Ahead /\ OneInserted

VInv == ReqOK /\ VersionsOK

\* The number a save takes is one past the committed ones.
LEMMA NextIsNext ==
  ASSUME Numbered, VersionsInOrder, NEW w \in Workflows, life[w] = "live"
  PROVE  NextVersion(w) = Len(versions[w]) + 1
<1> DEFINE n == Len(versions[w])
           S == {versions[w][k] : k \in DOMAIN versions[w]}
<1>1. n \in Nat /\ DOMAIN versions[w] = 1..n
  BY DEF Numbered
<1>2. \A k \in 1..n : versions[w][k] = k
  BY <1>1 DEF VersionsInOrder
<1>3. CASE versions[w] = <<>>
  BY <1>3 DEF NextVersion
<1>4. CASE versions[w] # <<>>
  <2>1. n # 0
    BY <1>4 DEF Numbered
  <2>2. S = 1..n
    BY <1>1, <1>2
  <2>3. n \in S /\ \A k \in DOMAIN versions[w] : versions[w][k] <= n
    BY <2>1, <2>2, <1>1, <1>2
  <2>4. \A m \in S : (\A k \in DOMAIN versions[w] : versions[w][k] <= m) => m = n
    <3> TAKE m \in S
    <3> HAVE \A k \in DOMAIN versions[w] : versions[w][k] <= m
    <3>1. n <= m /\ m \in 1..n
      BY <2>1, <2>2, <1>1, <1>2
    <3> QED  BY <3>1, <1>1
  <2>5. (CHOOSE m \in S : \A k \in DOMAIN versions[w] : versions[w][k] <= m) = n
    BY <2>3, <2>4
  <2>6. NextVersion(w) = 1 + n
    BY <2>5, <1>4 DEF NextVersion
  <2> QED  BY <2>6, <1>1
<1> QED  BY <1>3, <1>4

\* A step that has nothing to do with versions.
Other ==
  /\ UNCHANGED <<life, versions, current>>
  /\ UNCHANGED req \/ \E r \in Requests, x \in {Idle} \cup TakeRequest : Becomes(r, x)

\* What the steps are to the versions.
LEMMA StepKinds ==
  ASSUME ReqOK, Step
  PROVE  \/ \E w \in Workflows, d \in Definitions : createWorkflow(w, d)
         \/ \E w \in Workflows : deleteWorkflow(w)
         \/ \E r \in Requests, w \in Workflows, d \in Definitions : Save(r, w, d)
         \/ \E r \in Requests : SaveInsert(r)
         \/ \E r \in Requests : SaveCommit(r)
         \/ Other
<1>1. ASSUME NEW i \in Resources, NEW n \in Given[i], createResource(i, n)
      PROVE  Other
  BY <1>1 DEF createResource, Other
<1>2. ASSUME NEW r \in Requests, NEW i \in Resources, Delete(r, i)
      PROVE  Other
  <2> DEFINE x == [pc |-> "refs", op |-> "delete", target |-> i, name |-> name[i], new |-> "gone"]
  <2>1. x \in TakeRequest /\ Becomes(r, x)
    BY <1>2 DEF Delete, Exists, TakeRequest
  <2> QED  BY <2>1, <1>2 DEF Delete, Other
<1>3. ASSUME NEW r \in Requests, NEW i \in Servers, NEW n \in Names, Rename(r, i, n)
      PROVE  Other
  <2> DEFINE x == [pc |-> IF n = name[i] THEN "write" ELSE "refs",
                   op |-> "rename", target |-> i, name |-> name[i], new |-> n]
  <2>1. x \in TakeRequest /\ Becomes(r, x)
    BY <1>3 DEF Rename, Exists, TakeRequest, Resources
  <2> QED  BY <2>1, <1>3 DEF Rename, Other
<1>4. ASSUME NEW r \in Requests, CheckRefs(r)
      PROVE  Other
  <2> DEFINE pc == IF req[r].target \in Secrets THEN "mentions" ELSE "write"
             x == [req[r] EXCEPT !.pc = pc]
  <2>1. Becomes(r, Idle) \/ Becomes(r, x)
    BY <1>4 DEF CheckRefs
  <2>2. req[r] \in TakeRequest
    BY <1>4, Kinds DEF CheckRefs, At, Taking
  <2>3. x \in TakeRequest
    BY <2>2 DEF TakeRequest
  <2> QED  BY <2>1, <2>3, <1>4 DEF CheckRefs, Other
<1>5. ASSUME NEW r \in Requests, CheckMentions(r)
      PROVE  Other
  <2> DEFINE x == [req[r] EXCEPT !.pc = "write"]
  <2>1. Becomes(r, Idle) \/ Becomes(r, x)
    BY <1>5 DEF CheckMentions
  <2>2. req[r] \in TakeRequest
    BY <1>5, Kinds DEF CheckMentions, At, Taking
  <2>3. x \in TakeRequest
    BY <2>2 DEF TakeRequest
  <2> QED  BY <2>1, <2>3, <1>5 DEF CheckMentions, Other
<1>6. ASSUME NEW r \in Requests, Write(r) \/ Fails(r)
      PROVE  Other
  BY <1>6 DEF Write, Fails, Other
<1> QED  BY <1>1, <1>2, <1>3, <1>4, <1>5, <1>6 DEF Step, Handle

\* Requests stay well formed.
LEMMA ReqStep ==
  ASSUME VInv, Step
  PROVE  ReqOK'
<1>1. ASSUME NEW r \in Requests, NEW x \in {Idle} \cup SaveRequest \cup TakeRequest, Becomes(r, x)
      PROVE  ReqOK'
  BY <1>1 DEF VInv, ReqOK, Becomes
<1>2. ASSUME NEW r \in Requests, NEW w \in Workflows, NEW d \in Definitions, Save(r, w, d)
      PROVE  ReqOK'
  <2> DEFINE x == [pc |-> "insert", workflow |-> w, version |-> NextVersion(w), def |-> d]
  <2>1. NextVersion(w) \in Nat
    BY <1>2, NextIsNext DEF VInv, VersionsOK, Numbered, Save
  <2>2. x \in SaveRequest /\ Becomes(r, x)
    BY <2>1, <1>2 DEF Save, SaveRequest
  <2> QED  BY <2>2, <1>1
<1>3. ASSUME NEW r \in Requests, SaveInsert(r)
      PROVE  ReqOK'
  <2>1. req[r] \in SaveRequest
    BY <1>3, Kinds DEF SaveInsert, VInv
  <2>2. [req[r] EXCEPT !.pc = "update"] \in SaveRequest
    BY <2>1 DEF SaveRequest
  <2>3. Becomes(r, Idle) \/ Becomes(r, [req[r] EXCEPT !.pc = "update"])
    BY <1>3 DEF SaveInsert
  <2> QED  BY <2>2, <2>3, <1>1
<1>4. ASSUME NEW r \in Requests, SaveCommit(r)
      PROVE  ReqOK'
  BY <1>1, <1>4 DEF SaveCommit
<1>5. CASE UNCHANGED req
  BY <1>5 DEF VInv, ReqOK
<1>6. (\E w \in Workflows, d \in Definitions : createWorkflow(w, d))
        \/ (\E w \in Workflows : deleteWorkflow(w)) => UNCHANGED req
  BY DEF createWorkflow, deleteWorkflow
<1>7. Other => ReqOK'
  BY <1>1, <1>5 DEF Other
<1> QED  BY <1>2, <1>3, <1>4, <1>5, <1>6, <1>7, StepKinds DEF VInv

-----------------------------------------------------------------------------
(* One lemma for each kind of step.                                        *)

\* No request can have a number of a workflow that was not there.
LEMMA CreateKeeps ==
  ASSUME VInv, NEW w \in Workflows, NEW d \in Definitions, createWorkflow(w, d)
  PROVE  VersionsOK'
<1>1. /\ life' = [life EXCEPT ![w] = "live"] /\ life[w] = "unborn"
      /\ versions' = [versions EXCEPT ![w] = <<1>>]
      /\ current' = [current EXCEPT ![w] = 1]
      /\ req' = req
  BY DEF createWorkflow
<1>2. Numbered'
  BY <1>1 DEF VInv, VersionsOK, Numbered
<1>3. VersionsInOrder'
  BY <1>1 DEF VInv, VersionsOK, Numbered, VersionsInOrder
<1>4. Ahead'
  BY <1>1, Kinds DEF VInv, VersionsOK, Numbered, Ahead, At, SaveRequest
<1>5. OneInserted'
  BY <1>1 DEF VInv, VersionsOK, OneInserted, At
<1> QED  BY <1>2, <1>3, <1>4, <1>5 DEF VersionsOK

\* A deletion waits for the transactions with an uncommitted version.
LEMMA DeleteKeeps ==
  ASSUME VInv, NEW w \in Workflows, deleteWorkflow(w)
  PROVE  VersionsOK'
<1>1. /\ life' = [life EXCEPT ![w] = "gone"] /\ life[w] = "live"
      /\ versions' = [versions EXCEPT ![w] = <<>>]
      /\ current' = [current EXCEPT ![w] = 0]
      /\ req' = req
      /\ \A r \in Requests : At(r, "update") => req[r].workflow # w
  BY DEF deleteWorkflow, Inserted
<1>2. Numbered'
  BY <1>1 DEF VInv, VersionsOK, Numbered
<1>3. VersionsInOrder'
  BY <1>1 DEF VInv, VersionsOK, Numbered, VersionsInOrder
<1>4. Ahead'
  BY <1>1, Kinds DEF VInv, VersionsOK, Numbered, Ahead, At, SaveRequest
<1>5. OneInserted'
  BY <1>1 DEF VInv, VersionsOK, OneInserted, At
<1> QED  BY <1>2, <1>3, <1>4, <1>5 DEF VersionsOK

\* A step that changes no more than a request keeps Numbered and VersionsInOrder.
LEMMA TablesKept ==
  ASSUME VInv, UNCHANGED <<life, versions, current>>
  PROVE  Numbered' /\ VersionsInOrder'
  BY DEF VInv, VersionsOK, Numbered, VersionsInOrder

\* A save takes the next number.
LEMMA SaveKeeps ==
  ASSUME VInv, NEW r \in Requests, NEW w \in Workflows, NEW d \in Definitions, Save(r, w, d)
  PROVE  VersionsOK'
<1> DEFINE x == [pc |-> "insert", workflow |-> w, version |-> NextVersion(w), def |-> d]
<1>1. /\ UNCHANGED <<life, versions, current>>
      /\ life[w] = "live"
      /\ req' = [req EXCEPT ![r] = x]
  BY DEF Save, Becomes
<1>2. NextVersion(w) = Len(versions[w]) + 1 /\ Len(versions[w]) \in Nat
  BY <1>1, NextIsNext DEF VInv, VersionsOK, Numbered
<1>3. NextVersion(w) \in 1..(Len(versions[w]) + 1)
  BY <1>2
<1>4. req'[r] = x /\ \A p \in Requests \ {r} : req'[p] = req[p]
  BY <1>1 DEF VInv, ReqOK
<1>5. Ahead'
  BY <1>1, <1>3, <1>4 DEF VInv, VersionsOK, Ahead, At
<1>6. OneInserted'
  BY <1>4 DEF VInv, VersionsOK, OneInserted, At
<1> QED  BY <1>1, <1>5, <1>6, TablesKept DEF VersionsOK

\* The index lets an insert through only if no other is through and its number
\* is the next one.
LEMMA InsertKeeps ==
  ASSUME VInv, NEW r \in Requests, SaveInsert(r)
  PROVE  VersionsOK'
<1> DEFINE w == req[r].workflow
           x == [req[r] EXCEPT !.pc = "update"]
<1>1. /\ UNCHANGED <<life, versions, current>>
      /\ At(r, "insert") /\ MayInsert(r)
      /\ \A p \in Requests \ {r} : req'[p] = req[p]
  BY DEF SaveInsert, Becomes, VInv, ReqOK
<1>2. req[r] \in SaveRequest
  BY <1>1, Kinds DEF VInv
<1>3. CASE Duplicate(r) \/ life[w] # "live"
  <2>1. req'[r] = Idle
    BY <1>3 DEF SaveInsert, Becomes, VInv, ReqOK
  <2>2. Ahead'
    BY <2>1, <1>1 DEF VInv, VersionsOK, Ahead, At, Idle
  <2>3. OneInserted'
    BY <2>1, <1>1 DEF VInv, VersionsOK, OneInserted, At, Idle
  <2> QED  BY <1>1, <2>2, <2>3, TablesKept DEF VersionsOK
<1>4. CASE ~Duplicate(r) /\ life[w] = "live"
  <2>1. req'[r] = x
    BY <1>4 DEF SaveInsert, Becomes, VInv, ReqOK
  <2>2. req'[r].pc = "update" /\ req'[r].workflow = w /\ req'[r].version = req[r].version
    BY <1>2, <2>1 DEF SaveRequest
  <2>3. /\ w \in Workflows /\ Len(versions[w]) \in Nat /\ req[r].version \in Nat
        /\ DOMAIN versions[w] = 1..Len(versions[w])
    BY <1>2 DEF SaveRequest, VInv, VersionsOK, Numbered
  <2>4. req[r].version \in 1..(Len(versions[w]) + 1)
    BY <1>1, <1>4 DEF VInv, VersionsOK, Ahead
  <2>5. \A k \in 1..Len(versions[w]) : req[r].version # k
    BY <1>4, <2>3 DEF Duplicate, VInv, VersionsOK, VersionsInOrder
  <2>6. req[r].version = Len(versions[w]) + 1
    BY <2>3, <2>4, <2>5
  <2>7. \A p \in Requests : ~(At(p, "update") /\ req[p].workflow = w)
    <3> SUFFICES ASSUME NEW p \in Requests, At(p, "update"), req[p].workflow = w
                 PROVE  FALSE
      OBVIOUS
    <3>1. req[p].version = Len(versions[w]) + 1
      BY DEF VInv, VersionsOK, Ahead
    <3>2. req[p].version # req[r].version
      BY <1>1 DEF MayInsert, Inserted
    <3> QED  BY <3>1, <3>2, <2>6
  <2>8. Ahead'
    BY <1>1, <1>4, <2>2, <2>6 DEF VInv, VersionsOK, Ahead, At
  <2>9. OneInserted'
    BY <1>1, <2>2, <2>7 DEF VInv, VersionsOK, OneInserted, At
  <2> QED  BY <1>1, <2>8, <2>9, TablesKept DEF VersionsOK
<1> QED  BY <1>3, <1>4

\* The number that is committed is the next one, and nobody else has inserted it.
LEMMA CommitKeeps ==
  ASSUME VInv, NEW r \in Requests, SaveCommit(r)
  PROVE  VersionsOK'
<1> DEFINE w == req[r].workflow
           n == Len(versions[w])
<1>1. /\ life' = life
      /\ versions' = [versions EXCEPT ![w] = Append(@, req[r].version)]
      /\ current' = [current EXCEPT ![w] = req[r].version]
      /\ At(r, "update")
      /\ req'[r] = Idle /\ \A p \in Requests \ {r} : req'[p] = req[p]
  BY DEF SaveCommit, Becomes, VInv, ReqOK
<1>2. req[r] \in SaveRequest
  BY <1>1, Kinds DEF VInv
<1>3. /\ w \in Workflows /\ n \in Nat /\ versions[w] \in Seq(Nat)
      /\ req[r].version = n + 1 /\ life[w] = "live"
  BY <1>1, <1>2 DEF SaveRequest, VInv, VersionsOK, Numbered, Ahead
<1>4. /\ versions'[w] = Append(versions[w], n + 1)
      /\ current'[w] = n + 1
      /\ \A v \in Workflows \ {w} : versions'[v] = versions[v] /\ current'[v] = current[v]
  BY <1>1, <1>3 DEF VInv, VersionsOK, Numbered
<1>5. /\ Len(versions'[w]) = n + 1
      /\ DOMAIN versions'[w] = 1..(n + 1)
      /\ versions'[w][n + 1] = n + 1
      /\ \A k \in 1..n : versions'[w][k] = versions[w][k]
  BY <1>3, <1>4
<1>6. Numbered'
  BY <1>1, <1>3 DEF VInv, VersionsOK, Numbered
<1>7. VersionsInOrder'
  <2>1. \A k \in 1..n : versions[w][k] = k
    BY <1>3 DEF VInv, VersionsOK, VersionsInOrder
  <2>2. \A k \in DOMAIN versions'[w] : versions'[w][k] = k
    <3> TAKE k \in DOMAIN versions'[w]
    <3>1. k \in 1..n \/ k = n + 1
      BY <1>3, <1>5
    <3> QED  BY <3>1, <2>1, <1>5
  <2> QED  BY <2>2, <1>1, <1>4, <1>5 DEF VInv, VersionsOK, VersionsInOrder
<1>8. Ahead'
  <2> SUFFICES ASSUME NEW p \in Requests \ {r}, At(p, "insert") \/ At(p, "update")
               PROVE  /\ At(p, "insert") => life[req[p].workflow] # "unborn"
                      /\ At(p, "insert") /\ life[req[p].workflow] = "live" =>
                           req[p].version \in 1..(Len(versions'[req[p].workflow]) + 1)
                      /\ At(p, "update") =>
                           /\ life[req[p].workflow] = "live"
                           /\ req[p].version = Len(versions'[req[p].workflow]) + 1
    BY <1>1 DEF Ahead, At, Idle
  <2>1. req[p] \in SaveRequest
    BY Kinds DEF VInv
  <2>2. CASE req[p].workflow = w
    <3>1. ~At(p, "update")
      BY <1>1, <2>2 DEF VInv, VersionsOK, OneInserted
    <3>2. At(p, "insert") /\ life[w] = "live" => req[p].version \in 1..(n + 1)
      BY <2>2 DEF VInv, VersionsOK, Ahead
    <3> QED  BY <3>1, <3>2, <2>2, <1>3, <1>5
  <2>3. CASE req[p].workflow # w
    BY <2>1, <2>3, <1>4 DEF VInv, VersionsOK, Ahead, SaveRequest
  <2> QED  BY <2>2, <2>3
<1>9. OneInserted'
  BY <1>1 DEF VInv, VersionsOK, OneInserted, At, Idle
<1> QED  BY <1>6, <1>7, <1>8, <1>9 DEF VersionsOK

\* Other handlers do not touch saves.
LEMMA OtherKeeps ==
  ASSUME VInv, Other
  PROVE  VersionsOK'
<1>1. ASSUME NEW r \in Requests, NEW x \in {Idle} \cup TakeRequest, Becomes(r, x)
      PROVE  \A p \in Requests : req'[p].pc \in {"insert", "update"} => req'[p] = req[p]
  BY <1>1 DEF VInv, ReqOK, Becomes, Idle, TakeRequest
<1>2. \A p \in Requests : req'[p].pc \in {"insert", "update"} => req'[p] = req[p]
  BY <1>1 DEF Other
<1>3. UNCHANGED <<life, versions, current>>
  BY DEF Other
<1>4. Ahead'
  BY <1>2, <1>3 DEF VInv, VersionsOK, Ahead, At
<1>5. OneInserted'
  BY <1>2 DEF VInv, VersionsOK, OneInserted, At
<1> QED  BY <1>3, <1>4, <1>5, TablesKept DEF VersionsOK

LEMMA VersionsStep ==
  ASSUME VInv, [Next]_vars
  PROVE  VInv'
<1>1. CASE Step
  <2>1. VersionsOK'
    BY <1>1, StepKinds, CreateKeeps, DeleteKeeps, SaveKeeps, InsertKeeps, CommitKeeps, OtherKeeps
       DEF VInv
  <2> QED  BY <1>1, <2>1, ReqStep DEF VInv
<1>2. CASE UNCHANGED vars
  BY <1>2 DEF vars, VInv, ReqOK, VersionsOK, Numbered, VersionsInOrder, Ahead, OneInserted, At
<1> QED  BY <1>1, <1>2 DEF Next

LEMMA VersionsInit ==
  ASSUME Init
  PROVE  VInv
  BY DEF Init, VInv, ReqOK, VersionsOK, Numbered, VersionsInOrder, Ahead, OneInserted, At, Idle

(***************************************************************************)
(* Whatever saves, creations and deletions of workflows meet, the versions *)
(* of a workflow are numbered in the order of their commits and the last   *)
(* one is current.  Two saves that took one number meet in the unique      *)
(* index: one of them waits for the other, and is then refused.            *)
(***************************************************************************)
THEOREM SavesAreOrdered == Spec => []VersionsInOrder
<1>1. VInv => VersionsInOrder
  BY DEF VInv, VersionsOK
<1> QED  BY <1>1, VersionsInit, VersionsStep, PTL DEF Spec

-----------------------------------------------------------------------------
(* Names in use.                                                           *)

\* What the checks so far have ruled out, of the uses that are still there: a
\* secret that is looked for in texts is no api_key, and a name that is about
\* to be taken away has no use.  (A server may also keep its name.)
Checked ==
  \A r \in Requests :
    /\ Taking(r) => held[r] \subseteq Uses(r)
    /\ At(r, "mentions") => req[r].target \in Secrets /\ \A u \in held[r] : u[2] # "api_key"
    /\ At(r, "write") => held[r] = {} \/ req[r].new = req[r].name

\* What may bring a request before its second query or its write.
LEMMA Arrivals ==
  ASSUME ReqOK, Step, NEW r \in Requests, req'[r].pc \in {"mentions", "write"}
  PROVE  \/ req'[r] = req[r]
         \/ CheckRefs(r) \/ CheckMentions(r)
         \/ \E i \in Servers, n \in Names : Rename(r, i, n)
<1>1. ASSUME NEW p \in Requests, p # r, NEW x, Becomes(p, x)
      PROVE  req'[r] = req[r]
  BY <1>1 DEF ReqOK, Becomes
<1>2. ASSUME NEW x, Becomes(r, x)
      PROVE  x.pc \in {"mentions", "write"}
  BY <1>2 DEF ReqOK, Becomes
<1>3. CASE UNCHANGED req
  BY <1>3
<1>4. (\E w \in Workflows, d \in Definitions : createWorkflow(w, d))
        \/ (\E w \in Workflows : deleteWorkflow(w))
        \/ (\E i \in Resources : \E n \in Given[i] : createResource(i, n)) => UNCHANGED req
  BY DEF createWorkflow, deleteWorkflow, createResource
<1>5. ASSUME NEW p \in Requests, NEW w \in Workflows, NEW d \in Definitions, Save(p, w, d)
      PROVE  req'[r] = req[r]
  BY <1>1, <1>2, <1>5 DEF Save
<1>6. ASSUME NEW p \in Requests, NEW i \in Resources, Delete(p, i)
      PROVE  req'[r] = req[r]
  BY <1>1, <1>2, <1>6 DEF Delete
<1>7. ASSUME NEW p \in Requests, SaveInsert(p)
      PROVE  req'[r] = req[r]
  <2>1. req[p] \in SaveRequest
    BY <1>7, Kinds DEF SaveInsert
  <2>2. [req[p] EXCEPT !.pc = "update"].pc = "update"
    BY <2>1 DEF SaveRequest
  <2>3. Becomes(p, Idle) \/ Becomes(p, [req[p] EXCEPT !.pc = "update"])
    BY <1>7 DEF SaveInsert
  <2>4. CASE p # r
    BY <2>3, <2>4, <1>1
  <2>5. CASE p = r
    <3> DEFINE x == [req[p] EXCEPT !.pc = "update"]
    <3>1. ~Becomes(r, Idle)
      BY <1>2 DEF Idle
    <3>2. x.pc = "update"
      BY <2>2
    <3> HIDE DEF x
    <3>3. ~Becomes(r, x)
      BY <3>2, <1>2
    <3>4. Becomes(r, Idle) \/ Becomes(r, x)
      BY <2>3, <2>5 DEF x
    <3> QED  BY <3>1, <3>3, <3>4
  <2> QED  BY <2>4, <2>5
<1>8. ASSUME NEW p \in Requests, SaveCommit(p) \/ Write(p) \/ Fails(p)
      PROVE  req'[r] = req[r]
  BY <1>1, <1>2, <1>8 DEF SaveCommit, Write, Fails, Idle
<1>9. ASSUME NEW p \in Requests, p # r, CheckRefs(p) \/ CheckMentions(p)
      PROVE  req'[r] = req[r]
  BY <1>1, <1>9 DEF CheckRefs, CheckMentions
<1>10. ASSUME NEW p \in Requests, p # r, NEW i \in Servers, NEW n \in Names, Rename(p, i, n)
       PROVE  req'[r] = req[r]
  BY <1>1, <1>10 DEF Rename
<1> QED  BY <1>3, <1>4, <1>5, <1>6, <1>7, <1>8, <1>9, <1>10 DEF Step, Handle

\* The history only shrinks while a request goes on.
LEMMA HeldShrinks ==
  ASSUME Watch, NEW r \in Requests, Taking(r)'
  PROVE  /\ held'[r] \subseteq Uses(r)'
         /\ Taking(r) => held'[r] \subseteq held[r]
  BY DEF Watch

\* The first query rules out the uses by configuration.
LEMMA RefsRuledOut ==
  ASSUME ReqOK, Watch, NEW r \in Requests, CheckRefs(r), Taking(r)'
  PROVE  /\ At(r, "mentions")' => req'[r].target \in Secrets /\ \A u \in held'[r] : u[2] # "api_key"
         /\ At(r, "write")' => held'[r] = {}
<1> DEFINE i == req[r].target
           pc == IF i \in Secrets THEN "mentions" ELSE "write"
           way == IF i \in Secrets THEN "api_key" ELSE "server"
<1>1. req[r] \in TakeRequest
  BY Kinds DEF CheckRefs, At, Taking
<1>2. /\ referencingWorkflows(way, req[r].name) = {}
      /\ req'[r] = [req[r] EXCEPT !.pc = pc]
      /\ UNCHANGED <<life, def, name>>
  BY DEF CheckRefs, Becomes, ReqOK, Taking, Idle
<1>3. req'[r].pc = pc /\ req'[r].target = i /\ req'[r].name = req[r].name
  BY <1>1, <1>2 DEF TakeRequest
<1>4. held'[r] \subseteq Uses(r)'
  BY HeldShrinks
<1>5. \A u \in Uses(r)' : u[2] \in Ways(i) /\ u[2] # way
  BY <1>2, <1>3 DEF Uses, referencingWorkflows
<1> QED  BY <1>3, <1>4, <1>5 DEF At, Ways

\* The second one rules out the rest.
LEMMA MentionsRuledOut ==
  ASSUME ReqOK, Checked, Watch, NEW r \in Requests, CheckMentions(r), Taking(r)'
  PROVE  At(r, "write")' /\ held'[r] = {}
<1>1. req[r] \in TakeRequest /\ Taking(r) /\ At(r, "mentions")
  BY Kinds DEF CheckMentions, At, Taking
<1>2. /\ referencingWorkflows("mention", req[r].name) = {}
      /\ req'[r] = [req[r] EXCEPT !.pc = "write"]
      /\ UNCHANGED <<life, def, name>>
  BY DEF CheckMentions, workflowsMentioning, Becomes, ReqOK, Taking, Idle
<1>3. req'[r].pc = "write" /\ req'[r].target = req[r].target /\ req'[r].name = req[r].name
  BY <1>1, <1>2 DEF TakeRequest
<1>4. held'[r] \subseteq Uses(r)' /\ held'[r] \subseteq held[r]
  BY <1>1, HeldShrinks
<1>5. req[r].target \in Secrets /\ \A u \in held[r] : u[2] # "api_key"
  BY <1>1 DEF Checked
<1>6. \A u \in Uses(r)' : u[2] \in {"api_key", "mention"} /\ u[2] # "mention"
  BY <1>2, <1>3, <1>5 DEF Uses, Ways, referencingWorkflows
<1> QED  BY <1>3, <1>4, <1>5, <1>6 DEF At

LEMMA CheckedStep ==
  ASSUME ReqOK, Checked, [Next]_vars
  PROVE  Checked'
<1>1. CASE Next
  <2> SUFFICES ASSUME NEW r \in Requests
               PROVE  /\ Taking(r)' => held'[r] \subseteq Uses(r)'
                      /\ At(r, "mentions")' => req'[r].target \in Secrets /\ \A u \in held'[r] : u[2] # "api_key"
                      /\ At(r, "write")' => held'[r] = {} \/ req'[r].new = req'[r].name
    BY DEF Checked
  <2>1. Step /\ Watch
    BY <1>1 DEF Next
  <2>2. Taking(r)' => held'[r] \subseteq Uses(r)'
    BY <2>1, HeldShrinks
  <2> SUFFICES ASSUME req'[r].pc \in {"mentions", "write"}
               PROVE  /\ At(r, "mentions")' => req'[r].target \in Secrets /\ \A u \in held'[r] : u[2] # "api_key"
                      /\ At(r, "write")' => held'[r] = {} \/ req'[r].new = req'[r].name
    BY <2>2 DEF At
  <2>3. Taking(r)'
    BY DEF Taking
  <2>4. CASE req'[r] = req[r]
    <3>1. Taking(r) /\ held'[r] \subseteq held[r]
      BY <2>1, <2>3, <2>4, HeldShrinks DEF Taking
    <3> QED  BY <3>1, <2>4 DEF Checked, At
  <2>5. CASE CheckRefs(r)
    BY <2>1, <2>3, <2>5, RefsRuledOut
  <2>6. CASE CheckMentions(r)
    BY <2>1, <2>3, <2>6, MentionsRuledOut DEF At
  <2>7. ASSUME NEW i \in Servers, NEW n \in Names, Rename(r, i, n)
        PROVE  At(r, "write")' /\ req'[r].new = req'[r].name
    BY <2>7 DEF Rename, Becomes, ReqOK, At
  <2> QED  BY <2>1, <2>4, <2>5, <2>6, <2>7, Arrivals DEF At
<1>2. CASE UNCHANGED vars
  BY <1>2 DEF vars, Checked, Taking, At, Uses, referencingWorkflows
<1> QED  BY <1>1, <1>2

LEMMA CheckedInit ==
  ASSUME Init
  PROVE  Checked
  BY DEF Init, Checked, Taking, At, Idle

\* A request leaves its write by writing or by failing.
LEMMA WriteEnds ==
  ASSUME ReqOK, Step, NEW r \in Requests, At(r, "write"), At(r, "idle")'
  PROVE  Write(r) \/ Fails(r)
<1>1. ASSUME NEW p \in Requests, NEW x, Becomes(p, x)
      PROVE  p = r
  BY <1>1 DEF ReqOK, Becomes, At
<1>2. req' # req
  BY DEF At
<1>3. Step => \E p \in Requests :
        \/ Handle(p) \/ Fails(p)
        \/ \E w \in Workflows, d \in Definitions : Save(p, w, d)
        \/ \E i \in Resources : Delete(p, i)
        \/ \E i \in Servers, n \in Names : Rename(p, i, n)
  BY <1>2 DEF Step, createWorkflow, deleteWorkflow, createResource
<1>4. ASSUME NEW p \in Requests, Handle(p)
      PROVE  Write(r)
  BY <1>1, <1>4 DEF Handle, SaveInsert, SaveCommit, CheckRefs, CheckMentions, Write, At
<1>5. ASSUME NEW p \in Requests, Fails(p)
      PROVE  Fails(r)
  BY <1>1, <1>5 DEF Fails
<1>6. ASSUME NEW p \in Requests, NEW w \in Workflows, NEW d \in Definitions, Save(p, w, d)
      PROVE  FALSE
  BY <1>1, <1>6 DEF Save, At
<1>7. ASSUME NEW p \in Requests, NEW i \in Resources, Delete(p, i)
      PROVE  FALSE
  BY <1>1, <1>7 DEF Delete, At
<1>8. ASSUME NEW p \in Requests, NEW i \in Servers, NEW n \in Names, Rename(p, i, n)
      PROVE  FALSE
  BY <1>1, <1>8 DEF Rename, At
<1> QED  BY <1>3, <1>4, <1>5, <1>6, <1>7, <1>8

\* What the property says of one step.
LEMMA TakenIsUnused ==
  ASSUME ReqOK, Checked, [Next]_vars, NEW r \in Requests,
         At(r, "write"), At(r, "idle")', name'[req[r].target] # name[req[r].target]
  PROVE  held[r] = {}
<1> DEFINE i == req[r].target
<1>1. Step
  BY DEF Next, vars
<1>2. Write(r)
  BY <1>1, WriteEnds DEF Fails
<1>3. name'[i] = req[r].new
  BY <1>2 DEF Write
<1>4. held[r] = {} \/ req[r].new = req[r].name
  BY DEF Checked
<1>5. held[r] \subseteq Uses(r)
  BY DEF Checked, Taking, At
<1>6. name[i] # req[r].name => Uses(r) = {}
  BY DEF Uses
<1> QED  BY <1>3, <1>4, <1>5, <1>6

(***************************************************************************)
(* No name is taken from a secret or a server, by deletion or by renaming, *)
(* while a use of it has been there in the same way since the request      *)
(* came, whatever is saved, created, renamed and deleted in between.       *)
(***************************************************************************)
THEOREM UsedNamesKept == Spec => InUseIsKept
<1> DEFINE Kept(r) ==
      At(r, "write") /\ At(r, "idle")' /\ name'[req[r].target] # name[req[r].target] => held[r] = {}
<1>1. VInv /\ Checked /\ [Next]_vars => \A r \in Requests : Kept(r)
  BY TakenIsUnused DEF VInv
<1>2. VInv /\ Checked /\ [Next]_vars => [\A r \in Requests : Kept(r)]_vars
  BY <1>1
<1>3. VInv => ReqOK
  BY DEF VInv
<1> QED  BY <1>2, <1>3, VersionsInit, VersionsStep, CheckedInit, CheckedStep, PTL
         DEF Spec, InUseIsKept
=============================================================================
