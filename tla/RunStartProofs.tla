--------------------------- MODULE RunStartProofs ---------------------------
(***************************************************************************)
(* Proofs about RunStart, for any number of requests, workflows, triggers  *)
(* and keys, however often each request is sent.                           *)
(***************************************************************************)
EXTENDS RunStart, TLAPS

-----------------------------------------------------------------------------
(* Rows and ids.                                                           *)

\* The row the nth sending of request r inserts.
RowOf(r, n) ==
  [id |-> <<r, n>>, key |-> StoredKey(r), workflow |-> Workflow[r], trigger |-> Trigger[r]]

\* An id tells the request it belongs to.
LEMMA IdsAre ==
  ASSUME NEW i
  PROVE  i \in Ids <=> \E r \in Requests : \E n \in 1..MaxSends[r] : i = <<r, n>>
  BY DEF Ids

LEMMA SentId ==
  ASSUME NEW r \in Requests, NEW n \in 1..MaxSends[r]
  PROVE  <<r, n>> \in Ids
  BY IdsAre

\* A row of a request is well typed.
LEMMA RowTyped ==
  ASSUME NEW r \in Requests, NEW n \in 1..MaxSends[r]
  PROVE  RowOf(r, n) \in RowType
<1>1. <<r, n>> \in Ids
  BY SentId
<1> DEFINE Keys == {<<>>} \cup {<<w>> \o EngineRunOpts(p) : w \in Workflows, p \in Requests}
<1>2. StoredKey(r) \in Keys
  BY RequestsAssumption DEF StoredKey
<1>3. Workflow[r] \in Workflows /\ Trigger[r] \in Triggers \cup {Api}
  BY RequestsAssumption
<1>4. RowType = [id : Ids, key : Keys, workflow : Workflows, trigger : Triggers \cup {Api}]
  BY DEF RowType
<1> HIDE DEF Keys
<1>5. \A i \in Ids, k \in Keys :
        [id |-> i, key |-> k, workflow |-> Workflow[r], trigger |-> Trigger[r]] \in RowType
  BY <1>3, <1>4
<1> QED  BY <1>1, <1>2, <1>5 DEF RowOf

\* Before anything is sent the types hold.
LEMMA TypeInit ==
  ASSUME Init
  PROVE  TypeOK
<1>1. \A r \in Requests : Entry(r) \in Locations
  BY DEF Entry, Locations
<1>2. \A r \in Requests : 1 \in 1..MaxSends[r]
  BY RequestsAssumption
<1> QED  BY <1>1, <1>2 DEF Init, TypeOK

\* Letting go of a request keeps the types.
LEMMA FailsTyped ==
  ASSUME TypeOK, NEW r \in Requests, Fails(r), UNCHANGED <<workflows, triggers, enabled>>
  PROVE  TypeOK'
  BY DEF TypeOK, Fails, Locations

LEMMA TypeStep ==
  ASSUME TypeOK, [Next]_vars
  PROVE  TypeOK'
<1>1. ASSUME NEW r \in Requests, Lookup(r) PROVE TypeOK'
  BY <1>1, FailsTyped DEF Lookup, TypeOK, Goes, Locations
<1>2. ASSUME NEW r \in Requests, Begin(r) PROVE TypeOK'
  BY <1>2, FailsTyped DEF Begin, TypeOK, Goes, Locations
<1>3. ASSUME NEW r \in Requests, Insert(r) PROVE TypeOK'
  <2>1. RowOf(r, sends[r]) \in RowType
    BY RowTyped DEF TypeOK
  <2>2. CASE Workflow[r] \in workflows /\ (Trigger[r] \in triggers \/ Trigger[r] = Api)
    <3>1. row' = [row EXCEPT ![r] = {RowOf(r, sends[r])}]
      BY <1>3, <2>2 DEF Insert, RowOf
    <3> QED  BY <1>3, <2>1, <2>2, <3>1 DEF Insert, TypeOK, Goes, Locations
  <2>3. CASE ~(Workflow[r] \in workflows /\ (Trigger[r] \in triggers \/ Trigger[r] = Api))
    BY <1>3, <2>3, FailsTyped DEF Insert
  <2> QED  BY <2>2, <2>3
<1>4. ASSUME NEW r \in Requests, Conflict(r) PROVE TypeOK'
  BY <1>4 DEF Conflict, TypeOK, Goes, Locations
<1>0. ASSUME NEW r \in Requests, NEW i \in Ids, NEW c \in BOOLEAN, Answers(r, i, c)
      PROVE  answer' \in [Requests -> SUBSET [id : Ids, created : BOOLEAN]]
  BY <1>0 DEF Answers, TypeOK
<1>5. ASSUME NEW r \in Requests, Existing(r) PROVE TypeOK'
  <2>1. ASSUME NEW x \in SameKey(r, runs), Goes(r, "existing", "answered"), Answers(r, x.id, FALSE),
               UNCHANGED <<workflows, triggers, enabled, runs, jobs, row, queued, sends>>
        PROVE  TypeOK'
    <3>1. x.id \in Ids
      BY DEF SameKey, TypeOK, RowType
    <3> QED  BY <1>0, <2>1, <3>1 DEF TypeOK, Goes, Locations
  <2> QED  BY <1>5, <2>1, FailsTyped DEF Existing
<1>6. ASSUME NEW r \in Requests, Enqueue(r) PROVE TypeOK'
  BY <1>6 DEF Enqueue, TypeOK, Goes, Locations, JobInTx
<1>7. ASSUME NEW r \in Requests, Commit(r) PROVE TypeOK'
  <2>1. {x.id : x \in row[r]} \subseteq Ids
    BY DEF TypeOK, RowType
  <2> QED  BY <1>7, <2>1 DEF Commit, TypeOK, Goes, Locations
<1>8. ASSUME NEW r \in Requests, Respond(r) PROVE TypeOK'
  <2>1. sends[r] \in 1..MaxSends[r]
    BY DEF TypeOK
  <2>2. <<r, sends[r]>> \in Ids
    BY <2>1, SentId
  <2> QED  BY <1>0, <1>8, <2>2 DEF Respond, TypeOK, Goes, Locations
<1>9. ASSUME NEW r \in Requests, Error(r) PROVE TypeOK'
  BY <1>9, FailsTyped DEF Error
<1>10. ASSUME NEW r \in Requests, Resend(r) PROVE TypeOK'
  <2>1. sends[r] + 1 \in 1..MaxSends[r]
    <3>1. sends[r] \in Nat /\ sends[r] < MaxSends[r]
      BY <1>10 DEF Resend, TypeOK
    <3>2. MaxSends[r] \in Nat
      BY RequestsAssumption
    <3> QED  BY <3>1, <3>2
  <2>2. Entry(r) \in Locations
    BY DEF Entry, Locations
  <2> QED  BY <1>10, <2>1, <2>2 DEF Resend, TypeOK
<1>11. ASSUME NEW t \in Triggers, Toggle(t) \/ deleteTrigger(t) PROVE TypeOK'
  BY <1>11 DEF Toggle, deleteTrigger, request, TypeOK
<1>12. ASSUME NEW w \in Workflows, deleteWorkflow(w) PROVE TypeOK'
  BY <1>12 DEF deleteWorkflow, request, TypeOK
<1>13. CASE UNCHANGED vars
  BY <1>13 DEF vars, TypeOK
<1> QED
  BY <1>1, <1>2, <1>3, <1>4, <1>5, <1>6, <1>7, <1>8, <1>9, <1>10, <1>11, <1>12, <1>13
     DEF Next, Handle

-----------------------------------------------------------------------------
(* Keys.                                                                   *)

\* What is put before a key is there, and is told from it.
LEMMA Prefixes ==
  ASSUME NEW T, NEW k \in Seq(T), NEW v, NEW t
  PROVE  /\ <<v>> \o k # <<>> /\ (<<v>> \o k)[1] = v
         /\ <<"hook", t>> \o k # <<>>
         /\ <<v>> \o (<<"hook", t>> \o k) # <<>>
         /\ (<<v>> \o (<<"hook", t>> \o k))[1] = v
         /\ (<<v>> \o (<<"hook", t>> \o k))[3] = t
  OBVIOUS

\* The key of a request that has one names its workflow; otherwise it is null.
LEMMA KeyOf ==
  ASSUME NEW r \in Requests
  PROVE  /\ StoredKey(r) = <<>> <=> CallerKey[r] = <<>>
         /\ StoredKey(r) # <<>> => StoredKey(r)[1] = Workflow[r]
         /\ StoredKey(r) # <<>> /\ Trigger[r] # Api => StoredKey(r)[3] = Trigger[r]
<1> DEFINE T == {CallerKey[r][k] : k \in DOMAIN CallerKey[r]}
<1>1. CallerKey[r] \in Seq(T)
  BY KeysAssumption
<1> HIDE DEF T
<1>2. CASE CallerKey[r] = <<>>
  BY <1>2 DEF StoredKey, EngineRunOpts
<1>3. CASE CallerKey[r] # <<>> /\ Trigger[r] = Api
  <2>1. StoredKey(r) = <<Workflow[r]>> \o CallerKey[r]
    BY <1>3 DEF StoredKey, EngineRunOpts
  <2> QED  BY <1>1, <1>3, <2>1, Prefixes
<1>4. CASE CallerKey[r] # <<>> /\ Trigger[r] # Api
  <2>1. EngineRunOpts(r) = <<"hook", Trigger[r]>> \o CallerKey[r]
    BY <1>4 DEF EngineRunOpts
  <2>2. EngineRunOpts(r) # <<>>
    BY <1>1, <2>1, Prefixes
  <2>3. StoredKey(r) = <<Workflow[r]>> \o (<<"hook", Trigger[r]>> \o CallerKey[r])
    BY <2>1, <2>2 DEF StoredKey
  <2> QED  BY <1>1, <1>4, <2>3, Prefixes
<1> QED  BY <1>2, <1>3, <1>4

-----------------------------------------------------------------------------
(* The inductive invariant.                                                *)

\* What a request's caller was told, or is about to be.
Told(r) == {x.id : x \in answer[r]} \cup (IF pc[r] = "respond" THEN {<<r, sends[r]>>} ELSE {})

\* A transaction has its row, and its job before it commits.
Requested ==
  \A r \in Requests :
    /\ row[r] = IF pc[r] \in {"enqueue", "commit"} THEN {RowOf(r, sends[r])} ELSE {}
    /\ pc[r] = "commit" => queued[r]

RunsAreRows == \A x \in runs : \E r \in Requests : \E n \in 1..MaxSends[r] : x = RowOf(r, n)

\* Rows that are not committed keep their source as well.
Sourced ==
  \A x \in runs \cup Uncommitted :
    x.workflow \in workflows /\ (x.trigger # Api => x.trigger \in triggers)

Jobbed ==
  /\ \A x \in runs : x.id \in jobs
  /\ \A r \in Requests : Told(r) \subseteq jobs

\* The unique index, over what is committed and what is about to be.
UniqueKey ==
  \A x, y \in runs \cup Uncommitted : x.key = y.key /\ x.key # <<>> => x = y

\* A caller is told of its own run, or of one with its key.
Meant ==
  \A r \in Requests :
    /\ \A i \in Told(r) :
         /\ i[1] \in Requests
         /\ i[1] = r \/ (StoredKey(r) # <<>> /\ StoredKey(i[1]) = StoredKey(r))
    /\ \A x \in answer[r] : x.created => x.id[1] = r

\* A run that was told is there as long as its workflow.
Kept ==
  \A r \in Requests : StoredKey(r) # <<>> /\ Workflow[r] \in workflows =>
    \A i \in Told(r) : \E x \in runs : x.id = i /\ x.key = StoredKey(r)

\* All callers with one key are told one run.
OneTold ==
  \A p, r \in Requests : StoredKey(r) # <<>> /\ StoredKey(p) = StoredKey(r) =>
    \A i \in Told(p), j \in Told(r) : i = j

Shared == RunsAreRows /\ Sourced /\ Jobbed /\ UniqueKey /\ Meant /\ Kept /\ OneTold

Inv == TypeOK /\ Requested /\ Shared

\* Nothing is there before the first request is handled.
LEMMA InvInit ==
  ASSUME Init
  PROVE  Inv
<1>1. \A r \in Requests : pc[r] \in {"begin", "lookup"} /\ row[r] = {} /\ answer[r] = {}
  BY DEF Init, Entry
<1>2. Uncommitted = {} /\ runs = {} /\ \A r \in Requests : Told(r) = {}
  BY <1>1 DEF Init, Uncommitted, Told
<1>3. Requested
  BY <1>1 DEF Requested
<1>4. Shared
  BY <1>1, <1>2 DEF Shared, RunsAreRows, Sourced, Jobbed, UniqueKey, Meant, Kept, OneTold
<1> QED  BY <1>3, <1>4, TypeInit DEF Inv

-----------------------------------------------------------------------------
(* Transactions.                                                           *)

\* A step of one request that inserts nothing, or everything it should.
LEMMA OneRequest ==
  ASSUME Requested, NEW r \in Requests,
         \A p \in Requests \ {r} : /\ pc'[p] = pc[p] /\ row'[p] = row[p]
                                  /\ queued'[p] = queued[p] /\ sends'[p] = sends[p],
         row'[r] = IF pc'[r] \in {"enqueue", "commit"} THEN {RowOf(r, sends'[r])} ELSE {},
         pc'[r] = "commit" => queued'[r]
  PROVE  Requested'
  BY DEF Requested, RowOf, StoredKey, EngineRunOpts

LEMMA RequestedStep ==
  ASSUME TypeOK, Requested, Next
  PROVE  Requested'
<1> DEFINE Others(r) == \A p \in Requests \ {r} : /\ pc'[p] = pc[p] /\ row'[p] = row[p]
                                                /\ queued'[p] = queued[p] /\ sends'[p] = sends[p]
<1>1. ASSUME NEW r \in Requests, Handle(r) \/ Error(r) \/ Resend(r)
      PROVE  Others(r)
  BY <1>1 DEF Handle, Lookup, Begin, Insert, Conflict, Existing, Enqueue, Commit, Respond,
              Error, Resend, Goes, Fails, TypeOK
<1>2. ASSUME NEW r \in Requests, Fails(r)
      PROVE  pc'[r] = "failed" /\ row'[r] = {}
  BY <1>2 DEF Fails, TypeOK
<1>3. ASSUME NEW r \in Requests, NEW from, NEW to, Goes(r, from, to)
      PROVE  pc[r] = from /\ pc'[r] = to
  BY <1>3 DEF Goes, TypeOK
<1>4. ASSUME NEW r \in Requests, Fails(r), Others(r) PROVE Requested'
  BY <1>2, <1>4, OneRequest
<1>5. ASSUME NEW r \in Requests, NEW from \in Locations \ {"enqueue", "commit"},
             NEW to \in Locations \ {"enqueue", "commit"}, Goes(r, from, to), row' = row, Others(r)
      PROVE  Requested'
  <2>1. row[r] = {}
    BY <1>3, <1>5 DEF Requested
  <2> QED  BY <1>3, <1>5, <2>1, OneRequest
<1>6. ASSUME NEW r \in Requests, Handle(r) PROVE Requested'
  <2>0. Others(r)
    BY <1>1, <1>6
  <2> HIDE DEF Others
  <2>1. CASE Lookup(r)
    BY <1>4, <1>5, <2>0, <2>1 DEF Lookup, Locations
  <2>2. CASE Begin(r)
    BY <1>4, <1>5, <2>0, <2>2 DEF Begin, Locations
  <2>3. CASE Insert(r)
    <3>1. CASE Workflow[r] \in workflows /\ (Trigger[r] \in triggers \/ Trigger[r] = Api)
      <4>1. pc'[r] = "enqueue" /\ row'[r] = {RowOf(r, sends[r])} /\ sends' = sends
        BY <1>3, <2>3, <3>1 DEF Insert, RowOf, TypeOK
      <4> QED  BY <2>0, <4>1, OneRequest DEF Others
    <3>2. CASE ~(Workflow[r] \in workflows /\ (Trigger[r] \in triggers \/ Trigger[r] = Api))
      BY <1>4, <2>0, <2>3, <3>2 DEF Insert
    <3> QED  BY <3>1, <3>2
  <2>4. CASE Conflict(r)
    BY <1>5, <2>0, <2>4 DEF Conflict, Locations
  <2>5. CASE Existing(r)
    BY <1>4, <1>5, <2>0, <2>5 DEF Existing, Locations
  <2>6. CASE Enqueue(r)
    <3>1. pc[r] = "enqueue" /\ pc'[r] = "commit" /\ row' = row /\ sends' = sends /\ queued'[r]
      BY <1>3, <2>6 DEF Enqueue, JobInTx, TypeOK
    <3>2. row'[r] = {RowOf(r, sends'[r])}
      BY <3>1 DEF Requested
    <3> QED  BY <2>0, <3>1, <3>2, OneRequest DEF Others
  <2>7. CASE Commit(r)
    <3>1. pc'[r] = "respond" /\ row'[r] = {}
      BY <1>3, <2>7 DEF Commit, TypeOK
    <3> QED  BY <2>0, <3>1, OneRequest DEF Others
  <2>8. CASE Respond(r)
    BY <1>5, <2>0, <2>8 DEF Respond, Locations
  <2> QED  BY <1>6, <2>1, <2>2, <2>3, <2>4, <2>5, <2>6, <2>7, <2>8 DEF Handle
<1>7. ASSUME NEW r \in Requests, Error(r) PROVE Requested'
  BY <1>1, <1>4, <1>7 DEF Error
<1>8. ASSUME NEW r \in Requests, Resend(r) PROVE Requested'
  <2>1. row'[r] = {} /\ pc'[r] \in {"begin", "lookup"}
    BY <1>8 DEF Resend, Requested, Entry, TypeOK
  <2> QED  BY <1>1, <1>8, <2>1, OneRequest
<1>9. CASE UNCHANGED request
  BY <1>9 DEF request, Requested, RowOf
<1> QED
  BY <1>6, <1>7, <1>8, <1>9 DEF Next, Toggle, deleteTrigger, deleteWorkflow

-----------------------------------------------------------------------------
(* Runs, jobs and answers, one kind of step at a time.                     *)

\* Steps that neither insert, commit nor answer: rows and answers can only go.
Quiet ==
  /\ UNCHANGED <<workflows, triggers, runs, jobs>>
  /\ \A r \in Requests :
       /\ row'[r] \subseteq row[r] /\ answer'[r] = answer[r]
       /\ pc'[r] = "respond" => pc[r] = "respond" /\ sends'[r] = sends[r]

\* What the steps are to runs and answers.
LEMMA StepKinds ==
  ASSUME TypeOK, Requested, Next
  PROVE  \/ Quiet
         \/ \E r \in Requests :
              \/ Insert(r) /\ pc'[r] = "enqueue"
              \/ Commit(r)
              \/ Existing(r) /\ pc'[r] = "answered"
              \/ Respond(r)
         \/ \E t \in Triggers : deleteTrigger(t)
         \/ \E w \in Workflows : deleteWorkflow(w)
<1>1. ASSUME NEW r \in Requests, Fails(r), UNCHANGED <<workflows, triggers>> PROVE Quiet
  BY <1>1 DEF Fails, Quiet, TypeOK
<1>2. ASSUME NEW r \in Requests, NEW from, NEW to, to # "respond", Goes(r, from, to),
             UNCHANGED <<workflows, triggers, runs, jobs, row, sends, answer>>
      PROVE  Quiet
  BY <1>2 DEF Goes, Quiet, TypeOK
<1>3. ASSUME NEW r \in Requests, NEW from, NEW to, Goes(r, from, to) PROVE pc'[r] = to
  BY <1>3 DEF Goes, TypeOK
<1>4. ASSUME NEW r \in Requests, Lookup(r) \/ Begin(r) \/ Conflict(r) \/ Enqueue(r) \/ Error(r)
      PROVE  Quiet
  BY <1>1, <1>2, <1>4 DEF Lookup, Begin, Conflict, Enqueue, Error
<1>5. ASSUME NEW r \in Requests, Insert(r) PROVE Quiet \/ pc'[r] = "enqueue"
  BY <1>1, <1>3, <1>5 DEF Insert
<1>6. ASSUME NEW r \in Requests, Existing(r) PROVE Quiet \/ pc'[r] = "answered"
  BY <1>1, <1>3, <1>6 DEF Existing
<1>7. ASSUME NEW r \in Requests, Resend(r) PROVE Quiet
  BY <1>7 DEF Resend, Entry, Quiet, TypeOK
<1>8. ASSUME NEW t \in Triggers, Toggle(t) PROVE Quiet
  BY <1>8 DEF Toggle, request, Quiet
<1> QED  BY <1>4, <1>5, <1>6, <1>7, <1>8 DEF Next, Handle

LEMMA QuietKeeps ==
  ASSUME Shared, Quiet
  PROVE  Shared'
<1>1. Uncommitted' \subseteq Uncommitted
  BY DEF Quiet, Uncommitted
<1>2. \A r \in Requests : Told(r)' \subseteq Told(r)
  BY DEF Quiet, Told
<1>3. /\ workflows' = workflows /\ triggers' = triggers /\ runs' = runs /\ jobs' = jobs
      /\ \A r \in Requests : answer'[r] = answer[r]
  BY DEF Quiet
<1>4. RunsAreRows'
  BY <1>3 DEF Shared, RunsAreRows, RowOf
<1>5. Sourced'
  BY <1>1, <1>3 DEF Shared, Sourced
<1>6. Jobbed'
  BY <1>2, <1>3 DEF Shared, Jobbed
<1>7. UniqueKey'
  BY <1>1, <1>3 DEF Shared, UniqueKey
<1>8. Meant'
  BY <1>2, <1>3 DEF Shared, Meant
<1>9. Kept'
  BY <1>2, <1>3 DEF Shared, Kept
<1>10. OneTold'
  BY <1>2 DEF Shared, OneTold
<1> QED  BY <1>4, <1>5, <1>6, <1>7, <1>8, <1>9, <1>10 DEF Shared

\* The row that is inserted has a free key and a source.
LEMMA InsertKeeps ==
  ASSUME TypeOK, Requested, Shared, NEW r \in Requests, Insert(r), pc'[r] = "enqueue"
  PROVE  Shared'
<1> DEFINE x == RowOf(r, sends[r])
<1>1. /\ UNCHANGED <<workflows, triggers, runs, jobs, sends, answer>>
      /\ Workflow[r] \in workflows /\ (Trigger[r] \in triggers \/ Trigger[r] = Api)
      /\ row' = [row EXCEPT ![r] = {x}]
      /\ pc' = [pc EXCEPT ![r] = "enqueue"]
      /\ KeyIsFree(r)
  BY DEF Insert, Fails, Goes, RowOf, TypeOK
<1>2. Uncommitted' \subseteq Uncommitted \cup {x}
  BY <1>1 DEF Uncommitted, TypeOK
<1>3. x.key = StoredKey(r) /\ x.workflow = Workflow[r] /\ x.trigger = Trigger[r]
  BY DEF RowOf
<1>4. \A p \in Requests : Told(p)' \subseteq Told(p)
  BY <1>1 DEF Told, TypeOK
<1> HIDE DEF x
<1>5. RunsAreRows'
  BY <1>1 DEF Shared, RunsAreRows, RowOf
<1>6. Sourced'
  BY <1>1, <1>2, <1>3 DEF Shared, Sourced
<1>7. Jobbed'
  BY <1>1, <1>4 DEF Shared, Jobbed
<1>8. UniqueKey'
  <2>1. \A y \in runs \cup Uncommitted : x.key # <<>> => y.key # x.key
    BY <1>1, <1>3 DEF KeyIsFree, SameKey
  <2> QED  BY <1>1, <1>2, <2>1 DEF Shared, UniqueKey
<1>9. Meant'
  BY <1>1, <1>4 DEF Shared, Meant
<1>10. Kept'
  BY <1>1, <1>4 DEF Shared, Kept
<1>11. OneTold'
  BY <1>4 DEF Shared, OneTold
<1> QED  BY <1>5, <1>6, <1>7, <1>8, <1>9, <1>10, <1>11 DEF Shared

\* What a request is told is what the others with its key were told: their run
\* is still there, and the index has one row for the key.
LEMMA TellKeeps ==
  ASSUME Shared, NEW r \in Requests, NEW y \in runs \cup Uncommitted, y.workflow \in workflows,
         y.key = StoredKey(r), Workflow[r] = y.workflow,
         runs \subseteq runs', y \in runs', workflows' = workflows,
         \A p \in Requests \ {r} : Told(p)' = Told(p),
         Told(r)' = Told(r) \cup {y.id}
  PROVE  Kept' /\ OneTold'
<1>1. ASSUME NEW p \in Requests, StoredKey(p) = StoredKey(r), StoredKey(r) # <<>>, NEW i \in Told(p)
      PROVE  i = y.id
  <2>1. Workflow[p] = Workflow[r]
    BY <1>1, KeyOf
  <2>2. PICK x \in runs : x.id = i /\ x.key = StoredKey(p)
    BY <1>1, <2>1 DEF Shared, Kept
  <2>3. x = y
    BY <1>1, <2>2 DEF Shared, UniqueKey
  <2> QED  BY <2>2, <2>3
<1>2. OneTold'
  <2> SUFFICES ASSUME NEW p \in Requests, NEW q \in Requests,
                      StoredKey(q) # <<>>, StoredKey(p) = StoredKey(q),
                      NEW i \in Told(p)', NEW j \in Told(q)'
               PROVE  i = j
    BY DEF OneTold
  <2>1. CASE StoredKey(q) = StoredKey(r)
    <3>1. i = y.id /\ j = y.id
      BY <1>1, <2>1
    <3> QED  BY <3>1
  <2>2. CASE StoredKey(q) # StoredKey(r)
    BY <2>2 DEF Shared, OneTold
  <2> QED  BY <2>1, <2>2
<1>3. Kept'
  BY DEF Shared, Kept
<1> QED  BY <1>2, <1>3

\* A commit moves the row, and its job, to where everyone sees them.
LEMMA CommitKeeps ==
  ASSUME TypeOK, Requested, Shared, NEW r \in Requests, Commit(r)
  PROVE  Shared'
<1> DEFINE y == RowOf(r, sends[r])
<1>1. pc[r] = "commit" /\ row[r] = {y} /\ queued[r]
  BY DEF Commit, Goes, Requested
<1>2. /\ UNCHANGED <<workflows, triggers, sends, answer>>
      /\ runs' = runs \cup {y} /\ jobs' = jobs \cup {y.id}
      /\ row' = [row EXCEPT ![r] = {}]
      /\ pc' = [pc EXCEPT ![r] = "respond"]
  BY <1>1 DEF Commit, Goes
<1>3. y \in Uncommitted /\ Uncommitted' \subseteq Uncommitted
  BY <1>1, <1>2 DEF Uncommitted, TypeOK
<1>4. y.id = <<r, sends[r]>> /\ y.key = StoredKey(r) /\ y.workflow = Workflow[r]
  BY DEF RowOf
<1>5. /\ \A p \in Requests \ {r} : Told(p)' = Told(p)
      /\ Told(r)' = Told(r) \cup {y.id}
  BY <1>1, <1>2, <1>4 DEF Told, TypeOK
<1>6. RunsAreRows'
  BY <1>2 DEF Shared, RunsAreRows, RowOf, TypeOK
<1> HIDE DEF y
<1>7. Sourced'
  BY <1>2, <1>3 DEF Shared, Sourced
<1>8. Jobbed'
  BY <1>2, <1>5 DEF Shared, Jobbed
<1>9. UniqueKey'
  BY <1>2, <1>3 DEF Shared, UniqueKey
<1>10. Meant'
  <2>1. y.id[1] = r
    BY <1>4
  <2> QED  BY <1>2, <1>5, <2>1 DEF Shared, Meant
<1>11. Kept' /\ OneTold'
  <2>1. y.workflow \in workflows
    BY <1>3 DEF Shared, Sourced
  <2> QED  BY <1>2, <1>3, <1>4, <1>5, <2>1, TellKeeps
<1> QED  BY <1>6, <1>7, <1>8, <1>9, <1>10, <1>11 DEF Shared

\* What one more answer adds to the runs a request has been told.
LEMMA AnswerIds ==
  ASSUME NEW A, NEW i, NEW c
  PROVE  {x.id : x \in A \cup {[id |-> i, created |-> c]}} = {x.id : x \in A} \cup {i}
<1> DEFINE z == [id |-> i, created |-> c]
<1>1. z.id = i
  OBVIOUS
<1> HIDE DEF z
<1>2. {x.id : x \in A \cup {z}} = {x.id : x \in A} \cup {z.id}
  OBVIOUS
<1> QED  BY <1>1, <1>2 DEF z

\* A replay tells the run that has the key.
LEMMA ExistingKeeps ==
  ASSUME TypeOK, Requested, Shared, NEW r \in Requests, Existing(r), pc'[r] = "answered"
  PROVE  Shared'
<1>1. PICK y \in SameKey(r, runs) :
        /\ y.workflow = Workflow[r]
        /\ Goes(r, "existing", "answered") /\ Answers(r, y.id, FALSE)
        /\ UNCHANGED <<workflows, triggers, runs, jobs, row, sends>>
  BY DEF Existing, Fails, TypeOK
<1>2. y \in runs /\ y.key = StoredKey(r) /\ StoredKey(r) # <<>>
  BY DEF SameKey
<1>3. /\ \A p \in Requests \ {r} : answer'[p] = answer[p]
      /\ answer'[r] = answer[r] \cup {[id |-> y.id, created |-> FALSE]}
      /\ \A p \in Requests \ {r} : pc'[p] = pc[p]
      /\ pc[r] = "existing" /\ pc'[r] = "answered"
  BY <1>1 DEF Answers, Goes, TypeOK
<1>4. /\ \A p \in Requests \ {r} : Told(p)' = Told(p)
      /\ Told(r)' = Told(r) \cup {y.id}
  <2>1. \A p \in Requests \ {r} : Told(p)' = Told(p)
    BY <1>1, <1>3 DEF Told
  <2>2. {x.id : x \in answer'[r]} = {x.id : x \in answer[r]} \cup {y.id}
    <3>1. {x.id : x \in answer[r] \cup {[id |-> y.id, created |-> FALSE]}}
            = {x.id : x \in answer[r]} \cup {y.id}
      BY AnswerIds
    <3> QED  BY <3>1, <1>3
  <2>3. UNCHANGED sends /\ pc[r] # "respond" /\ pc'[r] # "respond"
    BY <1>1, <1>3
  <2> QED  BY <2>1, <2>2, <2>3 DEF Told
<1>5. Uncommitted' = Uncommitted
  BY <1>1 DEF Uncommitted
<1>6. RunsAreRows'
  BY <1>1 DEF Shared, RunsAreRows, RowOf
<1>7. Sourced'
  BY <1>1, <1>5 DEF Shared, Sourced
<1>8. Jobbed'
  BY <1>1, <1>2, <1>4 DEF Shared, Jobbed
<1>9. UniqueKey'
  BY <1>1, <1>5 DEF Shared, UniqueKey
<1>10. Meant'
  <2>1. PICK p \in Requests : \E n \in 1..MaxSends[p] : y = RowOf(p, n)
    BY <1>2 DEF Shared, RunsAreRows
  <2>2. y.id[1] = p /\ StoredKey(p) = StoredKey(r)
    BY <1>2, <2>1 DEF RowOf
  <2> QED  BY <1>2, <1>3, <1>4, <2>2 DEF Shared, Meant
<1>11. Kept' /\ OneTold'
  <2>1. y.workflow \in workflows
    BY <1>2 DEF Shared, Sourced
  <2> QED  BY <1>1, <1>2, <1>4, <2>1, TellKeeps
<1> QED  BY <1>6, <1>7, <1>8, <1>9, <1>10, <1>11 DEF Shared

\* The answer of a new run was on its way.
LEMMA RespondKeeps ==
  ASSUME TypeOK, Shared, NEW r \in Requests, Respond(r)
  PROVE  Shared'
<1>1. /\ UNCHANGED <<workflows, triggers, runs, jobs, row, sends>>
      /\ \A p \in Requests \ {r} : answer'[p] = answer[p] /\ pc'[p] = pc[p]
      /\ answer'[r] = answer[r] \cup {[id |-> <<r, sends[r]>>, created |-> TRUE]}
      /\ pc[r] = "respond" /\ pc'[r] = "answered"
  BY DEF Respond, Answers, Goes, TypeOK
<1>2. \A p \in Requests : Told(p)' = Told(p)
  <2>1. \A p \in Requests \ {r} : Told(p)' = Told(p)
    BY <1>1 DEF Told
  <2>2. {x.id : x \in answer'[r]} = {x.id : x \in answer[r]} \cup {<<r, sends[r]>>}
    <3>1. {x.id : x \in answer[r] \cup {[id |-> <<r, sends[r]>>, created |-> TRUE]}}
            = {x.id : x \in answer[r]} \cup {<<r, sends[r]>>}
      BY AnswerIds
    <3> QED  BY <3>1, <1>1
  <2>3. UNCHANGED sends /\ pc[r] = "respond" /\ pc'[r] # "respond"
    BY <1>1
  <2>4. Told(r)' = Told(r)
    BY <2>2, <2>3 DEF Told
  <2> QED  BY <2>1, <2>4
<1>3. Uncommitted' = Uncommitted
  BY <1>1 DEF Uncommitted
<1>4. RunsAreRows'
  BY <1>1 DEF Shared, RunsAreRows, RowOf
<1>5. Sourced' /\ UniqueKey'
  BY <1>1, <1>3 DEF Shared, Sourced, UniqueKey
<1>6. Jobbed' /\ Kept' /\ OneTold'
  BY <1>1, <1>2 DEF Shared, Jobbed, Kept, OneTold
<1>7. Meant'
  <2>1. \A p \in Requests : \A x \in answer'[p] : x.created => x.id[1] = p
    BY <1>1 DEF Shared, Meant
  <2> QED  BY <1>2, <2>1 DEF Shared, Meant
<1> QED  BY <1>4, <1>5, <1>6, <1>7 DEF Shared

\* A trigger that is deleted has no rows.
LEMMA DeleteTriggerKeeps ==
  ASSUME Shared, NEW t \in Triggers, deleteTrigger(t)
  PROVE  Shared'
<1>1. /\ UNCHANGED <<workflows, runs, jobs, pc, row, sends, answer>>
      /\ triggers' = triggers \ {t}
      /\ \A x \in runs \cup Uncommitted : x.trigger # t
  BY DEF deleteTrigger, request, RefersTo
<1>2. Uncommitted' = Uncommitted /\ \A p \in Requests : Told(p)' = Told(p)
  BY <1>1 DEF Uncommitted, Told
<1>3. RunsAreRows'
  BY <1>1 DEF Shared, RunsAreRows, RowOf
<1>4. Sourced'
  BY <1>1, <1>2 DEF Shared, Sourced
<1>5. Jobbed' /\ UniqueKey' /\ Meant' /\ Kept' /\ OneTold'
  BY <1>1, <1>2 DEF Shared, Jobbed, UniqueKey, Meant, Kept, OneTold
<1> QED  BY <1>3, <1>4, <1>5 DEF Shared

\* A workflow that is deleted takes its runs and triggers along, and no others.
LEMMA DeleteWorkflowKeeps ==
  ASSUME TypeOK, Requested, Shared, NEW w \in Workflows, deleteWorkflow(w)
  PROVE  Shared'
<1>1. /\ UNCHANGED <<jobs, pc, row, sends, answer>>
      /\ workflows' = workflows \ {w}
      /\ triggers' = {t \in triggers : Target[t] # w}
      /\ runs' = {x \in runs : x.workflow # w}
      /\ \A x \in Uncommitted : x.workflow # w
  BY DEF deleteWorkflow, request
<1>2. Uncommitted' = Uncommitted /\ \A p \in Requests : Told(p)' = Told(p)
  BY <1>1 DEF Uncommitted, Told
<1>3. \A x \in runs \cup Uncommitted :
        \E r \in Requests : /\ x.key = StoredKey(r) /\ x.workflow = Workflow[r] /\ x.trigger = Trigger[r]
  <2>1. \A x \in Uncommitted : \E r \in Requests : x = RowOf(r, sends[r])
    BY DEF Uncommitted, Requested
  <2> QED  BY <2>1 DEF Shared, RunsAreRows, RowOf
<1>4. RunsAreRows'
  BY <1>1 DEF Shared, RunsAreRows, RowOf
<1>5. Sourced'
  <2> SUFFICES ASSUME NEW x \in runs' \cup Uncommitted
               PROVE  x.workflow \in workflows' /\ (x.trigger # Api => x.trigger \in triggers')
    BY <1>2 DEF Sourced
  <2>1. x \in runs \cup Uncommitted /\ x.workflow # w
    BY <1>1
  <2>2. x.trigger # Api => Target[x.trigger] = x.workflow
    BY <1>3, <2>1, RequestsAssumption
  <2> QED  BY <1>1, <2>1, <2>2 DEF Shared, Sourced
<1>6. Jobbed' /\ UniqueKey' /\ Meant' /\ OneTold'
  BY <1>1, <1>2 DEF Shared, Jobbed, UniqueKey, Meant, OneTold
<1>7. Kept'
  <2> SUFFICES ASSUME NEW r \in Requests, StoredKey(r) # <<>>, Workflow[r] \in workflows', NEW i \in Told(r)
               PROVE  \E x \in runs' : x.id = i /\ x.key = StoredKey(r)
    BY <1>2 DEF Kept
  <2>1. PICK x \in runs : x.id = i /\ x.key = StoredKey(r)
    BY <1>1 DEF Shared, Kept
  <2>2. x.workflow = Workflow[r]
    BY <1>3, <2>1, KeyOf
  <2> QED  BY <1>1, <2>1, <2>2
<1> QED  BY <1>4, <1>5, <1>6, <1>7 DEF Shared

LEMMA InvStep ==
  ASSUME Inv, [Next]_vars
  PROVE  Inv'
<1>1. TypeOK'
  BY TypeStep DEF Inv
<1>2. CASE Next
  BY <1>1, <1>2, RequestedStep, StepKinds, QuietKeeps, InsertKeeps, CommitKeeps, ExistingKeeps,
     RespondKeeps, DeleteTriggerKeeps, DeleteWorkflowKeeps DEF Inv
<1>3. CASE UNCHANGED vars
  <2>1. Quiet
    BY <1>3 DEF vars, Quiet
  <2>2. Requested'
    BY <1>3 DEF vars, Inv, Requested, RowOf
  <2> QED  BY <1>1, <2>1, <2>2, QuietKeeps DEF Inv
<1> QED  BY <1>2, <1>3

\* The invariant holds at all times.
LEMMA InvHolds == Spec => []Inv
  BY InvInit, InvStep, PTL DEF Spec

(***************************************************************************)
(* Callers that send the same request with a key are told one run, and one *)
(* of them at most that it is new: for any requests and keys, over errors, *)
(* crashes, lost answers and deletions, whatever other callers share the   *)
(* unique index.                                                           *)
(***************************************************************************)
THEOREM KeysAreIdempotent == Spec => []OneRunPerKey
<1>1. Inv => OneRunPerKey
  <2> SUFFICES ASSUME Inv, NEW p \in Requests, NEW r \in Requests, SameRequest(p, r),
                      NEW x \in answer[p], NEW y \in answer[r]
               PROVE  x.id = y.id /\ (x.created /\ y.created => p = r)
    BY DEF OneRunPerKey
  <2>1. StoredKey(p) = StoredKey(r)
    BY DEF SameRequest, StoredKey, EngineRunOpts
  <2>2. StoredKey(r) # <<>>
    BY KeyOf DEF SameRequest
  <2>3. x.id \in Told(p) /\ y.id \in Told(r)
    BY DEF Told
  <2>4. x.id = y.id
    BY <2>1, <2>2, <2>3 DEF Inv, Shared, OneTold
  <2>5. x.created /\ y.created => p = r
    BY <2>4 DEF Inv, Shared, Meant
  <2> QED  BY <2>4, <2>5
<1> QED  BY <1>1, InvHolds, PTL

\* A common first element does not matter.
LEMMA SameTail ==
  ASSUME NEW T, NEW k \in Seq(T), NEW j \in Seq(T), NEW v, <<v>> \o k = <<v>> \o j
  PROVE  k = j
OBVIOUS

\* No caller of the API chose the key a webhook's caller has.
KeysApart ==
  \A p, r \in Requests : Trigger[p] = Api /\ Trigger[r] # Api => CallerKey[p] # EngineRunOpts(r)

(***************************************************************************)
(* No caller is told a run that another workflow or another trigger        *)
(* started, although all keys are in one index.  Between triggers and      *)
(* between workflows the prefixes see to that; a key of the API that       *)
(* spells the prefix of a webhook is excluded by hypothesis, since nothing *)
(* in the code reserves it.                                                *)
(***************************************************************************)
THEOREM AnswersAreOwn == ASSUME KeysApart PROVE Spec => []OwnRun
<1>1. ASSUME NEW p \in Requests, NEW r \in Requests, StoredKey(p) = StoredKey(r), StoredKey(r) # <<>>
      PROVE  Workflow[p] = Workflow[r] /\ Trigger[p] = Trigger[r]
  <2>1. Workflow[p] = Workflow[r]
    BY <1>1, KeyOf
  <2>2. CASE Trigger[p] # Api /\ Trigger[r] # Api
    BY <1>1, <2>1, <2>2, KeyOf
  <2>3. ASSUME NEW q \in Requests, NEW s \in Requests, StoredKey(q) = StoredKey(s), StoredKey(s) # <<>>,
               Workflow[q] = Workflow[s], Trigger[q] = Api, Trigger[s] # Api
        PROVE  FALSE
    <3> DEFINE k == CallerKey[q]
               j == CallerKey[s]
               T == {k[n] : n \in DOMAIN k}
               U == {j[n] : n \in DOMAIN j}
               w == Workflow[s]
               t == Trigger[s]
    <3>1. k \in Seq(T) /\ j \in Seq(U)
      BY KeysAssumption
    <3>2. j # <<>> /\ k # <<>>
      BY <2>3, KeyOf
    <3>3. EngineRunOpts(q) = k /\ EngineRunOpts(s) = <<"hook", t>> \o j
      BY <2>3, <3>2 DEF EngineRunOpts
    <3>4. k # <<"hook", t>> \o j
      BY <2>3, <3>3 DEF KeysApart
    <3> HIDE DEF k, j, T, U, w, t
    <3>5. StoredKey(q) = <<w>> \o k /\ StoredKey(s) = <<w>> \o (<<"hook", t>> \o j)
      BY <2>3, <3>1, <3>2, <3>3, Prefixes DEF StoredKey, w
    <3>6. <<"hook", t>> \o j \in Seq(U \cup {"hook", t})
      BY <3>1
    <3>7. <<w>> \o k # <<w>> \o (<<"hook", t>> \o j)
      <4> DEFINE h == <<"hook", t>> \o j
                 V == T \cup U \cup {"hook", t}
      <4>1. k \in Seq(V) /\ h \in Seq(V)
        BY <3>1, <3>6
      <4> HIDE DEF h, V
      <4>2. <<w>> \o k = <<w>> \o h => k = h
        BY <4>1, SameTail
      <4> QED  BY <4>2, <3>4 DEF h
    <3> QED  BY <2>3, <3>5, <3>7
  <2> QED  BY <1>1, <2>1, <2>2, <2>3
<1>2. Inv => OwnRun
  <2> SUFFICES ASSUME Inv, NEW r \in Requests, NEW x \in answer[r]
               PROVE  Workflow[x.id[1]] = Workflow[r] /\ Trigger[x.id[1]] = Trigger[r]
    BY DEF OwnRun
  <2>1. x.id \in Told(r)
    BY DEF Told
  <2>2. /\ x.id[1] \in Requests
        /\ x.id[1] = r \/ (StoredKey(r) # <<>> /\ StoredKey(x.id[1]) = StoredKey(r))
    BY <2>1 DEF Inv, Shared, Meant
  <2> QED  BY <1>1, <2>2
<1> QED  BY <1>2, InvHolds, PTL

(***************************************************************************)
(* The run row and its advance_run job commit together, so that every run, *)
(* and every run a caller was told of, has or had its job.                 *)
(***************************************************************************)
THEOREM RunsHaveJobs == Spec => []RunHasJob
<1>1. Inv => RunHasJob
  BY DEF Inv, Shared, Jobbed, Told, RunHasJob
<1> QED  BY <1>1, InvHolds, PTL

(***************************************************************************)
(* A run's workflow and trigger outlive deletions that race its insert.    *)
(***************************************************************************)
THEOREM SourcesKept == Spec => []RunsKeepTheirSource
<1>1. Inv => RunsKeepTheirSource
  BY DEF Inv, Shared, Sourced, RunsKeepTheirSource
<1> QED  BY <1>1, InvHolds, PTL
=============================================================================
