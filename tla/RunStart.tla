------------------------------ MODULE RunStart ------------------------------
(***************************************************************************)
(* How a run comes into being (engine.go StartRunOpts), as its callers see *)
(* it: the API's startRun and the webhook ingress (api/hooks.go), which    *)
(* send a request again when the answer was an error or never came.        *)
(*                                                                         *)
(* A transaction is taken apart into its statements here.  Two of them     *)
(* meet in the unique index on (workspace_id, idempotency_key): an insert  *)
(* waits for an uncommitted row with its key.  An insert also locks the    *)
(* workflow and the trigger it refers to, so that their deletion waits for *)
(* it.  All requests are those of one workspace.                           *)
(***************************************************************************)
EXTENDS Naturals, Sequences, FiniteSets

CONSTANTS
  Requests,   \* requests for a run
  Workflows,
  Triggers,   \* webhook triggers
  Api,        \* stands for the trigger of a request that comes by the API
  Target,     \* the workflow of each trigger
  Workflow,   \* the workflow a request is for
  Trigger,    \* the trigger a request comes by, or Api
  CallerKey,  \* the key the caller sends, a sequence of tokens; <<>> for none
  MaxSends    \* bound on how often each request is sent

ASSUME RequestsAssumption ==
  /\ Api \notin Triggers
  /\ Target \in [Triggers -> Workflows]
  /\ Workflow \in [Requests -> Workflows]
  /\ Trigger \in [Requests -> Triggers \cup {Api}]
  /\ \A r \in Requests : Trigger[r] # Api => Workflow[r] = Target[Trigger[r]]
  /\ MaxSends \in [Requests -> Nat \ {0}]

ASSUME KeysAssumption ==
  \A r \in Requests : CallerKey[r] \in Seq({CallerKey[r][k] : k \in DOMAIN CallerKey[r]})

VARIABLES
  workflows,  \* workflows that exist, all with a current version
  triggers,   \* triggers that exist
  enabled,    \* triggers that are enabled, their workflow too
  runs,       \* committed rows of runs
  jobs,       \* committed advance_run jobs, by the id of their run
  pc,         \* where the handling of a request is
  row,        \* the uncommitted row of its transaction, as a set of at most one
  queued,     \* whether its transaction holds the advance_run job
  sends,      \* how often it was sent
  answer      \* the answers its caller got

vars == <<workflows, triggers, enabled, runs, jobs, pc, row, queued, sends, answer>>
request == <<pc, row, queued, sends, answer>>

Locations == {"lookup", "begin", "insert", "existing", "enqueue", "commit", "respond",
              "answered", "failed"}

\* The API calls StartRunOpts at once, the ingress resolves its trigger first.
Entry(r) == IF Trigger[r] = Api THEN "begin" ELSE "lookup"

Init ==
  /\ workflows = Workflows
  /\ triggers = Triggers
  /\ enabled = Triggers
  /\ runs = {}
  /\ jobs = {}
  /\ pc = [r \in Requests |-> Entry(r)]
  /\ row = [r \in Requests |-> {}]
  /\ queued = [r \in Requests |-> FALSE]
  /\ sends = [r \in Requests |-> 1]
  /\ answer = [r \in Requests |-> {}]

\* Mutated form: the caller's key is taken as it is.
EngineRunOpts_Bare(r) == CallerKey[r]

\* The key of the run options: that of a webhook names the trigger.
EngineRunOpts(r) ==
  IF CallerKey[r] = <<>> \/ Trigger[r] = Api
    THEN CallerKey[r]
    ELSE <<"hook", Trigger[r]>> \o CallerKey[r]

\* The key as it is stored names the workflow; <<>> is null.
StoredKey(r) == IF EngineRunOpts(r) = <<>> THEN <<>> ELSE <<Workflow[r]>> \o EngineRunOpts(r)

SameKey(r, rows) == {x \in rows : StoredKey(r) # <<>> /\ x.key = StoredKey(r)}

Uncommitted == UNION {row[r] : r \in Requests}

\* Mutated form: the transaction is left open.
Fails_NoRollback(r) ==
  /\ pc' = [pc EXCEPT ![r] = "failed"]
  /\ UNCHANGED <<runs, jobs, row, queued, sends, answer>>

\* The server lets go of a request: an error, or a crash, and a rollback.
Fails(r) ==
  /\ pc' = [pc EXCEPT ![r] = "failed"]
  /\ row' = [row EXCEPT ![r] = {}]
  /\ queued' = [queued EXCEPT ![r] = FALSE]
  /\ UNCHANGED <<runs, jobs, sends, answer>>

Goes(r, from, to) == pc[r] = from /\ pc' = [pc EXCEPT ![r] = to]

-----------------------------------------------------------------------------
\* webhook: one query for the trigger, then 404 or 403 when it is not to fire.
Lookup(r) ==
  /\ IF Trigger[r] \in triggers \cap enabled
       THEN /\ Goes(r, "lookup", "begin")
            /\ UNCHANGED <<runs, jobs, row, queued, sends, answer>>
       ELSE pc[r] = "lookup" /\ Fails(r)
  /\ UNCHANGED <<workflows, triggers, enabled>>

\* The transaction begins with the workflow's current version.
Begin(r) ==
  /\ IF Workflow[r] \in workflows
       THEN /\ Goes(r, "begin", "insert")
            /\ UNCHANGED <<runs, jobs, row, queued, sends, answer>>
       ELSE pc[r] = "begin" /\ Fails(r)
  /\ UNCHANGED <<workflows, triggers, enabled>>

\* Mutated form: the index is looked up, and nothing is waited for.
KeyIsFree_Select(r) == SameKey(r, runs) = {}

\* No other transaction is about to commit a row with the key.
KeyIsFree(r) == SameKey(r, runs \cup Uncommitted) = {}

\* The key is new: the row is inserted, unless what it refers to is gone.
Insert(r) ==
  /\ KeyIsFree(r)
  /\ IF Workflow[r] \in workflows /\ (Trigger[r] \in triggers \/ Trigger[r] = Api)
       THEN /\ Goes(r, "insert", "enqueue")
            /\ row' = [row EXCEPT ![r] = {[id |-> <<r, sends[r]>>, key |-> StoredKey(r),
                                           workflow |-> Workflow[r], trigger |-> Trigger[r]]}]
            /\ UNCHANGED <<runs, jobs, queued, sends, answer>>
       ELSE pc[r] = "insert" /\ Fails(r)
  /\ UNCHANGED <<workflows, triggers, enabled>>

\* The key is taken: on conflict do nothing returns no row.
Conflict(r) ==
  /\ SameKey(r, runs) # {}
  /\ Goes(r, "insert", "existing")
  /\ UNCHANGED <<workflows, triggers, enabled, runs, jobs, row, queued, sends, answer>>

Answers(r, id, created) == answer' = [answer EXCEPT ![r] = @ \cup {[id |-> id, created |-> created]}]

\* The replay: the run with the key is looked for, and answered if it is there.
Existing(r) ==
  /\ \/ \E x \in SameKey(r, runs) :
          /\ x.workflow = Workflow[r]
          /\ Goes(r, "existing", "answered")
          /\ Answers(r, x.id, FALSE)
          /\ UNCHANGED <<runs, jobs, row, queued, sends>>
     \/ /\ pc[r] = "existing"
        /\ \A x \in SameKey(r, runs) : x.workflow # Workflow[r]
        /\ Fails(r)
  /\ UNCHANGED <<workflows, triggers, enabled>>

\* Mutated form: the job is inserted after the commit, outside the transaction.
JobInTx_After == FALSE

\* The advance_run job is inserted in the transaction of the run row.
JobInTx == TRUE

Enqueue(r) ==
  /\ Goes(r, "enqueue", "commit")
  /\ queued' = [queued EXCEPT ![r] = JobInTx]
  /\ UNCHANGED <<workflows, triggers, enabled, runs, jobs, row, sends, answer>>

Commit(r) ==
  /\ Goes(r, "commit", "respond")
  /\ runs' = runs \cup row[r]
  /\ jobs' = IF queued[r] THEN jobs \cup {x.id : x \in row[r]} ELSE jobs
  /\ row' = [row EXCEPT ![r] = {}]
  /\ queued' = [queued EXCEPT ![r] = FALSE]
  /\ UNCHANGED <<workflows, triggers, enabled, sends, answer>>

\* The caller gets its run: 201 or 202.
Respond(r) ==
  /\ Goes(r, "respond", "answered")
  /\ Answers(r, <<r, sends[r]>>, TRUE)
  /\ UNCHANGED <<workflows, triggers, enabled, runs, jobs, row, queued, sends>>

\* A statement fails, the server dies, or the answer is lost.
Error(r) ==
  /\ pc[r] \notin {"answered", "failed"}
  /\ Fails(r)
  /\ UNCHANGED <<workflows, triggers, enabled>>

\* The caller sends the request again, after a failure or once more.
Resend(r) ==
  /\ pc[r] \in {"answered", "failed"}
  /\ sends[r] < MaxSends[r]
  /\ pc' = [pc EXCEPT ![r] = Entry(r)]
  /\ sends' = [sends EXCEPT ![r] = @ + 1]
  /\ UNCHANGED <<workflows, triggers, enabled, runs, jobs, row, queued, answer>>

\* updateTrigger with is_enabled.
Toggle(t) ==
  /\ t \in triggers
  /\ enabled' = (enabled \ {t}) \cup ({t} \ enabled)
  /\ UNCHANGED <<workflows, triggers, runs, jobs, request>>

\* Mutated form: only what is committed keeps a trigger.
RefersTo_Committed(t) == {x \in runs : x.trigger = t}

\* Rows that refer to a trigger, those that lock it included.
RefersTo(t) == {x \in runs \cup Uncommitted : x.trigger = t}

\* deleteTrigger: runs.trigger_id does not cascade, so that the delete waits for
\* an uncommitted row and fails, with nothing changed, once there is a run.
deleteTrigger(t) ==
  /\ t \in triggers
  /\ RefersTo(t) = {}
  /\ triggers' = triggers \ {t}
  /\ UNCHANGED <<workflows, enabled, runs, jobs, request>>

\* deleteWorkflow: its runs and its triggers go with it; the jobs stay.
deleteWorkflow(w) ==
  /\ w \in workflows
  /\ \A x \in Uncommitted : x.workflow # w
  /\ workflows' = workflows \ {w}
  /\ triggers' = {t \in triggers : Target[t] # w}
  /\ runs' = {x \in runs : x.workflow # w}
  /\ UNCHANGED <<enabled, jobs, request>>

Handle(r) ==
  \/ Lookup(r) \/ Begin(r) \/ Insert(r) \/ Conflict(r) \/ Existing(r)
  \/ Enqueue(r) \/ Commit(r) \/ Respond(r)

Next ==
  \/ \E r \in Requests : Handle(r) \/ Error(r) \/ Resend(r)
  \/ \E t \in Triggers : Toggle(t) \/ deleteTrigger(t)
  \/ \E w \in Workflows : deleteWorkflow(w)

\* The server goes on with a request it has; callers need not come back.
Fairness == \A r \in Requests : WF_vars(Handle(r))

Spec == Init /\ [][Next]_vars /\ Fairness

-----------------------------------------------------------------------------
Ids == UNION {{r} \X (1..MaxSends[r]) : r \in Requests}

\* A row of runs; its key is null or names the workflow.
RowType ==
  [id : Ids,
   key : {<<>>} \cup {<<w>> \o EngineRunOpts(r) : w \in Workflows, r \in Requests},
   workflow : Workflows, trigger : Triggers \cup {Api}]

\* Every variable holds a value of its type.
TypeOK ==
  /\ workflows \subseteq Workflows /\ triggers \subseteq Triggers /\ enabled \subseteq Triggers
  /\ runs \subseteq RowType /\ jobs \subseteq Ids
  /\ pc \in [Requests -> Locations]
  /\ row \in [Requests -> SUBSET RowType]
  /\ queued \in [Requests -> BOOLEAN]
  /\ sends \in [Requests -> Nat] /\ \A r \in Requests : sends[r] \in 1..MaxSends[r]
  /\ answer \in [Requests -> SUBSET [id : Ids, created : BOOLEAN]]

(***************************************************************************)
(* What a caller with an idempotency key relies on: however often and by   *)
(* however many callers the same request is sent, over errors, crashes and *)
(* lost answers, all of them are told the same run, one of them at most    *)
(* that it is new.                                                         *)
(***************************************************************************)
SameRequest(p, r) ==
  CallerKey[r] # <<>> /\ CallerKey[p] = CallerKey[r] /\ Workflow[p] = Workflow[r] /\ Trigger[p] = Trigger[r]

OneRunPerKey ==
  \A p, r \in Requests : SameRequest(p, r) =>
    \A x \in answer[p], y \in answer[r] :
      x.id = y.id /\ (x.created /\ y.created => p = r)

(***************************************************************************)
(* And what it must not get: a caller's answer never names a run another   *)
(* trigger or another workflow started, although all of them share one     *)
(* unique index.                                                           *)
(***************************************************************************)
OwnRun ==
  \A r \in Requests : \A x \in answer[r] :
    /\ Workflow[x.id[1]] = Workflow[r]
    /\ Trigger[x.id[1]] = Trigger[r]

(***************************************************************************)
(* Run row and job commit together: a run that exists has its advance_run  *)
(* job, whatever failed on the way, and a run that a caller was told of    *)
(* has or had one.                                                         *)
(***************************************************************************)
RunHasJob ==
  /\ \A x \in runs : x.id \in jobs
  /\ \A r \in Requests : \A x \in answer[r] : x.id \in jobs

(***************************************************************************)
(* Waiting for a key or a lock ends: a request the server has is answered  *)
(* or fails.                                                               *)
(***************************************************************************)
RequestsEnd == \A r \in Requests : []<>(pc[r] \in {"answered", "failed"})

(***************************************************************************)
(* A run keeps what it came by: while triggers and workflows are deleted   *)
(* under requests that have looked them up, every run's workflow exists,   *)
(* and so does the trigger that its detail names.                          *)
(***************************************************************************)
RunsKeepTheirSource ==
  \A x \in runs : x.workflow \in workflows /\ (x.trigger # Api => x.trigger \in triggers)
=============================================================================
