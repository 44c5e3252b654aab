----------------------------- MODULE RunEngine -----------------------------
(***************************************************************************)
(* One run of a workflow, as engine/internal/engine drives it: the runs    *)
(* row, the tasks rows (one per step and attempt), the suspensions rows,   *)
(* and the River jobs that are inserted in the same transactions.          *)
(*                                                                         *)
(* An action is one database transaction, or one guarded statement, with   *)
(* the local work around it.  A handler that reads in one transaction and  *)
(* writes in a later one is two actions, and what it read is state         *)
(* (exec, rjob, call, orphans), so everything can happen in between.       *)
(***************************************************************************)
EXTENDS Naturals

CONSTANTS
    Steps,          \* the step keys of the pinned workflow version
    Needs,          \* Needs[s]: the steps s depends on
    Retries,        \* Retries[s]: automatic retries of step s
    Guarded,        \* the steps that carry an `if` expression
    Suspends,       \* Suspends[s]: the kinds of suspension its executor may ask for
    Reapers,        \* the replicas that run a reaper
    Callers,        \* external callers of the resume endpoint
    FaultPoints,    \* where an execute_task worker may die: "load", "execute"
    MaxRetryRuns,   \* bound: how often the user may retry the run
    MaxAttempt      \* bound: attempts of a step, large enough never to be met

Kinds == {"delay", "callback"}
Attempts == 1..MaxAttempt

\* definition.Validate: needs name steps of the definition, and every set of
\* steps has a member that needs none of the others (no cycle).
ASSUME DefinitionAssumption ==
    /\ Needs \in [Steps -> SUBSET Steps]
    /\ \A T \in SUBSET Steps : T # {} => \E s \in T : Needs[s] \cap T = {}
    /\ Retries \in [Steps -> Nat]
    /\ Guarded \subseteq Steps
    /\ Suspends \in [Steps -> SUBSET Kinds]

ASSUME BoundsAssumption ==
    /\ MaxRetryRuns \in Nat
    /\ MaxAttempt \in Nat
    /\ \A s \in Steps : Retries[s] + 1 + MaxRetryRuns <= MaxAttempt
    /\ FaultPoints \subseteq {"load", "execute"}

VARIABLES
    run,        \* runs.status, "none" before the row exists
    advances,   \* advance_run jobs not yet completed
    task,       \* task[s][a]: tasks.status of attempt a of step s
    exec,       \* exec[s][a]: its execute_task job, and how far the worker is
    susp,       \* susp[s][a]: its suspensions row ("gone" once deleted)
    rjob,       \* rjob[s][a]: its scheduled resume_task job
    call,       \* call[s][a][c]: caller c's POST to its resume URL
    orphans,    \* orphans[r]: what reaper r selected and has not handled yet
    retryRuns   \* how often RetryRun succeeded

vars == <<run, advances, task, exec, susp, rjob, call, orphans, retryRuns>>

RunStatus  == {"none", "queued", "running", "succeeded", "failed", "canceled"}
TaskStatus == {"absent", "queued", "running", "suspended",
               "succeeded", "failed", "skipped", "canceled"}
ExecState  == {"none", "available", "loaded", "executing", "dead", "overdue", "done"}
JobState   == {"none", "available", "loaded", "done"}
SuspState  == {"none", "delay", "callback", "gone"}
CallState  == {"none", "loaded", "ok", "conflict", "notfound"}

Table(V) == [Steps -> [Attempts -> V]]

Terminal     == {"succeeded", "failed", "canceled"}
Live         == {"queued", "running", "suspended"}
Satisfied    == {"succeeded", "skipped"}
Unsuccessful == {"failed", "canceled"}

\* Every row, job and request holds a value of its type: in particular a row
\* that a guard resolves has a status the enum of the tasks table knows.
TypeOK ==
    /\ run \in RunStatus
    /\ advances \in Nat
    /\ task \in Table(TaskStatus)
    /\ exec \in Table(ExecState)
    /\ susp \in Table(SuspState)
    /\ rjob \in Table(JobState)
    /\ call \in Table([Callers -> CallState])
    /\ orphans \in [Reapers -> SUBSET (Steps \X Attempts)]
    /\ retryRuns \in 0..MaxRetryRuns

-----------------------------------------------------------------------------
(* The rows of a step, and its latest attempt: `distinct on (step_key) ...  *)
(* order by step_key, attempt desc`.                                        *)

NoRows(s) == \A a \in Attempts : task[s][a] = "absent"

IsLatest(s, a) ==
    /\ task[s][a] # "absent"
    /\ \A b \in Attempts : b > a => task[s][b] = "absent"

LatestIn(s, statuses) == \E a \in Attempts : IsLatest(s, a) /\ task[s][a] \in statuses

Done(s) == LatestIn(s, Satisfied)

AnyFailed == \E s \in Steps : LatestIn(s, Unsuccessful)

AllSucceeded_RowsOnly == \A s \in Steps : NoRows(s) \/ Done(s)
AllSucceeded == \A s \in Steps : Done(s)

Ready_AnyNeed == {s \in Steps : /\ NoRows(s)
                                /\ Needs[s] = {} \/ \E n \in Needs[s] : Done(n)}
Ready == {s \in Steps : NoRows(s) /\ \A n \in Needs[s] : Done(n)}

\* definition.TransitiveNeeds: the least set that holds what s needs and, with
\* a step, what that step needs (Definition computes it as the code does).
TransitiveNeeds_All(s) == Steps
TransitiveNeeds(s) ==
    {n \in Steps : \A T \in SUBSET Steps :
        Needs[s] \subseteq T /\ (\A t \in T : Needs[t] \subseteq T) => n \in T}

\* buildRunContext: the steps whose outputs the guard and the config of s see.
RunContext(s) ==
    {n \in TransitiveNeeds(s) : \E a \in Attempts : task[n][a] = "succeeded"}

-----------------------------------------------------------------------------
(* The guards of the statements, and the rows they write.  An operator with *)
(* an underscore in its name is a mutated form of the one that follows: the *)
(* specification never uses it, and PROJECT.json says which property fails  *)
(* when it takes that one's place.                                          *)

\* finishTask: where id = $1 and status in ('queued','running').
FinishGuard_LateResult(status) == status \in {"queued", "running", "canceled"}
FinishGuard(status) == status \in {"queued", "running"}

\* suspendTask: where id = $1 and status = 'running'.
SuspendGuard(status) == status = "running"

\* reapTask: where id = $1 and status = 'running'.
ReapGuard(status) == status = "running"

\* resumeSuspended: where id = $1 and status = 'suspended'.
ResumeGuard_None(status) == TRUE
ResumeGuard(status) == status = "suspended"

\* finishTask and reapTask: a failed attempt is retried while attempt <= retries.
RetriesLeft_OneMore(a, retries) == a <= retries + 1
RetriesLeft(a, retries) == a <= retries

\* CancelRun: which task rows are canceled with the run.
Cancelable_NotParked(status) == status \in {"queued", "running"}
Cancelable(status) == status \in Live

\* RetryRun: attempt b is inserted when b - 1 is the latest and was unsuccessful.
Redo(s, b) ==
    /\ b - 1 \in Attempts
    /\ IsLatest(s, b - 1)
    /\ task[s][b - 1] \in Unsuccessful

\* The row the scan inserts for a ready step, by what its guard evaluated to.
FirstRow(verdict) ==
    CASE verdict = "run"   -> "queued"
      [] verdict = "skip"  -> "skipped"
      [] verdict = "error" -> "failed"

\* Whether a guard wrote a row that has no job of its own.
GuardResolved_Never(verdict) == FALSE
GuardResolved(verdict) == \E s \in DOMAIN verdict : verdict[s] # "run"

\* Only a timed suspension (ResumeAt set) gets a resume_task job.
ResumeScheduled(kind) == kind = "delay"

Verdicts(s) == IF s \in Guarded THEN {"run", "skip", "error"} ELSE {"run"}

Put(f, s, a, v) == [f EXCEPT ![s][a] = v]

-----------------------------------------------------------------------------
Init ==
    /\ run = "none"
    /\ advances = 0
    /\ task = [s \in Steps |-> [a \in Attempts |-> "absent"]]
    /\ exec = [s \in Steps |-> [a \in Attempts |-> "none"]]
    /\ susp = [s \in Steps |-> [a \in Attempts |-> "none"]]
    /\ rjob = [s \in Steps |-> [a \in Attempts |-> "none"]]
    /\ call = [s \in Steps |-> [a \in Attempts |-> [c \in Callers |-> "none"]]]
    /\ orphans = [r \in Reapers |-> {}]
    /\ retryRuns = 0

\* StartRunOpts: the runs row and its first advance_run job.
StartRun ==
    /\ run = "none"
    /\ run' = "queued"
    /\ advances' = advances + 1
    /\ UNCHANGED <<task, exec, susp, rjob, call, orphans, retryRuns>>

-----------------------------------------------------------------------------
(* advanceRunWorker.Work, under `for update of r`.  acked is 0 when the     *)
(* process dies after the commit and before River completes the job: the    *)
(* job is rescued and runs again.                                           *)

AdvanceNoop(acked) ==
    /\ advances > 0
    /\ run \in Terminal
    /\ advances' = advances - acked
    /\ UNCHANGED <<run, task, exec, susp, rjob, call, orphans, retryRuns>>

AdvanceFail(acked) ==
    /\ advances > 0
    /\ run \notin Terminal
    /\ AnyFailed
    /\ run' = "failed"
    /\ advances' = advances - acked
    /\ UNCHANGED <<task, exec, susp, rjob, call, orphans, retryRuns>>

AdvanceSucceed(acked) ==
    /\ advances > 0
    /\ run \notin Terminal
    /\ ~AnyFailed
    /\ AllSucceeded
    /\ run' = "succeeded"
    /\ advances' = advances - acked
    /\ UNCHANGED <<task, exec, susp, rjob, call, orphans, retryRuns>>

\* The default case: a row for every ready step, a job for every queued one,
\* and one more advance_run when a guard wrote a row that has no job.
AdvanceEnqueue(acked) ==
    /\ advances > 0
    /\ run \notin Terminal
    /\ ~AnyFailed
    /\ ~AllSucceeded
    /\ \E verdict \in [Ready -> {"run", "skip", "error"}] :
        /\ \A s \in Ready : verdict[s] \in Verdicts(s)
        /\ task' = [s \in Steps |-> IF s \in Ready
                                    THEN [task[s] EXCEPT ![1] = FirstRow(verdict[s])]
                                    ELSE task[s]]
        /\ exec' = [s \in Steps |-> IF s \in Ready /\ verdict[s] = "run"
                                    THEN [exec[s] EXCEPT ![1] = "available"]
                                    ELSE exec[s]]
        /\ advances' = (advances - acked) + (IF GuardResolved(verdict) THEN 1 ELSE 0)
    /\ run' = IF run = "queued" THEN "running" ELSE run
    /\ UNCHANGED <<susp, rjob, call, orphans, retryRuns>>

-----------------------------------------------------------------------------
(* executeTaskWorker.Work: load, prepare, the guarded queued -> running     *)
(* update, the executor, and finishTask or suspendTask.                     *)

ExecuteLoad(s, a) ==
    /\ exec[s][a] = "available"
    /\ exec' = Put(exec, s, a, IF task[s][a] = "queued" THEN "loaded" ELSE "done")
    /\ UNCHANGED <<run, advances, task, susp, rjob, call, orphans, retryRuns>>

\* What finishTask and reapTask share: the row, the next attempt with its job
\* when the step is retried, and an advance_run job.
Resolve(s, a, status, retrying) ==
    /\ IF retrying
       THEN /\ task' = Put(Put(task, s, a, status), s, a + 1, "queued")
            /\ exec' = Put(Put(exec, s, a, "done"), s, a + 1, "available")
       ELSE /\ task' = Put(task, s, a, status)
            /\ exec' = Put(exec, s, a, "done")
    /\ advances' = advances + 1

FinishTask(s, a, status, retries) ==
    IF FinishGuard(task[s][a])
    THEN Resolve(s, a, status, status = "failed" /\ RetriesLeft(a, retries))
    ELSE /\ exec' = Put(exec, s, a, "done")
         /\ UNCHANGED <<task, advances>>

\* Secrets that cannot be loaded fail the task before t.retries is set, so with
\* no retries; a context or an interpolation error fails it with the step's.
ExecuteFailEarly(s, a) ==
    /\ exec[s][a] = "loaded"
    /\ \E retries \in {0, Retries[s]} : FinishTask(s, a, "failed", retries)
    /\ UNCHANGED <<run, susp, rjob, call, orphans, retryRuns>>

\* The guarded transition: a concurrent cancel wins, and the job drops out.
ExecuteStart(s, a) ==
    /\ exec[s][a] = "loaded"
    /\ IF task[s][a] = "queued"
       THEN /\ task' = Put(task, s, a, "running")
            /\ exec' = Put(exec, s, a, "executing")
       ELSE /\ exec' = Put(exec, s, a, "done")
            /\ UNCHANGED task
    /\ UNCHANGED <<run, advances, susp, rjob, call, orphans, retryRuns>>

ExecuteFinish(s, a) ==
    /\ exec[s][a] = "executing"
    /\ \E status \in {"succeeded", "failed"} : FinishTask(s, a, status, Retries[s])
    /\ UNCHANGED <<run, susp, rjob, call, orphans, retryRuns>>

\* suspendTask: the row, its suspension, and a scheduled resume for a delay.
SuspendTask(s, a) ==
    /\ exec[s][a] = "executing"
    /\ exec' = Put(exec, s, a, "done")
    /\ \E kind \in Suspends[s] :
        IF SuspendGuard(task[s][a])
        THEN /\ task' = Put(task, s, a, "suspended")
             /\ susp' = Put(susp, s, a, kind)
             /\ rjob' = IF ResumeScheduled(kind) THEN Put(rjob, s, a, "available") ELSE rjob
        ELSE UNCHANGED <<task, susp, rjob>>
    /\ UNCHANGED <<run, advances, call, orphans, retryRuns>>

\* The process dies, before the executor or in it or past the ceiling, or the
\* transaction fails: MaxAttempts is 1, so River discards the job and no other
\* worker takes it up.
ExecuteDies(s, a) ==
    /\ \/ exec[s][a] = "loaded" /\ "load" \in FaultPoints
       \/ exec[s][a] = "executing" /\ "execute" \in FaultPoints
    /\ exec' = Put(exec, s, a, "dead")
    /\ UNCHANGED <<run, advances, task, susp, rjob, call, orphans, retryRuns>>

-----------------------------------------------------------------------------
(* The reaper: select the orphans, then one transaction for each.           *)

\* 20 minutes after started_at.  The 15 minute ceiling on a job has ended the
\* worker by then, so only a dead worker's task gets this old.
Overdue(s, a) ==
    /\ exec[s][a] = "dead"
    /\ task[s][a] = "running"
    /\ exec' = Put(exec, s, a, "overdue")
    /\ UNCHANGED <<run, advances, task, susp, rjob, call, orphans, retryRuns>>

OrphanTasks_Queued == {t \in Steps \X Attempts :
                          task[t[1]][t[2]] = "queued" /\ exec[t[1]][t[2]] = "overdue"}
OrphanTasks == {t \in Steps \X Attempts :
                   task[t[1]][t[2]] = "running" /\ exec[t[1]][t[2]] = "overdue"}

ReapOrphans(r) ==
    /\ orphans[r] = {}
    /\ OrphanTasks # {}
    /\ orphans' = [orphans EXCEPT ![r] = OrphanTasks]
    /\ UNCHANGED <<run, advances, task, exec, susp, rjob, call, retryRuns>>

ReapTask(r, s, a) ==
    /\ <<s, a>> \in orphans[r]
    /\ orphans' = [orphans EXCEPT ![r] = @ \ {<<s, a>>}]
    /\ IF ReapGuard(task[s][a])
       THEN Resolve(s, a, "failed", RetriesLeft(a, Retries[s]))
       ELSE UNCHANGED <<task, exec, advances>>
    /\ UNCHANGED <<run, susp, rjob, call, retryRuns>>

\* reapTask returns an error, which reapOrphans logs and passes over.
ReapTaskFails(r, s, a) ==
    /\ <<s, a>> \in orphans[r]
    /\ orphans' = [orphans EXCEPT ![r] = @ \ {<<s, a>>}]
    /\ UNCHANGED <<run, advances, task, exec, susp, rjob, call, retryRuns>>

-----------------------------------------------------------------------------
(* resumeSuspended, from the scheduled job or from the resume endpoint.     *)

ResumeSuspended(s, a) ==
    /\ IF ResumeGuard(task[s][a])
       THEN /\ task' = Put(task, s, a, "succeeded")
            /\ advances' = advances + 1
       ELSE UNCHANGED <<task, advances>>
    /\ susp' = Put(susp, s, a, "gone")

ResumeJobLoad(s, a) ==
    /\ rjob[s][a] = "available"
    /\ rjob' = Put(rjob, s, a, IF susp[s][a] \in Kinds THEN "loaded" ELSE "done")
    /\ UNCHANGED <<run, advances, task, exec, susp, call, orphans, retryRuns>>

\* With acked = 0 the job is rescued and runs again, as after an advance.
ResumeJobCommit(s, a, acked) ==
    /\ rjob[s][a] = "loaded"
    /\ ResumeSuspended(s, a)
    /\ rjob' = Put(rjob, s, a, IF acked = 1 THEN "done" ELSE "available")
    /\ UNCHANGED <<run, exec, call, orphans, retryRuns>>

\* An infrastructure error: the job is not capped, so River runs it again.
ResumeJobFails(s, a) ==
    /\ rjob[s][a] = "loaded"
    /\ rjob' = Put(rjob, s, a, "available")
    /\ UNCHANGED <<run, advances, task, exec, susp, call, orphans, retryRuns>>

\* ResumeSuspendedTask looks the token up; the URL is known from the time the
\* task was suspended.
ResumeCallLoad(s, a, c) ==
    /\ call[s][a][c] = "none"
    /\ susp[s][a] = "callback" \/ (susp[s][a] = "gone" /\ rjob[s][a] = "none")
    /\ call' = [call EXCEPT ![s][a][c] =
                    IF susp[s][a] = "callback" THEN "loaded" ELSE "notfound"]
    /\ UNCHANGED <<run, advances, task, exec, susp, rjob, orphans, retryRuns>>

ResumeCallCommit(s, a, c) ==
    /\ call[s][a][c] = "loaded"
    /\ ResumeSuspended(s, a)
    /\ call' = [call EXCEPT ![s][a][c] =
                    IF ResumeGuard(task[s][a]) THEN "ok" ELSE "conflict"]
    /\ UNCHANGED <<run, exec, rjob, orphans, retryRuns>>

-----------------------------------------------------------------------------
(* CancelRun and RetryRun, each under `for update` of the runs row.         *)

CancelRun ==
    /\ run \in RunStatus \ ({"none"} \cup Terminal)
    /\ run' = "canceled"
    /\ task' = [s \in Steps |-> [a \in Attempts |->
                   IF Cancelable(task[s][a]) THEN "canceled" ELSE task[s][a]]]
    /\ UNCHANGED <<advances, exec, susp, rjob, call, orphans, retryRuns>>

RetryRun ==
    /\ run \in Unsuccessful
    /\ retryRuns < MaxRetryRuns
    /\ retryRuns' = retryRuns + 1
    /\ run' = "running"
    /\ task' = [s \in Steps |-> [b \in Attempts |->
                   IF Redo(s, b) THEN "queued" ELSE task[s][b]]]
    /\ exec' = [s \in Steps |-> [b \in Attempts |->
                   IF Redo(s, b) THEN "available" ELSE exec[s][b]]]
    /\ advances' = advances + 1
    /\ UNCHANGED <<susp, rjob, call, orphans>>

-----------------------------------------------------------------------------
Advance(acked) ==
    \/ AdvanceNoop(acked)
    \/ AdvanceFail(acked)
    \/ AdvanceSucceed(acked)
    \/ AdvanceEnqueue(acked)

Execute(s, a) ==
    \/ ExecuteLoad(s, a)
    \/ ExecuteFailEarly(s, a)
    \/ ExecuteStart(s, a)
    \/ ExecuteFinish(s, a)
    \/ SuspendTask(s, a)
    \/ ExecuteDies(s, a)

Reap(r, s, a) == ReapTask(r, s, a) \/ ReapTaskFails(r, s, a)

ResumeJob(s, a) ==
    \/ ResumeJobLoad(s, a)
    \/ \E acked \in {0, 1} : ResumeJobCommit(s, a, acked)
    \/ ResumeJobFails(s, a)

ResumeCall(s, a, c) == ResumeCallLoad(s, a, c) \/ ResumeCallCommit(s, a, c)

Next ==
    \/ StartRun
    \/ \E acked \in {0, 1} : Advance(acked)
    \/ \E s \in Steps, a \in Attempts :
        \/ Execute(s, a)
        \/ Overdue(s, a)
        \/ \E r \in Reapers : Reap(r, s, a)
        \/ ResumeJob(s, a)
        \/ \E c \in Callers : ResumeCall(s, a, c)
    \/ \E r \in Reapers : ReapOrphans(r)
    \/ CancelRun
    \/ RetryRun

Spec == Init /\ [][Next]_vars

(* River hands every available job to a worker and runs it again until it    *)
(* succeeds (advance_run and resume_task); an executor returns or is cut off *)
(* at its ceiling; every reaper ticks.  A reap and a resume may fail any     *)
(* number of times but not for ever, hence strong fairness.  Users and       *)
(* callers owe nothing.                                                      *)
Fairness ==
    /\ WF_vars(Advance(1))
    /\ \A s \in Steps, a \in Attempts :
        /\ WF_vars(ExecuteLoad(s, a))
        /\ WF_vars(ExecuteFailEarly(s, a) \/ ExecuteStart(s, a))
        /\ WF_vars(ExecuteFinish(s, a) \/ SuspendTask(s, a) \/ ExecuteDies(s, a))
        /\ WF_vars(Overdue(s, a))
        /\ WF_vars(ResumeJobLoad(s, a))
        /\ SF_vars(ResumeJobCommit(s, a, 1))
        /\ \A r \in Reapers : SF_vars(ReapTask(r, s, a))
    /\ \A r \in Reapers : WF_vars(ReapOrphans(r))

FairSpec == Spec /\ Fairness

-----------------------------------------------------------------------------
(* Safety.                                                                  *)

\* A new attempt of a step is inserted only after the earlier ones failed or
\* were canceled, whichever of finishTask, the reapers and RetryRun insert it:
\* so a step never has two live attempts, a completed step is never run again,
\* and the plain inserts of attempt + 1 never meet unique(run, step, attempt).
AttemptHistory ==
    \A s \in Steps : \A a, b \in Attempts :
        b < a /\ task[s][a] # "absent" => task[s][b] \in Unsuccessful

\* A step has a task row only once everything it needs is done, and that stays
\* so through retries, cancels and resumes.
NeedsFirst ==
    \A s \in Steps : ~NoRows(s) => \A n \in Needs[s] : Done(n)

\* A run is 'succeeded' only with the latest attempt of every step succeeded or
\* skipped, and nothing that happens afterwards takes that back.
SucceededIsComplete == run = "succeeded" => \A s \in Steps : Done(s)

\* A canceled run has no queued, running or suspended task left, although
\* workers, reapers and resumes that started before the cancel are in flight.
CanceledIsQuiet ==
    run = "canceled" => \A s \in Steps, a \in Attempts : task[s][a] \notin Live

\* Automatic retries stay within the step's budget: every attempt beyond
\* retries + 1 was paid for by a RetryRun.
AttemptBudget ==
    \A s \in Steps, a \in Attempts :
        task[s][a] # "absent" => a <= Retries[s] + 1 + retryRuns

\* What will move a task on: a job for a queued row, a worker or a reaper for a
\* running one, a scheduled resume or an open resume URL for a suspended one.
HasWaker(s, a) ==
    \/ task[s][a] = "queued" /\ exec[s][a] \in {"available", "loaded"}
    \/ task[s][a] = "running" /\ exec[s][a] \in {"executing", "dead", "overdue"}
    \/ /\ task[s][a] = "suspended"
       /\ \/ susp[s][a] = "delay" /\ rjob[s][a] \in {"available", "loaded"}
          \/ susp[s][a] = "callback"

\* No run hangs: a run that is not over has an advance_run job pending, or a
\* task that something will still move on (hard rule 2, rows and jobs commit
\* together; the comment above runReaper).
NoHungRun ==
    run \in {"queued", "running"} =>
        \/ advances > 0
        \/ \E s \in Steps, a \in Attempts : HasWaker(s, a)

\* The answers of the resume endpoint are true: at most one caller is told its
\* payload resumed the task, and then the task did succeed; a caller is told
\* "not waiting" only when the task is no longer suspended.
CallbackAnswers ==
    \A s \in Steps, a \in Attempts : \A c, d \in Callers :
        /\ call[s][a][c] = "ok" => task[s][a] = "succeeded"
        /\ call[s][a][c] = "ok" /\ call[s][a][d] = "ok" => c = d
        /\ call[s][a][c] \in {"conflict", "notfound"} => task[s][a] # "suspended"

\* A terminal task row is never written again: late results, reaps and resumes
\* are discarded, and a retry is a new row.
TaskRowsAreFinal ==
    [][\A s \in Steps, a \in Attempts :
          task[s][a] \in Satisfied \cup Unsuccessful => task'[s][a] = task[s][a]]_vars

\* The context a step is evaluated in is frozen from the time it is ready: its
\* guard, every attempt and every retry see the same outputs, whatever parallel
\* steps complete or are retried meanwhile.
ContextIsFrozen ==
    [][\A s \in Steps : (\A n \in Needs[s] : Done(n)) => RunContext(s)' = RunContext(s)]_vars

-----------------------------------------------------------------------------
(* The run as its user sees it.                                             *)

Life == INSTANCE RunLifecycle WITH status <- run, done <- {s \in Steps : Done(s)}

\* Tasks, attempts, jobs and replicas together behave like the lifecycle: steps
\* become done only after what they need and stay done, a run succeeds only when
\* complete, nothing completes in a canceled run, a retry keeps what is done.
Lifecycle == Life!Spec

-----------------------------------------------------------------------------
(* Liveness, under Fairness.                                                *)

\* Every run that starts is over in the end, unless it waits for an external
\* callback, which nothing bounds.
RunSettles ==
    []<>(\/ run \in {"none"} \cup Terminal
         \/ \E s \in Steps, a \in Attempts :
               task[s][a] = "suspended" /\ susp[s][a] = "callback")

\* Again and again there is a moment without a queued or running task: each was
\* resolved or parked, also when its worker died and when the run is already over.
TasksResolve ==
    []<>(\A s \in Steps, a \in Attempts : task[s][a] \notin {"queued", "running"})
=============================================================================
