# Oarlock: specification, model checking and proofs

Oarlock runs user-defined workflows: a graph of steps is pinned in a version,
and a run of it is driven by stateless workers over Postgres rows and River
jobs. This directory holds TLA+ modules of the parts of that program where
several processes, users and failures meet, the TLC configurations that check
them on small instances, and TLAPS proofs of their safety properties for every
value of the constants. Paths below are relative to the repository; `E/`
stands for `engine/internal/engine/` and `API/` for `engine/internal/api/`.

`PROJECT.json` is the index: which definition stands for which lines
(`map`), which run checks which property (`runs`), which wrong version of the
code each property catches (`mutants`), what was found (`findings`), what is
hard to test (`hazards`), and what is proved (`theorems`).

    tlc -config MCRunEngine_join.cfg MCRunEngine
    tlapm RunEngineProofs.tla

## 1. The system

### Components

**Run engine** (`E/advance.go`, `execute.go`, `resume.go`, `reaper.go`,
`engine.go`). State: a `runs` row, `tasks` rows keyed by (run, step, attempt),
`suspensions` rows, and the River jobs `advance_run`, `execute_task`,
`resume_task`, which are inserted in the transactions that need them.
Operations: start, advance (decide the run, or insert the tasks that are
ready), execute a task (load, start, executor, finish or suspend), reap the
tasks of dead workers, resume a suspended task by timer or by URL, cancel,
retry. Hard: all of these run at once on several replicas, in any order, and a
process may die between any two statements. Correct when: no step runs before
what it needs or twice after it succeeded; a result that comes too late is
dropped; the final status is true; the retries keep to their budget; and every
run ends.

**Run start** (`E/engine.go StartRunOpts`, `API/api.go startRun`,
`API/hooks.go`, `API/mcpserver.go`). State: `runs` with a unique index on
(workspace, idempotency key). Hard: requests are repeated while the first is
under way, after an error or after a lost answer; API, webhooks and scheduler
share one index; triggers and workflows are switched and deleted meanwhile.
Correct when: one key, one run; nobody is given somebody else's run; a run has
its job; no request waits for ever.

**Scheduler** (`E/scheduler.go`). No state of its own: each replica looks
90 seconds back every 30 seconds and starts a run for the latest activation.
Hard: overlapping windows and replicas, late, failed and stale sweeps. Correct
when: every due minute has its run, and only one.

**Definitions** (`engine/internal/definition`). `Validate` is the only
defence of the engine against graphs that cannot finish; `TransitiveNeeds`
decides what a step may see. Pure algorithms.

**Run views** (`API/api.go fetchRun, runEvents`, `API/mcpserver.go
run_workflow`). Handlers that read a run in two statements while the engine
works, woken by pings that may be lost. Correct when: what they show is
consistent, a stream ends with its run, a waiting call is answered.

**User management** (`API/users.go`). Roles in `workspace_members`; the last
admin may not be removed.

**Workflows, versions and resources** (`API/api.go`, `API/resources.go`). State:
`workflows` with `current_version_id`, numbered `workflow_versions`, `secrets`
and `mcp_servers`, which definitions refer to by name. Hard: two saves compute
the same number; a deletion looks for references in one statement and deletes in
another, while saves and renamings come in between. Correct when: the versions
are numbered in the order of their commits and the last one is current; a name
in use is not taken away; no handler waits for ever.

**Accounts** (`API/auth.go`, `API/ratelimit.go`, the passwords of
`API/users.go`). State: `users.password_hash`, `must_change_password`,
`sessions`, and two things in the memory of a process: that setup is done, and
the failed logins of the last minutes. Hard: no handler has a transaction, the
memory is lost on a restart, and there is one of it per replica. Correct when:
one setup wins; setup is not taken for done before anybody had a password; an old
password's sessions are closed; failures are bounded and the limit ends.

**Processes** (`engine/cmd/api/main.go`, `engine/internal/db/db.go`,
`engine.New`). Each replica takes an advisory lock, migrates the schema and
River's, unlocks, serves and works, on one connection pool. Hard: replicas of
two releases boot together and die in the middle; a worker, and a request for the
list of secrets, hold one connection and ask for a second. Correct when: the
migrations run once, in order; who serves has its schema; every replica comes to
serve; the pool recovers from its jobs.

**Task log** (`E/dblog.go`, `E/redact.go`). A handler that several goroutines
log through at once: redact, cut, count, insert. Correct when: no secret is
stored, nothing else is lost, and a task's log stays near its cap, which counts
per handler.

**Triggers API, API tokens, MCP endpoint, step executors, vault, statistics, web
UI, deployment**: see `components` in `PROJECT.json` and section 8.

### How they interact

    users, agents, webhooks --> Run start --> runs row + advance_run job
    Scheduler --------------------^                   |
    Workspace (save, Validate) --> current version --> Run engine <-- resume URL
                                                      |
                              runs, tasks  <----------+--> pings (Valkey)
                                    ^                            |
                                    +------ Run views <----------+

The engine never calls the views: they meet in Postgres, and through pings that
nothing depends on. Run start and the engine meet in one transaction, which
inserts the run row and its first job. A run pins the version that is current
when it starts, so the engine sees nothing of later saves. Processes come and go
under all of this; the other modules take their deaths as the loss of a request,
a sweep or a worker.

## 2. Modules

| Module | Models | Role |
|---|---|---|
| `RunEngine` | the engine, one run | detailed specification |
| `RunLifecycle` | what a run promises | abstract specification, implemented by `RunEngine` |
| `RunEvents` | streams and waiting calls | composed with `RunLifecycle`, which stands for the engine |
| `RunStart` | `StartRunOpts` and its callers | statement by statement |
| `Scheduler` | sweeps, triggers, the clock | |
| `Definition` | `Validate`, `TransitiveNeeds` | algorithms, call by call, against reference definitions |
| `Members` | roles and the last admin | |
| `Workspace` | workflows, versions, secrets, MCP servers | |
| `Accounts` | setup, logins, limiter, sessions, passwords | |
| `Process` | boot, migrations, connections, shutdown | |
| `TaskLog` | redactor and log of a task | algorithm against a reference, and its concurrent handler |
| `MC*` | values of the constants for TLC | |
| `RunEngineProofs` | | proofs about `RunEngine`, and that it implements `RunLifecycle` |
| `FunctionsProofs` | | proofs about `Definition` and `TaskLog`, and the induction they need |
| `AccountsProofs` | | proofs about `Accounts` and `Members` |
| `RunStartProofs`, `SchedulerProofs`, `RunEventsProofs`, `WorkspaceProofs`, `ProcessProofs` | | proofs about those modules |

An operator `X_Something` just before `X` is a mutated form of `X`: a plausible
bug in the lines `X` stands for. No specification uses it; with it in the place
of `X` the run named in `mutants` fails.

### RunEngine

| Variable | In the program |
|---|---|
| `run` | `runs.status`; `"none"` before the row exists |
| `advances` | number of `advance_run` jobs that are not completed |
| `task[s][a]` | `tasks.status` of attempt `a` of step `s` |
| `exec[s][a]` | its `execute_task` job and the worker's place: available, loaded, executing, dead, overdue (20 minutes after its start), done |
| `susp[s][a]`, `rjob[s][a]` | its `suspensions` row, its `resume_task` job |
| `call[s][a][c]` | what caller `c` of its resume URL is doing or was answered |
| `orphans[r]` | what reaper `r` has selected and not handled |
| `retryRuns` | how often `RetryRun` succeeded |

Outputs are abstracted to whether they exist; a guard's value is any of true,
false and error; an executor's outcome is any of success, failure, suspension
of a kind the step may ask for, and death.

*Atomicity.* An action is one transaction. That is sound because `advance`,
`CancelRun` and `RetryRun` take `FOR UPDATE` on the runs row; the transactions
of `finishTask`, `suspendTask`, `reapTask` and `resumeSuspended` begin with a
guarded `UPDATE` of the task row, which locks it and checks the status again;
and the rows that `finishTask` and `reapTask` insert refer to the runs row,
whose foreign-key lock conflicts with `FOR UPDATE`. First attempts are inserted
by `advance` only. Work that spans transactions is several actions, and what it
carries from one to the next is state: a worker between load and start, a
reaper with a list, a caller with a token, a resume job with a suspension.

*Failures.* `acked = 0` in `Advance` and `ResumeJobCommit` is a process that
dies after its commit: River runs the job again. `ExecuteDies` is a worker that
dies or whose transaction fails; River does not run `execute_task` again
(`MaxAttempts: 1`). `FaultPoints` says where workers may die. `Overdue` is
enabled for dead workers only, because the 15-minute ceiling on a job is below
the reaper's 20 minutes.

### RunLifecycle

The status and the set of steps that are done. Steps become done after what
they need and stay done; a success needs all of them; nothing becomes done in a
canceled run, whereas steps under way in a failed run may still complete; a
retry keeps what is done. `RunEngine!Lifecycle` is its specification under
`status <- run`, `done <- {s : latest attempt of s succeeded or skipped}`.

### RunEvents

Composed with `RunLifecycle` by `INSTANCE`: any step of the lifecycle may
happen between any two steps of a handler, in particular between the two
queries of `fetchRun` (`FetchRun`, `FetchTasks`). That the lifecycle may stand
for the engine is theorem `Implements`. A stream has `Subscribe`, `Pinged`,
`Absorb`, `Coalesced`, `ChannelCloses`, `Ticker`; a waiter (`run_workflow` with
`wait_seconds`) has `Wait`, `Deadline`, `Ticker`; either may leave or fail.
`deleteWorkflow` takes the run and its tasks away at once, between any two of
these steps: a handler that has read the status then finds no tasks, and one that
fetches again finds no run and ends.

### RunStart

The statements of `StartRunOpts` one by one (`Begin`, `Insert` or `Conflict`,
`Existing`, `Enqueue`, `Commit`, `Respond`), so that two transactions meet in
the unique index: `Insert` waits while an uncommitted row has its key, and
`Conflict` needs a committed one. Deletions wait for the foreign-key locks of
uncommitted rows. Keys are sequences of tokens, so that the prefixes of a
webhook (`hook`, trigger) and of the workflow are what keeps them apart. A key
with the shape of another caller's prefix is not among the inputs of the run; in
the proof that is a hypothesis (section 7).

### Scheduler

Time is counted in sweep intervals of 30 seconds; the window is 3 and a minute
2 of them. `runs` is the sequence of the rows inserted, so that two for one
instant are two. A cron expression is the set of its activations, a minute apart at
least; "@every d", which the same parser accepts, is a distance. A sweep reads
the triggers (`SweepQuery`), reads the clock (`SweepNow`), and starts runs one
by one; it may fail on a trigger or die, and it may be arbitrarily slow, in
which case it fires from old readings. `since` and `swept` are bookkeeping of
the model: when the trigger was last changed, and up to when it was swept.
`Tick` bounds the distance of successful sweeps by `MaxGap`.

### Definition

`Validate` with the checks in the order of the code (`RejectStep`, `RejectNeed`:
the first error of each loop), `checkAcyclic` with its three colours, and
`TransitiveNeeds` with its shared `seen` set. The two searches are recursive
closures in the code; here the calls under way are a stack, each with the needs
it has still to look at (`Visit` and `Visited`, `Collect` and `Collected` are a
call and its return; the loop over all steps is the call at the bottom). A
recursive operator would be shorter, but nothing could be proved about it, and
the colours mean what they do only in the middle of a search.

### Members

The handlers of `updateUser` and `deleteUser` as the three statements they are:
role, count, write.

### Workspace

A definition is the set of its references: the way (the `api_key` of an ai step,
a mention `{{secrets.name}}`, the `server` of an mcp step) and the name. A save
is three actions: `Save` (the snapshot from which the insert computes its
number), `SaveInsert` (which waits for an uncommitted row of the same number and
is refused by a committed one) and `SaveCommit`. Deletions and renamings are
`Delete` or `Rename`, `CheckRefs`, `CheckMentions` for a secret, and `Write`.
`Fails` is an error, a client that leaves or a server that dies, at any point.
`held` is bookkeeping: which uses of the name it read have been there since a
request came.

### Accounts

A password is its number among those of the account; 0 is null. `Setup`,
`Login`, `Change` and `Admin` (which creates an account, resets its password or
deletes it) begin a request; `Claim`, `Select`, `Fail`, `Reset`, `StartSession`,
`Verify`, `Update`, `Close`, `createUser` and `deleteUser` are its statements
and its calls of the limiter. Roles are left to `Members`: any session may be an
admin's, also one kept from before migration 0010, when there were no passwords
(`Init`), and any account may be deleted, the owner's too. `Select` and `Verify`
may refuse at any time, which is a wrong password. `Tick` lets the failed logins
grow old and drops those past the window; since they are appended at age 0 and
grow old together, the list is oldest first and what the filter of `prune` keeps
is the end of it, which is how `prune` is written. `Restart` empties the memory
of a replica. `winners`, `closed` and a session's `born` are bookkeeping.

### Process

`Connect`, `Lock`, `Look`, `Apply`, `River`, `Unlock` are `main` up to the
server. Afterwards the workers and the requests of a replica use its pool, each
with no connection, one, one while it waits for a second, or two (`use`):
`Begin`, `Guard`, `Second`, `Evaluated`, `Commit`, `Timeout` are an
`advance_run` job; `Query`, `Answer` and `Leave` a request, and `listSecrets`
the one that asks for a second connection while its rows are open. `Stop`,
`Exit` and `Die` are the end of a process, which lets go of its locks and
connections. That a pool has two connections is an assumption
(`ProcessAssumption`): with one, `Migrate` could not run beside the lock.

### TaskLog

`Pass` is one step of `strings.ReplaceAll` and `Replaced` its loop; `Redact` is
the replacements in their order, longest first, in any order among equals (the
code sorts a map's values). Both loops are recursive functions. The mark that
stands for a secret and the one at the end of a cut line are characters of their
own, which neither secrets nor lines contain (`LogAssumption`): a line that
spells "[redacted]" and a secret that is part of that word are left out.
`Log`, `Add` and `Insert` are a call of `Handle` up to the counter, the counter
and the flag, and the insert, which may fail silently. `End` is `finishTask` or
`suspendTask`, which log one last line through a handler of their own, with a
counter and a flag that begin again. The fields of a line, which the code limits by
themselves, are part of its text here. `MCFunctions` puts it
beside `Definition` in one specification of independent parts.

## 3. What is checked

| Run | Instance | Result |
|---|---|---|
| `join` | three steps, the third needs two parallel ones; two guarded; one automatic retry; a reaper; a user retry | passes |
| `suspend` | a chain; the first step may wait for a delay or a callback; two callers, two reapers; a user retry | passes |
| `live` | a chain with a guard, a delay, a callback, one user retry; under fairness | passes |
| `functions` | all graphs of three steps with up to three needs each, one unknown; all pairs with fields at and past the limits; all texts of up to six of two letters under any two secrets of up to three; lines of two loggers at the cap | passes |
| `schedule` | two replicas, one trigger that changes between two expressions | passes |
| `start` | two webhooks and the API on one workflow, four callers with one key, one of which sends twice | passes |
| `events` | a chain of two steps, a stream, a waiter, a user retry | passes |
| `workspace` | a workflow, a secret, two servers; two saves (one may be a renaming) and a deletion at once | passes |
| `accounts` | the owner and a user, one replica that restarts, two requests at once | passes |
| `process` | replicas of two releases in the three modes, two workers and two requests on a pool of two, two deaths | passes |
| `hang`, `members_race` | | violations, section 6 |

The type invariants hold on the same instances. They are in the modules, and
those of `RunEngine` and `Process` are proved, but the configurations list only
what says more.

`join` and `suspend` (safety of the engine):

* `AttemptHistory`: a new attempt only after the earlier ones failed or were
  canceled. So no step has two live attempts or runs again after a success, and
  the plain inserts of `attempt + 1` in three places never collide.
* `NeedsFirst`, `SucceededIsComplete`, `CanceledIsQuiet`: dependencies, and the
  truth of the final status although workers, reapers and callers are in flight.
* `AttemptBudget`: every attempt beyond `retries + 1` was paid for by a user.
* `NoHungRun`: an open run has a pending `advance_run`, or a task with
  something that will move it: job, worker, reaper, timer or URL.
* `TaskRowsAreFinal`: no terminal task row is written again.
* `ContextIsFrozen`: what a step may see of the others does not change once it
  is ready, so guard, attempts and retries agree.
* `CallbackAnswers`: of the callers of a resume URL one at most is told that it
  resumed the task, and then the task has succeeded; "not waiting" is true.
* `Lifecycle`: the refinement.

`live`: `RunSettles` (every run ends, unless it waits for a callback) and
`TasksResolve` (no task stays queued or running for ever).
`schedule`: `OccurrencesFire` (no due minute is missed), `FiresOnce` (no two run
rows of a trigger for one instant, nor two closer than a minute for one cron
expression, although replicas sweep overlapping windows from old readings).
`start`: `OneRunPerKey`, `OwnRun`, `RunHasJob`, `RunsKeepTheirSource` (what a run
refers to is there as long as the run, although it may be deleted between the
checks and the insert), `RequestsEnd`.
`events`: `SucceededShowsAll` (a success is never shown with a part of its steps:
all are done, or the run was deleted meanwhile and there are none), `StreamsEnd`,
`WaitersAnswered`.

`workspace`:

* `VersionsInOrder`: numbers 1 to n in the order of the commits, the last one
  current, although saves at once take the same number.
* `InUseIsKept`: no name is taken away while a use of it has been there, in the
  same way, since the request came. This is as much as separate statements can
  promise; section 6 has what they cannot.
* `HandlersEnd`: a save that waits for another's number, and a deletion, end.

`accounts`: `SessionsHaveUsers`; `OneSetup` and `ConfiguredNotEarly` (the race
for the seeded owner, and the one-way flag, which is not set before somebody had
a password; section 6 has when it stays set too long); `OldSessionsClosed` (once
a change has deleted the others, the only session stored under an earlier
password is the one it was made from); `FailuresBounded` (attempts that passed
the limiter together); `LimitEnds` (who is locked out is let in again, however
often they try).

`process`: `MigratedInTurn`, `SchemaIsThere`, `EveryoneServes` (when the deaths
stop, every replica comes to serve), `ConnectionsReturn` (a pool has a connection
again and again, because jobs that wait for a second one are timed out; unless
lists of secrets alone hold all of it, which nothing ends but a client that leaves,
section 6).

`functions`: `ValidateExact` (the definitions that are accepted are the ones the
engine relies on; its third part is what `RunEngine` assumes of its constants),
`TransitiveNeedsExact`; `SecretsStayOut`; `NoFragments` (the letters a row keeps
are, one by one, those of its line that no secret covers); `CapHolds` (a task
stores its cap at most, and one line more once it has ended).

## 4. Bounds

* *RunEngine.* `MaxRetryRuns` bounds the user's retries; `MaxAttempt` is assumed
  large enough never to be met (`BoundsAssumption`), so it bounds nothing.
  Three steps in a join are the smallest graph with parallel branches, a
  dependency on two of them and a guard below; one automatic and one user retry
  are the smallest at which their counts mix; two callers and two reapers the
  smallest at which they race. `advances` needs no bound: each increment belongs
  to a task that is resolved once, or to a retry. The safety properties of the
  two instances are also proved without bounds.
  Callers and reapers are symmetric; the symmetry is used in `suspend` only,
  which has no liveness property.
* *RunStart.* Four requests with one key: two in the same scope, which race and
  replay, and one in each of two others, which must not be mixed up with them.
  One of them sends twice, for the lost answer.
* *Scheduler.* Seven intervals hold four activations of the densest expression,
  windows that overlap and a change of expression in between. Triggers share
  nothing, so one is enough.
* *RunEvents.* Viewers share nothing but the run they read, so one of each kind
  is enough. One retry suffices for a stream that is reopened after a failure.
* *Definition.* Three steps are enough for a need that is reached by two
  paths, self-loops, cycles of two and three, and unknown needs. Fields take the values
  around each limit.
* *Workspace.* `MaxVersions` is 2: after the first version, two saves that both
  read 1 meet at number 2. Workflows share nothing but the names they refer to,
  so one is enough; two servers are needed for a name that is free, taken, or
  passes from one to the other.
* *Accounts.* Replicas share only the database, and a restart gives a replica the
  ignorance of another one; two requests on one are enough for the races. The owner's
  password is set and then changed or reset once, the other user's is given once
  (`MaxPasswords`).
  A window of two ticks and one failure in it hold the attempts before, at and
  after the limit.
* *Process.* One replica per mode, two releases, two migrations; two users that
  hold a connection each exhaust a pool of two, be they workers, requests, or one of
  each. `MaxDeaths` is 2: the replica that has the lock dies, and so does the one
  that takes it over.
* *TaskLog.* Two secrets of up to three letters contain, repeat, overlap and
  equal each other; `MinSecret` 2 and `MaxLine` 4 lie inside those lengths, and
  the lines of the other case pass `MaxTask` 5 with one or with both loggers, before
  the last one that starts to count again. That a line is shorter than the cap
  (`LogAssumption`) is so in the code: 8KB and 1MB.

Deadlock is not checked where the system may stop: a run is over, the callers
have what they wanted, the clock is at its bound.

## 5. Fairness

* *RunEngine* (`FairSpec`, used by `live` and `hang`). River hands each
  available job to a worker, and runs `advance_run` and `resume_task` again
  after an error: weak fairness of `Advance(1)`, of the loads and of the steps of
  a worker, whose executor returns or is cut off by the ceiling. The reapers
  tick: weak fairness of the selection. A reap and the commit of a resume may fail
  any number of times, but not for ever: strong fairness. Starting, canceling,
  retrying and calling a URL owe nothing. River gives up on `advance_run` and
  `resume_task` after 25 attempts spread over days; that is not modelled.
* *RunStart.* The server goes on with a request it has. Callers need not return.
* *RunEvents.* Handlers go on, tickers tick, the deadline comes. The engine owes
  nothing, so the properties hold for runs that never end.
* *Workspace.* The server goes on with a request it has; an insert that waits is
  woken when the transaction ahead of it ends, and Postgres grants waiters in
  their order: strong fairness.
* *Accounts.* Only time goes on. `LimitEnds` needs no more.
* *Process.* A process that is down is started again (a pod of a Kubernetes
  Deployment) and goes on; River cuts off a job after its timeout of one
  minute; a request that is not waiting for a connection is answered. Nothing is
  assumed of the jobs themselves, and no client has to leave.
* *Scheduler.* No fairness; the assumption that sweeps succeed often enough is
  `MaxGap` in `Tick`. With an interval of 30 seconds and `MaxGap` a minute, one
  failed sweep is tolerated. Two in a row are not: a window of 90 seconds may
  then hold two due minutes of which only the later one fires.

## 6. Findings

1. `hang`: a worker that dies, or whose update fails, after it loaded a queued
   task and before the queued-to-running update, leaves the task queued with no
   job. The reaper looks at running tasks only, so the run stays open for ever.
   `NoRunHangs` shows that it is the only such place in the model: without the fault point
   `"load"` every open run has something that moves it.
2. `members_race`: two concurrent requests remove the last two admins. With one
   request at a time this cannot happen (`SerialKeepsAdmin`).

The quotations they disagree with are in `PROJECT.json`.

### Observations

Places where the code does less than a reader might expect. The models follow the
code; where a property stops short of one of these, its comment says so.

* `RetryRun` queues a step whose guard could not be evaluated, and the worker
  executes it without evaluating the guard (`E/engine.go:285`).
* The idempotency key of an API call is any string. One that spells "hook:", the id
  of a trigger and a delivery key shares the key of that delivery
  (`API/api.go:457`, `API/hooks.go`), so that the two are given one run. Nothing reserves the
  prefix; `AnswersAreOwn` assumes that nobody does this (`KeysApart`).
* "@every d" is accepted as a schedule. Its activations are relative to the start of the
  window, so the key never repeats and each sweep of each replica starts a run
  (`E/scheduler.go:104`). Of these `FiresOnce` says only that no instant has two.
* A trigger that has fired cannot be deleted: `runs.trigger_id` refers to it
  without `ON DELETE` (`API/triggers.go:240`).
* A reference that is saved between the check of a deletion and the deletion is
  left dangling, as is one that changes from `api_key` to a mention, or back,
  between the two queries for a secret (`API/resources.go:237`). A renaming
  checks the name it read first, which another renaming may have replaced
  (`API/resources.go:424`).
* A workflow that is deleted between the two queries of `fetchRun` is shown as a run
  that succeeded without a task (`API/api.go:567`, `581`).
* A session from before passwords may create an account with one before setup, and
  delete it again. A replica that asked in between takes setup for done until it
  restarts, and refuses it although nobody can log in (`API/auth.go:176` calls the
  transition one-way).
* `listSecrets` asks for a second connection while its rows are open, with no
  deadline (`API/resources.go:90`): as many of these at once as the pool has
  connections block the process until a client leaves.
* The cap of a task's log counts per handler, and `finishTask` and `suspendTask` build
  their own (`E/dblog.go:49`, `E/execute.go:220`, `289`): the last line is stored
  after "log cap reached", with up to 8KB of fields besides.
* A login that has read the old hash stores its session after the change of the
  password deleted the others (`API/auth.go:359`).
* Where the end of one secret is the beginning of another, the rest of the second
  is left in the line (`E/redact.go:41`); `NoFragments` excludes it, although the
  comment at `E/redact.go:10` says that overlapping secrets leave no fragments, which
  holds for those that contain each other.
* The redactor of a task is built when it starts; a key rotated after that is not
  redacted from it (`E/execute.go:69`).

## 7. What is proved

All proofs hold for every value of the constants that satisfies the named
assumptions of the module, in particular for every acyclic definition and any
number of steps, replicas, callers and viewers.

**RunEngineProofs** from `DefinitionAssumption` and `BoundsAssumption`.
The inductive invariant `Inv` is `TypeOK`, `AttemptHistory`, `HasLatest` (a step
with rows has a latest one), `NeedsFirst`, `AttemptBudget`, `NotStarted`,
`SucceededIsComplete` and `CanceledIsQuiet`. These need each other: that no
second attempt is inserted beside a live one needs that the live one is the
latest, which is `AttemptHistory`; that a success is not taken back needs that
no step is ready and no row live in a complete run. The proof goes through one
lemma about all actions, `RowStep`: in every step a task row is left alone, or
was live, or is inserted by the rules (`RowRule`). Each conjunct then follows
from `RowRule` without another look at the actions. Theorems: `TypeCorrect`,
`AttemptsInOrder`, `NeedsAreFirst`, `BudgetKept`, `SucceededTrue`,
`CanceledTrue`, `RowsFinal`, and `ContextFrozen`, where the steps above a ready
step are shown to be done by the least-fixpoint definition of `TransitiveNeeds`,
and what is done to keep its output.

`NoRunHangs`, if no worker dies between load and start. `Inv` is strengthened by
`LiveHasWaker` (each live task has its own waker) and `NothingToDo` (without a
pending `advance_run`, an advance would find nothing to decide or to insert).
`NoHungRun` follows because the definition has no cycle: among the steps that
are not done one needs none of the others; it is not ready, so it has a row, and
that row is live.

`Implements`, `Spec => Lifecycle`, with every fault. Each step of the engine that
completes a step maps to `Complete`, the decisions to `Succeed`, `Fail`, `Cancel`
and `Retry`, and the rest stutters.

`AnswersAreTrue`, for any number of callers. What the callers are told has to be
tied to rows that others write, so `Inv` is strengthened by `Waits`: a suspended
task has its suspensions row and a task with one is suspended or terminal
(`Parked`); whoever was answered finds the row consumed, and whoever was told
"ok" a task that succeeded (`Answered`). The rest is `Kept`: no action but a
suspension and a resume makes or ends a suspended row, except to cancel it.

**RunStartProofs**: `KeysAreIdempotent`, `AnswersAreOwn`, `RunsHaveJobs`,
`SourcesKept`, from `RequestsAssumption` and `KeysAssumption` (keys are
sequences), for any requests, each sent any number of times. None of the
properties is inductive. The invariant adds what is between the statements: a
transaction's row and job (`Requested`), the unique index over committed *and*
uncommitted rows (`UniqueKey`), sources of uncommitted rows (`Sourced`), and, of a
caller that was told or is about to be (`Told`), that the run is its own or one
with its key (`Meant`), that it is still there while its workflow is (`Kept`),
which a later conflict needs to find the same one again, and that all callers of
one key agree (`OneTold`). `AnswersAreOwn` takes the keys apart again: equal
stored keys have equal workflows because the first token is the workflow's, and
equal triggers because a webhook's key begins with its trigger's. Against the API,
whose keys are free, it needs the hypothesis `KeysApart`.

**AccountsProofs**: `SetupOnce`, `FlagNotEarly`, `SessionsOfUsers`,
`ChangesClose`, `OvershootBounded`, from `AccountsAssumption`, for any users,
replicas and requests at once, any window and maximum. `OneSetup` follows from
`Won`: there is one winner at most, and once there is one the owner has a password,
which no statement takes back; that needs that a claim is of the owner (`Claims`).
`ConfiguredNotEarly` is not inductive, because the account a replica has seen may be
deleted; what is kept is that somebody has had a password (`EverSet`, `FlagEarned`),
and that there is none before its account (`Born`). `OldSessionsClosed` needs `Dated`:
sessions, the last closing change and those about to close are from no later
password than the account's. Without it a session could be stored under a
password older than one that has already closed the others. `FailuresBounded` is
inductive with the types alone: an attempt that begins finds less than the
maximum, and a failure takes the place of the attempt it was.
Of `Members`: `SerialKeepsAdmin`, if there are finitely many users and one
request at a time. The invariant says what a handler knows before it writes
(`WriteIsSafe`); it is this fact that a second handler destroys.

**ProcessProofs**: `MigrationsInTurn`, `SchemaBeforeService` and `TypeCorrect`,
from `ProcessAssumption`, for any replicas, releases and deaths. The invariant is
`Exclusive` (between the lock and its release there is only its holder), `InTurn`
and `Reached` (where a replica is says which migrations are there; in particular
the one it is about to apply is still the first that is not). A death drops the
lock and keeps `Exclusive`, because it also ends the work that needed it.
`TypeCorrect` includes that the lock's connection and the first and second ones of
jobs and requests never exceed the pool; it needs that a replica that is not serving
has none of the latter (`Pools`).

**SchedulerProofs**: `NoOccurrenceMissed` and `NoDoubleFire` from
`SchedulesAssumption` and `TimingAssumption`. The invariant is `Timely`
(readings are not ahead of the clock, an enabled trigger was swept at most
`MaxGap` ago), `SweptIsStarted` (what was due up to the last sweep has its run),
`RunsAreDue` and `KeysAreUnique` (two rows of a trigger are for two instants,
which is what the idempotency key is for: a sweep inserts only what is not
there, whatever the age of its readings). The core is `LatestIsTheOnlyNewOne`:
between two sweeps at most a minute apart there is one activation at most, so
the latest in the window is the one that would be missing.

**RunEventsProofs**: `ViewIsNotPartial`. A success is final, in the run and in
what a handler holds of it between its two queries, until the run is deleted, with
all of its tasks (`SuccessIsFinal`).

**WorkspaceProofs**: `SavesAreOrdered` and `UsedNamesKept`. `VersionsInOrder` is
strengthened by `Ahead` (a number that was taken is one past the committed ones
or older, and exactly one past them once the index has let it through) and
`OneInserted` (one transaction at most is through), which are what the unique
index and the waiting of inserts come to. For `InUseIsKept` the invariant is
`Checked`: the uses that have been there since the request came are among those
that are there now, and each query has ruled out its kind of them.

**FunctionsProofs** from `DefinitionsAssumption` and `LogAssumption`, for
definitions of any size and any secrets, lines, limits and loggers. The
library's induction theorems take an operator, which the provers cannot
instantiate, so the module begins with two that take sets and functions:
`SetInduction` (a set with 0 and every successor is all of the naturals, from the
pigeonhole principle: a number that is missing would give an injection of a finite
set into a smaller one) and `Recursion` (a function given by its first value and
its steps exists, as the limit of its approximations).

* `ValidateIsExact`. The invariant of the search (`Search`) is that the gray steps
  are those on the stack (`GrayIsStack`); that what a call has to visit is done,
  still on its list, or the call above it (`Course`); and that what is done needs
  only what is done and has no cycle (`BlackIsFinal`). Meeting a gray step is then
  a cycle, the stack from its call up (`GrayIsCycle`); and when the loop over
  all steps has nothing left, everything is done (`AcceptIsAcyclic`).
* `NeedsAreExact`. What is collected is in every closed set, and its needs are
  collected or still to be looked at (`Gathered`); when the stack is empty it is
  the least one. That the step is not its own need is the absence of cycles.
* `SecretsNeverLogged`. A stretch without marks that is left after a value was
  replaced was in the text before, and not at a place where the value begins
  (`Scanned`, the loop invariant of `strings.ReplaceAll`). So each replacement
  removes its value and brings none back (`ReplacedClean`), and neither does the cut,
  which ends in a character of its own.
* `NothingElseLost`, for `NoFragments`. The letters that are left after some values
  were replaced correspond to the positions of the line those do not cover, in
  their order, and side by side exactly if those are (`Maps`). For one value
  that is the second invariant of the loop (`Kept`): no occurrence begins before
  the place that is reached and ends after it, which needs that the value does not
  overlap itself. From one value to the next it needs that the longer ones come
  first: they cover an occurrence of a shorter one as a whole or not at all
  (`AllOrNothing`), so that it is there after the replacements exactly if
  it was there before (`CoveredForth`, `CoveredBack`). With the overlaps that
  the property excludes, or in another order, this is the step that fails.
* `TheCapHolds`. What is stored, and what was let through and is about to be
  stored, are together no more than the counter, and no more than the cap, as long
  as the executor's handler is in use (`Capped`): the counter is what the next
  line is judged by, whoever has stored what. After that they are no more than the
  cap and the new counter (`Before`), which counts one line (`LastLine`). Who is to
  write the notice is alone, and there is none yet (`OneNotice`).

Only model-checked: what is temporal under fairness (`RunSettles`,
`TasksResolve`, `RequestsEnd`, `StreamsEnd`, `WaitersAnswered`, `HandlersEnd`,
`LimitEnds`, `EveryoneServes`, `ConnectionsReturn`), which the prover does not
do. Every safety property of a passing run is a theorem.

## 8. What is not modelled

* Step executors, vault, MCP client: I/O and library calls. The engine sees an
  outcome, and every outcome is in the model.
* API tokens, statistics, run lists: single statements on one table.
* `rotateSecret`, and the URL and header of an MCP server: a value rewritten in
  place, which no property tells apart. Names and slugs of workflows, the path
  of a webhook, its secret: unique indexes and formats.
* Web UI and deployment: presentation and configuration. One hazard of the UI is
  listed (answers of the log view's polls that arrive out of order).
* What a task's logger writes to standard output besides: attributes that are bound
  to it (`WithAttrs`) reach that handler as they are.
* Signature check and body parsing of a webhook: a request that fails them
  changes nothing.
* Encryption, hashing, JSON: libraries.

## 9. Plan

Done: the engine with its abstract specification and its proofs, definitions,
scheduler, run start, views, roles, workspaces, accounts, processes, task log.

Proved: every safety property of the passing runs.

Next, in this order:

1. Type invariants of the remaining modules as theorems, where a proof already
   carries them as a part of its invariant.
2. Several runs that share a workflow, to compose `RunStart` with `RunEngine`.
3. The order of answers in the log view of the web UI.
