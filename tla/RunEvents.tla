----------------------------- MODULE RunEvents -----------------------------
(***************************************************************************)
(* Who watches a run.  The engine, of which only RunLifecycle is used,     *)
(* changes the run in Postgres, a user deletes it with its workflow, and   *)
(* pings are late, lost or about a log line; a handler fetches the run again and again, in two  *)
(* queries outside a transaction.  A stream (api.go runEvents) sends what  *)
(* it fetches until the run is over; the MCP tool run_workflow             *)
(* (mcpserver.go) answers once when the run is over or its time is.        *)
(***************************************************************************)
EXTENDS Naturals

CONSTANTS
  Steps, Needs,   \* the definition of the run
  Viewers,        \* connections to the stream of the run, and
  Waiters,        \* calls of run_workflow that wait for it
  MaxRetries      \* bound on RetryRun

ASSUME ViewersAssumption == MaxRetries \in Nat /\ Waiters \subseteq Viewers

VARIABLES
  status, done,   \* the run in Postgres
  retries,
  deleted,        \* whether it was deleted with its workflow
  at,             \* where the handler of each viewer is
  late,           \* whether the deadline of a waiter has passed
  ch,             \* whether it has a channel with pings
  ping,           \* whether a ping waits in that channel
  snap,           \* the run it is fetching
  sent            \* the last run it has sent

run == <<status, done, retries, deleted>>
vars == <<status, done, retries, deleted, at, late, ch, ping, snap, sent>>

Streams == Viewers \ Waiters

Run == INSTANCE RunLifecycle

Statuses == {"none", "queued", "running", "succeeded", "failed", "canceled"}
Terminal == {"succeeded", "failed", "canceled"}
Places == {"begin", "fetchRun", "fetchTasks", "select", "drain", "closed", "gone"}

Nothing == [status |-> "none", done |-> {}]

Init ==
  /\ Run!Init
  /\ retries = 0
  /\ deleted = FALSE
  /\ at = [v \in Viewers |-> "begin"]
  /\ late = [v \in Viewers |-> FALSE]
  /\ ch = [v \in Viewers |-> FALSE]
  /\ ping = [v \in Viewers |-> FALSE]
  /\ snap = [v \in Viewers |-> Nothing]
  /\ sent = [v \in Viewers |-> Nothing]

----------------------------------------------------------------------------
\* The engine moves the run on, as long as there is one.
Engine ==
  /\ ~deleted
  /\ \/ (Run!Start \/ Run!Complete \/ Run!Succeed \/ Run!Fail \/ Run!Cancel) /\ UNCHANGED retries
     \/ Run!Retry /\ retries < MaxRetries /\ retries' = retries + 1
  /\ UNCHANGED <<deleted, at, late, ch, ping, snap, sent>>

\* deleteWorkflow, whatever its runs are doing: the run and its tasks go with it
\* in one statement.
deleteWorkflow ==
  /\ status # "none"
  /\ status' = "none"
  /\ done' = {}
  /\ deleted' = TRUE
  /\ UNCHANGED <<retries, at, late, ch, ping, snap, sent>>

\* notify, after a commit or a log line, reaches a subscriber.
notify(v) ==
  /\ ch[v]
  /\ ping' = [ping EXCEPT ![v] = TRUE]
  /\ UNCHANGED <<run, at, late, ch, snap, sent>>

Goes(v, from, to) == at[v] = from /\ at' = [at EXCEPT ![v] = to]

\* Subscribing fails when there is no cache, and is then done without.
Subscribe(v) ==
  /\ Goes(v, "begin", "fetchRun")
  /\ \E ok \in BOOLEAN : ch' = [ch EXCEPT ![v] = ok]
  /\ UNCHANGED <<run, late, ping, snap, sent>>

\* run_workflow has started the run and is to wait for it.
Wait(v) ==
  /\ status # "none" \/ deleted
  /\ Goes(v, "begin", "fetchRun")
  /\ UNCHANGED <<run, late, ch, ping, snap, sent>>

\* The deadline of a waiter, one minute at most.
Deadline(v) ==
  /\ at[v] \in {"fetchRun", "fetchTasks", "select"} /\ ~late[v]
  /\ late' = [late EXCEPT ![v] = TRUE]
  /\ UNCHANGED <<run, at, ch, ping, snap, sent>>

\* The handler is done, and its subscription is closed.
Closes(v, place) ==
  /\ at' = [at EXCEPT ![v] = place]
  /\ ch' = [ch EXCEPT ![v] = FALSE]
  /\ ping' = [ping EXCEPT ![v] = FALSE]

\* Mutated form: the tasks are read first, then the run row.
Fetched_TasksFirst(v, query) ==
  IF query = 1 THEN [Nothing EXCEPT !.done = done] ELSE [snap[v] EXCEPT !.status = status]

\* What is fetched after the first query of fetchRun, for the run row, and
\* after the second, for the tasks.
Fetched(v, query) ==
  IF query = 1 THEN [Nothing EXCEPT !.status = status] ELSE [snap[v] EXCEPT !.done = done]

\* fetchRun, the first query: no row ends the stream, and fails the call that waits.
FetchRun(v) ==
  /\ at[v] = "fetchRun"
  /\ IF status = "none"
       THEN Closes(v, "closed") /\ UNCHANGED snap
       ELSE /\ Goes(v, "fetchRun", "fetchTasks")
            /\ snap' = [snap EXCEPT ![v] = Fetched(v, 1)]
            /\ UNCHANGED <<ch, ping>>
  /\ UNCHANGED <<run, late, sent>>

\* Mutated form: a waiter waits for the end of the run.
Over_NoDeadline(v, fetched) == fetched.status \in Terminal

\* Whether a viewer is done with what was fetched: the deadline comes second.
Over(v, fetched) == fetched.status \in Terminal \/ late[v]

\* fetchRun, the second query; a stream sends the result, a waiter keeps it for
\* its answer.
FetchTasks(v) ==
  /\ at[v] = "fetchTasks"
  /\ snap' = [snap EXCEPT ![v] = Nothing]
  /\ sent' = [sent EXCEPT ![v] = Fetched(v, 2)]
  /\ IF Over(v, Fetched(v, 2))
       THEN Closes(v, "closed")
       ELSE Goes(v, "fetchTasks", "select") /\ UNCHANGED <<ch, ping>>
  /\ UNCHANGED <<run, late>>

\* Mutated form: the ticker is for a stream without pings.
Polls_WithoutPings(v) == ~ch[v]

\* The ticker runs with and without a channel; a waiter has nothing else.
Polls(v) == TRUE

Ticker(v) ==
  /\ Polls(v)
  /\ Goes(v, "select", "fetchRun")
  /\ UNCHANGED <<run, late, ch, ping, snap, sent>>

\* A ping is taken, and more of them are awaited for a moment.
Pinged(v) ==
  /\ ch[v] /\ ping[v]
  /\ Goes(v, "select", "drain")
  /\ ping' = [ping EXCEPT ![v] = FALSE]
  /\ UNCHANGED <<run, late, ch, snap, sent>>

Absorb(v) ==
  /\ at[v] = "drain" /\ ping[v]
  /\ ping' = [ping EXCEPT ![v] = FALSE]
  /\ UNCHANGED <<run, at, late, ch, snap, sent>>

Coalesced(v) ==
  /\ Goes(v, "drain", "fetchRun")
  /\ UNCHANGED <<run, late, ch, ping, snap, sent>>

\* The subscription is lost: the handler goes on without it.
ChannelCloses(v) ==
  /\ ch[v]
  /\ \/ at[v] = "select" /\ UNCHANGED at
     \/ Goes(v, "drain", "fetchRun")
  /\ ch' = [ch EXCEPT ![v] = FALSE]
  /\ ping' = [ping EXCEPT ![v] = FALSE]
  /\ UNCHANGED <<run, late, snap, sent>>

\* The viewer leaves, a query or a write fails.
Leaves(v) ==
  /\ at[v] \notin {"closed", "gone"}
  /\ Closes(v, "gone")
  /\ UNCHANGED <<run, late, snap, sent>>

\* What a handler does by itself.
Fetch(v) == FetchRun(v) \/ FetchTasks(v) \/ Ticker(v)
Stream(v) == Subscribe(v) \/ Fetch(v) \/ Coalesced(v)

Next ==
  \/ Engine \/ deleteWorkflow
  \/ \E v \in Streams :
       Stream(v) \/ Pinged(v) \/ Absorb(v) \/ notify(v) \/ ChannelCloses(v)
  \/ \E v \in Waiters : Wait(v) \/ Fetch(v) \/ Deadline(v)
  \/ \E v \in Viewers : Leaves(v)

\* A handler goes on and time passes; the engine owes nothing.
Fairness ==
  /\ \A v \in Streams : WF_vars(Stream(v))
  /\ \A v \in Waiters : WF_vars(Fetch(v)) /\ WF_vars(Deadline(v))

Spec == Init /\ [][Next]_vars /\ Fairness

----------------------------------------------------------------------------
\* Every variable holds a value of its type, and a handler that is done has
\* given back its subscription.
TypeOK ==
  /\ status \in Statuses /\ done \subseteq Steps /\ retries \in 0..MaxRetries
  /\ deleted \in BOOLEAN
  /\ at \in [Viewers -> Places] /\ late \in [Viewers -> BOOLEAN]
  /\ ch \in [Viewers -> BOOLEAN] /\ ping \in [Viewers -> BOOLEAN]
  /\ snap \in [Viewers -> [status : Statuses, done : SUBSET Steps]]
  /\ sent \in [Viewers -> [status : Statuses, done : SUBSET Steps]]
  /\ \A v \in Viewers : at[v] \in {"closed", "gone"} => ~ch[v]

(***************************************************************************)
(* The two queries of fetchRun may see the run before and after a change.  *)
(* A run shown as succeeded is never shown with a part of its steps: the   *)
(* tasks are read after the status, a success is final, and deletion takes *)
(* all tasks at once.  What is shown is every step done or, when the run   *)
(* was deleted between the queries, none: a success without a task.        *)
(***************************************************************************)
SucceededShowsAll ==
  \A v \in Viewers : sent[v].status = "succeeded" =>
    sent[v].done = Steps \/ (deleted /\ sent[v].done = {})

(***************************************************************************)
(* Pings are not load-bearing: when the run is over for good, or deleted,  *)
(* every stream whose viewer stays is closed, with every ping lost.        *)
(***************************************************************************)
StreamsEnd ==
  <>[](status \in Terminal \/ deleted) => \A v \in Streams : <>(at[v] \in {"closed", "gone"})

(***************************************************************************)
(* A call of run_workflow that waits is answered, also for a run that      *)
(* hangs, waits for a callback or is retried over and over.                *)
(***************************************************************************)
WaitersAnswered ==
  \A v \in Waiters : at[v] # "begin" ~> at[v] \in {"closed", "gone"}
=============================================================================
