------------------------------ MODULE Process ------------------------------
(***************************************************************************)
(* The life of the processes (cmd/api/main.go, db/db.go, engine.New): each *)
(* replica boots, migrates the schema under a session's advisory lock,     *)
(* serves and works jobs, and may be killed at any point.  Replicas of two *)
(* releases boot at once when a deployment is upgraded; the migrations of  *)
(* the older release are the first of those of the newer one.              *)
(*                                                                         *)
(* Everything a process does takes connections of its pool.  Two of its    *)
(* users take a second one while they hold the first: an advance_run job,  *)
(* for a guard (engine/advance.go evalGuard), and the list of secrets, for *)
(* their values (api/resources.go listSecrets).  A job has a deadline, a   *)
(* request has none.                                                       *)
(***************************************************************************)
EXTENDS Naturals, Sequences, FiniteSets

CONSTANTS
  Replicas,
  Count,      \* the number of migrations in each replica's image
  Mode,       \* "all", "api" or "worker"
  Nobody,
  Workers,    \* the workers of the control queue, in each replica
  Requests,   \* requests that a replica handles at the same time
  PoolSize,   \* connections of a pool
  MaxDeaths   \* bound on the replicas that end

\* A pool of one connection would not even migrate.
ASSUME ProcessAssumption ==
  /\ IsFiniteSet(Replicas) /\ Nobody \notin Replicas
  /\ Count \in [Replicas -> Nat]
  /\ Mode \in [Replicas -> {"all", "api", "worker"}]
  /\ IsFiniteSet(Workers) /\ IsFiniteSet(Requests) /\ Workers \cap Requests = {}
  /\ PoolSize \in Nat /\ PoolSize >= 2
  /\ MaxDeaths \in Nat

VARIABLES
  phase,     \* where main is, in each replica
  next,      \* the migration it looks at
  holder,    \* whose session has the advisory lock
  applied,   \* the migrations whose transactions have committed
  river,     \* whether River's own schema is there
  refused,   \* history: replicas whose migration met another's
  use,       \* what each worker and request of a replica has of its pool
  deaths     \* how many processes have ended

vars == <<phase, next, holder, applied, river, refused, use, deaths>>
schema == <<applied, river, refused>>

\* Who takes connections: one, one while it waits for a second, or two.
Users == Workers \cup Requests
Uses == {"idle", "one", "wait", "two"}

Phases == {"down", "connect", "lock", "migrate", "apply", "river", "unlock", "serve", "stop"}

Init ==
  /\ phase = [r \in Replicas |-> "down"]
  /\ next = [r \in Replicas |-> 1]
  /\ holder = Nobody
  /\ applied = <<>>
  /\ river = FALSE
  /\ refused = {}
  /\ use = [r \in Replicas |-> [x \in Users |-> "idle"]]
  /\ deaths = 0

Goes(r, from, to) == phase[r] = from /\ phase' = [phase EXCEPT ![r] = to]

\* Connections in use: the lock's, and one or two for each worker with a job
\* and each request.
Held(r) ==
  (IF phase[r] \in {"lock", "migrate", "apply", "river", "unlock"} THEN 1 ELSE 0)
    + Cardinality({x \in Users : use[r][x] # "idle"})
    + Cardinality({x \in Users : use[r][x] = "two"})

Free(r) == Held(r) < PoolSize

-----------------------------------------------------------------------------
(* Boot.                                                                   *)

Boot(r) ==
  /\ Goes(r, "down", "connect")
  /\ next' = [next EXCEPT ![r] = 1]
  /\ UNCHANGED <<holder, schema, use, deaths>>

\* The pool is there, and a connection for the lock.
Connect(r) ==
  /\ Goes(r, "connect", "lock")
  /\ UNCHANGED <<next, holder, schema, use, deaths>>

\* Mutated form: only tries the lock, and goes on without it.
LockIsFree_Try == TRUE

LockIsFree == holder = Nobody

\* pg_advisory_lock waits.
Lock(r) ==
  /\ LockIsFree
  /\ Goes(r, "lock", "migrate")
  /\ holder' = r
  /\ UNCHANGED <<next, schema, use, deaths>>

Applied(i) == \E k \in DOMAIN applied : applied[k] = i

\* Mutated form: the last migration of the image is left out.
Last_Early(r) == Count[r] - 1

\* The migrations of the image, in the order of their names.
Last(r) == Count[r]

\* Migrate's loop: is the next one recorded?  After the last it is River's turn.
Look(r) ==
  /\ Free(r)
  /\ \/ /\ next[r] <= Last(r) /\ Applied(next[r])
        /\ phase[r] = "migrate" /\ next' = [next EXCEPT ![r] = @ + 1]
        /\ UNCHANGED phase
     \/ /\ next[r] <= Last(r) /\ ~Applied(next[r])
        /\ Goes(r, "migrate", "apply") /\ UNCHANGED next
     \/ /\ next[r] > Last(r)
        /\ Goes(r, "migrate", "river") /\ UNCHANGED next
  /\ UNCHANGED <<holder, schema, use, deaths>>

\* The end of a session lets go of the lock.
SessionEnds(r) == holder' = IF holder = r THEN Nobody ELSE holder

Ends(r) ==
  /\ phase' = [phase EXCEPT ![r] = "down"]
  /\ use' = [use EXCEPT ![r] = [x \in Users |-> "idle"]]
  /\ SessionEnds(r)
  /\ UNCHANGED next

\* The migration and its record commit together, unless it is there already.
Apply(r) ==
  /\ phase[r] = "apply" /\ Free(r)
  /\ IF Applied(next[r])
       THEN /\ Ends(r)
            /\ refused' = refused \cup {r}
            /\ UNCHANGED <<applied, river, deaths>>
       ELSE /\ Goes(r, "apply", "migrate")
            /\ applied' = Append(applied, next[r])
            /\ UNCHANGED <<next, holder, river, refused, use, deaths>>

\* engine.New: River's migrator, then the client.
River(r) ==
  /\ Free(r)
  /\ Goes(r, "river", "unlock")
  /\ river' = TRUE
  /\ UNCHANGED <<next, holder, applied, refused, use, deaths>>

\* Mutated form: the connection goes back to the pool with the lock.
Release_KeepsLock(r) == UNCHANGED holder

\* pg_advisory_unlock, on the connection that has the lock.
Release(r) == SessionEnds(r)

Unlock(r) ==
  /\ Goes(r, "unlock", "serve")
  /\ Release(r)
  /\ UNCHANGED <<next, schema, use, deaths>>

-----------------------------------------------------------------------------
(* Users of the pool.  Deaths and deadlines apart, they go on to the end   *)
(* of what they do, also while the process stops.                          *)

Takes(r, x, from, to) ==
  /\ phase[r] \in {"serve", "stop"}
  /\ use[r][x] = from
  /\ use' = [use EXCEPT ![r][x] = to]
  /\ UNCHANGED <<phase, next, holder, schema, deaths>>

\* One that holds a connection gets a second, when there is one.
Second(r, x) == Free(r) /\ Takes(r, x, "wait", "two")

\* A job begins its transaction, in the replicas that start the engine; none
\* begins while the engine stops.
Begin(r, w) == Mode[r] # "api" /\ phase[r] = "serve" /\ Free(r) /\ Takes(r, w, "idle", "one")

\* A guard is to be evaluated: buildRunContext asks the pool for another one.
Guard(r, w) == Takes(r, w, "one", "wait")
Evaluated(r, w) == Takes(r, w, "two", "one")

Commit(r, w) == Takes(r, w, "one", "idle")

\* Mutated form: the job waits as long as it takes.
Timeout_None(r, w) == FALSE

\* River cancels the context of a job after a minute: rollback, to be retried.
Timeout(r, w) == use[r][w] # "idle" /\ Takes(r, w, use[r][w], "idle")

\* The HTTP server: a connection for a statement or a transaction.
Query(r, q) == phase[r] = "serve" /\ Free(r) /\ Takes(r, q, "idle", "one")

\* listSecrets: its rows are open when WorkspaceSecrets asks for another one.  A
\* worker serves healthz only, which has no such request.
listSecrets(r, q) == Mode[r] # "worker" /\ Takes(r, q, "one", "wait")

\* The answer is written, and the connections go back.
Answer(r, q) == use[r][q] \in {"one", "two"} /\ Takes(r, q, use[r][q], "idle")

\* The client goes away, which ends the request's context.  No client has to.
Leave(r, q) == use[r][q] # "idle" /\ Takes(r, q, use[r][q], "idle")

-----------------------------------------------------------------------------
\* A process is killed or told to stop, and there is an end to that.
Mortal == deaths < MaxDeaths /\ deaths' = deaths + 1

\* A signal: no new requests or jobs, and at most 15 seconds for the others.
Stop(r) ==
  /\ Mortal
  /\ Goes(r, "serve", "stop")
  /\ UNCHANGED <<next, holder, schema, use>>

\* main returns.
Exit(r) ==
  /\ phase[r] = "stop"
  /\ Ends(r)
  /\ UNCHANGED <<schema, deaths>>

\* The process exits after an error, or is killed.
Die(r) ==
  /\ phase[r] \notin {"down", "stop"}
  /\ Mortal
  /\ Ends(r)
  /\ UNCHANGED schema

Run(r) ==
  \/ Boot(r) \/ Connect(r) \/ Lock(r) \/ Look(r) \/ Apply(r) \/ River(r) \/ Unlock(r)
  \/ Exit(r)

Work(r, w) ==
  Begin(r, w) \/ Guard(r, w) \/ Second(r, w) \/ Evaluated(r, w) \/ Commit(r, w) \/ Timeout(r, w)

Serve(r, q) ==
  Query(r, q) \/ listSecrets(r, q) \/ Second(r, q) \/ Answer(r, q) \/ Leave(r, q)

Next ==
  \E r \in Replicas :
    \/ Run(r) \/ Stop(r) \/ Die(r)
    \/ \E w \in Workers : Work(r, w)
    \/ \E q \in Requests : Serve(r, q)

\* Replicas are started again and go on; a job is over after its timeout; and a
\* request that waits for the database alone is answered.
Fairness ==
  \A r \in Replicas :
    /\ WF_vars(Run(r))
    /\ \A w \in Workers : WF_vars(Timeout(r, w))
    /\ \A q \in Requests : WF_vars(Answer(r, q))

Spec == Init /\ [][Next]_vars /\ Fairness

-----------------------------------------------------------------------------
(***************************************************************************)
(* Every variable holds a value of its type, and no process uses more      *)
(* connections than its pool has.                                          *)
(***************************************************************************)
TypeOK ==
  /\ phase \in [Replicas -> Phases]
  /\ next \in [Replicas -> Nat \ {0}]
  /\ holder \in Replicas \cup {Nobody}
  /\ applied \in Seq(Nat) /\ river \in BOOLEAN /\ refused \subseteq Replicas
  /\ use \in [Replicas -> [Users -> Uses]]
  /\ deaths \in 0..MaxDeaths
  /\ \A r \in Replicas : Held(r) <= PoolSize

(***************************************************************************)
(* Replicas that boot together, of two releases, and die in the middle     *)
(* take turns: the migrations are applied once each and in their order,    *)
(* and none fails because another replica has applied it meanwhile.        *)
(***************************************************************************)
MigratedInTurn ==
  /\ \A k \in DOMAIN applied : applied[k] = k
  /\ refused = {}

(***************************************************************************)
(* A replica that serves finds the whole schema of its image, whoever      *)
(* migrated it, and River's.                                               *)
(***************************************************************************)
SchemaIsThere ==
  \A r \in Replicas : phase[r] \in {"serve", "stop"} =>
    /\ \A i \in 1..Count[r] : Applied(i)
    /\ river

(***************************************************************************)
(* When processes have stopped dying every replica comes to serve, though  *)
(* some died with the lock, in a migration, or before they let go of it.   *)
(***************************************************************************)
EveryoneServes == \A r \in Replicas : <>[](phase[r] = "serve")

(***************************************************************************)
(* Jobs that all hold a connection and wait for a second one do not block  *)
(* their pool for ever, alone or together with requests: it has a          *)
(* connection again and again, unless lists of secrets alone hold all of   *)
(* it, each waiting for its second one.  (Those do block it, until one of  *)
(* their clients goes away.)                                               *)
(***************************************************************************)
Lists(r) == {q \in Requests : use[r][q] = "wait"}

ConnectionsReturn == \A r \in Replicas : []<>(Free(r) \/ Cardinality(Lists(r)) = PoolSize)
=============================================================================
