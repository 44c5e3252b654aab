----------------------------- MODULE Scheduler -----------------------------
(***************************************************************************)
(* The cron scheduler (engine/scheduler.go): every replica sweeps the      *)
(* triggers table on its own ticker, looks back over a window and starts a *)
(* run for the latest activation it finds there.  It keeps no state: that  *)
(* no activation is lost and none fires twice follows from the length of   *)
(* the window and from the idempotency key alone.                          *)
(*                                                                         *)
(* Time is counted in sweep intervals of 30 seconds.  A schedule is either *)
(* a cron expression, given by the set of its activations, or "@every d",  *)
(* which cron.ParseStandard and so validateTriggerConfig accept too.       *)
(***************************************************************************)
EXTENDS Integers, Sequences

CONSTANTS
  Replicas,     \* processes that run runScheduler
  Triggers,     \* schedule triggers
  CronExprs,    \* cron expressions with fixed activations
  EveryExprs,   \* "@every" expressions
  Activations,  \* the instants at which each cron expression is due
  Delay,        \* the delay of each "@every" expression
  Lookback,     \* lookbackWindow
  Spacing,      \* the least distance of two activations of a cron expression: a minute
  MaxGap,       \* a successful sweep of a trigger follows the last within MaxGap
  Horizon       \* bound on the clock

Exprs == CronExprs \cup EveryExprs

(***************************************************************************)
(* A cron expression has one activation a minute at most, and the sweeps   *)
(* of a trigger that succeed are never further apart than that, nor than   *)
(* the window.  With an interval of 30 seconds this leaves room for one    *)
(* sweep that fails, not for two in a row.                                 *)
(***************************************************************************)
ASSUME SchedulesAssumption ==
  /\ CronExprs \cap EveryExprs = {}
  /\ Activations \in [CronExprs -> SUBSET Nat]
  /\ \A c \in CronExprs : \A o, p \in Activations[c] : o < p => p - o >= Spacing
  /\ Delay \in [EveryExprs -> Nat \ {0}]

ASSUME TimingAssumption ==
  /\ Lookback \in Nat /\ Spacing \in Nat /\ MaxGap \in Nat /\ Horizon \in Nat
  /\ MaxGap <= Lookback
  /\ MaxGap <= Spacing

VARIABLES
  now,      \* the clock all replicas read
  enabled,  \* triggers that are enabled, on an enabled workflow with a version
  expr,     \* triggers.config->>'cron'
  since,    \* when a trigger was last enabled or its expression last changed
  swept,    \* the instant up to which a trigger has been swept since then
  sweep,    \* what the sweep of each replica holds
  runs      \* the rows of runs, in the order of their inserts: trigger, instant, expression

vars == <<now, enabled, expr, since, swept, sweep, runs>>

Phases == {"idle", "queried", "firing"}

Idle == [phase |-> "idle", at |-> 0, todo |-> {}]

Init ==
  /\ now = 0
  /\ enabled \in SUBSET Triggers
  /\ expr \in [Triggers -> Exprs]
  /\ since = [t \in Triggers |-> 0]
  /\ swept = [t \in Triggers |-> 0]
  /\ sweep = [r \in Replicas |-> Idle]
  /\ runs = << >>

(***************************************************************************)
(* The activations sched.Next yields from the start of the window on, up   *)
(* to at.  Those of "@every d" are counted from the start of the window,   *)
(* wherever that is.                                                       *)
(***************************************************************************)
Due(c, at) ==
  IF c \in CronExprs
    THEN {o \in Activations[c] : at - Lookback < o /\ o <= at}
    ELSE {o \in {at - Lookback + k * Delay[c] : k \in 1..Lookback} : o <= at}

\* Mutated form: the walk stops at the first activation it finds.
latestOccurrence_First(c, at) ==
  CHOOSE o \in Due(c, at) : \A p \in Due(c, at) : o <= p

latestOccurrence(c, at) ==
  CHOOSE o \in Due(c, at) : \A p \in Due(c, at) : p <= o

\* The instant the idempotency key "cron:<trigger>:<unix>" of a run names.
Occurrence(c, at) == latestOccurrence(c, at)

\* Mutated form: the insert without the idempotency key.
Started_NoKey(t, occ) == FALSE

\* The insert of StartRunOpts conflicts: the key of this run is in the table.
Started(t, occ) == \E i \in DOMAIN runs : runs[i].trigger = t /\ runs[i].occ = occ

----------------------------------------------------------------------------
\* The rows of the query: trigger and expression.
Rows == {<<t, expr[t]>> : t \in enabled}

\* The ticker fires and the query returns the triggers that are enabled.
SweepQuery(r) ==
  /\ sweep[r].phase = "idle"
  /\ sweep' = [sweep EXCEPT ![r] = [phase |-> "queried", at |-> 0, todo |-> Rows]]
  /\ UNCHANGED <<now, enabled, expr, since, swept, runs>>

\* The clock is read after the rows have been.
SweepNow(r) ==
  /\ sweep[r].phase = "queried"
  /\ sweep' = [sweep EXCEPT ![r].phase = "firing", ![r].at = now]
  /\ UNCHANGED <<now, enabled, expr, since, swept, runs>>

\* The sweep is done with a trigger, and ends with the last one.
Dropped(r, x) ==
  LET rest == sweep[r].todo \ {x} IN
  sweep' = [sweep EXCEPT ![r] = IF rest = {} THEN Idle ELSE [@ EXCEPT !.todo = rest]]

(***************************************************************************)
(* One turn of the loop: the trigger is skipped when nothing is due, else  *)
(* a run is started unless its key exists.                                 *)
(***************************************************************************)
fireSchedule(r, x) ==
  LET t == x[1]
      c == x[2]
      at == sweep[r].at
      occ == Occurrence(c, at)
  IN /\ sweep[r].phase = "firing"
     /\ x \in sweep[r].todo
     /\ runs' = IF Due(c, at) = {} \/ Started(t, occ)
                  THEN runs
                  ELSE Append(runs, [trigger |-> t, occ |-> occ, expr |-> c])
     /\ swept' = IF t \in enabled /\ c = expr[t] /\ swept[t] < at
                   THEN [swept EXCEPT ![t] = at]
                   ELSE swept
     /\ Dropped(r, x)
     /\ UNCHANGED <<now, enabled, expr, since>>

\* StartRunOpts fails for one trigger: logged, and the loop goes on.
FireFails(r, x) ==
  /\ sweep[r].phase = "firing"
  /\ x \in sweep[r].todo
  /\ Dropped(r, x)
  /\ UNCHANGED <<now, enabled, expr, since, swept, runs>>

\* No trigger is left or was there, the query failed, or the process stops.
SweepEnds(r) ==
  /\ sweep[r].phase # "idle"
  /\ sweep' = [sweep EXCEPT ![r] = Idle]
  /\ UNCHANGED <<now, enabled, expr, since, swept, runs>>

\* createTrigger, or updateTrigger and the workflow's own switch.
Enable(t) ==
  /\ t \notin enabled
  /\ enabled' = enabled \cup {t}
  /\ since' = [since EXCEPT ![t] = now]
  /\ swept' = [swept EXCEPT ![t] = now]
  /\ UNCHANGED <<now, expr, sweep, runs>>

\* deleteTrigger, or updateTrigger and the workflow's own switch.
Disable(t) ==
  /\ t \in enabled
  /\ enabled' = enabled \ {t}
  /\ UNCHANGED <<now, expr, since, swept, sweep, runs>>

\* updateTrigger with a config that validateTriggerConfig accepts.
SetExpr(t, c) ==
  /\ expr[t] # c
  /\ expr' = [expr EXCEPT ![t] = c]
  /\ since' = [since EXCEPT ![t] = now]
  /\ swept' = [swept EXCEPT ![t] = now]
  /\ UNCHANGED <<now, enabled, sweep, runs>>

\* Time passes, but no further than the next sweep that has to succeed.
Tick ==
  /\ now < Horizon
  /\ \A t \in enabled : now + 1 - swept[t] <= MaxGap
  /\ now' = now + 1
  /\ UNCHANGED <<enabled, expr, since, swept, sweep, runs>>

Next ==
  \/ Tick
  \/ \E t \in Triggers : Enable(t) \/ Disable(t) \/ (\E c \in Exprs : SetExpr(t, c))
  \/ \E r \in Replicas :
       \/ SweepQuery(r) \/ SweepNow(r) \/ SweepEnds(r)
       \/ \E x \in sweep[r].todo : fireSchedule(r, x) \/ FireFails(r, x)

Spec == Init /\ [][Next]_vars

----------------------------------------------------------------------------
\* Every variable holds a value of its type, whatever the replicas do.
TypeOK ==
  /\ now \in 0..Horizon
  /\ enabled \subseteq Triggers
  /\ expr \in [Triggers -> Exprs]
  /\ since \in [Triggers -> 0..Horizon]
  /\ swept \in [Triggers -> 0..Horizon]
  /\ sweep \in [Replicas -> [phase : Phases, at : 0..Horizon, todo : SUBSET (Triggers \X Exprs)]]
  /\ runs \in Seq([trigger : Triggers, occ : Int, expr : Exprs])

(***************************************************************************)
(* No due minute is missed: an activation of the expression a trigger has  *)
(* had since before then has its run once MaxGap has passed, although      *)
(* latestOccurrence drops all but the last activation of a window, sweeps  *)
(* fail or die half way and a slow replica fires from an old reading of    *)
(* the table and of the clock.                                             *)
(***************************************************************************)
OccurrencesFire ==
  \A t \in enabled : expr[t] \in CronExprs =>
    \A o \in Activations[expr[t]] :
      since[t] < o /\ o + MaxGap <= now => Started(t, o)

(***************************************************************************)
(* No activation fires twice, however many replicas and overlapping        *)
(* windows find it due and whatever the trigger's expression was changed   *)
(* to in between: each row of runs is a run of its own, no two of a        *)
(* trigger are for one instant, and two for one cron expression are at     *)
(* least a minute apart.                                                   *)
(***************************************************************************)
FiresOnce ==
  \A i, j \in DOMAIN runs :
    LET p == runs[i]
        q == runs[j]
    IN i # j /\ p.trigger = q.trigger =>
         /\ p.occ # q.occ
         /\ p.expr = q.expr /\ p.expr \in CronExprs /\ p.occ < q.occ
              => q.occ - p.occ >= Spacing
=============================================================================
