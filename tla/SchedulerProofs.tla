-------------------------- MODULE SchedulerProofs --------------------------
(***************************************************************************)
(* Proofs about Scheduler, for any number of triggers and replicas and any *)
(* expressions whose activations are at least a minute apart.              *)
(***************************************************************************)
EXTENDS Scheduler, WellFoundedInduction, TLAPS

\* The clock readings a sweep and a trigger hold are not ahead of the clock,
\* and an enabled trigger was swept at most MaxGap ago.
Timely ==
  /\ \A t \in Triggers : since[t] <= swept[t] /\ swept[t] <= now
  /\ \A t \in enabled : now - swept[t] <= MaxGap
  /\ \A r \in Replicas : sweep[r].at <= now

\* Everything that was due up to the last sweep of a trigger has its run.
SweptIsStarted ==
  \A t \in enabled : expr[t] \in CronExprs =>
    \A o \in Activations[expr[t]] : since[t] < o /\ o <= swept[t] => Started(t, o)

\* The run of a cron expression is the run of one of its activations.
RunsAreDue ==
  \A i \in DOMAIN runs : runs[i].expr \in CronExprs => runs[i].occ \in Activations[runs[i].expr]

\* No two rows of runs have one idempotency key.
KeysAreUnique ==
  \A i, j \in DOMAIN runs : i # j /\ runs[i].trigger = runs[j].trigger => runs[i].occ # runs[j].occ

----------------------------------------------------------------------------
\* latestOccurrence is the greatest activation in the window when there is one
\* and the sweeps are no further apart than a minute: it is the only one after
\* the previous sweep.
LEMMA LatestIsTheOnlyNewOne ==
  ASSUME NEW c \in CronExprs, NEW at \in Nat, NEW from \in Nat,
         from < at, at - from <= MaxGap,
         NEW o \in Activations[c], from < o, o <= at
  PROVE  Due(c, at) # {} /\ latestOccurrence(c, at) = o
<1>1. o \in Nat /\ Activations[c] \subseteq Nat
  BY SchedulesAssumption
<1>2. Due(c, at) = {p \in Activations[c] : at - Lookback < p /\ p <= at}
  BY DEF Due
<1>3. o \in Due(c, at)
  BY <1>1, <1>2, TimingAssumption
<1>4. \A p \in Due(c, at) : p <= o
  <2> SUFFICES ASSUME NEW p \in Due(c, at), ~(p <= o) PROVE FALSE
    OBVIOUS
  <2>1. p \in Activations[c] /\ p \in Nat /\ p <= at /\ o < p
    BY <1>1, <1>2
  <2>2. p - o >= Spacing
    BY <2>1, SchedulesAssumption
  <2> QED
    BY <1>1, <2>1, <2>2, TimingAssumption
<1>5. \A q \in Due(c, at) : (\A p \in Due(c, at) : p <= q) => q = o
  <2> SUFFICES ASSUME NEW q \in Due(c, at), \A p \in Due(c, at) : p <= q PROVE q = o
    OBVIOUS
  <2>1. q \in Nat
    BY <1>1, <1>2
  <2> QED
    BY <1>1, <1>3, <1>4, <2>1
<1> QED
  BY <1>3, <1>4, <1>5 DEF latestOccurrence

----------------------------------------------------------------------------
\* A step of the sweep keeps the type of what the sweep holds.
LEMMA DroppedType ==
  ASSUME TypeOK, NEW r \in Replicas, NEW x, Dropped(r, x)
  PROVE  /\ sweep' \in [Replicas -> [phase : Phases, at : 0..Horizon,
                                      todo : SUBSET (Triggers \X Exprs)]]
         /\ \A q \in Replicas : sweep'[q].at \in {sweep[q].at, 0}
<1> DEFINE S == [phase : Phases, at : 0..Horizon, todo : SUBSET (Triggers \X Exprs)]
<1> DEFINE rest == sweep[r].todo \ {x}
<1> DEFINE new == IF rest = {} THEN Idle ELSE [sweep[r] EXCEPT !.todo = rest]
<1>1. sweep \in [Replicas -> S] /\ sweep[r] \in S
  BY DEF TypeOK
<1>2. Idle \in S /\ Idle.at = 0
  BY TimingAssumption DEF Idle, Phases
<1>3. [sweep[r] EXCEPT !.todo = rest] \in S /\ [sweep[r] EXCEPT !.todo = rest].at = sweep[r].at
  BY <1>1
<1>4. new \in S /\ new.at \in {sweep[r].at, 0}
  BY <1>2, <1>3
<1>5. sweep' = [sweep EXCEPT ![r] = new]
  BY DEF Dropped
<1> HIDE DEF new, rest, S
<1>6. sweep' \in [Replicas -> S]
  BY <1>1, <1>4, <1>5
<1>7. \A q \in Replicas : sweep'[q].at \in {sweep[q].at, 0}
  BY <1>1, <1>4, <1>5
<1> QED
  BY <1>6, <1>7 DEF S

\* Any nonempty set of integers with an upper bound has a greatest element.
LEMMA GreatestInteger ==
  ASSUME NEW S, S \subseteq Int, S # {}, NEW b \in Int, \A n \in S : n <= b
  PROVE  \E n \in S : \A m \in S : m <= n
<1> DEFINE T == {k \in Nat : b - k \in S}
<1>1. \A m \in S : m \in Int /\ b - m \in Nat /\ b - (b - m) = m
  OBVIOUS
<1>2. T \subseteq Nat /\ (\A m \in S : b - m \in T)
  BY <1>1
<1>3. T # {}
  BY <1>2
<1> HIDE DEF T
<1>4. PICK y \in T : \A x \in T : ~ (<<x, y>> \in OpToRel(<, Nat))
  BY <1>2, <1>3, NatLessThanWellFounded, WFMin
<1>5. \A x \in T : ~ (x < y)
  BY <1>2, <1>4 DEF OpToRel
<1>6. b - y \in S /\ y \in Nat
  BY <1>4 DEF T
<1>7. \A m \in S : m <= b - y
  BY <1>1, <1>2, <1>5, <1>6
<1> QED
  BY <1>6, <1>7

\* The instant a sweep fires for is an activation in its window.
LEMMA OccurrenceIsDue ==
  ASSUME NEW c \in Exprs, NEW at \in Nat, Due(c, at) # {}
  PROVE  /\ Due(c, at) \subseteq Int
         /\ Occurrence(c, at) \in Due(c, at)
         /\ c \in CronExprs => Occurrence(c, at) \in Activations[c]
<1>1. CASE c \in CronExprs
  <2>1. Due(c, at) \subseteq Activations[c] /\ Activations[c] \subseteq Nat
    BY <1>1, SchedulesAssumption DEF Due
  <2>2. Due(c, at) \subseteq Int /\ \A o \in Due(c, at) : o <= at
    BY <1>1, <2>1 DEF Due
  <2>3. \E o \in Due(c, at) : \A p \in Due(c, at) : p <= o
    BY <2>2, GreatestInteger
  <2> QED
    BY <2>1, <2>2, <2>3 DEF Occurrence, latestOccurrence
<1>2. CASE c \notin CronExprs
  <2>1. Delay[c] \in Nat
    BY <1>2, SchedulesAssumption DEF Exprs
  <2>2. Due(c, at) \subseteq Int /\ \A o \in Due(c, at) : o <= at
    BY <1>2, <2>1, TimingAssumption DEF Due
  <2>3. \E o \in Due(c, at) : \A p \in Due(c, at) : p <= o
    BY <2>2, GreatestInteger
  <2> QED
    BY <1>2, <2>2, <2>3 DEF Occurrence, latestOccurrence
<1> QED
  BY <1>1, <1>2

----------------------------------------------------------------------------
Inv == TypeOK /\ Timely /\ SweptIsStarted /\ RunsAreDue /\ KeysAreUnique

\* The types of what is compared with the clock.
LEMMA Readings ==
  ASSUME TypeOK
  PROVE  /\ now \in Nat /\ now \in 0..Horizon /\ enabled \subseteq Triggers
         /\ \A t \in Triggers : swept[t] \in Nat /\ since[t] \in Nat
         /\ \A r \in Replicas : sweep[r].at \in Nat
         /\ since \in [Triggers -> 0..Horizon] /\ swept \in [Triggers -> 0..Horizon]
         /\ expr \in [Triggers -> Exprs]
  BY TimingAssumption DEF TypeOK

\* Initially nothing was swept and nothing is owed.
LEMMA InvInit == Init => Inv
<1> SUFFICES ASSUME Init PROVE Inv
  OBVIOUS
<1> USE DEF Init
<1>1. TypeOK
  <2>1. Idle \in [phase : Phases, at : 0..Horizon, todo : SUBSET (Triggers \X Exprs)]
    BY TimingAssumption DEF Idle, Phases
  <2> QED
    BY <2>1, TimingAssumption DEF TypeOK
<1>2. Timely
  BY TimingAssumption DEF Timely, Idle
<1>3. SweptIsStarted
  <2>1. \A c \in CronExprs : Activations[c] \subseteq Nat
    BY SchedulesAssumption
  <2> QED
    BY <2>1 DEF SweptIsStarted
<1>4. RunsAreDue /\ KeysAreUnique
  BY DEF RunsAreDue, KeysAreUnique
<1> QED
  BY <1>1, <1>2, <1>3, <1>4 DEF Inv

\* A sweep begins, reads the clock, gives up a trigger or ends: nothing that
\* was started or swept changes.
LEMMA SweepStep ==
  ASSUME Inv, UNCHANGED <<now, enabled, expr, since, swept, runs>>,
         sweep' \in [Replicas -> [phase : Phases, at : 0..Horizon,
                                  todo : SUBSET (Triggers \X Exprs)]],
         \A r \in Replicas : sweep'[r].at \in {sweep[r].at, now, 0}
  PROVE  Inv'
<1>1. TypeOK'
  BY DEF Inv, TypeOK
<1>2. Timely'
  <2>1. \A r \in Replicas : sweep'[r].at <= now
    BY Readings DEF Inv, Timely
  <2> QED
    BY <2>1 DEF Inv, Timely
<1>3. SweptIsStarted' /\ RunsAreDue' /\ KeysAreUnique'
  BY DEF Inv, SweptIsStarted, RunsAreDue, KeysAreUnique, Started
<1> QED
  BY <1>1, <1>2, <1>3 DEF Inv

\* A turn of the loop: the run of the only activation since the last sweep of
\* the trigger is there afterwards.
LEMMA FireStep ==
  ASSUME Inv, NEW r \in Replicas, NEW x \in sweep[r].todo, fireSchedule(r, x)
  PROVE  Inv'
<1> DEFINE t == x[1]
           c == x[2]
           at == sweep[r].at
           occ == Occurrence(c, at)
<1>1. t \in Triggers /\ c \in Exprs /\ at \in Nat /\ at <= now /\ at \in 0..Horizon
  <2>1. sweep[r] \in [phase : Phases, at : 0..Horizon, todo : SUBSET (Triggers \X Exprs)]
    BY DEF Inv, TypeOK
  <2>2. x \in Triggers \X Exprs /\ sweep[r].at \in 0..Horizon
    BY <2>1
  <2> QED
    BY <2>2, TimingAssumption DEF Inv, Timely
<1>2. runs' = IF Due(c, at) = {} \/ Started(t, occ)
                THEN runs
                ELSE Append(runs, [trigger |-> t, occ |-> occ, expr |-> c])
  BY DEF fireSchedule
<1>3. swept' = IF t \in enabled /\ c = expr[t] /\ swept[t] < at
                 THEN [swept EXCEPT ![t] = at]
                 ELSE swept
  BY DEF fireSchedule
<1>4. UNCHANGED <<now, enabled, expr, since>>
  BY DEF fireSchedule
<1>5. Dropped(r, x)
  BY DEF fireSchedule
<1> HIDE DEF t, c, at, occ
<1> DEFINE R == [trigger : Triggers, occ : Int, expr : Exprs]
           new == [trigger |-> t, occ |-> occ, expr |-> c]
           fires == ~(Due(c, at) = {} \/ Started(t, occ))
<1>s. /\ runs \in Seq(R) /\ DOMAIN runs = 1..Len(runs) /\ Len(runs) \in Nat
      /\ new.trigger = t /\ new.occ = occ /\ new.expr = c
  BY DEF Inv, TypeOK
<1>o. Due(c, at) # {} => occ \in Int /\ (c \in CronExprs => occ \in Activations[c])
  BY <1>1, OccurrenceIsDue DEF occ
<1>n. fires => new \in R
  BY <1>1, <1>o
<1> HIDE DEF R, new
<1>a. fires => /\ runs' \in Seq(R)
               /\ DOMAIN runs' = 1..(Len(runs) + 1)
               /\ \A i \in DOMAIN runs : runs'[i] = runs[i]
               /\ runs'[Len(runs) + 1] = new
  BY <1>2, <1>s, <1>n DEF new
<1>b. ~fires => runs' = runs
  BY <1>2
<1>c. /\ runs' \in Seq(R)
      /\ DOMAIN runs \subseteq DOMAIN runs'
      /\ \A i \in DOMAIN runs : runs'[i] = runs[i]
      /\ \A i \in DOMAIN runs' : i \notin DOMAIN runs => fires /\ i = Len(runs) + 1 /\ runs'[i] = new
  <2>1. CASE fires
    BY <1>a, <1>s, <2>1
  <2>2. CASE ~fires
    BY <1>b, <1>s, <2>2
  <2> QED
    BY <2>1, <2>2
<1>6. Due(c, at) # {} => \E i \in DOMAIN runs' : runs'[i].trigger = t /\ runs'[i].occ = occ
  <2>1. CASE Started(t, occ)
    BY <1>c, <2>1 DEF Started
  <2>2. CASE fires
    <3>1. Len(runs) + 1 \in DOMAIN runs' /\ runs'[Len(runs) + 1] = new
      BY <1>a, <1>s, <2>2
    <3> QED
      BY <1>s, <3>1
  <2> QED
    BY <2>1, <2>2
<1>7. swept' \in [Triggers -> 0..Horizon]
  BY <1>1, <1>3 DEF Inv, TypeOK
<1>8. TypeOK'
  <2>1. runs' \in Seq([trigger : Triggers, occ : Int, expr : Exprs])
    BY <1>c DEF R
  <2> QED
    BY <1>4, <1>5, <1>7, <2>1, DroppedType DEF Inv, TypeOK
<1>9. Timely'
  <2>1. \A q \in Replicas : sweep'[q].at \in {sweep[q].at, 0}
    BY <1>5, DroppedType DEF Inv
  <2>2. \A q \in Replicas : sweep'[q].at <= now
    BY <2>1, Readings DEF Inv, Timely
  <2>3. \A u \in Triggers : swept[u] <= swept'[u] /\ swept'[u] <= now
    BY <1>1, <1>3 DEF Inv, TypeOK, Timely
  <2>4. enabled \subseteq Triggers /\ now \in Nat /\ MaxGap \in Nat
    BY TimingAssumption DEF Inv, TypeOK
  <2>5. \A u \in Triggers : swept[u] \in Nat /\ swept'[u] \in Nat /\ since[u] \in Nat
    BY <1>7, TimingAssumption DEF Inv, TypeOK
  <2> QED
    BY <1>4, <2>2, <2>3, <2>4, <2>5 DEF Inv, Timely
<1>10. SweptIsStarted'
  <2> SUFFICES ASSUME NEW u \in enabled, expr[u] \in CronExprs,
                      NEW o \in Activations[expr[u]], since[u] < o, o <= swept'[u]
               PROVE  \E i \in DOMAIN runs' : runs'[i].trigger = u /\ runs'[i].occ = o
    BY <1>4 DEF SweptIsStarted, Started
  <2>1. u \in Triggers
    BY DEF Inv, TypeOK
  <2>2. CASE o <= swept[u]
    BY <1>c, <2>2 DEF Inv, SweptIsStarted, Started
  <2>3. CASE ~(o <= swept[u])
    <3>1. swept'[u] # swept[u]
      BY <2>3
    <3>2. u = t /\ c = expr[t] /\ swept[t] < at /\ swept'[t] = at
      BY <1>3, <2>1, <3>1 DEF Inv, TypeOK
    <3>3. swept[t] \in Nat /\ now \in Nat /\ MaxGap \in Nat /\ o \in Nat
      BY <1>1, SchedulesAssumption, TimingAssumption DEF Inv, TypeOK
    <3>4. now - swept[t] <= MaxGap
      BY <3>2 DEF Inv, Timely
    <3>5. at - swept[t] <= MaxGap /\ swept[t] < o /\ o <= at
      BY <1>1, <2>3, <3>2, <3>3, <3>4
    <3>6. Due(c, at) # {} /\ occ = o
      BY <1>1, <3>2, <3>3, <3>5, LatestIsTheOnlyNewOne DEF occ, Occurrence
    <3> QED
      BY <1>6, <3>2, <3>6
  <2> QED
    BY <2>2, <2>3
<1>11. RunsAreDue'
  <2> SUFFICES ASSUME NEW i \in DOMAIN runs', runs'[i].expr \in CronExprs
               PROVE  runs'[i].occ \in Activations[runs'[i].expr]
    BY DEF RunsAreDue
  <2>1. CASE i \in DOMAIN runs
    BY <1>c, <2>1 DEF Inv, RunsAreDue
  <2>2. CASE i \notin DOMAIN runs
    <3>1. fires /\ runs'[i] = new
      BY <1>c, <2>2
    <3> QED
      BY <1>s, <1>o, <3>1
  <2> QED
    BY <2>1, <2>2
<1>12. KeysAreUnique'
  <2>1. fires => \A i \in DOMAIN runs : runs[i].trigger = t => runs[i].occ # occ
    BY DEF Started
  <2> SUFFICES ASSUME NEW i \in DOMAIN runs', NEW j \in DOMAIN runs', i # j,
                      runs'[i].trigger = runs'[j].trigger
               PROVE  runs'[i].occ # runs'[j].occ
    BY DEF KeysAreUnique
  <2>2. CASE i \in DOMAIN runs /\ j \in DOMAIN runs
    BY <1>c, <2>2 DEF Inv, KeysAreUnique
  <2>3. CASE i \in DOMAIN runs /\ j \notin DOMAIN runs
    BY <1>c, <1>s, <2>1, <2>3
  <2>4. CASE i \notin DOMAIN runs /\ j \in DOMAIN runs
    BY <1>c, <1>s, <2>1, <2>4
  <2>5. CASE i \notin DOMAIN runs /\ j \notin DOMAIN runs
    BY <1>c, <2>5
  <2> QED
    BY <2>2, <2>3, <2>4, <2>5
<1> QED
  BY <1>8, <1>9, <1>10, <1>11, <1>12 DEF Inv

\* The user's edits start the account of a trigger afresh.
LEMMA EditStep ==
  ASSUME Inv, NEW t \in Triggers,
         Enable(t) \/ Disable(t) \/ (\E c \in Exprs : SetExpr(t, c))
  PROVE  Inv'
<1>1. now \in 0..Horizon /\ now \in Nat
  BY TimingAssumption DEF Inv, TypeOK
<1>2. \A u \in Triggers : swept[u] \in Nat /\ since[u] \in Nat
  BY TimingAssumption DEF Inv, TypeOK
<1>3. TypeOK'
  BY <1>1 DEF Inv, TypeOK, Enable, Disable, SetExpr
<1>4. Timely'
  BY <1>1, <1>2, Readings, TimingAssumption DEF Inv, Timely, Enable, Disable, SetExpr
<1>5. \A c \in CronExprs : Activations[c] \subseteq Nat
  BY SchedulesAssumption
<1>6. SweptIsStarted'
  BY <1>1, <1>2, <1>5, Readings DEF Inv, SweptIsStarted, Started, Enable, Disable, SetExpr
<1>7. RunsAreDue' /\ KeysAreUnique'
  BY DEF Inv, RunsAreDue, KeysAreUnique, Enable, Disable, SetExpr
<1> QED
  BY <1>3, <1>4, <1>6, <1>7 DEF Inv

\* The clock moves on, but not past the next sweep that has to succeed.
LEMMA TickStep ==
  ASSUME Inv, Tick
  PROVE  Inv'
<1>1. \A u \in Triggers : swept[u] \in Nat /\ since[u] \in Nat
  BY TimingAssumption DEF Inv, TypeOK
<1>2. \A q \in Replicas : sweep[q].at \in Nat
  BY TimingAssumption DEF Inv, TypeOK
<1>3. TypeOK'
  BY TimingAssumption DEF Inv, TypeOK, Tick
<1>4. Timely'
  BY <1>1, <1>2, TimingAssumption DEF Inv, TypeOK, Timely, Tick
<1>5. SweptIsStarted' /\ RunsAreDue' /\ KeysAreUnique'
  BY DEF Inv, SweptIsStarted, RunsAreDue, KeysAreUnique, Started, Tick
<1> QED
  BY <1>3, <1>4, <1>5 DEF Inv

\* Every step keeps the invariant.
LEMMA InvNext == Inv /\ [Next]_vars => Inv'
<1> DEFINE S == [phase : Phases, at : 0..Horizon, todo : SUBSET (Triggers \X Exprs)]
<1> SUFFICES ASSUME Inv, [Next]_vars PROVE Inv'
  OBVIOUS
<1>1. sweep \in [Replicas -> S] /\ now \in 0..Horizon /\ Idle \in S /\ Idle.at = 0
  BY TimingAssumption DEF Inv, TypeOK, Idle, Phases
<1>2. CASE Tick
  BY <1>2, TickStep
<1>3. ASSUME NEW t \in Triggers, Enable(t) \/ Disable(t) \/ (\E c \in Exprs : SetExpr(t, c))
      PROVE Inv'
  BY <1>3, EditStep
<1>4. ASSUME NEW r \in Replicas, SweepQuery(r) PROVE Inv'
  <2> DEFINE v == [phase |-> "queried", at |-> 0, todo |-> {<<t, expr[t]>> : t \in enabled}]
  <2>1. {<<t, expr[t]>> : t \in enabled} \subseteq Triggers \X Exprs
    BY DEF Inv, TypeOK
  <2>2. v \in S /\ v.at = 0
    BY <2>1, TimingAssumption DEF Phases
  <2>3. sweep' = [sweep EXCEPT ![r] = v] /\ UNCHANGED <<now, enabled, expr, since, swept, runs>>
    BY <1>4 DEF SweepQuery, Rows
  <2> HIDE DEF v, S
  <2>4. sweep' \in [Replicas -> S] /\ \A q \in Replicas : sweep'[q].at \in {sweep[q].at, now, 0}
    BY <1>1, <2>2, <2>3
  <2> QED
    BY <2>3, <2>4, SweepStep DEF S
<1>5. ASSUME NEW r \in Replicas, SweepNow(r) PROVE Inv'
  <2> DEFINE v == [[sweep[r] EXCEPT !.phase = "firing"] EXCEPT !.at = now]
  <2>1. v \in S /\ v.at = now
    BY <1>1 DEF Phases
  <2>2. sweep' = [sweep EXCEPT ![r] = v] /\ UNCHANGED <<now, enabled, expr, since, swept, runs>>
    BY <1>1, <1>5 DEF SweepNow
  <2> HIDE DEF v, S
  <2>3. sweep' \in [Replicas -> S] /\ \A q \in Replicas : sweep'[q].at \in {sweep[q].at, now, 0}
    BY <1>1, <2>1, <2>2
  <2> QED
    BY <2>2, <2>3, SweepStep DEF S
<1>6. ASSUME NEW r \in Replicas, SweepEnds(r) PROVE Inv'
  <2>1. sweep' = [sweep EXCEPT ![r] = Idle] /\ UNCHANGED <<now, enabled, expr, since, swept, runs>>
    BY <1>6 DEF SweepEnds
  <2> HIDE DEF S
  <2>2. sweep' \in [Replicas -> S] /\ \A q \in Replicas : sweep'[q].at \in {sweep[q].at, now, 0}
    BY <1>1, <2>1
  <2> QED
    BY <2>1, <2>2, SweepStep DEF S
<1>7. ASSUME NEW r \in Replicas, NEW x \in sweep[r].todo, FireFails(r, x) PROVE Inv'
  <2>1. Dropped(r, x) /\ UNCHANGED <<now, enabled, expr, since, swept, runs>>
    BY <1>7 DEF FireFails
  <2>2. sweep' \in [Replicas -> S] /\ \A q \in Replicas : sweep'[q].at \in {sweep[q].at, 0}
    BY <2>1, DroppedType DEF Inv
  <2> QED
    BY <2>1, <2>2, SweepStep
<1>8. ASSUME NEW r \in Replicas, NEW x \in sweep[r].todo, fireSchedule(r, x) PROVE Inv'
  BY <1>8, FireStep
<1>9. CASE UNCHANGED vars
  BY <1>9 DEF vars, Inv, TypeOK, Timely, SweptIsStarted, RunsAreDue, KeysAreUnique, Started
<1> QED
  BY <1>2, <1>3, <1>4, <1>5, <1>6, <1>7, <1>8, <1>9 DEF Next

\* The invariant holds throughout.
THEOREM Invariance == Spec => []Inv
  BY InvInit, InvNext, PTL DEF Spec

(***************************************************************************)
(* No due minute is missed by sweepSchedules: for any schedules with a     *)
(* minute between activations, any number of replicas and any failures     *)
(* that leave a successful sweep a minute.                                 *)
(***************************************************************************)
THEOREM NoOccurrenceMissed == Spec => []OccurrencesFire
<1>1. Inv => OccurrencesFire
  <2> SUFFICES ASSUME Inv, NEW t \in enabled, expr[t] \in CronExprs,
                      NEW o \in Activations[expr[t]], since[t] < o, o + MaxGap <= now
               PROVE  Started(t, o)
    BY DEF OccurrencesFire
  <2>1. t \in Triggers /\ now \in Nat /\ swept[t] \in Nat /\ MaxGap \in Nat /\ o \in Nat
    BY SchedulesAssumption, TimingAssumption DEF Inv, TypeOK
  <2>2. now - swept[t] <= MaxGap
    BY DEF Inv, Timely
  <2>3. o <= swept[t]
    BY <2>1, <2>2
  <2> QED
    BY <2>3 DEF Inv, SweptIsStarted
<1> QED
  BY <1>1, Invariance, PTL

(***************************************************************************)
(* No activation fires twice: for any replicas, any schedules, "@every"    *)
(* ones too, and any edits, each trigger has at most one row of runs for   *)
(* an instant, since the idempotency key of fireSchedule names trigger and *)
(* activation, and the rows of a cron expression are a minute apart.       *)
(***************************************************************************)
THEOREM NoDoubleFire == Spec => []FiresOnce
<1>1. Inv => FiresOnce
  <2> SUFFICES ASSUME Inv, NEW i \in DOMAIN runs, NEW j \in DOMAIN runs, i # j,
                      runs[i].trigger = runs[j].trigger
               PROVE  /\ runs[i].occ # runs[j].occ
                      /\ runs[i].expr = runs[j].expr /\ runs[i].expr \in CronExprs
                           /\ runs[i].occ < runs[j].occ
                           => runs[j].occ - runs[i].occ >= Spacing
    BY DEF FiresOnce
  <2>1. runs[i].occ # runs[j].occ
    BY DEF Inv, KeysAreUnique
  <2>2. ASSUME runs[i].expr = runs[j].expr, runs[i].expr \in CronExprs, runs[i].occ < runs[j].occ
        PROVE  runs[j].occ - runs[i].occ >= Spacing
    <3>1. runs[i].occ \in Activations[runs[i].expr] /\ runs[j].occ \in Activations[runs[i].expr]
      BY <2>2 DEF Inv, RunsAreDue
    <3> QED
      BY <2>2, <3>1, SchedulesAssumption
  <2> QED
    BY <2>1, <2>2
<1> QED
  BY <1>1, Invariance, PTL
=============================================================================
