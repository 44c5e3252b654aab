--------------------------- MODULE ProcessProofs ---------------------------
(***************************************************************************)
(* Theorems about Process, for any number of replicas, whatever number of  *)
(* migrations each of their images brings, and however many of them die.   *)
(***************************************************************************)
EXTENDS Process, FiniteSetTheorems, TLAPS

\* The part of TypeOK that is about the schema and the lock.
Shape ==
  /\ phase \in [Replicas -> Phases]
  /\ next \in [Replicas -> Nat \ {0}]
  /\ holder \in Replicas \cup {Nobody}
  /\ applied \in Seq(Nat)
  /\ river \in BOOLEAN

\* Everything between the lock and its release is done by the one who has it.
Exclusive ==
  \A r \in Replicas : phase[r] \in {"migrate", "apply", "river", "unlock"} => holder = r

\* Migrations are a sequence without gaps, and nobody has met another's.
InTurn == (\A k \in 1..Len(applied) : applied[k] = k) /\ refused = {}

(***************************************************************************)
(* How far a replica is: it has seen all migrations before the next one,   *)
(* the one it applies is the first that is not there, and once it is past  *)
(* its last one all of its image are there.                                *)
(***************************************************************************)
Reached(r) ==
  /\ phase[r] \in {"connect", "lock"} => next[r] = 1
  /\ phase[r] = "migrate" => next[r] <= Len(applied) + 1
  /\ phase[r] = "apply" => next[r] = Len(applied) + 1
  /\ phase[r] \in {"river", "unlock", "serve", "stop"} => Count[r] <= Len(applied)
  /\ phase[r] \in {"unlock", "serve", "stop"} => river

Inv == Shape /\ Exclusive /\ InTurn /\ \A r \in Replicas : Reached(r)

-----------------------------------------------------------------------------
\* Without gaps, what is applied is what is not beyond the last one.
LEMMA AppliedUpTo ==
  ASSUME applied \in Seq(Nat), InTurn, NEW i \in Nat \ {0}
  PROVE  Applied(i) <=> i <= Len(applied)
<1>1. Len(applied) \in Nat /\ DOMAIN applied = 1..Len(applied)
  OBVIOUS
<1>2. \A k \in DOMAIN applied : applied[k] = k
  BY <1>1 DEF InTurn
<1>3. ASSUME i <= Len(applied) PROVE i \in DOMAIN applied
  BY <1>1, <1>3
<1>4. ASSUME i \in DOMAIN applied PROVE i <= Len(applied)
  BY <1>1, <1>4
<1> QED  BY <1>2, <1>3, <1>4 DEF Applied

\* At first every replica is down, and nothing is applied.
LEMMA InitInv == Init => Inv
<1> SUFFICES ASSUME Init PROVE Inv
  OBVIOUS
<1>1. applied \in Seq(Nat) /\ Len(applied) = 0
  <2>1. applied = <<>>
    BY DEF Init
  <2>2. applied \in Seq(Nat)
    BY <2>1
  <2>3. Len(applied) = 0
    BY <2>1
  <2> QED  BY <2>2, <2>3
<1>2. Shape
  <2>1. phase \in [Replicas -> Phases]
    BY DEF Init, Phases
  <2>2. next \in [Replicas -> Nat \ {0}]
    BY DEF Init
  <2>3. holder = Nobody /\ river = FALSE
    BY DEF Init
  <2> QED  BY <1>1, <2>1, <2>2, <2>3 DEF Shape
<1>3. Exclusive /\ InTurn /\ \A r \in Replicas : Reached(r)
  BY <1>1 DEF Init, Exclusive, InTurn, Reached
<1> QED  BY <1>2, <1>3 DEF Inv

\* A step that neither migrates nor takes or drops the lock moves a replica from
\* a phase to one of which no more is asked.
LEMMA PhaseKeeps ==
  ASSUME Inv, NEW r \in Replicas, NEW from, NEW to,
         <<from, to>> \in {<<"connect", "lock">>, <<"serve", "stop">>},
         Goes(r, from, to), UNCHANGED <<next, holder, schema>>
  PROVE  Inv'
BY DEF Goes, Inv, Shape, Phases, Exclusive, InTurn, Reached, schema

\* The end of a process leaves the schema, and the lock to the others.
LEMMA EndsKeeps ==
  ASSUME Inv, NEW r \in Replicas, Ends(r), UNCHANGED schema
  PROVE  Inv'
BY ProcessAssumption DEF Ends, SessionEnds, Inv, Shape, Phases, Exclusive, InTurn, Reached, schema

\* A replica that boots starts with the first migration.
LEMMA BootKeeps ==
  ASSUME Inv, NEW r \in Replicas, Boot(r)
  PROVE  Inv'
BY DEF Boot, Goes, Inv, Shape, Phases, Exclusive, InTurn, Reached, schema

\* With the lock free nobody else is between it and its release.
LEMMA LockKeeps ==
  ASSUME Inv, NEW r \in Replicas, Lock(r)
  PROVE  Inv'
<1>1. holder = Nobody /\ holder' = r /\ UNCHANGED <<next, schema>>
  BY DEF Lock, LockIsFree
<1>2. phase[r] = "lock" /\ phase' = [phase EXCEPT ![r] = "migrate"]
  BY DEF Lock, Goes
<1>3. \A p \in Replicas : phase[p] \notin {"migrate", "apply", "river", "unlock"}
  BY <1>1, ProcessAssumption DEF Inv, Exclusive
<1>4. Shape' /\ Exclusive' /\ InTurn'
  BY <1>1, <1>2, <1>3 DEF Inv, Shape, Phases, Exclusive, InTurn, schema
<1>5. next[r] = 1 /\ Len(applied) \in Nat
  BY <1>2 DEF Inv, Reached, Shape
<1>6. \A p \in Replicas : Reached(p)'
  BY <1>1, <1>2, <1>5 DEF Inv, Shape, Reached, schema
<1> QED  BY <1>4, <1>6 DEF Inv

\* The loop skips what is applied and ends after the last migration.
LEMMA LookKeeps ==
  ASSUME Inv, NEW r \in Replicas, Look(r)
  PROVE  Inv'
<1>1. phase[r] = "migrate" /\ UNCHANGED <<holder, schema>>
  BY DEF Look, Goes
<1>2. next[r] \in Nat \ {0} /\ Len(applied) \in Nat /\ Count[r] \in Nat
      /\ next[r] <= Len(applied) + 1
  BY <1>1, ProcessAssumption DEF Inv, Shape, Reached
<1>3. Applied(next[r]) <=> next[r] <= Len(applied)
  BY <1>2, AppliedUpTo DEF Inv, Shape
<1>4. InTurn'
  BY <1>1 DEF Inv, InTurn, schema
<1>5. CASE /\ next[r] <= Last(r) /\ Applied(next[r])
           /\ next' = [next EXCEPT ![r] = @ + 1] /\ UNCHANGED phase
  <2>1. next'[r] = next[r] + 1 /\ next'[r] \in Nat \ {0} /\ next'[r] <= Len(applied) + 1
    BY <1>2, <1>3, <1>5 DEF Inv, Shape
  <2>2. Shape' /\ Exclusive'
    BY <1>1, <1>5, <2>1 DEF Inv, Shape, Exclusive, schema
  <2>3. \A p \in Replicas : Reached(p)'
    BY <1>1, <1>5, <2>1 DEF Inv, Shape, Reached, schema
  <2> QED  BY <1>4, <2>2, <2>3 DEF Inv
<1>6. CASE next[r] <= Last(r) /\ ~Applied(next[r]) /\ Goes(r, "migrate", "apply") /\ UNCHANGED next
  <2>1. next[r] = Len(applied) + 1
    BY <1>2, <1>3, <1>6
  <2>2. Shape' /\ Exclusive'
    BY <1>1, <1>6 DEF Goes, Inv, Shape, Phases, Exclusive, schema
  <2>3. \A p \in Replicas : Reached(p)'
    BY <1>1, <1>6, <2>1 DEF Goes, Inv, Shape, Reached, schema
  <2> QED  BY <1>4, <2>2, <2>3 DEF Inv
<1>7. CASE next[r] > Last(r) /\ Goes(r, "migrate", "river") /\ UNCHANGED next
  <2>1. Count[r] <= Len(applied)
    BY <1>2, <1>7 DEF Last
  <2>2. Shape' /\ Exclusive'
    BY <1>1, <1>7 DEF Goes, Inv, Shape, Phases, Exclusive, schema
  <2>3. \A p \in Replicas : Reached(p)'
    BY <1>1, <1>7, <2>1 DEF Goes, Inv, Shape, Reached, schema
  <2> QED  BY <1>4, <2>2, <2>3 DEF Inv
<1> QED  BY <1>5, <1>6, <1>7 DEF Look

\* The holder of the lock is the only one that applies, and so finds the next
\* migration where it looked for it.
LEMMA ApplyKeeps ==
  ASSUME Inv, NEW r \in Replicas, Apply(r)
  PROVE  Inv'
<1>1. phase[r] = "apply" /\ next[r] = Len(applied) + 1 /\ holder = r
  BY DEF Apply, Inv, Exclusive, Reached
<1>2. Len(applied) \in Nat /\ next[r] \in Nat \ {0}
  BY DEF Inv, Shape
<1>3. ~Applied(next[r])
  BY <1>1, <1>2, AppliedUpTo DEF Inv, Shape
<1>4. /\ phase' = [phase EXCEPT ![r] = "migrate"]
      /\ applied' = Append(applied, next[r])
      /\ UNCHANGED <<next, holder, river, refused>>
  BY <1>3 DEF Apply, Goes
<1>5. applied' \in Seq(Nat) /\ Len(applied') = Len(applied) + 1
  BY <1>2, <1>4 DEF Inv, Shape
<1>6. Shape' /\ Exclusive'
  BY <1>1, <1>4, <1>5 DEF Inv, Shape, Phases, Exclusive
<1>7. InTurn'
  <2>1. ASSUME NEW k \in 1..Len(applied') PROVE applied'[k] = k
    <3>1. CASE k = Len(applied) + 1
      BY <1>1, <1>4, <3>1 DEF Inv, Shape
    <3>2. CASE k # Len(applied) + 1
      <4>1. k \in 1..Len(applied)
        BY <1>2, <1>5, <3>2
      <4>2. applied'[k] = applied[k]
        BY <1>4, <4>1 DEF Inv, Shape
      <4> QED  BY <4>1, <4>2 DEF Inv, InTurn
    <3> QED  BY <3>1, <3>2
  <2> QED  BY <1>4, <2>1 DEF Inv, InTurn
<1>8. ASSUME NEW p \in Replicas PROVE Reached(p)'
  <2>1. CASE p = r
    BY <1>1, <1>2, <1>4, <1>5, <2>1 DEF Inv, Shape, Reached
  <2>2. CASE p # r
    <3>1. phase[p] \notin {"migrate", "apply"} /\ phase'[p] = phase[p] /\ next'[p] = next[p]
      BY <1>1, <1>4, <2>2 DEF Inv, Shape, Exclusive
    <3>2. Count[p] \in Nat
      BY ProcessAssumption
    <3> QED  BY <1>2, <1>4, <1>5, <3>1, <3>2 DEF Inv, Reached
  <2> QED  BY <2>1, <2>2
<1> QED  BY <1>6, <1>7, <1>8 DEF Inv

\* River's schema comes after the last migration.
LEMMA RiverKeeps ==
  ASSUME Inv, NEW r \in Replicas, River(r)
  PROVE  Inv'
BY DEF River, Goes, Inv, Shape, Phases, Exclusive, InTurn, Reached

\* The lock is let go of when both schemas are there.
LEMMA UnlockKeeps ==
  ASSUME Inv, NEW r \in Replicas, Unlock(r)
  PROVE  Inv'
BY ProcessAssumption
   DEF Unlock, Release, SessionEnds, Goes, Inv, Shape, Phases, Exclusive, InTurn, Reached, schema

\* Jobs, requests and stutters leave the schema and the phases alone.
LEMMA SameKeeps ==
  ASSUME Inv, UNCHANGED <<phase, next, holder, schema>>
  PROVE  Inv'
BY DEF Inv, Shape, Exclusive, InTurn, Reached, schema

\* Every step keeps the invariant.
LEMMA StepInv == Inv /\ [Next]_vars => Inv'
<1> SUFFICES ASSUME Inv, [Next]_vars PROVE Inv'
  OBVIOUS
<1>1. ASSUME NEW r \in Replicas, Run(r) PROVE Inv'
  BY <1>1, BootKeeps, PhaseKeeps, LockKeeps, LookKeeps, ApplyKeeps, RiverKeeps, UnlockKeeps, EndsKeeps
     DEF Run, Connect, Exit
<1>2. ASSUME NEW r \in Replicas, NEW q \in Requests, Serve(r, q) PROVE Inv'
  BY <1>2, SameKeeps DEF Serve, Query, listSecrets, Second, Answer, Leave, Takes
<1>3. ASSUME NEW r \in Replicas, Stop(r) PROVE Inv'
  BY <1>3, PhaseKeeps DEF Stop
<1>4. ASSUME NEW r \in Replicas, Die(r) PROVE Inv'
  BY <1>4, EndsKeeps DEF Die
<1>5. ASSUME NEW r \in Replicas, NEW w \in Workers, Work(r, w) PROVE Inv'
  BY <1>5, SameKeeps DEF Work, Begin, Guard, Second, Evaluated, Commit, Timeout, Takes
<1>6. CASE UNCHANGED vars
  BY <1>6, SameKeeps DEF vars, schema
<1> QED  BY <1>1, <1>2, <1>3, <1>4, <1>5, <1>6 DEF Next

\* The invariant holds in every reachable state.
LEMMA InvHolds == Spec => []Inv
BY InitInv, StepInv, PTL DEF Spec

(***************************************************************************)
(* Replicas of any number of releases that boot together and die where     *)
(* they may apply the migrations once each and in their order, and none is *)
(* refused because another got there first.                                *)
(***************************************************************************)
THEOREM MigrationsInTurn == Spec => []MigratedInTurn
<1>1. Inv => MigratedInTurn
  BY DEF Inv, Shape, InTurn, MigratedInTurn
<1> QED  BY <1>1, InvHolds, PTL

(***************************************************************************)
(* A replica that serves has the whole schema of its image, and River's.   *)
(***************************************************************************)
THEOREM SchemaBeforeService == Spec => []SchemaIsThere
<1>1. Inv => SchemaIsThere
  <2> SUFFICES ASSUME Inv, NEW r \in Replicas, phase[r] \in {"serve", "stop"}, NEW i \in 1..Count[r]
               PROVE  Applied(i) /\ river
    BY DEF SchemaIsThere, Inv, Reached
  <2>1. i \in Nat \ {0} /\ i <= Len(applied) /\ river
    BY ProcessAssumption DEF Inv, Shape, Reached
  <2> QED  BY <2>1, AppliedUpTo DEF Inv, Shape
<1> QED  BY <1>1, InvHolds, PTL

-----------------------------------------------------------------------------
(* The connections of a pool.                                              *)

Lease(r) == IF phase[r] \in {"lock", "migrate", "apply", "river", "unlock"} THEN 1 ELSE 0
Busy(r) == {x \in Users : use[r][x] # "idle"}
Both(r) == {x \in Users : use[r][x] = "two"}

\* Jobs and requests are those of a replica that serves, or stops.
Used(r) ==
  /\ phase[r] \notin {"serve", "stop"} => Busy(r) = {} /\ Both(r) = {}
  /\ Held(r) <= PoolSize

Pools ==
  /\ use \in [Replicas -> [Users -> Uses]]
  /\ deaths \in 0..MaxDeaths
  /\ \A r \in Replicas : Used(r)

\* The parts of a pool can be counted.
LEMMA HeldIs ==
  ASSUME NEW r
  PROVE  /\ Held(r) = Lease(r) + Cardinality(Busy(r)) + Cardinality(Both(r))
         /\ Lease(r) \in {0, 1}
         /\ IsFiniteSet(Busy(r)) /\ IsFiniteSet(Both(r))
         /\ Cardinality(Busy(r)) \in Nat /\ Cardinality(Both(r)) \in Nat
<1>1. IsFiniteSet(Users)
  BY ProcessAssumption, FS_Union DEF Users
<1>2. Busy(r) \subseteq Users /\ Both(r) \subseteq Users
  BY DEF Busy, Both
<1>3. IsFiniteSet(Busy(r)) /\ IsFiniteSet(Both(r))
  BY <1>1, <1>2, FS_Subset
<1>4. Cardinality(Busy(r)) \in Nat /\ Cardinality(Both(r)) \in Nat
  BY <1>3, FS_CardinalityType
<1>5. Held(r) = Lease(r) + Cardinality(Busy(r)) + Cardinality(Both(r))
  BY DEF Held, Lease, Busy, Both
<1>6. Lease(r) \in {0, 1}
  BY DEF Lease
<1> QED  BY <1>3, <1>4, <1>5, <1>6

\* The same of the next state.
LEMMA HeldIsNext ==
  ASSUME NEW r
  PROVE  /\ Held(r)' = Lease(r)' + Cardinality(Busy(r)') + Cardinality(Both(r)')
         /\ Lease(r)' \in {0, 1}
         /\ IsFiniteSet(Busy(r)') /\ IsFiniteSet(Both(r)')
         /\ Cardinality(Busy(r)') \in Nat /\ Cardinality(Both(r)') \in Nat
<1>1. IsFiniteSet(Users)
  BY ProcessAssumption, FS_Union DEF Users
<1>2. Busy(r)' \subseteq Users /\ Both(r)' \subseteq Users
  BY DEF Busy, Both
<1>3. IsFiniteSet(Busy(r)') /\ IsFiniteSet(Both(r)')
  BY <1>1, <1>2, FS_Subset
<1>4. Cardinality(Busy(r)') \in Nat /\ Cardinality(Both(r)') \in Nat
  BY <1>3, FS_CardinalityType
<1>5. Held(r)' = Lease(r)' + Cardinality(Busy(r)') + Cardinality(Both(r)')
  BY DEF Held, Lease, Busy, Both
<1>6. Lease(r)' \in {0, 1}
  BY DEF Lease
<1> QED  BY <1>3, <1>4, <1>5, <1>6

\* Giving back keeps within the pool.
LEMMA HeldShrinks ==
  ASSUME NEW r, Held(r) <= PoolSize, Lease(r)' <= Lease(r),
         Busy(r)' \subseteq Busy(r), Both(r)' \subseteq Both(r)
  PROVE  Held(r)' <= PoolSize
<1>1. /\ Cardinality(Busy(r)') <= Cardinality(Busy(r))
      /\ Cardinality(Both(r)') <= Cardinality(Both(r))
  BY HeldIs, FS_Subset
<1> QED  BY <1>1, HeldIs, HeldIsNext, ProcessAssumption

\* One more connection, when there is a free one.
LEMMA HeldGrows ==
  ASSUME NEW r, Free(r), Lease(r)' = Lease(r), NEW w,
         \/ Busy(r)' = Busy(r) \cup {w} /\ Both(r)' = Both(r)
         \/ Busy(r)' = Busy(r) /\ Both(r)' = Both(r) \cup {w}
  PROVE  Held(r)' <= PoolSize
<1>1. Held(r) + 1 <= PoolSize
  BY HeldIs, ProcessAssumption DEF Free
<1>2. ASSUME NEW S, IsFiniteSet(S) PROVE Cardinality(S \cup {w}) <= Cardinality(S) + 1
  <2>1. Cardinality(S \cup {w}) = IF w \in S THEN Cardinality(S) ELSE Cardinality(S) + 1
    BY <1>2, FS_AddElement
  <2>2. Cardinality(S) \in Nat
    BY <1>2, FS_CardinalityType
  <2> QED  BY <2>1, <2>2
<1>3. Held(r)' <= Held(r) + 1
  BY <1>2, HeldIs, HeldIsNext
<1> QED  BY <1>1, <1>3, HeldIs, HeldIsNext, ProcessAssumption

\* A replica that a step does not touch.
LEMMA OthersKeep ==
  ASSUME NEW p \in Replicas, Used(p), phase'[p] = phase[p], use'[p] = use[p]
  PROVE  Used(p)'
<1>1. Lease(p)' = Lease(p) /\ Busy(p)' = Busy(p) /\ Both(p)' = Both(p)
  BY DEF Lease, Busy, Both
<1>2. Held(p)' <= PoolSize
  BY <1>1, HeldIs, HeldShrinks DEF Used
<1> QED  BY <1>1, <1>2 DEF Used

\* Phases: only the connection for the lock comes in addition, to an empty pool.
LEMMA PoolOfPhase ==
  ASSUME Pools, phase \in [Replicas -> Phases], NEW r \in Replicas, NEW from, NEW to,
         Goes(r, from, to), UNCHANGED use,
         \/ <<from, to>> \in {<<"down", "connect">>, <<"connect", "lock">>, <<"serve", "stop">>}
         \/ from \in {"lock", "migrate", "apply", "river"} /\ to \in {"migrate", "apply", "river", "unlock"}
         \/ <<from, to>> = <<"unlock", "serve">>
  PROVE  \A p \in Replicas : Used(p)'
<1>1. phase[r] = from /\ phase'[r] = to /\ \A p \in Replicas \ {r} : phase'[p] = phase[p]
  BY DEF Goes
<1>2. Busy(r)' = Busy(r) /\ Both(r)' = Both(r)
  BY DEF Busy, Both
<1>3. Used(r)
  BY DEF Pools
<1>4. CASE <<from, to>> = <<"connect", "lock">>
  <2>1. Busy(r) = {} /\ Both(r) = {}
    BY <1>1, <1>3, <1>4 DEF Used
  <2>2. Held(r)' = 1
    BY <1>1, <1>2, <1>4, <2>1, HeldIsNext, FS_EmptySet DEF Lease
  <2>3. Used(r)'
    BY <1>2, <2>1, <2>2, ProcessAssumption DEF Used
  <2> QED  BY <1>1, <2>3, OthersKeep DEF Pools
<1>5. CASE <<from, to>> # <<"connect", "lock">>
  <2>1. Lease(r)' <= Lease(r)
    BY <1>1, <1>5 DEF Lease
  <2>2. Held(r)' <= PoolSize
    BY <1>2, <1>3, <2>1, HeldShrinks DEF Used
  <2>3. Used(r)'
    BY <1>1, <1>2, <1>3, <1>5, <2>2 DEF Used
  <2> QED  BY <1>1, <2>3, OthersKeep DEF Pools
<1> QED  BY <1>4, <1>5

\* The end of a process returns all there is.
LEMMA PoolOfEnds ==
  ASSUME Pools, phase \in [Replicas -> Phases], NEW r \in Replicas, Ends(r)
  PROVE  \A p \in Replicas : Used(p)'
<1>1. /\ phase'[r] = "down" /\ use'[r] = [x \in Users |-> "idle"]
      /\ \A p \in Replicas \ {r} : phase'[p] = phase[p] /\ use'[p] = use[p]
  BY DEF Ends, Pools
<1>2. Busy(r)' = {} /\ Both(r)' = {} /\ Lease(r)' = 0
  BY <1>1 DEF Busy, Both, Lease
<1>3. Held(r)' = 0
  BY <1>2, HeldIsNext, FS_EmptySet
<1>4. Used(r)'
  BY <1>2, <1>3, ProcessAssumption DEF Used
<1> QED  BY <1>1, <1>4, OthersKeep DEF Pools

\* Jobs and requests take their connections from a pool that has them.
LEMMA PoolOfTakes ==
  ASSUME Pools, NEW r \in Replicas, NEW w \in Users, NEW from \in Uses, NEW to \in Uses,
         Takes(r, w, from, to), from = "idle" \/ to = "two" => Free(r),
         <<from, to>> \in {<<"idle", "one">>, <<"one", "wait">>, <<"wait", "two">>, <<"two", "one">>,
                          <<"one", "idle">>, <<"wait", "idle">>, <<"two", "idle">>}
  PROVE  Pools'
<1>2. /\ phase[r] \in {"serve", "stop"} /\ UNCHANGED <<phase, deaths>>
      /\ use[r][w] = from /\ use' = [use EXCEPT ![r][w] = to]
  BY DEF Takes
<1>3. /\ use' \in [Replicas -> [Users -> Uses]]
      /\ \A p \in Replicas \ {r} : use'[p] = use[p]
      /\ \A v \in Users : use'[r][v] = IF v = w THEN to ELSE use[r][v]
  BY <1>2 DEF Pools
<1>4. Lease(r)' = Lease(r)
  BY <1>2 DEF Lease
<1>5. Held(r)' <= PoolSize
  <2>1. CASE from = "idle"
    <3>1. Busy(r)' = Busy(r) \cup {w} /\ Both(r)' = Both(r)
      BY <1>2, <1>3, <2>1 DEF Busy, Both
    <3> QED  BY <1>4, <2>1, <3>1, HeldGrows
  <2>2. CASE from = "wait" /\ to = "two"
    <3>1. Busy(r)' = Busy(r) /\ Both(r)' = Both(r) \cup {w}
      BY <1>2, <1>3, <2>2 DEF Busy, Both
    <3> QED  BY <1>4, <2>2, <3>1, HeldGrows
  <2>3. CASE from # "idle" /\ to # "two"
    <3>1. Busy(r)' \subseteq Busy(r) /\ Both(r)' \subseteq Both(r)
      BY <1>2, <1>3, <2>3 DEF Busy, Both
    <3>2. Lease(r)' <= Lease(r)
      BY <1>4, HeldIs
    <3> QED  BY <3>1, <3>2, HeldShrinks DEF Pools, Used
  <2> QED  BY <2>1, <2>2, <2>3
<1>6. Used(r)'
  BY <1>2, <1>5 DEF Used
<1> QED  BY <1>2, <1>3, <1>6, OthersKeep DEF Pools

LEMMA PoolOfUse ==
  ASSUME Pools, NEW r \in Replicas,
         (\E w \in Workers : Work(r, w)) \/ (\E q \in Requests : Serve(r, q))
  PROVE  Pools'
<1>1. PICK x \in Users, from \in Uses, to \in Uses :
        /\ Takes(r, x, from, to)
        /\ from = "idle" \/ to = "two" => Free(r)
        /\ <<from, to>> \in {<<"idle", "one">>, <<"one", "wait">>, <<"wait", "two">>, <<"two", "one">>,
                             <<"one", "idle">>, <<"wait", "idle">>, <<"two", "idle">>}
  <2>1. ASSUME NEW x \in Users PROVE use[r][x] \in Uses
    BY DEF Pools
  <2>2. Workers \subseteq Users /\ Requests \subseteq Users
    BY DEF Users
  <2>3. CASE \E w \in Workers : Work(r, w)
    BY <2>1, <2>2, <2>3 DEF Uses, Work, Begin, Guard, Second, Evaluated, Commit, Timeout
  <2>4. CASE \E q \in Requests : Serve(r, q)
    BY <2>1, <2>2, <2>4 DEF Uses, Serve, Query, listSecrets, Second, Answer, Leave
  <2> QED  BY <2>3, <2>4
<1> QED  BY <1>1, PoolOfTakes

\* Every step keeps within the pools.
LEMMA StepPools == Inv /\ Pools /\ [Next]_vars => Pools'
<1> SUFFICES ASSUME Inv, Pools, [Next]_vars PROVE Pools'
  OBVIOUS
<1>1. phase \in [Replicas -> Phases]
  BY DEF Inv, Shape
<1>2. ASSUME NEW r \in Replicas, Run(r) PROVE Pools'
  <2>1. CASE Boot(r) \/ Connect(r) \/ Lock(r) \/ River(r) \/ Unlock(r)
    <3>1. UNCHANGED <<use, deaths>>
      BY <2>1 DEF Boot, Connect, Lock, River, Unlock
    <3>2. \A p \in Replicas : Used(p)'
      BY <1>1, <2>1, PoolOfPhase DEF Boot, Connect, Lock, River, Unlock
    <3> QED  BY <3>1, <3>2 DEF Pools
  <2>2. CASE Look(r)
    <3>1. UNCHANGED <<use, deaths>>
      BY <2>2 DEF Look
    <3>2. \A p \in Replicas : Used(p)'
      BY <1>1, <2>2, <3>1, PoolOfPhase, OthersKeep DEF Look, Pools
    <3> QED  BY <3>1, <3>2 DEF Pools
  <2>3. CASE Apply(r)
    <3>1. CASE Ends(r) /\ UNCHANGED deaths
      BY <1>1, <3>1, PoolOfEnds DEF Pools, Ends, Uses
    <3>2. CASE Goes(r, "apply", "migrate") /\ UNCHANGED <<use, deaths>>
      BY <1>1, <3>2, PoolOfPhase DEF Pools
    <3> QED  BY <2>3, <3>1, <3>2 DEF Apply
  <2>4. CASE Exit(r)
    BY <1>1, <2>4, PoolOfEnds DEF Exit, Pools, Ends, Uses
  <2> QED  BY <1>2, <2>1, <2>2, <2>3, <2>4 DEF Run
<1>3. ASSUME NEW r \in Replicas, Stop(r) PROVE Pools'
  <2>1. \A p \in Replicas : Used(p)'
    BY <1>1, <1>3, PoolOfPhase DEF Stop
  <2> QED  BY <1>3, <2>1, ProcessAssumption DEF Stop, Mortal, Pools
<1>4. ASSUME NEW r \in Replicas, Die(r) PROVE Pools'
  <2>1. \A p \in Replicas : Used(p)'
    BY <1>1, <1>4, PoolOfEnds DEF Die
  <2>2. deaths' \in 0..MaxDeaths
    BY <1>4, ProcessAssumption DEF Die, Mortal, Pools
  <2>3. Ends(r)
    BY <1>4 DEF Die
  <2> QED  BY <2>1, <2>2, <2>3 DEF Ends, Pools, Uses
<1>5. CASE UNCHANGED vars
  BY <1>5, OthersKeep DEF vars, Pools
<1> QED  BY <1>2, <1>3, <1>4, <1>5, PoolOfUse DEF Next

(***************************************************************************)
(* Types, and no process ever holds more connections than its pool has:    *)
(* the lock's, those of the workers' transactions and of their guards, and *)
(* those of requests together.                                             *)
(***************************************************************************)
THEOREM TypeCorrect == Spec => []TypeOK
<1>1. Init => Pools
  <2> SUFFICES ASSUME Init PROVE Pools
    OBVIOUS
  <2>1. ASSUME NEW r \in Replicas PROVE Used(r)
    <3>1. Busy(r) = {} /\ Both(r) = {} /\ Lease(r) = 0
      BY DEF Init, Busy, Both, Lease
    <3>2. Held(r) = 0
      BY <3>1, HeldIs, FS_EmptySet
    <3> QED  BY <3>1, <3>2, ProcessAssumption DEF Used
  <2> QED  BY <2>1, ProcessAssumption DEF Init, Pools, Uses
<1>2. Spec => []Pools
  BY <1>1, StepPools, InvHolds, PTL DEF Spec
<1>3. Inv /\ Pools => TypeOK
  BY DEF Inv, Shape, InTurn, Pools, Used, TypeOK
<1> QED  BY <1>2, <1>3, InvHolds, PTL
=============================================================================
