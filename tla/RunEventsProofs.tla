-------------------------- MODULE RunEventsProofs --------------------------
(* What a live view shows, for every definition and any number of viewers. *)
EXTENDS RunEvents, TLAPS

\* A success is final, in the run and in what a handler has fetched of it, and
\* only deletion ends it: then no task is left.
SuccessIsFinal ==
  /\ status = "succeeded" => done = Steps
  /\ deleted => done = {}
  /\ \A v \in Viewers :
       at[v] = "fetchTasks" /\ snap[v].status = "succeeded" => status = "succeeded" \/ deleted

IInv == TypeOK /\ SuccessIsFinal /\ SucceededShowsAll

LEMMA Initially == Init => IInv
<1> SUFFICES ASSUME Init PROVE IInv
  OBVIOUS
<1> USE DEF Init, Run!Init
<1>1. Nothing \in [status : Statuses, done : SUBSET Steps] /\ Nothing.status = "none"
  BY DEF Nothing, Statuses
<1>2. TypeOK
  <2>1. status \in Statuses /\ done \subseteq Steps /\ retries \in 0..MaxRetries /\ deleted \in BOOLEAN
    <3>1. status \in Statuses /\ done \subseteq Steps
      BY DEF Statuses
    <3>2. retries \in 0..MaxRetries
      BY ViewersAssumption
    <3>3. deleted \in BOOLEAN
      OBVIOUS
    <3> QED
      BY <3>1, <3>2, <3>3
  <2>2. at \in [Viewers -> Places] /\ \A v \in Viewers : at[v] \notin {"closed", "gone"}
    BY DEF Places
  <2>3. late \in [Viewers -> BOOLEAN] /\ ch \in [Viewers -> BOOLEAN] /\ ping \in [Viewers -> BOOLEAN]
    OBVIOUS
  <2>4. /\ snap \in [Viewers -> [status : Statuses, done : SUBSET Steps]]
        /\ sent \in [Viewers -> [status : Statuses, done : SUBSET Steps]]
    BY <1>1
  <2> QED
    BY <2>1, <2>2, <2>3, <2>4 DEF TypeOK
<1>3. SuccessIsFinal
  BY DEF SuccessIsFinal
<1>4. SucceededShowsAll
  BY <1>1 DEF SucceededShowsAll
<1> QED
  BY <1>2, <1>3, <1>4 DEF IInv

\* The engine never takes a success back.
LEMMA EngineKeeps == IInv /\ Engine => IInv'
<1> SUFFICES ASSUME IInv, Engine PROVE IInv'
  OBVIOUS
<1>1. status' \in Statuses /\ done' \subseteq Steps
  BY DEF IInv, TypeOK, Engine, Run!Start, Run!Complete, Run!Succeed, Run!Fail, Run!Cancel,
     Run!Retry, Run!Open, Statuses
<1>2. retries' \in 0..MaxRetries
  BY ViewersAssumption DEF IInv, TypeOK, Engine
<1>3. status = "succeeded" => status' = "succeeded" /\ done' = done
  BY DEF Engine, Run!Start, Run!Complete, Run!Succeed, Run!Fail, Run!Cancel, Run!Retry, Run!Open
<1>4. status' = "succeeded" => done' = Steps
  BY <1>3 DEF IInv, SuccessIsFinal, Engine, Run!Start, Run!Complete, Run!Succeed, Run!Fail,
     Run!Cancel, Run!Retry, Run!Open
<1>5. ~deleted /\ UNCHANGED <<deleted, at, late, ch, ping, snap, sent>>
  BY DEF Engine
<1> QED
  BY <1>1, <1>2, <1>3, <1>4, <1>5 DEF IInv, TypeOK, SuccessIsFinal, SucceededShowsAll

\* Deletion takes all tasks, and what was shown before stays as it was.
LEMMA DeleteKeeps == IInv /\ deleteWorkflow => IInv'
<1> SUFFICES ASSUME IInv, deleteWorkflow PROVE IInv'
  OBVIOUS
<1> USE DEF IInv, deleteWorkflow
<1>1. TypeOK'
  BY DEF TypeOK, Statuses
<1>2. SuccessIsFinal'
  BY DEF SuccessIsFinal
<1>3. SucceededShowsAll'
  BY DEF SucceededShowsAll
<1> QED
  BY <1>1, <1>2, <1>3

\* The first query finds the status as it is.
LEMMA FetchRunKeeps == ASSUME NEW v \in Viewers PROVE IInv /\ FetchRun(v) => IInv'
<1> SUFFICES ASSUME IInv, FetchRun(v) PROVE IInv'
  OBVIOUS
<1> DEFINE got == [status |-> status, done |-> {}]
<1>0. Fetched(v, 1) = got
  BY DEF Fetched, Nothing
<1> USE DEF IInv, FetchRun, Closes, Goes
<1>1. TypeOK'
  <2>1. got \in [status : Statuses, done : SUBSET Steps]
    BY DEF TypeOK
  <2> HIDE DEF got
  <2>2. snap' \in [Viewers -> [status : Statuses, done : SUBSET Steps]]
    BY <1>0, <2>1 DEF TypeOK
  <2>3. at' \in [Viewers -> Places] /\ ch' \in [Viewers -> BOOLEAN] /\ ping' \in [Viewers -> BOOLEAN]
    BY DEF TypeOK, Places
  <2>4. \A w \in Viewers : at'[w] \in {"closed", "gone"} => ~ch'[w]
    BY DEF TypeOK, Places
  <2>5. UNCHANGED <<status, done, retries, deleted, late, sent>>
    BY DEF run
  <2> QED
    BY <2>2, <2>3, <2>4, <2>5 DEF TypeOK
<1>2. SuccessIsFinal'
  <2>1. UNCHANGED <<status, done, deleted>>
    BY DEF run
  <2>2. ASSUME NEW w \in Viewers, at'[w] = "fetchTasks", snap'[w].status = "succeeded"
        PROVE  status = "succeeded" \/ deleted
    <3>1. CASE w = v
      <4>1. snap'[v] = got
        BY <1>0, <2>2, <3>1 DEF TypeOK
      <4> QED
        BY <2>2, <3>1, <4>1
    <3>2. CASE w # v
      <4>1. at'[w] = at[w] /\ snap'[w] = snap[w]
        BY <3>2 DEF TypeOK
      <4> QED
        BY <2>2, <4>1 DEF SuccessIsFinal
    <3> QED
      BY <3>1, <3>2
  <2> QED
    BY <2>1, <2>2 DEF SuccessIsFinal
<1>3. SucceededShowsAll'
  BY DEF SucceededShowsAll, run
<1> QED
  BY <1>1, <1>2, <1>3

\* The second finds every task of a run that was a success at the first, or none.
LEMMA FetchTasksKeeps == ASSUME NEW v \in Viewers PROVE IInv /\ FetchTasks(v) => IInv'
<1> SUFFICES ASSUME IInv, FetchTasks(v) PROVE IInv'
  OBVIOUS
<1> DEFINE got == [status |-> snap[v].status, done |-> done]
<1>0. Fetched(v, 2) = got
  BY DEF IInv, TypeOK, Fetched
<1> USE DEF IInv, FetchTasks, Closes, Goes
<1>1. TypeOK'
  <2>1. got \in [status : Statuses, done : SUBSET Steps]
    BY DEF TypeOK
  <2> HIDE DEF got
  <2>0. Nothing \in [status : Statuses, done : SUBSET Steps]
    BY DEF Nothing, Statuses
  <2>2. /\ snap' \in [Viewers -> [status : Statuses, done : SUBSET Steps]]
        /\ sent' \in [Viewers -> [status : Statuses, done : SUBSET Steps]]
    BY <1>0, <2>0, <2>1 DEF TypeOK
  <2> QED
    BY <2>2 DEF TypeOK, run, Places
<1>2. SuccessIsFinal'
  BY DEF TypeOK, SuccessIsFinal, run
<1>3. SucceededShowsAll'
  BY <1>0 DEF TypeOK, SuccessIsFinal, SucceededShowsAll, run
<1> QED
  BY <1>1, <1>2, <1>3

\* The other steps of a handler, and the pings, fetch nothing.
LEMMA OthersKeep ==
  ASSUME NEW v \in Viewers
  PROVE  IInv /\ (Subscribe(v) \/ Ticker(v) \/ Coalesced(v) \/ Pinged(v) \/ Absorb(v) \/ notify(v)
                    \/ ChannelCloses(v) \/ Leaves(v) \/ Wait(v) \/ Deadline(v)) => IInv'
<1> SUFFICES ASSUME IInv,
                    Subscribe(v) \/ Ticker(v) \/ Coalesced(v) \/ Pinged(v) \/ Absorb(v) \/ notify(v)
                      \/ ChannelCloses(v) \/ Leaves(v) \/ Wait(v) \/ Deadline(v)
             PROVE  IInv'
  OBVIOUS
<1> USE DEF IInv, Subscribe, Ticker, Coalesced, Pinged, Absorb, notify, ChannelCloses, Leaves,
            Wait, Deadline, Closes, Goes, run
<1>1. TypeOK'
  BY DEF TypeOK, Places
<1>2. SuccessIsFinal'
  BY DEF TypeOK, SuccessIsFinal
<1>3. SucceededShowsAll'
  BY DEF SucceededShowsAll
<1> QED
  BY <1>1, <1>2, <1>3

LEMMA Inductive == IInv /\ [Next]_vars => IInv'
<1> SUFFICES ASSUME IInv, [Next]_vars PROVE IInv'
  OBVIOUS
<1>1. CASE Engine
  BY <1>1, EngineKeeps
<1>4. CASE deleteWorkflow
  BY <1>4, DeleteKeeps
<1>2. ASSUME NEW v \in Viewers,
             \/ Stream(v) \/ Pinged(v) \/ Absorb(v) \/ notify(v) \/ ChannelCloses(v)
             \/ Wait(v) \/ Fetch(v) \/ Deadline(v)
             \/ Leaves(v)
      PROVE  IInv'
  BY <1>2, FetchRunKeeps, FetchTasksKeeps, OthersKeep DEF Stream, Fetch
<1>3. CASE UNCHANGED vars
  BY <1>3 DEF vars, IInv, TypeOK, SuccessIsFinal, SucceededShowsAll
<1> QED
  BY <1>1, <1>2, <1>3, <1>4, ViewersAssumption DEF Next, Streams

(***************************************************************************)
(* Whatever the engine does between the two queries of fetchRun, and even  *)
(* if the run is deleted there, a viewer that is shown a success is shown  *)
(* all of its steps done or, after a deletion, no task: never a part of    *)
(* them (api.go fetchRun, runEvents, deleteWorkflow).                      *)
(***************************************************************************)
THEOREM ViewIsNotPartial == Spec => [](TypeOK /\ SucceededShowsAll)
<1>1. IInv => TypeOK /\ SucceededShowsAll
  BY DEF IInv
<1> QED
  BY <1>1, Initially, Inductive, PTL DEF Spec
=============================================================================
