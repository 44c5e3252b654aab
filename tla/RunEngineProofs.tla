-------------------------- MODULE RunEngineProofs --------------------------
(***************************************************************************)
(* Theorems about RunEngine, for every definition, any number of replicas  *)
(* and callers, and any bound on user retries.                             *)
(***************************************************************************)
EXTENDS RunEngine, TLAPS

(* What one step may do to a task row: leave it, move a live row on, or      *)
(* insert one: the first of a ready step, or the successor of a latest       *)
(* attempt that failed or was canceled.                                      *)
Inserted(s, a) ==
    /\ task[s][a] = "absent"
    /\ IF a = 1 THEN s \in Ready
                ELSE a - 1 \in Attempts /\ IsLatest(s, a - 1) /\ task'[s][a - 1] \in Unsuccessful
    /\ a <= Retries[s] + 1 + retryRuns'
    /\ run' \notin {"none", "canceled"}

RowRule(s, a) ==
    \/ task'[s][a] = task[s][a]
    \/ task[s][a] \in Live /\ task'[s][a] # "absent"
    \/ Inserted(s, a)

\* A step with rows has a latest one.
HasLatest == \A s \in Steps : NoRows(s) \/ \E a \in Attempts : IsLatest(s, a)

Rows == TypeOK /\ AttemptHistory /\ HasLatest /\ NeedsFirst /\ AttemptBudget

\* Before the run starts there are no jobs and no rows.
NotStarted == run = "none" => advances = 0 /\ \A s \in Steps : NoRows(s)

Inv == Rows /\ NotStarted /\ SucceededIsComplete /\ CanceledIsQuiet

-----------------------------------------------------------------------------
\* A live attempt is the latest of its step.
LEMMA LiveIsLatest ==
    ASSUME TypeOK, AttemptHistory, NEW s \in Steps, NEW a \in Attempts, task[s][a] \in Live
    PROVE  IsLatest(s, a)
BY BoundsAssumption DEF TypeOK, AttemptHistory, IsLatest, Live, Unsuccessful, Attempts

-----------------------------------------------------------------------------
(* Every action keeps the types.                                             *)

\* Writing a value of the right type keeps the type.
LEMMA PutType ==
    ASSUME NEW S, NEW f \in Table(S), NEW s, NEW a, NEW v \in S
    PROVE  Put(f, s, a, v) \in Table(S)
BY DEF Put, Table

\* Every status is listed.
LEMMA Members ==
    /\ {"queued", "running", "succeeded", "failed", "canceled"} \subseteq RunStatus
    /\ {"queued", "running", "suspended", "succeeded", "failed", "skipped", "canceled"}
           \subseteq TaskStatus
    /\ {"available", "loaded", "executing", "dead", "overdue", "done"} \subseteq ExecState
    /\ {"delay", "callback", "gone"} \subseteq SuspState
    /\ {"available", "loaded", "done"} \subseteq JobState
BY DEF RunStatus, TaskStatus, ExecState, SuspState, JobState

\* Initially the types hold.
LEMMA TypeInit == Init => TypeOK
BY BoundsAssumption DEF Init, TypeOK, Table, RunStatus, TaskStatus, ExecState, SuspState,
                        JobState, CallState

\* The types are kept by every step.
LEMMA TypeStep == TypeOK /\ Next => TypeOK'
<1> SUFFICES ASSUME TypeOK, Next PROVE TypeOK'
    OBVIOUS
<1> USE BoundsAssumption, DefinitionAssumption, PutType, Members
<1>1. CASE StartRun
    BY <1>1 DEF StartRun, TypeOK
<1>2. ASSUME NEW acked \in {0, 1}, Advance(acked) PROVE TypeOK'
    <2>1. CASE AdvanceNoop(acked)
        BY <2>1 DEF AdvanceNoop, TypeOK
    <2>2. CASE AdvanceFail(acked)
        BY <2>2 DEF AdvanceFail, TypeOK
    <2>3. CASE AdvanceSucceed(acked)
        BY <2>3 DEF AdvanceSucceed, TypeOK
    <2>4. CASE AdvanceEnqueue(acked)
        <3>1. PICK verdict \in [Ready -> {"run", "skip", "error"}] : AdvanceEnqueue(acked)!5!(verdict)
            BY <2>4 DEF AdvanceEnqueue
        <3>2. \A s \in Ready : FirstRow(verdict[s]) \in TaskStatus
            BY <3>1 DEF FirstRow
        <3>3. task' \in Table(TaskStatus)
            BY <3>1, <3>2 DEF TypeOK, Table
        <3>4. exec' \in Table(ExecState)
            BY <3>1 DEF TypeOK, Table
        <3>5. advances' \in Nat
            BY <3>1, <2>4 DEF TypeOK, AdvanceEnqueue
        <3> QED
            BY <2>4, <3>3, <3>4, <3>5 DEF AdvanceEnqueue, TypeOK
    <2> QED
        BY <1>2, <2>1, <2>2, <2>3, <2>4 DEF Advance
<1>3. ASSUME NEW s \in Steps, NEW a \in Attempts, Execute(s, a) PROVE TypeOK'
    <2>1. CASE ExecuteLoad(s, a)
        BY <2>1 DEF ExecuteLoad, TypeOK
    <2>2. CASE ExecuteFailEarly(s, a)
        BY <2>2 DEF ExecuteFailEarly, FinishTask, Resolve, TypeOK
    <2>3. CASE ExecuteStart(s, a)
        BY <2>3 DEF ExecuteStart, TypeOK
    <2>4. CASE ExecuteFinish(s, a)
        BY <2>4 DEF ExecuteFinish, FinishTask, Resolve, TypeOK
    <2>5. CASE SuspendTask(s, a)
        BY <2>5 DEF SuspendTask, TypeOK, Kinds
    <2>6. CASE ExecuteDies(s, a)
        BY <2>6 DEF ExecuteDies, TypeOK
    <2> QED
        BY <1>3, <2>1, <2>2, <2>3, <2>4, <2>5, <2>6 DEF Execute
<1>4. ASSUME NEW s \in Steps, NEW a \in Attempts, Overdue(s, a) PROVE TypeOK'
    BY <1>4 DEF Overdue, TypeOK
<1>5. ASSUME NEW s \in Steps, NEW a \in Attempts, NEW r \in Reapers, Reap(r, s, a) PROVE TypeOK'
    BY <1>5 DEF Reap, ReapTask, ReapTaskFails, Resolve, TypeOK
<1>6. ASSUME NEW s \in Steps, NEW a \in Attempts, ResumeJob(s, a) PROVE TypeOK'
    BY <1>6 DEF ResumeJob, ResumeJobLoad, ResumeJobCommit, ResumeJobFails, ResumeSuspended, TypeOK
<1>7. ASSUME NEW s \in Steps, NEW a \in Attempts, NEW c \in Callers, ResumeCall(s, a, c)
      PROVE  TypeOK'
    <2>1. PICK v \in CallState : call' = [call EXCEPT ![s][a][c] = v]
        BY <1>7 DEF ResumeCall, ResumeCallLoad, ResumeCallCommit, CallState
    <2>2. call' \in Table([Callers -> CallState])
        BY <2>1 DEF TypeOK, Table
    <2> QED
        BY <1>7, <2>2 DEF ResumeCall, ResumeCallLoad, ResumeCallCommit, ResumeSuspended, TypeOK
<1>8. ASSUME NEW r \in Reapers, ReapOrphans(r) PROVE TypeOK'
    BY <1>8 DEF ReapOrphans, OrphanTasks, TypeOK
<1>9. CASE CancelRun
    <2>1. task' \in Table(TaskStatus)
        BY <1>9 DEF CancelRun, TypeOK, Table
    <2> QED
        BY <1>9, <2>1 DEF CancelRun, TypeOK
<1>10. CASE RetryRun
    <2>1. task' \in Table(TaskStatus)
        BY <1>10 DEF RetryRun, TypeOK, Table
    <2>2. exec' \in Table(ExecState)
        BY <1>10 DEF RetryRun, TypeOK, Table
    <2> QED
        BY <1>10, <2>1, <2>2 DEF RetryRun, TypeOK
<1> QED
    BY <1>1, <1>2, <1>3, <1>4, <1>5, <1>6, <1>7, <1>8, <1>9, <1>10 DEF Next

-----------------------------------------------------------------------------
(* Every action follows the row rule.                                        *)

\* What a written table holds.
LEMMA PutValue ==
    ASSUME NEW S, NEW f \in Table(S), NEW s \in Steps, NEW a, NEW v,
           NEW t \in Steps, NEW b \in Attempts
    PROVE  Put(f, s, a, v)[t][b] = IF t = s /\ b = a THEN v ELSE f[t][b]
BY DEF Put, Table

\* finishTask and reapTask resolve a live row and insert at most its successor.
LEMMA ResolveRows ==
    ASSUME Inv, NEW s \in Steps, NEW a \in Attempts, NEW status \in {"succeeded", "failed"},
           NEW retrying \in BOOLEAN, Resolve(s, a, status, retrying),
           task[s][a] \in {"queued", "running"},
           retrying => status = "failed" /\ a <= Retries[s],
           run' = run, retryRuns' = retryRuns
    PROVE  \A t \in Steps, b \in Attempts : RowRule(t, b)
<1>1. IsLatest(s, a)
    BY LiveIsLatest DEF Inv, Rows, Live
<1>2. run \notin {"none", "canceled"}
    BY DEF Inv, NotStarted, NoRows, CanceledIsQuiet, Live
<1> SUFFICES ASSUME NEW t \in Steps, NEW b \in Attempts PROVE RowRule(t, b)
    OBVIOUS
<1>3. CASE ~retrying
    <2>1. task'[t][b] = IF t = s /\ b = a THEN status ELSE task[t][b]
        BY <1>3, PutValue DEF Resolve, Inv, Rows, TypeOK
    <2> QED
        BY <2>1 DEF RowRule, Live
<1>4. CASE retrying
    <2>1. \A c \in Attempts : task'[t][c] = IF t = s /\ c = a + 1 THEN "queued"
                                            ELSE IF t = s /\ c = a THEN status ELSE task[t][c]
        <3> SUFFICES ASSUME NEW c \in Attempts PROVE <2>1!(c)
            OBVIOUS
        <3>1. Put(task, s, a, status) \in Table(TaskStatus)
            BY PutType, Members DEF Inv, Rows, TypeOK
        <3>2. task'[t][c] = IF t = s /\ c = a + 1 THEN "queued" ELSE Put(task, s, a, status)[t][c]
            BY <1>4, <3>1, PutValue DEF Resolve
        <3>3. Put(task, s, a, status)[t][c] = IF t = s /\ c = a THEN status ELSE task[t][c]
            BY PutValue DEF Inv, Rows, TypeOK
        <3> QED
            BY <3>2, <3>3
    <2>2. CASE t = s /\ b = a + 1
        <3>1. task[s][b] = "absent" /\ b # 1 /\ b - 1 = a
            BY <1>1, <2>2, BoundsAssumption DEF IsLatest, Attempts
        <3>2. task'[s][a] \in Unsuccessful
            BY <1>4, <2>1, <2>2 DEF Unsuccessful, Attempts
        <3>3. b <= Retries[s] + 1 + retryRuns'
            BY <1>4, <2>2, DefinitionAssumption, BoundsAssumption DEF Attempts, Inv, Rows, TypeOK
        <3> QED
            BY <1>1, <1>2, <2>2, <3>1, <3>2, <3>3 DEF RowRule, Inserted
    <2>3. CASE ~(t = s /\ b = a + 1)
        BY <2>1, <2>3 DEF RowRule, Live
    <2> QED
        BY <2>2, <2>3
<1> QED
    BY <1>3, <1>4

\* A step that leaves the tasks alone follows the rule.
LEMMA SameRows ==
    ASSUME UNCHANGED task
    PROVE  \A t \in Steps, b \in Attempts : RowRule(t, b)
BY DEF RowRule

\* A step that moves one live row on follows the rule.
LEMMA MoveRow ==
    ASSUME TypeOK, NEW s \in Steps, NEW a \in Attempts, task[s][a] \in Live,
           NEW v, v # "absent", task' = Put(task, s, a, v)
    PROVE  \A t \in Steps, b \in Attempts : RowRule(t, b)
BY PutValue DEF RowRule, TypeOK

\* The rule holds of every step.
LEMMA RowStep ==
    Inv /\ Next => \A t \in Steps, b \in Attempts : RowRule(t, b)
<1> SUFFICES ASSUME Inv, Next PROVE \A t \in Steps, b \in Attempts : RowRule(t, b)
    OBVIOUS
<1> DEFINE Rule == \A t \in Steps, b \in Attempts : RowRule(t, b)
<1> SUFFICES Rule
    OBVIOUS
<1> HIDE DEF Rule
<1>1. UNCHANGED task => Rule
    BY SameRows DEF Rule
<1>2. \A s \in Steps, a \in Attempts, v \in TaskStatus \ {"absent"} :
        task[s][a] \in Live /\ task' = Put(task, s, a, v) => Rule
    BY MoveRow DEF Rule, Inv, Rows
<1>3. ASSUME NEW acked \in {0, 1}, Advance(acked) PROVE Rule
    <2>1. CASE AdvanceEnqueue(acked)
        <3>1. PICK verdict \in [Ready -> {"run", "skip", "error"}] : AdvanceEnqueue(acked)!5!(verdict)
            BY <2>1 DEF AdvanceEnqueue
        <3> SUFFICES ASSUME NEW t \in Steps, NEW b \in Attempts PROVE RowRule(t, b)
            BY DEF Rule
        <3>2. CASE t \in Ready /\ b = 1
            <4>1. task[t][b] = "absent"
                BY <3>2 DEF Ready, NoRows
            <4>2. run' \notin {"none", "canceled"}
                BY <2>1 DEF AdvanceEnqueue, Terminal, Inv, NotStarted
            <4>3. b <= Retries[t] + 1 + retryRuns'
                BY <2>1, <3>2, DefinitionAssumption, BoundsAssumption DEF AdvanceEnqueue, Inv, Rows, TypeOK
            <4> QED
                BY <3>2, <4>1, <4>2, <4>3 DEF RowRule, Inserted
        <3>3. CASE ~(t \in Ready /\ b = 1)
            BY <3>1, <3>3 DEF RowRule, Inv, Rows, TypeOK, Table
        <3> QED
            BY <3>2, <3>3
    <2> QED
        BY <1>1, <1>3, <2>1 DEF Advance, AdvanceNoop, AdvanceFail, AdvanceSucceed
<1>4. ASSUME NEW s \in Steps, NEW a \in Attempts, NEW retries \in {0, Retries[s]},
             NEW status \in {"succeeded", "failed"}, FinishTask(s, a, status, retries),
             run' = run, retryRuns' = retryRuns
      PROVE  Rule
    <2>1. CASE FinishGuard(task[s][a])
        <3> DEFINE retrying == status = "failed" /\ RetriesLeft(a, retries)
        <3>1. Resolve(s, a, status, retrying)
            BY <1>4, <2>1 DEF FinishTask
        <3>2. retrying => status = "failed" /\ a <= Retries[s]
            BY DefinitionAssumption, BoundsAssumption DEF RetriesLeft, Attempts
        <3> HIDE DEF retrying
        <3>3. CASE retrying
            <4>1. Resolve(s, a, status, TRUE)
                BY <3>1, <3>3 DEF Resolve
            <4> QED
                BY <1>4, <2>1, <3>2, <3>3, <4>1, ResolveRows DEF Rule, FinishGuard
        <3>4. CASE ~retrying
            <4>1. Resolve(s, a, status, FALSE)
                BY <3>1, <3>4 DEF Resolve
            <4> QED
                BY <1>4, <2>1, <4>1, ResolveRows DEF Rule, FinishGuard
        <3> QED
            BY <3>3, <3>4
    <2>2. CASE ~FinishGuard(task[s][a])
        BY <1>1, <1>4, <2>2 DEF FinishTask
    <2> QED
        BY <2>1, <2>2
<1>5. ASSUME NEW s \in Steps, NEW a \in Attempts, Execute(s, a) PROVE Rule
    <2>1. CASE ExecuteFailEarly(s, a)
        BY <1>4, <2>1 DEF ExecuteFailEarly
    <2>2. CASE ExecuteFinish(s, a)
        BY <1>4, <2>2 DEF ExecuteFinish
    <2>3. CASE ExecuteStart(s, a)
        BY <1>1, <1>2, <2>3 DEF ExecuteStart, Live, TaskStatus
    <2>4. CASE SuspendTask(s, a)
        BY <1>1, <1>2, <2>4 DEF SuspendTask, SuspendGuard, Live, TaskStatus
    <2> QED
        BY <1>1, <1>5, <2>1, <2>2, <2>3, <2>4 DEF Execute, ExecuteLoad, ExecuteDies
<1>6. ASSUME NEW s \in Steps, NEW a \in Attempts, NEW r \in Reapers, Reap(r, s, a) PROVE Rule
    <2>1. CASE ReapTask(r, s, a) /\ ReapGuard(task[s][a])
        <3>1. CASE RetriesLeft(a, Retries[s])
            <4>1. Resolve(s, a, "failed", TRUE)
                BY <2>1, <3>1 DEF ReapTask, Resolve
            <4> QED
                BY <2>1, <3>1, <4>1, ResolveRows DEF Rule, ReapTask, ReapGuard, RetriesLeft
        <3>2. CASE ~RetriesLeft(a, Retries[s])
            <4>1. Resolve(s, a, "failed", FALSE)
                BY <2>1, <3>2 DEF ReapTask, Resolve
            <4> QED
                BY <2>1, <4>1, ResolveRows DEF Rule, ReapTask, ReapGuard
        <3> QED
            BY <3>1, <3>2
    <2> QED
        BY <1>1, <1>6, <2>1 DEF Reap, ReapTask, ReapTaskFails
<1>7. ASSUME NEW s \in Steps, NEW a \in Attempts, ResumeSuspended(s, a) PROVE Rule
    BY <1>1, <1>2, <1>7 DEF ResumeSuspended, ResumeGuard, Live, TaskStatus
<1>8. CASE CancelRun
    BY <1>8 DEF Rule, RowRule, CancelRun, Cancelable, Inv, Rows, TypeOK, Table, Live
<1>9. CASE RetryRun
    <2> SUFFICES ASSUME NEW t \in Steps, NEW b \in Attempts PROVE RowRule(t, b)
        BY DEF Rule
    <2>1. task'[t][b] = IF Redo(t, b) THEN "queued" ELSE task[t][b]
        BY <1>9 DEF RetryRun
    <2>2. CASE Redo(t, b)
        <3>1. task[t][b] = "absent" /\ b # 1 /\ b - 1 \in Attempts
            BY <2>2, BoundsAssumption DEF Redo, IsLatest, Attempts
        <3>2. task'[t][b - 1] = task[t][b - 1]
            <4>1. ~Redo(t, b - 1)
                BY <2>2, <3>1, BoundsAssumption DEF Redo, IsLatest, Attempts
            <4> QED
                BY <1>9, <3>1, <4>1 DEF RetryRun
        <3>3. b <= Retries[t] + 1 + retryRuns'
            BY <1>9, <2>2, <3>1, DefinitionAssumption, BoundsAssumption
               DEF RetryRun, Redo, IsLatest, Inv, Rows, TypeOK, AttemptBudget, Attempts
        <3>4. run' \notin {"none", "canceled"}
            BY <1>9 DEF RetryRun
        <3> QED
            BY <2>2, <3>1, <3>2, <3>3, <3>4 DEF RowRule, Inserted, Redo
    <2> QED
        BY <2>1, <2>2 DEF RowRule
<1> QED
    BY <1>1, <1>3, <1>5, <1>6, <1>7, <1>8, <1>9
       DEF Next, StartRun, Overdue, ResumeJob, ResumeJobLoad, ResumeJobCommit, ResumeJobFails,
           ResumeCall, ResumeCallLoad, ResumeCallCommit, ReapOrphans

-----------------------------------------------------------------------------
(* What the row rule preserves.                                              *)

Rule == \A t \in Steps, b \in Attempts : RowRule(t, b)

\* Terminal rows stay as they are.
LEMMA FinalRows ==
    ASSUME TypeOK, Rule, NEW s \in Steps, NEW a \in Attempts,
           task[s][a] \in Satisfied \cup Unsuccessful
    PROVE  task'[s][a] = task[s][a]
BY DEF Rule, RowRule, Inserted, Satisfied, Unsuccessful, Live

\* Rows are never deleted.
LEMMA KeptRows ==
    ASSUME TypeOK, Rule, NEW s \in Steps, NEW a \in Attempts, task[s][a] # "absent"
    PROVE  task'[s][a] # "absent"
BY DEF Rule, RowRule, Inserted

\* The history of attempts stays in order.
LEMMA HistoryStep ==
    ASSUME TypeOK, AttemptHistory, Rule
    PROVE  AttemptHistory'
<1> SUFFICES ASSUME NEW s \in Steps, NEW a \in Attempts, NEW b \in Attempts,
                    b < a, task'[s][a] # "absent"
             PROVE  task'[s][b] \in Unsuccessful
    BY DEF AttemptHistory
<1>1. CASE task[s][a] # "absent"
    <2>1. task[s][b] \in Unsuccessful
        BY <1>1 DEF AttemptHistory
    <2> QED
        BY <2>1, FinalRows
<1>2. CASE task[s][a] = "absent"
    <2>1. Inserted(s, a) /\ a # 1
        BY <1>2, BoundsAssumption DEF Rule, RowRule, Live, Attempts
    <2>2. CASE b = a - 1
        BY <2>1, <2>2 DEF Inserted
    <2>3. CASE b # a - 1
        <3>1. b < a - 1 /\ a - 1 \in Attempts /\ task[s][a - 1] # "absent"
            BY <2>1, <2>3, BoundsAssumption DEF Inserted, IsLatest, Attempts
        <3>2. task[s][b] \in Unsuccessful
            BY <3>1 DEF AttemptHistory
        <3> QED
            BY <3>2, FinalRows
    <2> QED
        BY <2>2, <2>3
<1> QED
    BY <1>1, <1>2

\* A done step stays done.
LEMMA DoneStays ==
    ASSUME TypeOK, AttemptHistory', Rule, NEW s \in Steps, Done(s)
    PROVE  Done(s)'
<1>1. PICK a \in Attempts : IsLatest(s, a) /\ task[s][a] \in Satisfied
    BY DEF Done, LatestIn
<1>2. task'[s][a] \in Satisfied
    BY <1>1, FinalRows
<1>3. ASSUME NEW b \in Attempts, b > a PROVE task'[s][b] = "absent"
    BY <1>2, <1>3, BoundsAssumption DEF AttemptHistory, Satisfied, Unsuccessful, Attempts
<1> QED
    BY <1>2, <1>3 DEF Done, LatestIn, IsLatest, Satisfied

\* A step with rows keeps a latest one.
LEMMA LatestStep ==
    ASSUME TypeOK, HasLatest, Rule
    PROVE  HasLatest'
<1> SUFFICES ASSUME NEW s \in Steps PROVE NoRows(s)' \/ \E a \in Attempts : IsLatest(s, a)'
    BY DEF HasLatest
<1>1. CASE NoRows(s)
    <2>1. \A b \in Attempts : b # 1 => task'[s][b] = "absent"
        BY <1>1, BoundsAssumption DEF Rule, RowRule, Inserted, IsLatest, NoRows, Live, Attempts
    <2> QED
        BY <2>1, BoundsAssumption DEF NoRows, IsLatest, Attempts
<1>2. ASSUME NEW a \in Attempts, IsLatest(s, a) PROVE \E c \in Attempts : IsLatest(s, c)'
    <2>1. task'[s][a] # "absent"
        BY <1>2, KeptRows DEF IsLatest
    <2>2. ASSUME NEW b \in Attempts, b > a, b # a + 1 PROVE task'[s][b] = "absent"
        <3>1. ~Inserted(s, b)
            <4> SUFFICES ASSUME Inserted(s, b) PROVE FALSE
                OBVIOUS
            <4>1. b - 1 \in Attempts /\ b - 1 > a /\ task[s][b - 1] # "absent"
                BY <2>2, BoundsAssumption DEF Inserted, IsLatest, Attempts
            <4> QED
                BY <1>2, <4>1 DEF IsLatest
        <3> QED
            BY <1>2, <2>2, <3>1 DEF Rule, RowRule, IsLatest, Live
    <2>3. CASE a + 1 \in Attempts /\ task'[s][a + 1] # "absent"
        <3>1. \A b \in Attempts : b > a + 1 => task'[s][b] = "absent"
            BY <2>2, BoundsAssumption DEF Attempts
        <3> QED
            BY <2>3, <3>1 DEF IsLatest
    <2>4. CASE ~(a + 1 \in Attempts /\ task'[s][a + 1] # "absent")
        <3>1. \A b \in Attempts : b > a => task'[s][b] = "absent"
            BY <2>2, <2>4
        <3> QED
            BY <2>1, <3>1 DEF IsLatest
    <2> QED
        BY <2>3, <2>4
<1> QED
    BY <1>1, <1>2 DEF HasLatest

\* A step has rows only after what it needs is done.
LEMMA NeedsStep ==
    ASSUME TypeOK, NeedsFirst, AttemptHistory', Rule
    PROVE  NeedsFirst'
<1> SUFFICES ASSUME NEW s \in Steps, ~NoRows(s)', NEW n \in Needs[s] PROVE Done(n)'
    BY DEF NeedsFirst
<1>1. n \in Steps
    BY DefinitionAssumption
<1>2. CASE ~NoRows(s)
    BY <1>1, <1>2, DoneStays DEF NeedsFirst
<1>3. CASE NoRows(s)
    <2>1. PICK a \in Attempts : task'[s][a] # "absent"
        BY DEF NoRows
    <2>2. s \in Ready
        BY <1>3, <2>1 DEF Rule, RowRule, Inserted, NoRows, IsLatest, Live
    <2> QED
        BY <1>1, <2>2, DoneStays DEF Ready
<1> QED
    BY <1>2, <1>3

\* Attempts stay within the budget.
LEMMA BudgetStep ==
    ASSUME TypeOK, TypeOK', AttemptBudget, Rule, retryRuns' >= retryRuns
    PROVE  AttemptBudget'
<1> SUFFICES ASSUME NEW s \in Steps, NEW a \in Attempts, task'[s][a] # "absent"
             PROVE  a <= Retries[s] + 1 + retryRuns'
    BY DEF AttemptBudget
<1>1. CASE task[s][a] # "absent"
    BY <1>1, DefinitionAssumption, BoundsAssumption DEF AttemptBudget, TypeOK, Attempts
<1>2. CASE task[s][a] = "absent"
    BY <1>2 DEF Rule, RowRule, Inserted, Live
<1> QED
    BY <1>1, <1>2

-----------------------------------------------------------------------------
(* The status of the run.                                                    *)

\* The status of the run changes only where the run is started, advanced,
\* canceled or retried.
LEMMA RunStep ==
    ASSUME Next
    PROVE  \/ run' = run /\ retryRuns' = retryRuns
           \/ StartRun \/ CancelRun \/ RetryRun
           \/ \E acked \in {0, 1} : Advance(acked)
<1> DEFINE Same == run' = run /\ retryRuns' = retryRuns
<1>1. ASSUME NEW s \in Steps, NEW a \in Attempts, Execute(s, a) PROVE Same
    BY <1>1 DEF Execute, ExecuteLoad, ExecuteFailEarly, ExecuteStart, ExecuteFinish, SuspendTask,
                ExecuteDies
<1>2. ASSUME NEW s \in Steps, NEW a \in Attempts, Overdue(s, a) PROVE Same
    BY <1>2 DEF Overdue
<1>3. ASSUME NEW s \in Steps, NEW a \in Attempts, NEW r \in Reapers, Reap(r, s, a) PROVE Same
    BY <1>3 DEF Reap, ReapTask, ReapTaskFails
<1>4. ASSUME NEW s \in Steps, NEW a \in Attempts, ResumeJob(s, a) PROVE Same
    BY <1>4 DEF ResumeJob, ResumeJobLoad, ResumeJobCommit, ResumeJobFails
<1>5. ASSUME NEW s \in Steps, NEW a \in Attempts, NEW c \in Callers, ResumeCall(s, a, c) PROVE Same
    BY <1>5 DEF ResumeCall, ResumeCallLoad, ResumeCallCommit
<1>6. ASSUME NEW r \in Reapers, ReapOrphans(r) PROVE Same
    BY <1>6 DEF ReapOrphans
<1> QED
    BY <1>1, <1>2, <1>3, <1>4, <1>5, <1>6 DEF Next

\* The number of user retries never decreases.
LEMMA RetryRunsStep ==
    ASSUME TypeOK, Next
    PROVE  retryRuns' >= retryRuns
BY RunStep, BoundsAssumption
   DEF TypeOK, StartRun, CancelRun, RetryRun, Advance, AdvanceNoop, AdvanceFail, AdvanceSucceed,
       AdvanceEnqueue

\* Nothing happens before the run starts.
LEMMA NotStartedStep ==
    ASSUME TypeOK, NotStarted, Rule, Next
    PROVE  NotStarted'
<1> SUFFICES ASSUME run' = "none" PROVE advances' = 0 /\ \A s \in Steps : NoRows(s)'
    BY DEF NotStarted
<1>1. run = "none"
    BY RunStep DEF StartRun, CancelRun, RetryRun, Advance, AdvanceNoop, AdvanceFail, AdvanceSucceed,
                   AdvanceEnqueue
<1>2. \A s \in Steps, a \in Attempts : task'[s][a] = "absent" /\ task[s][a] = "absent"
    BY <1>1 DEF NotStarted, NoRows, Rule, RowRule, Inserted, Live
<1>3. advances' = advances
    <2> USE <1>1, <1>2
    <2>1. ASSUME NEW s \in Steps, NEW a \in Attempts, Execute(s, a) PROVE advances' = advances
        BY <2>1 DEF Execute, ExecuteLoad, ExecuteFailEarly, ExecuteStart, ExecuteFinish, SuspendTask,
                    ExecuteDies, FinishTask, FinishGuard
    <2>2. ASSUME NEW s \in Steps, NEW a \in Attempts, NEW r \in Reapers, Reap(r, s, a)
          PROVE  advances' = advances
        BY <2>2 DEF Reap, ReapTask, ReapTaskFails, ReapGuard
    <2>3. ASSUME NEW s \in Steps, NEW a \in Attempts,
                 ResumeJob(s, a) \/ \E c \in Callers : ResumeCall(s, a, c)
          PROVE  advances' = advances
        BY <2>3 DEF ResumeJob, ResumeJobLoad, ResumeJobCommit, ResumeJobFails, ResumeCall,
                    ResumeCallLoad, ResumeCallCommit, ResumeSuspended, ResumeGuard
    <2>4. ~StartRun /\ ~CancelRun /\ ~RetryRun /\ \A acked \in {0, 1} : ~Advance(acked)
        BY DEF NotStarted, StartRun, CancelRun, RetryRun, Unsuccessful, Advance, AdvanceNoop,
               AdvanceFail, AdvanceSucceed, AdvanceEnqueue
    <2> QED
        BY <2>1, <2>2, <2>3, <2>4 DEF Next, Overdue, ReapOrphans
<1> QED
    BY <1>1, <1>2, <1>3 DEF NotStarted, NoRows

\* A succeeded run stays complete.
LEMMA SucceededStep ==
    ASSUME TypeOK, AttemptHistory', SucceededIsComplete, Rule, Next
    PROVE  SucceededIsComplete'
<1> SUFFICES ASSUME run' = "succeeded" PROVE AllSucceeded'
    BY DEF SucceededIsComplete, AllSucceeded
<1>1. AllSucceeded
    BY RunStep
       DEF SucceededIsComplete, AllSucceeded, StartRun, CancelRun, RetryRun, Advance, AdvanceNoop, AdvanceFail,
           AdvanceSucceed, AdvanceEnqueue, Terminal
<1> QED
    BY <1>1, DoneStays DEF AllSucceeded

\* A canceled run stays quiet.
LEMMA CanceledStep ==
    ASSUME TypeOK, CanceledIsQuiet, Rule, Next
    PROVE  CanceledIsQuiet'
<1> SUFFICES ASSUME run' = "canceled", NEW s \in Steps, NEW a \in Attempts
             PROVE  task'[s][a] \notin Live
    BY DEF CanceledIsQuiet
<1>1. CASE run = "canceled"
    BY <1>1 DEF CanceledIsQuiet, Rule, RowRule, Inserted
<1>2. CASE run # "canceled"
    <2>1. CancelRun
        BY <1>2, RunStep DEF StartRun, RetryRun, Advance, AdvanceNoop, AdvanceFail, AdvanceSucceed,
                             AdvanceEnqueue
    <2> QED
        BY <2>1 DEF CancelRun, Cancelable, Live
<1> QED
    BY <1>1, <1>2

-----------------------------------------------------------------------------
\* Initially there are no rows.
LEMMA InvInit == Init => Inv
<1> SUFFICES ASSUME Init PROVE Inv
    OBVIOUS
<1>1. \A s \in Steps : NoRows(s)
    BY DEF Init, NoRows
<1>2. AttemptHistory /\ HasLatest /\ NeedsFirst /\ AttemptBudget
    BY <1>1 DEF NoRows, AttemptHistory, HasLatest, NeedsFirst, AttemptBudget
<1>3. NotStarted /\ SucceededIsComplete /\ CanceledIsQuiet
    BY <1>1 DEF Init, NotStarted, SucceededIsComplete, CanceledIsQuiet
<1> QED
    BY <1>2, <1>3, TypeInit DEF Inv, Rows

\* A step that changes nothing keeps the invariant.
LEMMA InvStutter == Inv /\ UNCHANGED vars => Inv'
BY DEF vars, Inv, Rows, TypeOK, AttemptHistory, HasLatest, NeedsFirst, AttemptBudget, NoRows, Done,
       LatestIn, IsLatest, NotStarted, SucceededIsComplete, AllSucceeded, CanceledIsQuiet

\* Every step keeps the invariant.
LEMMA InvStep == Inv /\ [Next]_vars => Inv'
<1> SUFFICES ASSUME Inv, Next PROVE Inv'
    BY InvStutter
<1>1. Rule /\ TypeOK'
    BY RowStep, TypeStep DEF Rule, Inv, Rows
<1>2. AttemptHistory'
    BY <1>1, HistoryStep DEF Inv, Rows
<1>3. HasLatest' /\ NeedsFirst' /\ AttemptBudget'
    BY <1>1, <1>2, LatestStep, NeedsStep, BudgetStep, RetryRunsStep DEF Inv, Rows
<1>4. NotStarted' /\ SucceededIsComplete' /\ CanceledIsQuiet'
    BY <1>1, <1>2, NotStartedStep, SucceededStep, CanceledStep DEF Inv, Rows
<1> QED
    BY <1>1, <1>2, <1>3, <1>4 DEF Inv, Rows

\* The invariant holds in every reachable state.
THEOREM Invariance == Spec => []Inv
BY InvInit, InvStep, PTL DEF Spec

\* Type correctness of the rows, jobs and requests (the statuses of 0001_init.sql).
THEOREM TypeCorrect == Spec => []TypeOK
<1>1. Inv => TypeOK
    BY DEF Inv, Rows
<1> QED
    BY <1>1, Invariance, PTL

\* A step is attempted again only after its earlier attempts failed or were
\* canceled, whoever inserts the attempt.
THEOREM AttemptsInOrder == Spec => []AttemptHistory
<1>1. Inv => AttemptHistory
    BY DEF Inv, Rows
<1> QED
    BY <1>1, Invariance, PTL

\* Dependencies are done before a step has a row.
THEOREM NeedsAreFirst == Spec => []NeedsFirst
<1>1. Inv => NeedsFirst
    BY DEF Inv, Rows
<1> QED
    BY <1>1, Invariance, PTL

\* Attempts stay within the retry budget.
THEOREM BudgetKept == Spec => []AttemptBudget
<1>1. Inv => AttemptBudget
    BY DEF Inv, Rows
<1> QED
    BY <1>1, Invariance, PTL

\* A succeeded run is complete, whatever happens after it succeeded.
THEOREM SucceededTrue == Spec => []SucceededIsComplete
<1>1. Inv => SucceededIsComplete
    BY DEF Inv
<1> QED
    BY <1>1, Invariance, PTL

\* A canceled run is quiet, although the workers, the reapers and the resumes
\* that were under way still come back with their results.
THEOREM CanceledTrue == Spec => []CanceledIsQuiet
<1>1. Inv => CanceledIsQuiet
    BY DEF Inv
<1> QED
    BY <1>1, Invariance, PTL

\* Terminal task rows are final: the status guards discard late results.
THEOREM RowsFinal == Spec => TaskRowsAreFinal
<1>1. Inv /\ [Next]_vars =>
        [\A s \in Steps, a \in Attempts :
            task[s][a] \in Satisfied \cup Unsuccessful => task'[s][a] = task[s][a]]_vars
    BY RowStep, FinalRows DEF Rule, Inv, Rows
<1> QED
    BY <1>1, Invariance, PTL DEF Spec, TaskRowsAreFinal

-----------------------------------------------------------------------------
(* The frozen context.                                                       *)

\* With its needs done, everything upstream of a step is done.
LEMMA UpstreamDone ==
    ASSUME Inv, NEW s \in Steps, \A n \in Needs[s] : Done(n)
    PROVE  \A n \in TransitiveNeeds(s) : Done(n)
<1> DEFINE T == {n \in Steps : Done(n)}
<1>1. Needs[s] \subseteq T
    BY DefinitionAssumption
<1>2. ASSUME NEW t \in T PROVE Needs[t] \subseteq T
    <2>1. ~NoRows(t)
        BY DEF Done, LatestIn, IsLatest, NoRows
    <2> QED
        BY <2>1, DefinitionAssumption DEF Inv, Rows, NeedsFirst
<1>3. T \in SUBSET Steps
    OBVIOUS
<1> HIDE DEF T
<1>4. TransitiveNeeds(s) \subseteq T
    BY <1>1, <1>2, <1>3 DEF TransitiveNeeds
<1> QED
    BY <1>4 DEF T

\* A done step neither gains nor loses a succeeded row.
LEMMA DoneOutputStays ==
    ASSUME Inv, Rule, NEW n \in Steps, Done(n)
    PROVE  (\E a \in Attempts : task'[n][a] = "succeeded") <=>
           (\E a \in Attempts : task[n][a] = "succeeded")
<1>1. TypeOK /\ AttemptHistory
    BY DEF Inv, Rows
<1>2. PICK a \in Attempts : IsLatest(n, a) /\ task[n][a] \in Satisfied
    BY DEF Done, LatestIn
<1>3. ASSUME NEW b \in Attempts, task[n][b] = "succeeded" PROVE task'[n][b] = "succeeded"
    BY <1>1, <1>3, FinalRows DEF Satisfied
<1>4. ASSUME NEW b \in Attempts, task'[n][b] = "succeeded" PROVE task[n][b] = "succeeded"
    <2>1. task[n][b] \notin Live
        <3> SUFFICES ASSUME task[n][b] \in Live PROVE FALSE
            OBVIOUS
        <3>1. IsLatest(n, b)
            BY <1>1, LiveIsLatest
        <3>2. a = b
            BY <1>2, <3>1, BoundsAssumption DEF IsLatest, Attempts
        <3> QED
            BY <1>2, <3>2 DEF Live, Satisfied
    <2>2. ~Inserted(n, b)
        <3> SUFFICES ASSUME Inserted(n, b) PROVE FALSE
            OBVIOUS
        <3>1. b # 1
            BY <1>2 DEF Inserted, Ready, NoRows, IsLatest
        <3>2. b - 1 \in Attempts /\ IsLatest(n, b - 1) /\ task'[n][b - 1] \in Unsuccessful
            BY <3>1 DEF Inserted
        <3>3. b - 1 = a
            BY <1>2, <3>2, BoundsAssumption DEF IsLatest, Attempts
        <3>4. task'[n][a] = task[n][a]
            BY <1>1, <1>2, FinalRows
        <3> QED
            BY <1>2, <3>2, <3>3, <3>4 DEF Satisfied, Unsuccessful
    <2> QED
        BY <1>4, <2>1, <2>2 DEF Rule, RowRule
<1> QED
    BY <1>3, <1>4

\* The context of a step is the same for its guard, its attempts and its retries.
THEOREM ContextFrozen == Spec => ContextIsFrozen
<1>1. ASSUME Inv, Next, NEW s \in Steps, \A n \in Needs[s] : Done(n)
      PROVE  RunContext(s)' = RunContext(s)
    <2>1. Rule
        BY <1>1, RowStep DEF Rule
    <2>2. \A n \in TransitiveNeeds(s) :
            (\E a \in Attempts : task'[n][a] = "succeeded") <=>
            (\E a \in Attempts : task[n][a] = "succeeded")
        BY <1>1, <2>1, UpstreamDone, DoneOutputStays DEF TransitiveNeeds
    <2>3. TransitiveNeeds(s)' = TransitiveNeeds(s)
        BY DEF TransitiveNeeds
    <2> QED
        BY <2>2, <2>3 DEF RunContext
<1>2. Inv /\ [Next]_vars =>
        [\A s \in Steps : (\A n \in Needs[s] : Done(n)) => RunContext(s)' = RunContext(s)]_vars
    BY <1>1
<1> QED
    BY <1>2, Invariance, PTL DEF Spec, ContextIsFrozen

-----------------------------------------------------------------------------
(* No run hangs, for every definition, as long as no worker dies between     *)
(* loading a queued task and starting it.  Two facts carry the proof: every  *)
(* live task has something that moves it on, and when no advance_run job is  *)
(* pending an advance would find nothing to do.  That the definition has no  *)
(* cycle then leaves some live task.                                         *)

LiveHasWaker == \A s \in Steps, a \in Attempts : task[s][a] \in Live => HasWaker(s, a)

NothingToDo ==
    run \in {"queued", "running"} /\ advances = 0 =>
        ~AnyFailed /\ ~AllSucceeded /\ Ready = {}

\* A row untouched by a step keeps its waker.
LEMMA SameWaker ==
    ASSUME NEW t \in Steps, NEW b \in Attempts, HasWaker(t, b),
           task'[t][b] = task[t][b], exec'[t][b] = exec[t][b],
           susp'[t][b] = susp[t][b], rjob'[t][b] = rjob[t][b]
    PROVE  HasWaker(t, b)'
BY DEF HasWaker

\* finishTask and reapTask leave their row resolved and give the next one a job.
LEMMA ResolveWakers ==
    ASSUME TypeOK, LiveHasWaker, NEW s \in Steps, NEW a \in Attempts,
           NEW status \in {"succeeded", "failed"}, NEW retrying \in BOOLEAN,
           Resolve(s, a, status, retrying), UNCHANGED <<susp, rjob>>
    PROVE  LiveHasWaker'
<1> SUFFICES ASSUME NEW t \in Steps, NEW b \in Attempts, task'[t][b] \in Live
             PROVE  HasWaker(t, b)'
    BY DEF LiveHasWaker
<1>1. Put(task, s, a, status) \in Table(TaskStatus) /\ Put(exec, s, a, "done") \in Table(ExecState)
    BY PutType, Members DEF TypeOK
<1>2. /\ Put(task, s, a, status)[t][b] = IF t = s /\ b = a THEN status ELSE task[t][b]
      /\ Put(exec, s, a, "done")[t][b] = IF t = s /\ b = a THEN "done" ELSE exec[t][b]
    BY PutValue DEF TypeOK
<1>3. CASE retrying /\ t = s /\ b = a + 1
    <2>1. task'[t][b] = "queued" /\ exec'[t][b] = "available"
        BY <1>1, <1>3, PutValue DEF Resolve
    <2> QED
        BY <2>1 DEF HasWaker
<1>4. CASE ~(retrying /\ t = s /\ b = a + 1)
    <2>1. /\ task'[t][b] = IF t = s /\ b = a THEN status ELSE task[t][b]
          /\ exec'[t][b] = IF t = s /\ b = a THEN "done" ELSE exec[t][b]
        BY <1>1, <1>2, <1>4, PutValue DEF Resolve
    <2>2. ~(t = s /\ b = a)
        BY <2>1 DEF Live
    <2> QED
        BY <2>1, <2>2, SameWaker DEF LiveHasWaker
<1> QED
    BY <1>3, <1>4

\* finishTask, whichever way its guard goes.
LEMMA FinishWakers ==
    ASSUME TypeOK, LiveHasWaker, NEW s \in Steps, NEW a \in Attempts, NEW retries \in Nat,
           NEW status \in {"succeeded", "failed"}, FinishTask(s, a, status, retries),
           UNCHANGED <<susp, rjob>>
    PROVE  LiveHasWaker'
<1>1. CASE FinishGuard(task[s][a])
    <2> DEFINE retrying == status = "failed" /\ RetriesLeft(a, retries)
    <2>1. Resolve(s, a, status, retrying)
        BY <1>1 DEF FinishTask
    <2> HIDE DEF retrying
    <2>2. CASE retrying
        <3>1. Resolve(s, a, status, TRUE)
            BY <2>1, <2>2 DEF Resolve
        <3> QED
            BY <3>1, ResolveWakers
    <2>3. CASE ~retrying
        <3>1. Resolve(s, a, status, FALSE)
            BY <2>1, <2>3 DEF Resolve
        <3> QED
            BY <3>1, ResolveWakers
    <2> QED
        BY <2>2, <2>3
<1>2. CASE ~FinishGuard(task[s][a])
    <2> SUFFICES ASSUME NEW t \in Steps, NEW b \in Attempts, task'[t][b] \in Live
                 PROVE  HasWaker(t, b)'
        BY DEF LiveHasWaker
    <2>1. task' = task /\ exec'[t][b] = IF t = s /\ b = a THEN "done" ELSE exec[t][b]
        BY <1>2, PutValue DEF FinishTask, TypeOK
    <2> QED
        BY <1>2, <2>1 DEF FinishGuard, HasWaker, LiveHasWaker, Live
<1> QED
    BY <1>1, <1>2

\* resumeSuspended resolves a suspended row before it deletes the suspension.
LEMMA ResumeWakers ==
    ASSUME TypeOK, LiveHasWaker, NEW s \in Steps, NEW a \in Attempts, ResumeSuspended(s, a),
           exec' = exec, \A t \in Steps, b \in Attempts : ~(t = s /\ b = a) => rjob'[t][b] = rjob[t][b]
    PROVE  LiveHasWaker'
<1> SUFFICES ASSUME NEW t \in Steps, NEW b \in Attempts, task'[t][b] \in Live
             PROVE  HasWaker(t, b)'
    BY DEF LiveHasWaker
<1>1. /\ susp'[t][b] = IF t = s /\ b = a THEN "gone" ELSE susp[t][b]
      /\ task'[t][b] = IF t = s /\ b = a /\ task[s][a] = "suspended" THEN "succeeded" ELSE task[t][b]
    BY PutValue DEF ResumeSuspended, ResumeGuard, TypeOK
<1> QED
    BY <1>1 DEF HasWaker, LiveHasWaker, Live

\* Every step leaves every live row with a waker.
LEMMA WakerStep ==
    ASSUME "load" \notin FaultPoints, TypeOK, TypeOK', LiveHasWaker, Next
    PROVE  LiveHasWaker'
<1>1. CASE UNCHANGED <<task, exec, susp, rjob>>
    BY <1>1 DEF LiveHasWaker, HasWaker
<1>2. ASSUME NEW acked \in {0, 1}, Advance(acked) PROVE LiveHasWaker'
    <2>1. CASE AdvanceEnqueue(acked)
        <3>1. PICK verdict \in [Ready -> {"run", "skip", "error"}] : AdvanceEnqueue(acked)!5!(verdict)
            BY <2>1 DEF AdvanceEnqueue
        <3> SUFFICES ASSUME NEW t \in Steps, NEW b \in Attempts, task'[t][b] \in Live
                     PROVE  HasWaker(t, b)'
            BY DEF LiveHasWaker
        <3>2. CASE t \in Ready /\ b = 1
            <4>1. task'[t][b] = FirstRow(verdict[t])
                BY <3>1, <3>2 DEF TypeOK, Table
            <4>2. verdict[t] = "run" /\ task'[t][b] = "queued"
                BY <3>1, <3>2, <4>1 DEF FirstRow, Live
            <4>3. exec'[t][b] = "available"
                BY <3>1, <3>2, <4>2 DEF TypeOK, Table
            <4> QED
                BY <4>2, <4>3 DEF HasWaker
        <3>3. CASE ~(t \in Ready /\ b = 1)
            <4>1. task'[t][b] = task[t][b] /\ exec'[t][b] = exec[t][b]
                BY <3>1, <3>3 DEF TypeOK, Table
            <4> QED
                BY <2>1, <4>1, SameWaker DEF AdvanceEnqueue, LiveHasWaker
        <3> QED
            BY <3>2, <3>3
    <2> QED
        BY <1>1, <1>2, <2>1 DEF Advance, AdvanceNoop, AdvanceFail, AdvanceSucceed
<1>3. ASSUME NEW s \in Steps, NEW a \in Attempts, Execute(s, a) PROVE LiveHasWaker'
    <2> SUFFICES ASSUME NEW t \in Steps, NEW b \in Attempts, task'[t][b] \in Live
                 PROVE  HasWaker(t, b)'
        BY DEF LiveHasWaker
    <2>1. CASE ExecuteLoad(s, a)
        <3>1. exec'[t][b] = IF t = s /\ b = a
                            THEN (IF task[s][a] = "queued" THEN "loaded" ELSE "done") ELSE exec[t][b]
            BY <2>1, PutValue DEF ExecuteLoad, TypeOK
        <3> QED
            BY <2>1, <3>1 DEF ExecuteLoad, LiveHasWaker, HasWaker, Live
    <2>2. CASE ExecuteFailEarly(s, a)
        BY <2>2, FinishWakers, DefinitionAssumption DEF ExecuteFailEarly, LiveHasWaker
    <2>3. CASE ExecuteStart(s, a)
        <3>1. CASE task[s][a] = "queued"
            <4>1. /\ task'[t][b] = IF t = s /\ b = a THEN "running" ELSE task[t][b]
                  /\ exec'[t][b] = IF t = s /\ b = a THEN "executing" ELSE exec[t][b]
                BY <2>3, <3>1, PutValue DEF ExecuteStart, TypeOK
            <4> QED
                BY <2>3, <4>1 DEF ExecuteStart, LiveHasWaker, HasWaker
        <3>2. CASE task[s][a] # "queued"
            <4>1. task' = task /\ exec'[t][b] = IF t = s /\ b = a THEN "done" ELSE exec[t][b]
                BY <2>3, <3>2, PutValue DEF ExecuteStart, TypeOK
            <4> QED
                BY <2>3, <3>2, <4>1 DEF ExecuteStart, LiveHasWaker, HasWaker, Live
        <3> QED
            BY <3>1, <3>2
    <2>4. CASE ExecuteFinish(s, a)
        BY <2>4, FinishWakers, DefinitionAssumption DEF ExecuteFinish, LiveHasWaker
    <2>5. CASE SuspendTask(s, a)
        <3>1. exec'[t][b] = IF t = s /\ b = a THEN "done" ELSE exec[t][b]
            BY <2>5, PutValue DEF SuspendTask, TypeOK
        <3>2. CASE task[s][a] = "running"
            <4>1. PICK kind \in Kinds :
                    /\ task' = Put(task, s, a, "suspended")
                    /\ susp' = Put(susp, s, a, kind)
                    /\ rjob' = IF ResumeScheduled(kind) THEN Put(rjob, s, a, "available") ELSE rjob
                BY <2>5, <3>2, DefinitionAssumption DEF SuspendTask, SuspendGuard
            <4>2. /\ task'[t][b] = IF t = s /\ b = a THEN "suspended" ELSE task[t][b]
                  /\ susp'[t][b] = IF t = s /\ b = a THEN kind ELSE susp[t][b]
                  /\ rjob'[t][b] = IF kind = "delay" /\ t = s /\ b = a THEN "available" ELSE rjob[t][b]
                BY <4>1, PutValue DEF TypeOK, ResumeScheduled
            <4> QED
                BY <3>1, <4>2 DEF LiveHasWaker, HasWaker, Kinds
        <3>3. CASE task[s][a] # "running"
            BY <2>5, <3>1, <3>3 DEF SuspendTask, SuspendGuard, LiveHasWaker, HasWaker, Live
        <3> QED
            BY <3>2, <3>3
    <2>6. CASE ExecuteDies(s, a)
        <3>1. exec'[t][b] = IF t = s /\ b = a THEN "dead" ELSE exec[t][b]
            BY <2>6, PutValue DEF ExecuteDies, TypeOK
        <3> QED
            BY <2>6, <3>1 DEF ExecuteDies, LiveHasWaker, HasWaker, Live
    <2> QED
        BY <1>3, <2>1, <2>2, <2>3, <2>4, <2>5, <2>6 DEF Execute
<1>4. ASSUME NEW s \in Steps, NEW a \in Attempts, Overdue(s, a) PROVE LiveHasWaker'
    <2> SUFFICES ASSUME NEW t \in Steps, NEW b \in Attempts, task'[t][b] \in Live
                 PROVE  HasWaker(t, b)'
        BY DEF LiveHasWaker
    <2>1. exec'[t][b] = IF t = s /\ b = a THEN "overdue" ELSE exec[t][b]
        BY <1>4, PutValue DEF Overdue, TypeOK
    <2> QED
        BY <1>4, <2>1 DEF Overdue, LiveHasWaker, HasWaker
<1>5. ASSUME NEW s \in Steps, NEW a \in Attempts, NEW r \in Reapers, Reap(r, s, a)
      PROVE  LiveHasWaker'
    <2>1. CASE ReapTask(r, s, a) /\ ReapGuard(task[s][a])
        <3>1. CASE RetriesLeft(a, Retries[s])
            <4>1. Resolve(s, a, "failed", TRUE)
                BY <2>1, <3>1 DEF ReapTask, Resolve
            <4> QED
                BY <2>1, <4>1, ResolveWakers DEF ReapTask
        <3>2. CASE ~RetriesLeft(a, Retries[s])
            <4>1. Resolve(s, a, "failed", FALSE)
                BY <2>1, <3>2 DEF ReapTask, Resolve
            <4> QED
                BY <2>1, <4>1, ResolveWakers DEF ReapTask
        <3> QED
            BY <3>1, <3>2
    <2> QED
        BY <1>1, <1>5, <2>1 DEF Reap, ReapTask, ReapTaskFails
<1>6. ASSUME NEW s \in Steps, NEW a \in Attempts, ResumeJob(s, a) PROVE LiveHasWaker'
    <2>1. CASE ResumeJobLoad(s, a)
        <3> SUFFICES ASSUME NEW t \in Steps, NEW b \in Attempts, task'[t][b] \in Live
                     PROVE  HasWaker(t, b)'
            BY DEF LiveHasWaker
        <3>1. rjob'[t][b] = IF t = s /\ b = a
                            THEN (IF susp[s][a] \in Kinds THEN "loaded" ELSE "done") ELSE rjob[t][b]
            BY <2>1, PutValue DEF ResumeJobLoad, TypeOK
        <3> QED
            BY <2>1, <3>1 DEF ResumeJobLoad, LiveHasWaker, HasWaker, Kinds
    <2>2. ASSUME NEW acked \in {0, 1}, ResumeJobCommit(s, a, acked) PROVE LiveHasWaker'
        <3>1. \A t \in Steps, b \in Attempts : ~(t = s /\ b = a) => rjob'[t][b] = rjob[t][b]
            BY <2>2, PutValue DEF ResumeJobCommit, TypeOK
        <3> QED
            BY <2>2, <3>1, ResumeWakers DEF ResumeJobCommit
    <2>3. CASE ResumeJobFails(s, a)
        <3> SUFFICES ASSUME NEW t \in Steps, NEW b \in Attempts, task'[t][b] \in Live
                     PROVE  HasWaker(t, b)'
            BY DEF LiveHasWaker
        <3>1. rjob'[t][b] = IF t = s /\ b = a THEN "available" ELSE rjob[t][b]
            BY <2>3, PutValue DEF ResumeJobFails, TypeOK
        <3> QED
            BY <2>3, <3>1 DEF ResumeJobFails, LiveHasWaker, HasWaker
    <2> QED
        BY <1>6, <2>1, <2>2, <2>3 DEF ResumeJob
<1>7. ASSUME NEW s \in Steps, NEW a \in Attempts, NEW c \in Callers, ResumeCall(s, a, c)
      PROVE  LiveHasWaker'
    BY <1>1, <1>7, ResumeWakers DEF ResumeCall, ResumeCallLoad, ResumeCallCommit
<1>8. CASE CancelRun
    <2> SUFFICES ASSUME NEW t \in Steps, NEW b \in Attempts PROVE task'[t][b] \notin Live
        BY DEF LiveHasWaker
    <2> QED
        BY <1>8 DEF CancelRun, Cancelable, Live
<1>9. CASE RetryRun
    <2> SUFFICES ASSUME NEW t \in Steps, NEW b \in Attempts, task'[t][b] \in Live
                 PROVE  HasWaker(t, b)'
        BY DEF LiveHasWaker
    <2>1. /\ task'[t][b] = IF Redo(t, b) THEN "queued" ELSE task[t][b]
          /\ exec'[t][b] = IF Redo(t, b) THEN "available" ELSE exec[t][b]
        BY <1>9 DEF RetryRun
    <2> QED
        BY <1>9, <2>1 DEF RetryRun, LiveHasWaker, HasWaker
<1> QED
    BY <1>1, <1>2, <1>3, <1>4, <1>5, <1>6, <1>7, <1>8, <1>9 DEF Next, StartRun, ReapOrphans

-----------------------------------------------------------------------------
(* When no advance_run job is pending there is nothing to advance.           *)

\* Rows that only move between live statuses.
QuietRows ==
    \A t \in Steps, b \in Attempts :
        task'[t][b] = task[t][b] \/ (task[t][b] \in Live /\ task'[t][b] \in Live)

\* Such a step changes nothing that an advance looks at.
LEMMA QuietLatest ==
    ASSUME QuietRows, NEW s \in Steps
    PROVE  /\ NoRows(s)' <=> NoRows(s)
           /\ Done(s)' <=> Done(s)
           /\ LatestIn(s, Unsuccessful)' <=> LatestIn(s, Unsuccessful)
<1>1. \A b \in Attempts : task'[s][b] = "absent" <=> task[s][b] = "absent"
    BY DEF QuietRows, Live
<1>2. \A b \in Attempts : IsLatest(s, b)' <=> IsLatest(s, b)
    BY <1>1 DEF IsLatest
<1>3. \A b \in Attempts : /\ task'[s][b] \in Satisfied <=> task[s][b] \in Satisfied
                          /\ task'[s][b] \in Unsuccessful <=> task[s][b] \in Unsuccessful
    BY DEF QuietRows, Live, Satisfied, Unsuccessful
<1>4. Satisfied' = Satisfied /\ Unsuccessful' = Unsuccessful
    BY DEF Satisfied, Unsuccessful
<1> QED
    BY <1>1, <1>2, <1>3, <1>4 DEF NoRows, Done, LatestIn

\* A step other than an advance, a start, a cancel or a retry either queues an
\* advance_run job or leaves the rows quiet.
LEMMA JobOrQuiet ==
    ASSUME TypeOK, Next
    PROVE  \/ run' = run /\ advances' = advances + 1
           \/ run' = run /\ advances' = advances /\ QuietRows
           \/ StartRun \/ CancelRun \/ RetryRun
           \/ \E acked \in {0, 1} : Advance(acked)
<1> DEFINE Goal == \/ run' = run /\ advances' = advances + 1
                   \/ run' = run /\ advances' = advances /\ QuietRows
<1>1. ASSUME NEW s \in Steps, NEW a \in Attempts, Execute(s, a) PROVE Goal
    <2>1. CASE ExecuteLoad(s, a) \/ ExecuteDies(s, a)
        BY <2>1 DEF ExecuteLoad, ExecuteDies, QuietRows
    <2>2. CASE ExecuteFailEarly(s, a) \/ ExecuteFinish(s, a)
        BY <2>2 DEF ExecuteFailEarly, ExecuteFinish, FinishTask, Resolve, QuietRows
    <2>3. CASE ExecuteStart(s, a)
        <3>1. task' = task \/ (task[s][a] = "queued" /\ task' = Put(task, s, a, "running"))
            BY <2>3 DEF ExecuteStart
        <3>2. QuietRows
            BY <3>1, PutValue DEF QuietRows, Live, TypeOK
        <3> QED
            BY <2>3, <3>2 DEF ExecuteStart
    <2>4. CASE SuspendTask(s, a)
        <3>1. task' = task \/ (task[s][a] = "running" /\ task' = Put(task, s, a, "suspended"))
            BY <2>4 DEF SuspendTask, SuspendGuard
        <3>2. QuietRows
            BY <3>1, PutValue DEF QuietRows, Live, TypeOK
        <3> QED
            BY <2>4, <3>2 DEF SuspendTask
    <2> QED
        BY <1>1, <2>1, <2>2, <2>3, <2>4 DEF Execute
<1>2. ASSUME NEW s \in Steps, NEW a \in Attempts, Overdue(s, a) PROVE Goal
    BY <1>2 DEF Overdue, QuietRows
<1>3. ASSUME NEW s \in Steps, NEW a \in Attempts, NEW r \in Reapers, Reap(r, s, a) PROVE Goal
    BY <1>3 DEF Reap, ReapTask, ReapTaskFails, Resolve, QuietRows
<1>4. ASSUME NEW s \in Steps, NEW a \in Attempts, ResumeJob(s, a) PROVE Goal
    BY <1>4 DEF ResumeJob, ResumeJobLoad, ResumeJobCommit, ResumeJobFails, ResumeSuspended, QuietRows
<1>5. ASSUME NEW s \in Steps, NEW a \in Attempts, NEW c \in Callers, ResumeCall(s, a, c) PROVE Goal
    BY <1>5 DEF ResumeCall, ResumeCallLoad, ResumeCallCommit, ResumeSuspended, QuietRows
<1>6. ASSUME NEW r \in Reapers, ReapOrphans(r) PROVE Goal
    BY <1>6 DEF ReapOrphans, QuietRows
<1> QED
    BY <1>1, <1>2, <1>3, <1>4, <1>5, <1>6 DEF Next

\* An advance whose guards wrote no row leaves nothing for another one.
LEMMA EnqueueLeavesNothing ==
    ASSUME TypeOK, NEW acked \in {0, 1}, AdvanceEnqueue(acked), advances' = 0
    PROVE  ~AnyFailed' /\ ~AllSucceeded' /\ Ready' = {}
<1>1. PICK verdict \in [Ready -> {"run", "skip", "error"}] : AdvanceEnqueue(acked)!5!(verdict)
    BY DEF AdvanceEnqueue
<1>2. ~GuardResolved(verdict)
    BY <1>1 DEF AdvanceEnqueue, TypeOK
<1>3. \A s \in Ready : FirstRow(verdict[s]) = "queued"
    BY <1>2 DEF GuardResolved, FirstRow
<1>4. ASSUME NEW s \in Ready PROVE ~Done(s)' /\ ~LatestIn(s, Unsuccessful)' /\ ~NoRows(s)'
    <2>1. s \in Steps /\ \A b \in Attempts : task[s][b] = "absent"
        BY DEF Ready, NoRows
    <2>2. 1 \in Attempts
        BY <2>1, DefinitionAssumption, BoundsAssumption DEF Attempts
    <2>3. task'[s] = [task[s] EXCEPT ![1] = "queued"]
        BY <1>1, <1>3, <2>1
    <2>4. \A b \in Attempts : task'[s][b] = IF b = 1 THEN "queued" ELSE "absent"
        BY <2>1, <2>3 DEF TypeOK, Table
    <2> QED
        BY <2>2, <2>4 DEF Done, LatestIn, IsLatest, NoRows, Satisfied, Unsuccessful
<1>5. ASSUME NEW s \in Steps \ Ready
      PROVE  /\ Done(s)' <=> Done(s)
             /\ LatestIn(s, Unsuccessful)' <=> LatestIn(s, Unsuccessful)
             /\ NoRows(s)' <=> NoRows(s)
    <2>1. task'[s] = task[s]
        BY <1>1, <1>5
    <2> QED
        BY <2>1 DEF Done, LatestIn, IsLatest, NoRows, Satisfied, Unsuccessful
<1>6. ~AnyFailed'
    BY <1>4, <1>5 DEF AnyFailed, AdvanceEnqueue
<1>7. ~AllSucceeded'
    BY <1>4, <1>5 DEF AllSucceeded, AdvanceEnqueue
<1>8. Ready' = {}
    <2> SUFFICES ASSUME NEW s \in Steps, NoRows(s)', \A n \in Needs[s] : Done(n)' PROVE FALSE
        BY DEF Ready
    <2>1. s \notin Ready
        BY <1>4
    <2>2. \A n \in Needs[s] : Done(n)
        BY <1>4, <1>5, DefinitionAssumption
    <2> QED
        BY <1>5, <2>1, <2>2 DEF Ready
<1> QED
    BY <1>6, <1>7, <1>8

\* Every step that takes the last advance_run job leaves nothing to do.
LEMMA NothingStep ==
    ASSUME TypeOK, TypeOK', NothingToDo, Next
    PROVE  NothingToDo'
<1> SUFFICES ASSUME run' \in {"queued", "running"}, advances' = 0
             PROVE  ~AnyFailed' /\ ~AllSucceeded' /\ Ready' = {}
    BY DEF NothingToDo
<1>1. CASE run' = run /\ advances' = advances /\ QuietRows
    <2>1. ~AnyFailed /\ ~AllSucceeded /\ Ready = {}
        BY <1>1 DEF NothingToDo
    <2>2. ~AnyFailed' /\ ~AllSucceeded'
        BY <1>1, <2>1, QuietLatest DEF AnyFailed, AllSucceeded
    <2>3. Ready' = {}
        BY <1>1, <2>1, QuietLatest, DefinitionAssumption DEF Ready
    <2> QED
        BY <2>2, <2>3
<1>2. ASSUME NEW acked \in {0, 1}, Advance(acked)
      PROVE  ~AnyFailed' /\ ~AllSucceeded' /\ Ready' = {}
    BY <1>2, EnqueueLeavesNothing
       DEF Advance, AdvanceNoop, AdvanceFail, AdvanceSucceed, Terminal
<1> QED
    BY <1>1, <1>2, JobOrQuiet DEF TypeOK, StartRun, CancelRun, RetryRun

-----------------------------------------------------------------------------
\* Quiet and without wakers, an open run would have to be complete: the steps
\* without rows would contain one whose needs all have rows.
LEMMA WakersSuffice ==
    ASSUME Inv, LiveHasWaker, NothingToDo
    PROVE  NoHungRun
<1> SUFFICES ASSUME run \in {"queued", "running"}, advances = 0,
                    \A s \in Steps, a \in Attempts : ~HasWaker(s, a)
             PROVE  FALSE
    BY DEF NoHungRun, Inv, Rows, TypeOK
<1>1. ~AnyFailed /\ ~AllSucceeded /\ Ready = {}
    BY DEF NothingToDo
<1>2. \A s \in Steps, a \in Attempts : task[s][a] \notin Live
    BY DEF LiveHasWaker
<1>3. ASSUME NEW s \in Steps, ~NoRows(s) PROVE Done(s)
    <2>1. PICK a \in Attempts : IsLatest(s, a)
        BY <1>3 DEF Inv, Rows, HasLatest
    <2>2. task[s][a] \in TaskStatus /\ task[s][a] # "absent"
        BY <2>1 DEF IsLatest, Inv, Rows, TypeOK, Table
    <2>3. task[s][a] \notin Unsuccessful
        BY <1>1, <2>1 DEF AnyFailed, LatestIn
    <2>4. task[s][a] \in Satisfied
        BY <1>2, <2>2, <2>3 DEF TaskStatus, Live, Unsuccessful, Satisfied
    <2> QED
        BY <2>1, <2>4 DEF Done, LatestIn
<1> DEFINE T == {s \in Steps : NoRows(s)}
<1>4. T # {}
    BY <1>1, <1>3 DEF AllSucceeded
<1>5. PICK s \in T : Needs[s] \cap T = {}
    BY <1>4, DefinitionAssumption
<1>6. \A n \in Needs[s] : Done(n)
    BY <1>3, <1>5, DefinitionAssumption
<1> QED
    BY <1>1, <1>5, <1>6 DEF Ready

\* A step that changes nothing keeps both facts.
LEMMA WakerStutter ==
    ASSUME LiveHasWaker, NothingToDo, UNCHANGED vars
    PROVE  LiveHasWaker' /\ NothingToDo'
BY DEF vars, LiveHasWaker, HasWaker, NothingToDo, AnyFailed, AllSucceeded, Ready, LatestIn, Done,
       IsLatest, NoRows

\* No run hangs while workers die only after they started a task: in every
\* reachable state of an open run an advance_run job is pending or a task has
\* something that moves it on.
THEOREM NoRunHangs ==
    ASSUME "load" \notin FaultPoints
    PROVE  Spec => []NoHungRun
<1> DEFINE IInv == Inv /\ LiveHasWaker /\ NothingToDo
<1>1. Init => IInv
    <2>1. Init => LiveHasWaker /\ NothingToDo
        BY DEF Init, LiveHasWaker, NothingToDo, Live
    <2> QED
        BY <2>1, InvInit
<1>2. IInv /\ [Next]_vars => IInv'
    <2>1. ASSUME IInv, Next PROVE IInv'
        <3>1. Inv' /\ TypeOK /\ TypeOK'
            BY <2>1, InvStep DEF Inv, Rows
        <3> QED
            BY <2>1, <3>1, WakerStep, NothingStep
    <2>2. ASSUME IInv, UNCHANGED vars PROVE IInv'
        BY <2>2, InvStep, WakerStutter
    <2> QED
        BY <2>1, <2>2
<1>3. IInv => NoHungRun
    BY WakersSuffice
<1> QED
    BY <1>1, <1>2, <1>3, PTL DEF Spec

-----------------------------------------------------------------------------
(* RunEngine implements RunLifecycle, for every definition and with every    *)
(* fault.                                                                    *)

DoneSteps == {s \in Steps : Done(s)}

\* A step that is newly done has a row that is newly succeeded or skipped.
LEMMA NewlyDone ==
    ASSUME TypeOK, Rule, NEW s \in Steps, Done(s)', ~Done(s)
    PROVE  \E a \in Attempts : task'[s][a] \in Satisfied /\ task[s][a] # task'[s][a]
<1>1. PICK a \in Attempts : IsLatest(s, a)' /\ task'[s][a] \in Satisfied
    BY DEF Done, LatestIn, Satisfied
<1>2. \A b \in Attempts : b > a => task[s][b] = "absent"
    BY <1>1, KeptRows DEF IsLatest
<1>3. task[s][a] # task'[s][a]
    BY <1>1, <1>2 DEF Done, LatestIn, IsLatest
<1> QED
    BY <1>1, <1>3

\* It was under way or ready, so what it needs was done before the step.
LEMMA NewlyDoneNeeds ==
    ASSUME TypeOK, NeedsFirst, Rule, NEW s \in Steps, Done(s)', ~Done(s)
    PROVE  Needs[s] \subseteq DoneSteps
<1>1. PICK a \in Attempts : task'[s][a] \in Satisfied /\ task[s][a] # task'[s][a]
    BY NewlyDone
<1>2. ~NoRows(s) \/ s \in Ready
    BY <1>1 DEF Rule, RowRule, Inserted, NoRows, IsLatest, Live
<1> QED
    BY <1>2, DefinitionAssumption DEF NeedsFirst, Ready, DoneSteps

\* What is done stays done, and what is newly done may be.
LEMMA DoneGrows ==
    ASSUME TypeOK, NeedsFirst, AttemptHistory', Rule
    PROVE  \E more \in SUBSET (Steps \ DoneSteps) :
               /\ \A s \in more : Needs[s] \subseteq DoneSteps
               /\ DoneSteps' = DoneSteps \cup more
<1> DEFINE more == {s \in Steps : Done(s)' /\ ~Done(s)}
<1>1. more \in SUBSET (Steps \ DoneSteps)
    BY DEF DoneSteps
<1>2. \A s \in more : Needs[s] \subseteq DoneSteps
    BY NewlyDoneNeeds
<1>3. DoneSteps' = DoneSteps \cup more
    BY DoneStays DEF DoneSteps
<1> QED
    BY <1>1, <1>2, <1>3

\* No step becomes done without a live row or an inserted one.
LEMMA DoneSame ==
    ASSUME TypeOK, AttemptHistory', Rule,
           \A s \in Steps, a \in Attempts :
               task'[s][a] \in Satisfied => task[s][a] = task'[s][a]
    PROVE  DoneSteps' = DoneSteps
BY NewlyDone, DoneStays DEF DoneSteps

\* Every step of the engine is a step of the lifecycle or leaves it unchanged.
LEMMA LifeStep ==
    ASSUME Inv, Inv', Next
    PROVE  [Life!Next]_<<run, DoneSteps>>
<1>1. Rule
    BY RowStep DEF Rule
<1>2. TypeOK /\ NeedsFirst /\ AttemptHistory' /\ NotStarted /\ SucceededIsComplete /\ CanceledIsQuiet
    BY DEF Inv, Rows
<1>3. PICK more \in SUBSET (Steps \ DoneSteps) :
               /\ \A s \in more : Needs[s] \subseteq DoneSteps
               /\ DoneSteps' = DoneSteps \cup more
    BY <1>1, <1>2, DoneGrows
<1>4. task' = task => DoneSteps' = DoneSteps
    BY <1>1, <1>2, DoneSame
<1>5. CASE run' = run
    <2>1. CASE run \in {"queued", "running", "failed"}
        BY <1>3, <1>5, <2>1 DEF Life!Next, Life!Complete, Life!Open, DoneSteps
    <2>2. CASE run \in {"none", "canceled"}
        <3>1. \A s \in Steps, a \in Attempts : task[s][a] \notin Live
            BY <1>2, <2>2 DEF NotStarted, NoRows, CanceledIsQuiet, Live
        <3>2. \A s \in Steps, a \in Attempts : task'[s][a] = task[s][a]
            BY <1>1, <1>5, <2>2, <3>1 DEF Rule, RowRule, Inserted
        <3> QED
            BY <1>1, <1>2, <1>5, <3>2, DoneSame
    <2>3. CASE run = "succeeded"
        BY <1>2, <1>3, <1>5, <2>3 DEF SucceededIsComplete, AllSucceeded, DoneSteps
    <2> QED
        BY <1>2, <2>1, <2>2, <2>3 DEF TypeOK, RunStatus
<1>6. CASE StartRun
    BY <1>4, <1>6 DEF StartRun, Life!Next, Life!Start, DoneSteps
<1>7. CASE CancelRun
    <2>1. DoneSteps' = DoneSteps
        BY <1>1, <1>2, <1>7, DoneSame DEF CancelRun, Cancelable, Satisfied, Live
    <2> QED
        BY <1>7, <2>1 DEF CancelRun, RunStatus, Terminal, Life!Next, Life!Cancel, Life!Open, DoneSteps
<1>8. CASE RetryRun
    <2>1. DoneSteps' = DoneSteps
        BY <1>1, <1>2, <1>8, DoneSame DEF RetryRun, Satisfied
    <2> QED
        BY <1>8, <2>1 DEF RetryRun, Unsuccessful, Life!Next, Life!Retry, DoneSteps
<1>9. ASSUME NEW acked \in {0, 1}, Advance(acked), run' # run PROVE [Life!Next]_<<run, DoneSteps>>
    <2>1. run \in {"queued", "running"}
        BY <1>2, <1>9 DEF Advance, AdvanceNoop, AdvanceFail, AdvanceSucceed, AdvanceEnqueue, NotStarted,
                          TypeOK, RunStatus, Terminal
    <2>2. CASE AdvanceFail(acked)
        BY <1>4, <2>1, <2>2 DEF AdvanceFail, Life!Next, Life!Fail, Life!Open, DoneSteps
    <2>3. CASE AdvanceSucceed(acked)
        BY <1>4, <2>1, <2>3
           DEF AdvanceSucceed, AllSucceeded, Life!Next, Life!Succeed, Life!Open, DoneSteps
    <2>4. CASE AdvanceEnqueue(acked)
        BY <1>3, <1>9, <2>1, <2>4 DEF AdvanceEnqueue, Life!Next, Life!Complete, Life!Open, DoneSteps
    <2> QED
        BY <1>9, <2>2, <2>3, <2>4 DEF Advance, AdvanceNoop
<1> QED
    BY <1>5, <1>6, <1>7, <1>8, <1>9, RunStep

\* The engine implements the lifecycle its users see.
THEOREM Implements == Spec => Lifecycle
<1>1. Init => Life!Init
    BY DEF Init, Life!Init, Done, LatestIn, IsLatest
<1>2. Inv /\ Inv' /\ [Next]_vars => [Life!Next]_(Life!vars)
    <2>1. ASSUME Inv, Inv', Next PROVE [Life!Next]_(Life!vars)
        BY <2>1, LifeStep DEF Life!vars, DoneSteps
    <2>2. ASSUME UNCHANGED vars PROVE UNCHANGED Life!vars
        BY <2>2 DEF vars, Life!vars, Done, LatestIn, IsLatest
    <2> QED
        BY <2>1, <2>2
<1> QED
    BY <1>1, <1>2, Invariance, PTL DEF Spec, Lifecycle, Life!Spec

-----------------------------------------------------------------------------
(* The answers of the resume endpoint.                                       *)

\* A suspension belongs to a row that has been suspended and is never run again,
\* a suspended row has one, and everyone who came to resume it found one.
Parked(s, a) ==
    /\ susp[s][a] # "none" => task[s][a] \in {"suspended"} \cup Satisfied \cup Unsuccessful
    /\ task[s][a] = "suspended" => susp[s][a] \in Kinds
    /\ rjob[s][a] # "none" => susp[s][a] # "none"

Answered(s, a) ==
    \A c \in Callers :
        /\ call[s][a][c] # "none" => susp[s][a] # "none"
        /\ call[s][a][c] \in {"ok", "conflict", "notfound"} => susp[s][a] = "gone"
        /\ call[s][a][c] = "ok" => task[s][a] = "succeeded"
        /\ \A d \in Callers : call[s][a][c] = "ok" /\ call[s][a][d] = "ok" => c = d

Waits == \A s \in Steps, a \in Attempts : Parked(s, a) /\ Answered(s, a)

\* What every other action does to a suspended row: nothing, or it cancels it.
Kept(s, a) ==
    /\ task'[s][a] = "suspended" => task[s][a] = "suspended"
    /\ task[s][a] = "suspended" => task'[s][a] \in {"suspended", "canceled"}

\* finishTask and reapTask find no suspended row, and make none.
LEMMA ResolveKeeps ==
    ASSUME TypeOK, AttemptHistory, NEW s \in Steps, NEW a \in Attempts,
           NEW status \in {"succeeded", "failed"}, NEW retrying \in BOOLEAN,
           Resolve(s, a, status, retrying), task[s][a] \in {"queued", "running"}
    PROVE  \A t \in Steps, b \in Attempts : Kept(t, b)
<1> SUFFICES ASSUME NEW t \in Steps, NEW b \in Attempts PROVE Kept(t, b)
    OBVIOUS
<1>1. Put(task, s, a, status) \in Table(TaskStatus)
    BY PutType, Members DEF TypeOK
<1>2. Put(task, s, a, status)[t][b] = IF t = s /\ b = a THEN status ELSE task[t][b]
    BY PutValue DEF TypeOK
<1>3. CASE retrying /\ t = s /\ b = a + 1
    <2>1. task'[t][b] = "queued"
        BY <1>1, <1>3, PutValue DEF Resolve
    <2>2. task[t][b] = "absent"
        <3>1. IsLatest(s, a)
            BY LiveIsLatest DEF Live
        <3>2. b > a
            BY <1>3, BoundsAssumption DEF Attempts
        <3> QED
            BY <1>3, <3>1, <3>2 DEF IsLatest
    <2> QED
        BY <2>1, <2>2 DEF Kept
<1>4. CASE ~(retrying /\ t = s /\ b = a + 1)
    <2>1. task'[t][b] = IF t = s /\ b = a THEN status ELSE task[t][b]
        BY <1>1, <1>2, <1>4, PutValue DEF Resolve
    <2> QED
        BY <2>1 DEF Kept
<1> QED
    BY <1>3, <1>4

\* Only suspendTask and the resumes write suspensions; the others keep the row.
LEMMA KeptStep ==
    ASSUME Inv, Next
    PROVE  \/ UNCHANGED <<susp, rjob, call>> /\ \A t \in Steps, b \in Attempts : Kept(t, b)
           \/ \E s \in Steps, a \in Attempts :
                 \/ SuspendTask(s, a) \/ ResumeJob(s, a) \/ \E c \in Callers : ResumeCall(s, a, c)
<1> DEFINE All == \A t \in Steps, b \in Attempts : Kept(t, b)
<1> SUFFICES ASSUME \A s \in Steps, a \in Attempts :
                        ~SuspendTask(s, a) /\ ~ResumeJob(s, a) /\ \A c \in Callers : ~ResumeCall(s, a, c)
             PROVE  UNCHANGED <<susp, rjob, call>> /\ All
    OBVIOUS
<1>1. TypeOK /\ AttemptHistory
    BY DEF Inv, Rows
<1>2. UNCHANGED task => All
    BY DEF Kept
<1> HIDE DEF All
<1>3. ASSUME NEW acked \in {0, 1}, Advance(acked) PROVE UNCHANGED <<susp, rjob, call>> /\ All
    <2>1. CASE AdvanceEnqueue(acked)
        <3>1. PICK verdict \in [Ready -> {"run", "skip", "error"}] : AdvanceEnqueue(acked)!5!(verdict)
            BY <2>1 DEF AdvanceEnqueue
        <3>2. ASSUME NEW t \in Steps, NEW b \in Attempts PROVE Kept(t, b)
            <4>1. CASE t \in Ready /\ b = 1
                <5>1. task[t][b] = "absent" /\ task'[t][b] = FirstRow(verdict[t])
                    BY <1>1, <3>1, <4>1 DEF Ready, NoRows, TypeOK, Table
                <5> QED
                    BY <3>1, <4>1, <5>1 DEF Kept, FirstRow
            <4>2. CASE ~(t \in Ready /\ b = 1)
                BY <1>1, <3>1, <4>2 DEF Kept, TypeOK, Table
            <4> QED
                BY <4>1, <4>2
        <3> QED
            BY <2>1, <3>2 DEF All, AdvanceEnqueue
    <2> QED
        BY <1>2, <1>3, <2>1 DEF Advance, AdvanceNoop, AdvanceFail, AdvanceSucceed
<1>4. ASSUME NEW s \in Steps, NEW a \in Attempts, NEW status \in {"succeeded", "failed"},
             NEW retrying, Resolve(s, a, status, retrying), task[s][a] \in {"queued", "running"}
      PROVE  All
    <2>1. CASE retrying
        <3>1. Resolve(s, a, status, TRUE)
            BY <1>4, <2>1 DEF Resolve
        <3> QED
            BY <1>1, <1>4, <3>1, ResolveKeeps DEF All
    <2>2. CASE ~retrying
        <3>1. Resolve(s, a, status, FALSE)
            BY <1>4, <2>2 DEF Resolve
        <3> QED
            BY <1>1, <1>4, <3>1, ResolveKeeps DEF All
    <2> QED
        BY <2>1, <2>2
<1>5. ASSUME NEW s \in Steps, NEW a \in Attempts, Execute(s, a)
      PROVE  UNCHANGED <<susp, rjob, call>> /\ All
    <2>1. CASE ExecuteFailEarly(s, a)
        BY <1>2, <1>4, <2>1 DEF ExecuteFailEarly, FinishTask, FinishGuard
    <2>2. CASE ExecuteFinish(s, a)
        BY <1>2, <1>4, <2>2 DEF ExecuteFinish, FinishTask, FinishGuard
    <2>3. CASE ExecuteStart(s, a)
        <3>1. CASE task[s][a] = "queued"
            BY <1>1, <2>3, <3>1, PutValue DEF ExecuteStart, TypeOK, All, Kept
        <3> QED
            BY <1>2, <2>3, <3>1 DEF ExecuteStart
    <2> QED
        BY <1>2, <1>5, <2>1, <2>2, <2>3 DEF Execute, ExecuteLoad, ExecuteDies
<1>6. ASSUME NEW s \in Steps, NEW a \in Attempts, NEW r \in Reapers, Reap(r, s, a)
      PROVE  UNCHANGED <<susp, rjob, call>> /\ All
    BY <1>2, <1>4, <1>6 DEF Reap, ReapTask, ReapTaskFails, ReapGuard
<1>7. CASE CancelRun
    BY <1>7 DEF CancelRun, Cancelable, Live, All, Kept
<1>8. CASE RetryRun
    <2>1. ASSUME NEW t \in Steps, NEW b \in Attempts PROVE Kept(t, b)
        <3>1. task'[t][b] = IF Redo(t, b) THEN "queued" ELSE task[t][b]
            BY <1>8 DEF RetryRun
        <3>2. Redo(t, b) => task[t][b] = "absent"
            BY BoundsAssumption DEF Redo, IsLatest, Attempts
        <3> QED
            BY <3>1, <3>2 DEF Kept
    <2> QED
        BY <1>8, <2>1 DEF RetryRun, All
<1> QED
    BY <1>2, <1>3, <1>5, <1>6, <1>7, <1>8 DEF Next, StartRun, Overdue, ReapOrphans

\* A resume, of its own row, with what becomes of the caller's answer.
LEMMA ResumeKeeps ==
    ASSUME TypeOK, Waits, NEW s \in Steps, NEW a \in Attempts, ResumeSuspended(s, a),
           susp[s][a] # "none", NEW t \in Steps, NEW b \in Attempts
    PROVE  /\ susp'[t][b] = IF t = s /\ b = a THEN "gone" ELSE susp[t][b]
           /\ task'[t][b] = IF t = s /\ b = a /\ task[s][a] = "suspended" THEN "succeeded" ELSE task[t][b]
BY PutValue DEF ResumeSuspended, ResumeGuard, TypeOK

\* Suspensions and answers stay true through every step.
LEMMA WaitsStep ==
    ASSUME Inv, Waits, Next
    PROVE  Waits'
<1>1. TypeOK /\ Rule
    BY RowStep DEF Inv, Rows, Rule
<1> SUFFICES ASSUME NEW t \in Steps, NEW b \in Attempts PROVE Parked(t, b)' /\ Answered(t, b)'
    BY DEF Waits
<1>2. Parked(t, b) /\ Answered(t, b)
    BY DEF Waits
<1>3. task[t][b] \in Satisfied \cup Unsuccessful => task'[t][b] = task[t][b]
    BY <1>1, FinalRows
<1>4. CASE UNCHANGED <<susp, rjob, call>> /\ \A u \in Steps, d \in Attempts : Kept(u, d)
    BY <1>2, <1>3, <1>4 DEF Parked, Answered, Kept, Satisfied, Unsuccessful
<1>5. ASSUME NEW s \in Steps, NEW a \in Attempts, SuspendTask(s, a)
      PROVE  Parked(t, b)' /\ Answered(t, b)'
    <2>1. CASE task[s][a] = "running"
        <3>1. PICK kind \in Kinds :
                /\ task' = Put(task, s, a, "suspended")
                /\ susp' = Put(susp, s, a, kind)
                /\ rjob' = IF ResumeScheduled(kind) THEN Put(rjob, s, a, "available") ELSE rjob
            BY <1>5, <2>1, DefinitionAssumption DEF SuspendTask, SuspendGuard
        <3>2. /\ task'[t][b] = IF t = s /\ b = a THEN "suspended" ELSE task[t][b]
              /\ susp'[t][b] = IF t = s /\ b = a THEN kind ELSE susp[t][b]
              /\ rjob'[t][b] = IF kind = "delay" /\ t = s /\ b = a THEN "available" ELSE rjob[t][b]
            BY <1>1, <3>1, PutValue DEF TypeOK, ResumeScheduled
        <3>3. call' = call
            BY <1>5 DEF SuspendTask
        <3>4. CASE t = s /\ b = a
            <4>1. susp[t][b] = "none"
                BY <1>2, <2>1, <3>4 DEF Parked, Satisfied, Unsuccessful
            <4>2. \A c \in Callers : call[t][b][c] = "none"
                BY <1>2, <4>1 DEF Answered
            <4> QED
                BY <3>2, <3>3, <3>4, <4>2 DEF Parked, Answered, Kinds
        <3>5. CASE ~(t = s /\ b = a)
            BY <1>2, <3>2, <3>3, <3>5 DEF Parked, Answered
        <3> QED
            BY <3>4, <3>5
    <2>2. CASE task[s][a] # "running"
        BY <1>2, <1>5, <2>2 DEF SuspendTask, SuspendGuard, Parked, Answered
    <2> QED
        BY <2>1, <2>2
<1>6. ASSUME NEW s \in Steps, NEW a \in Attempts, ResumeJob(s, a)
      PROVE  Parked(t, b)' /\ Answered(t, b)'
    <2>1. PICK v \in {"available", "loaded", "done"} : rjob' = Put(rjob, s, a, v)
        BY <1>6 DEF ResumeJob, ResumeJobLoad, ResumeJobCommit, ResumeJobFails
    <2>2. rjob'[t][b] = IF t = s /\ b = a THEN v ELSE rjob[t][b]
        BY <1>1, <2>1, PutValue DEF TypeOK
    <2>3. call' = call /\ rjob[s][a] # "none"
        BY <1>6 DEF ResumeJob, ResumeJobLoad, ResumeJobCommit, ResumeJobFails
    <2>4. susp[s][a] # "none"
        BY <2>3 DEF Waits, Parked
    <2>5. CASE ResumeSuspended(s, a)
        BY <1>1, <1>2, <2>2, <2>3, <2>4, <2>5, ResumeKeeps DEF Parked, Answered, Satisfied, Unsuccessful
    <2>6. CASE UNCHANGED <<susp, task>>
        BY <1>2, <2>2, <2>3, <2>4, <2>6 DEF Parked, Answered
    <2> QED
        BY <1>6, <2>5, <2>6 DEF ResumeJob, ResumeJobLoad, ResumeJobCommit, ResumeJobFails
<1>7. ASSUME NEW s \in Steps, NEW a \in Attempts, NEW c \in Callers, ResumeCallLoad(s, a, c)
      PROVE  Parked(t, b)' /\ Answered(t, b)'
    <2> DEFINE v == IF susp[s][a] = "callback" THEN "loaded" ELSE "notfound"
    <2>1. \A d \in Callers : call'[t][b][d] = IF t = s /\ b = a /\ d = c THEN v ELSE call[t][b][d]
        <3>1. call' = [call EXCEPT ![s][a][c] = v]
            BY <1>7 DEF ResumeCallLoad
        <3> HIDE DEF v
        <3>2. call \in Table([Callers -> CallState])
            BY <1>1 DEF TypeOK
        <3>3. \A d \in Callers : [call EXCEPT ![s][a][c] = v][t][b][d]
                                  = IF t = s /\ b = a /\ d = c THEN v ELSE call[t][b][d]
            BY <3>2 DEF Table
        <3> QED
            BY <3>1, <3>3
    <2>2. UNCHANGED <<susp, task, rjob>> /\ susp[s][a] \in {"callback", "gone"}
        BY <1>7 DEF ResumeCallLoad
    <2> QED
        BY <1>2, <2>1, <2>2 DEF Parked, Answered
<1>8. ASSUME NEW s \in Steps, NEW a \in Attempts, NEW c \in Callers, ResumeCallCommit(s, a, c)
      PROVE  Parked(t, b)' /\ Answered(t, b)'
    <2> DEFINE v == IF task[s][a] = "suspended" THEN "ok" ELSE "conflict"
    <2>1. \A d \in Callers : call'[t][b][d] = IF t = s /\ b = a /\ d = c THEN v ELSE call[t][b][d]
        <3>1. call' = [call EXCEPT ![s][a][c] = v]
            BY <1>8 DEF ResumeCallCommit, ResumeGuard
        <3> HIDE DEF v
        <3>2. call \in Table([Callers -> CallState])
            BY <1>1 DEF TypeOK
        <3>3. \A d \in Callers : [call EXCEPT ![s][a][c] = v][t][b][d]
                                  = IF t = s /\ b = a /\ d = c THEN v ELSE call[t][b][d]
            BY <3>2 DEF Table
        <3> QED
            BY <3>1, <3>3
    <2>2. ResumeSuspended(s, a) /\ rjob' = rjob /\ call[s][a][c] = "loaded"
        BY <1>8 DEF ResumeCallCommit
    <2>3. susp[s][a] # "none"
        BY <2>2 DEF Waits, Answered
    <2>4. /\ susp'[t][b] = IF t = s /\ b = a THEN "gone" ELSE susp[t][b]
          /\ task'[t][b] = IF t = s /\ b = a /\ task[s][a] = "suspended" THEN "succeeded" ELSE task[t][b]
        BY <1>1, <2>2, <2>3, ResumeKeeps
    <2>5. Parked(t, b)'
        BY <1>2, <2>2, <2>3, <2>4 DEF Parked, Satisfied, Unsuccessful
    <2>6. Answered(t, b)'
        BY <1>2, <2>1, <2>4 DEF Answered
    <2> QED
        BY <2>5, <2>6
<1> QED
    BY <1>4, <1>5, <1>6, <1>7, <1>8, KeptStep DEF ResumeCall

\* A caller of the resume endpoint is told the truth, however many callers and
\* scheduled resumes race for the task, and whoever cancels the run meanwhile.
THEOREM AnswersAreTrue == Spec => []CallbackAnswers
<1> DEFINE IInv == Inv /\ Waits
<1>1. Init => IInv
    BY InvInit DEF Init, Waits, Parked, Answered
<1>2. IInv /\ [Next]_vars => IInv'
    <2>1. ASSUME IInv, Next PROVE IInv'
        BY <2>1, InvStep, WaitsStep
    <2>2. ASSUME IInv, UNCHANGED vars PROVE IInv'
        BY <2>2, InvStep DEF vars, Waits, Parked, Answered
    <2> QED
        BY <2>1, <2>2
<1>3. IInv => CallbackAnswers
    BY DEF Waits, Parked, Answered, CallbackAnswers, Kinds
<1> QED
    BY <1>1, <1>2, <1>3, PTL DEF Spec
=============================================================================
