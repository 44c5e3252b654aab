------------------------------ MODULE TaskLog ------------------------------
(***************************************************************************)
(* The log of a task (engine/dblog.go) and the redactor every line of it   *)
(* passes (engine/redact.go).  A text is a sequence of characters; the     *)
(* mark that stands for a secret, and the one that says a line was cut,    *)
(* are characters of their own.  The fields of a line are part of its text *)
(* here, and the escaped form of a secret is one more secret.  The         *)
(* executor and what it calls log at the same time, through one handler.   *)
(* When the executor is done the worker builds another one, with counters  *)
(* of its own, and logs one last line through it (engine/execute.go).      *)
(***************************************************************************)
EXTENDS Integers, Sequences, FiniteSets, SequencesExt

CONSTANTS
  Chars,      \* the characters of the secrets and of the lines
  Cases,      \* the secrets of a workspace, the lines logged, and how many
  Loggers,    \* goroutines that log
  MinSecret,  \* length from which a secret is redacted
  MaxLine,    \* maxLogLine
  MaxTask     \* maxTaskLogs

Mark == "[redacted]"
Cut == "(truncated)"

ASSUME LogAssumption ==
  /\ Mark \notin Chars /\ Cut \notin Chars
  /\ \A c \in Cases :
       /\ c.secrets \subseteq Seq(Chars) /\ IsFiniteSet(c.secrets)
       /\ c.lines \subseteq Seq(Chars)
       /\ c.count \in Nat
  /\ IsFiniteSet(Loggers)
  /\ MinSecret \in Nat \ {0} /\ MaxLine \in Nat /\ MaxTask \in Nat
  /\ MaxLine < MaxTask

VARIABLES
  secrets,  \* the values of the workspace's secrets, and their JSON-escaped forms
  lines,    \* the lines that are logged
  left,     \* how many more are logged
  handle,   \* where each logger's call of Handle is
  ended,    \* whether the worker has built its last handler
  written,  \* the counter of the handler in use
  capped,   \* its flag
  rows      \* task_logs

logVars == <<secrets, lines, left, handle, ended, written, capped, rows>>

-----------------------------------------------------------------------------
(* The redactor.                                                           *)

\* v is in s from position i on.
Occurs(v, s, i) == i + Len(v) <= Len(s) + 1 /\ \A j \in DOMAIN v : s[i + j - 1] = v[j]

\* One step of strings.ReplaceAll: from position at on, s is yet to be looked at.
Pass(s, v, c) ==
  IF c.at > Len(s) THEN c
  ELSE IF Occurs(v, s, c.at) THEN [at |-> c.at + Len(v), out |-> Append(c.out, Mark)]
  ELSE [at |-> c.at + 1, out |-> Append(c.out, s[c.at])]

\* strings.ReplaceAll, from left to right.  (A recursive function, which unlike a
\* RECURSIVE operator can be proved about.)
Replaced(s, v) ==
  LET scan[k \in 0..Len(s)] == IF k = 0 THEN [at |-> 1, out |-> <<>>] ELSE Pass(s, v, scan[k - 1])
  IN scan[Len(s)].out

\* Mutated form: a secret of the least length is taken for a short one.
Values_Longer == {v \in secrets : Len(v) > MinSecret}

\* newRedactor: short values are left alone.
Values == {v \in secrets : Len(v) >= MinSecret}

\* Mutated form: in the order they come from the map.
Orders_Any == SetToSeqs(Values)

\* The longest first; values of one length come in any order.
Orders ==
  {o \in SetToSeqs(Values) : \A i, j \in DOMAIN o : i < j => Len(o[i]) >= Len(o[j])}

\* redactor.String.
Redact(order, s) ==
  LET text[k \in 0..Len(order)] == IF k = 0 THEN s ELSE Replaced(text[k - 1], order[k])
  IN text[Len(order)]

-----------------------------------------------------------------------------
(* The handler.                                                            *)

Idle == [pc |-> "idle"]

LogInit ==
  /\ \E c \in Cases : secrets = c.secrets /\ lines = c.lines /\ left = c.count
  /\ handle = [g \in Loggers |-> Idle]
  /\ ended = FALSE
  /\ written = 0
  /\ capped = FALSE
  /\ rows = <<>>

\* What a line is cut to.
Truncate(s) == IF Len(s) > MaxLine THEN Append(SubSeq(s, 1, MaxLine), Cut) ELSE s

\* Mutated form: cut first.
Message_CutFirst(order, s) == Redact(order, Truncate(s))

Message(order, s) == Truncate(Redact(order, s))

\* Handle up to the counter: the message that is teed and stored.
Starts(g, s) ==
  /\ handle[g] = Idle
  /\ \E order \in Orders :
       handle' = [handle EXCEPT ![g] = [pc |-> "add", line |-> s, msg |-> Message(order, s)]]

\* A line of the executor, or the worker's that the task has started.
Log(g, s) ==
  /\ ~ended /\ left > 0
  /\ left' = left - 1
  /\ Starts(g, s)
  /\ UNCHANGED <<secrets, lines, ended, written, capped, rows>>

\* finishTask or suspendTask, after its commit: a new handler, and one line.
End(g, s) ==
  /\ ~ended /\ \A f \in Loggers : handle[f] = Idle
  /\ ended' = TRUE
  /\ written' = 0 /\ capped' = FALSE
  /\ Starts(g, s)
  /\ UNCHANGED <<secrets, lines, left, rows>>

\* Mutated form: the total before the line was added.
Total_Before(n) == written

\* What the atomic Add returns.
Total(n) == written + n

\* The counter, then the flag: the first logger past the cap says so.
Add(g) ==
  LET n == Len(handle[g].msg) IN
  /\ handle[g].pc = "add"
  /\ written' = written + n
  /\ IF Total(n) <= MaxTask
       THEN handle' = [handle EXCEPT ![g].pc = "insert"] /\ UNCHANGED capped
       ELSE /\ capped' = TRUE
            /\ handle' = [handle EXCEPT ![g] = IF capped THEN Idle ELSE [pc |-> "notice"]]
  /\ UNCHANGED <<secrets, lines, left, ended, rows>>

\* insert, best effort: the row is there, or it is not.
Insert(g) ==
  /\ handle[g].pc \in {"insert", "notice"}
  /\ \/ rows' = Append(rows, IF handle[g].pc = "notice" THEN [notice |-> TRUE]
                             ELSE [notice |-> FALSE, line |-> handle[g].line, msg |-> handle[g].msg])
     \/ UNCHANGED rows
  /\ handle' = [handle EXCEPT ![g] = Idle]
  /\ UNCHANGED <<secrets, lines, left, ended, written, capped>>

LogNext == \E g \in Loggers : (\E s \in lines : Log(g, s) \/ End(g, s)) \/ Add(g) \/ Insert(g)

LogSpec == LogInit /\ [][LogNext]_logVars

-----------------------------------------------------------------------------
Lines == {k \in DOMAIN rows : ~rows[k].notice}

(***************************************************************************)
(* Secrets never reach the log, in whatever order the redactor takes them  *)
(* and wherever the line is cut.                                           *)
(***************************************************************************)
SecretsStayOut ==
  \A k \in Lines, v \in secrets : Len(v) >= MinSecret =>
    \A i \in DOMAIN rows[k].msg : ~Occurs(v, rows[k].msg, i)

\* The end of u is the beginning of v.
Overlap(u, v) ==
  \E n \in 1..Len(u) : n < Len(u) /\ n < Len(v) /\ \A j \in 1..n : u[Len(u) - n + j] = v[j]

\* Where in s the value v is, wherever it begins.
Covers(v, s) == {j \in DOMAIN s : \E i \in DOMAIN s : Occurs(v, s, i) /\ j \in i..(i + Len(v) - 1)}

Uncovered(values, s) == DOMAIN s \ UNION {Covers(v, s) : v \in values}

Letters(s) == {i \in DOMAIN s : s[i] \notin {Mark, Cut}}

\* i is the how-many-th member of S.
Rank(S, i) == Cardinality({j \in S : j <= i})

\* Of line, msg keeps what no occurrence of a value covers, in its order, or, if
\* it was cut, the beginning of that.
KeepsTheRest(values, line, msg) ==
  LET kept == Letters(msg)
      rest == Uncovered(values, line)
  IN /\ \A i \in kept, p \in rest : Rank(kept, i) = Rank(rest, p) => msg[i] = line[p]
     /\ IF \E i \in DOMAIN msg : msg[i] = Cut
          THEN Cardinality(kept) <= Cardinality(rest) ELSE Cardinality(kept) = Cardinality(rest)

(***************************************************************************)
(* No fragment of a secret is left behind, and nothing else is lost.       *)
(* (This is so for secrets that contain each other; where the end of one   *)
(* is the beginning of another, or of itself, the rest of the second is    *)
(* left.)                                                                  *)
(***************************************************************************)
NoFragments ==
  (\A u, v \in Values : ~Overlap(u, v)) => \A k \in Lines : KeepsTheRest(Values, rows[k].line, rows[k].msg)

\* The characters stored, one by one.
Stored == UNION {{k} \X DOMAIN rows[k].msg : k \in Lines}

(***************************************************************************)
(* A task stores its cap and one line more at most, however many lines are *)
(* counted at once, and says at most once that lines were dropped.  (The   *)
(* cap is per handler: the worker's last line is not counted with the      *)
(* others, and is stored past it.)                                         *)
(***************************************************************************)
CapHolds ==
  /\ Cardinality(Stored) <= MaxTask + (IF ended THEN MaxLine + 1 ELSE 0)
  /\ \A j, k \in DOMAIN rows : rows[j].notice /\ rows[k].notice => j = k
=============================================================================
