---------------------------- MODULE MCFunctions ----------------------------
(* What the engine computes from its data: whether a definition is valid    *)
(* and what a step may see (Definition), and what of a line is stored       *)
(* (TaskLog).  A behaviour is one of the one or of the other.               *)
EXTENDS Definition, TaskLog

CONSTANTS a, b

LetterSet == {a, b}

(* Definitions: all graphs of three steps, a need on an unknown step        *)
(* included, and all pairs of steps with fields at and past their limits.   *)
StepKeys == <<"a", "b", "c">>

\* The needs of a step: up to three of the keys and an unknown one, in this order.
NeedLists == {SelectSeq(<<"c", "b", "a", "x">>, LAMBDA n : n \in S) :
                 S \in {S \in SUBSET {"a", "b", "c", "x"} : Cardinality(S) <= 3}}

Plain(key, needs) == [key |-> key, type |-> "http", needs |-> needs, retries |-> 0, timeout |-> 0]

Graphs == {[i \in 1..3 |-> Plain(StepKeys[i], n[i])] : n \in [1..3 -> NeedLists]}

Fields == [key : {"a", "b", NoKey}, type : {"http", "other", NoType}, needs : {<<>>, <<"a">>},
           retries : {-1, 10, 11}, timeout : {-1, 600, 601}]

GraphsAndFields == Graphs \cup [1..1 -> Fields] \cup
    {<<f, Plain("b", <<"a">>)>> : f \in Fields} \cup {<<Plain("a", <<>>), f>> : f \in Fields}

KnownTypes == {"http"}

(* Lines: every text of up to six of two letters, under any two secrets of  *)
(* up to three letters; and four lines of two loggers at the cap.           *)
Texts(n) == UNION {[1..k -> LetterSet] : k \in 1..n}

MCCases ==
  [secrets : {{u, v} : u, v \in Texts(3)}, lines : {{s} : s \in Texts(6)}, count : {1}]
    \cup [secrets : {{}}, lines : {{<<a>>, <<a, a>>, <<b, b, b>>}}, count : {4}]

-----------------------------------------------------------------------------
LogOff == secrets = {} /\ lines = {} /\ left = 0 /\ handle = [g \in Loggers |-> Idle]
            /\ ended = FALSE /\ written = 0 /\ capped = FALSE /\ rows = <<>>

FunctionsInit ==
  \/ Init /\ LogOff
  \/ LogInit /\ def = <<>> /\ verdict = "none" /\ color = <<>> /\ stack = <<>> /\ asked = NoKey /\ seen = {}

FunctionsNext ==
  \/ def # <<>> /\ Next /\ UNCHANGED logVars
  \/ LogNext /\ UNCHANGED vars

FunctionsSpec == FunctionsInit /\ [][FunctionsNext]_<<vars, logVars>>
=============================================================================
