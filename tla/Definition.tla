----------------------------- MODULE Definition -----------------------------
(***************************************************************************)
(* engine/internal/definition: what Validate accepts when a workflow is    *)
(* saved, and the closure TransitiveNeeds computes when a step is run.     *)
(* A step is a record [key, type, needs, retries, timeout]; a definition   *)
(* is a sequence of steps.  needs is the sequence the JSON lists.          *)
(*                                                                         *)
(* Both searches are recursive functions in the code.  Here the calls that *)
(* are under way are the stack: the step of each, and the needs it has     *)
(* still to look at.                                                       *)
(***************************************************************************)
EXTENDS Integers, Sequences, FiniteSets

CONSTANTS
    Definitions,    \* the definitions to be saved
    Known           \* the step types of the registry

ASSUME DefinitionsAssumption ==
    Definitions \subseteq
        Seq([key : STRING, type : STRING, needs : Seq(STRING), retries : Int, timeout : Int])

VARIABLES
    def,            \* the definition submitted
    verdict,        \* "none" until validated, then "ok" or the first error
    color,          \* of each step, in checkAcyclic
    stack,          \* the calls of visit that are under way
    asked,          \* the step whose needs were asked for last
    seen            \* the set TransitiveNeeds collects

vars == <<def, verdict, color, stack, asked, seen>>

NoKey == "-"        \* the empty key
NoType == "-"       \* the empty type

Keys(d) == {d[i].key : i \in DOMAIN d}

\* definition.Step: the first step with this key.
Step(d, key) ==
    d[CHOOSE i \in DOMAIN d : d[i].key = key /\ \A j \in DOMAIN d : d[j].key = key => i <= j]

Call(key, needs) == [key |-> key, rest |-> needs]

Top == stack[Len(stack)]

\* The call on top has looked at its next need, or returns.
LookedAt == [stack EXCEPT ![Len(stack)].rest = Tail(@)]
Returned == SubSeq(stack, 1, Len(stack) - 1)

Init ==
    /\ def \in Definitions
    /\ verdict = "none"
    /\ color = <<>> /\ stack = <<>>
    /\ asked = NoKey /\ seen = {}

-----------------------------------------------------------------------------
(* Validate: the first error in the order of the code.                      *)

\* The checks of one step, in the first loop.
StepError(i) ==
    CASE def[i].key = NoKey -> "empty key"
      [] \E j \in 1..(i - 1) : def[j].key = def[i].key -> "duplicate key"
      [] def[i].type = NoType -> "no type"
      [] def[i].type \notin Known -> "unknown type"
      [] def[i].retries \notin 0..10 -> "retries"
      [] def[i].timeout \notin 0..600 -> "timeout"
      [] OTHER -> "ok"

\* The checks of one need, in the second loop.
NeedError(i, j) ==
    CASE def[i].needs[j] \notin Keys(def) -> "unknown need"
      [] def[i].needs[j] = def[i].key -> "needs itself"
      [] OTHER -> "ok"

Submitted == verdict = "none" /\ stack = <<>>

Rejected(error) == verdict' = error /\ UNCHANGED <<def, color, stack, asked, seen>>

StepsPass == \A i \in DOMAIN def : StepError(i) = "ok"
NeedsPass == \A i \in DOMAIN def : \A j \in DOMAIN def[i].needs : NeedError(i, j) = "ok"

\* The first loop meets its first error.
RejectStep(i) ==
    /\ Submitted
    /\ StepError(i) # "ok"
    /\ \A k \in 1..(i - 1) : StepError(k) = "ok"
    /\ Rejected(StepError(i))

\* The second loop meets its first error.
RejectNeed(i, j) ==
    /\ Submitted /\ StepsPass
    /\ NeedError(i, j) # "ok"
    /\ \A k \in 1..i : \A m \in DOMAIN def[k].needs : k < i \/ m < j => NeedError(k, m) = "ok"
    /\ Rejected(NeedError(i, j))

-----------------------------------------------------------------------------
(* checkAcyclic: a depth-first search with three colours.                   *)

\* The loop over all steps is the call at the bottom of the stack.
CheckAcyclic ==
    /\ Submitted /\ StepsPass /\ NeedsPass
    /\ color' = [k \in Keys(def) |-> "white"]
    /\ stack' = <<Call(NoKey, [i \in DOMAIN def |-> def[i].key])>>
    /\ UNCHANGED <<def, verdict, asked, seen>>

Searching == verdict = "none" /\ stack # <<>>

\* Mutated form: a step is done as soon as it is reached, so that a cycle looks
\* like a diamond.
OnStack_Done == "black"

\* The colour of a step whose needs are being visited.
OnStack == "gray"

\* visit is called for the next step in the list: an error if its call is under
\* way, nothing if it is done, and else the needs of the step.
Visit ==
    /\ Searching /\ Top.rest # <<>>
    /\ LET n == Head(Top.rest) IN
       \/ /\ color[n] = "gray"
          /\ verdict' = "cycle" /\ stack' = <<>>
          /\ UNCHANGED color
       \/ /\ color[n] = "black"
          /\ stack' = LookedAt
          /\ UNCHANGED <<verdict, color>>
       \/ /\ color[n] = "white"
          /\ color' = [color EXCEPT ![n] = OnStack]
          /\ stack' = Append(LookedAt, Call(n, Step(def, n).needs))
          /\ UNCHANGED verdict
    /\ UNCHANGED <<def, asked, seen>>

\* visit has looked at all needs of its step.
Visited ==
    /\ Searching /\ Top.rest = <<>> /\ Len(stack) > 1
    /\ color' = [color EXCEPT ![Top.key] = "black"]
    /\ stack' = Returned
    /\ UNCHANGED <<def, verdict, asked, seen>>

\* All steps are visited.  putDefinition and createWorkflow insert a version.
Accept ==
    /\ Searching /\ Top.rest = <<>> /\ Len(stack) = 1
    /\ verdict' = "ok"
    /\ stack' = <<>>
    /\ UNCHANGED <<def, color, asked, seen>>

-----------------------------------------------------------------------------
(* TransitiveNeeds of a step of a saved definition.                         *)

TransitiveNeeds(key) ==
    /\ verdict = "ok" /\ stack = <<>>
    /\ asked' = key
    /\ seen' = {}
    /\ stack' = <<Call(key, Step(def, key).needs)>>
    /\ UNCHANGED <<def, verdict, color>>

Collecting == verdict = "ok" /\ stack # <<>>

\* Mutated form: the direct needs only.
Deeper_Never(n) == LookedAt

\* The call for a need that is new.
Deeper(n) == Append(LookedAt, Call(n, Step(def, n).needs))

\* The next need: it is collected, and visited, if it is new.
Collect ==
    /\ Collecting /\ Top.rest # <<>>
    /\ LET n == Head(Top.rest) IN
       \/ n \in seen /\ stack' = LookedAt /\ UNCHANGED seen
       \/ n \notin seen /\ stack' = Deeper(n) /\ seen' = seen \cup {n}
    /\ UNCHANGED <<def, verdict, color, asked>>

Collected ==
    /\ Collecting /\ Top.rest = <<>>
    /\ stack' = Returned
    /\ UNCHANGED <<def, verdict, color, asked, seen>>

-----------------------------------------------------------------------------
Next ==
    \/ \E i \in DOMAIN def :
         \/ RejectStep(i)
         \/ \E j \in DOMAIN def[i].needs : RejectNeed(i, j)
    \/ CheckAcyclic \/ Visit \/ Visited \/ Accept
    \/ \E key \in Keys(def) : TransitiveNeeds(key)
    \/ Collect \/ Collected

Spec == Init /\ [][Next]_vars

-----------------------------------------------------------------------------
NeedsOf(key) == {Step(def, key).needs[i] : i \in DOMAIN Step(def, key).needs}

\* In every set of steps one needs none of the others.
NoCycle == \A T \in SUBSET Keys(def) : T # {} => \E k \in T : NeedsOf(k) \cap T = {}

(***************************************************************************)
(* Validate accepts exactly the definitions the engine relies on: distinct *)
(* named steps of known types with fields in range, needs that are steps,  *)
(* and in every set of steps one that needs none of the others (which      *)
(* RunEngine assumes of its constants).                                    *)
(***************************************************************************)
ValidateExact ==
    verdict # "none" =>
        (verdict = "ok" <=>
            /\ \A i, j \in DOMAIN def : def[i].key = def[j].key => i = j
            /\ \A i \in DOMAIN def :
                /\ def[i].key # NoKey
                /\ def[i].type # NoType /\ def[i].type \in Known
                /\ def[i].retries \in 0..10
                /\ def[i].timeout \in 0..600
                /\ NeedsOf(def[i].key) \subseteq Keys(def)
            /\ NoCycle)

\* The steps that are in every set that holds the needs of key, and the needs of
\* whatever it holds.
Closure(key) ==
    {n \in Keys(def) : \A T \in SUBSET Keys(def) :
        NeedsOf(key) \subseteq T /\ (\A t \in T : NeedsOf(t) \subseteq T) => n \in T}

(***************************************************************************)
(* For a saved definition, TransitiveNeeds returns the least set closed    *)
(* under needs, and never the step itself: a context shows neither         *)
(* siblings nor the step.                                                  *)
(***************************************************************************)
TransitiveNeedsExact ==
    verdict = "ok" /\ asked # NoKey /\ stack = <<>> => seen = Closure(asked) /\ asked \notin seen
=============================================================================
