-------------------------- MODULE FunctionsProofs --------------------------
(***************************************************************************)
(* Theorems about what the engine computes from its data: Definition, for  *)
(* definitions of any size, and TaskLog, for any secrets, lines, limits    *)
(* and number of loggers.                                                  *)
(***************************************************************************)
EXTENDS Definition, TaskLog, FiniteSetTheorems, TLAPS

-----------------------------------------------------------------------------
(* Induction and recursion over the natural numbers, in the form of sets   *)
(* and functions, which the provers can instantiate.                       *)

\* A set with 0 and every successor: without n, the successor would map its
\* finite part below n into that part without 0.
LEMMA SetInduction ==
  ASSUME NEW S \in SUBSET Nat, 0 \in S, \A n \in S : n + 1 \in S
  PROVE  S = Nat
<1> SUFFICES ASSUME NEW n \in Nat, n \notin S PROVE FALSE
  OBVIOUS
<1> DEFINE D == {k \in S : k <= n}
           E == {k \in D : k # 0}
           f == [k \in D |-> k + 1]
<1>1. IsFiniteSet(D) /\ Cardinality(D) \in Nat
  BY FS_BoundedSetOfNaturals, FS_CardinalityType
<1>2. \A k \in D : k + 1 \in E
  <2> SUFFICES ASSUME NEW k \in D PROVE k + 1 \in E
    OBVIOUS
  <2>1. k \in Nat /\ k <= n /\ k # n /\ k + 1 \in S
    OBVIOUS
  <2> QED  BY <2>1
<1>3. f \in Injection(D, E)
  <2>1. f \in [D -> E]
    BY <1>2
  <2>2. \A j, k \in DOMAIN f : f[j] = f[k] => j = k
    OBVIOUS
  <2> HIDE DEF f
  <2> QED  BY <2>1, <2>2 DEF Injection, IsInjective
<1>4. E = D \ {0} /\ 0 \in D
  OBVIOUS
<1> HIDE DEF D, E, f
<1>5. IsFiniteSet(E) /\ Cardinality(E) = Cardinality(D) - 1
  BY <1>1, <1>4, FS_RemoveElement
<1>6. Cardinality(D) <= Cardinality(E)
  BY <1>3, <1>5, FS_Injection
<1> QED  BY <1>1, <1>5, <1>6

\* f begins with a and goes on by the steps of G.
Iterates(f, T, a, G) == f \in [Nat -> T] /\ f[0] = a /\ \A n \in Nat : f[n + 1] = G[n][f[n]]

\* A function given by its first value and its steps exists: the approximations
\* that are right up to n exist, and agree.
LEMMA Recursion ==
  ASSUME NEW T, NEW a \in T, NEW G \in [Nat -> [T -> T]]
  PROVE  \E f : Iterates(f, T, a, G)
<1> DEFINE Good(n, g) == g[0] = a /\ \A k \in 0..(n - 1) : g[k + 1] = G[k][g[k]]
           S == {n \in Nat : \E g \in [Nat -> T] : Good(n, g)}
<1>1. 0 \in S
  <2>1. Good(0, [k \in Nat |-> a])
    OBVIOUS
  <2> QED  BY <2>1
<1>2. ASSUME NEW n \in S PROVE n + 1 \in S
  <2>1. PICK g \in [Nat -> T] : Good(n, g)
    OBVIOUS
  <2> DEFINE h == [g EXCEPT ![n + 1] = G[n][g[n]]]
  <2>2. h \in [Nat -> T] /\ n + 1 \in Nat
    OBVIOUS
  <2>3. Good(n + 1, h)
    BY <2>1
  <2> HIDE DEF h, Good
  <2> QED  BY <2>2, <2>3
<1>3. S = Nat
  BY <1>1, <1>2, SetInduction
<1>4. ASSUME NEW m \in Nat, NEW g \in [Nat -> T], Good(m, g),
             NEW n \in Nat, NEW h \in [Nat -> T], Good(n, h)
      PROVE  \A k \in Nat : k <= m /\ k <= n => g[k] = h[k]
  <2> DEFINE R == {k \in Nat : k <= m /\ k <= n => g[k] = h[k]}
  <2>1. 0 \in R
    BY <1>4
  <2>2. ASSUME NEW k \in R PROVE k + 1 \in R
    BY <1>4
  <2> HIDE DEF R
  <2>3. R = Nat
    BY <2>1, <2>2, SetInduction DEF R
  <2> QED  BY <2>3 DEF R
<1> DEFINE pick[n \in Nat] == CHOOSE g \in [Nat -> T] : Good(n, g)
           f == [n \in Nat |-> pick[n][n]]
<1>5. ASSUME NEW n \in Nat PROVE pick[n] \in [Nat -> T] /\ Good(n, pick[n])
  <2>1. n \in S
    BY <1>3
  <2> HIDE DEF Good
  <2> QED  BY <2>1
<1> HIDE DEF pick
<1>6. f \in [Nat -> T] /\ f[0] = a
  BY <1>5
<1>7. ASSUME NEW n \in Nat PROVE f[n + 1] = G[n][f[n]]
  <2>1. f[n + 1] = G[n][pick[n + 1][n]]
    BY <1>5
  <2>2. pick[n + 1][n] = pick[n][n]
    <3> HIDE DEF Good
    <3> QED  BY <1>4, <1>5
  <2> QED  BY <2>1, <2>2
<1> HIDE DEF f
<1> QED  BY <1>6, <1>7 DEF Iterates

-----------------------------------------------------------------------------
(* Sequences and stacks.                                                   *)

\* What a sequence lists.
Elements(s) == {s[i] : i \in DOMAIN s}

LEMMA HeadTail ==
  ASSUME NEW T, NEW s \in Seq(T), s # <<>>
  PROVE  /\ Head(s) \in T /\ Tail(s) \in Seq(T)
         /\ Elements(s) = {Head(s)} \cup Elements(Tail(s))
<1>1. /\ Len(s) \in Nat \ {0} /\ Head(s) = s[1] /\ DOMAIN s = 1..Len(s)
      /\ Tail(s) \in Seq(T) /\ Len(Tail(s)) = Len(s) - 1
      /\ DOMAIN Tail(s) = 1..(Len(s) - 1)
      /\ \A i \in 1..(Len(s) - 1) : Tail(s)[i] = s[i + 1]
  OBVIOUS
<1>2. ASSUME NEW x \in Elements(s) PROVE x = Head(s) \/ x \in Elements(Tail(s))
  <2>1. PICK i \in 1..Len(s) : x = s[i]
    BY <1>1 DEF Elements
  <2>2. CASE i # 1
    <3>1. i - 1 \in 1..(Len(s) - 1) /\ Tail(s)[i - 1] = x
      BY <1>1, <2>1, <2>2
    <3> QED  BY <1>1, <3>1 DEF Elements
  <2> QED  BY <1>1, <2>1, <2>2
<1>3. Head(s) \in Elements(s)
  BY <1>1 DEF Elements
<1>4. ASSUME NEW x \in Elements(Tail(s)) PROVE x \in Elements(s)
  <2>1. PICK i \in 1..(Len(s) - 1) : x = Tail(s)[i]
    BY <1>1 DEF Elements
  <2>2. i + 1 \in 1..Len(s) /\ s[i + 1] = x
    BY <1>1, <2>1
  <2> QED  BY <1>1, <2>2 DEF Elements
<1> QED  BY <1>1, <1>2, <1>3, <1>4

Calls == [key : STRING \cup {NoKey}, rest : Seq(STRING)]

\* The call on top goes on to its next need.
LEMMA LookedAtIs ==
  ASSUME NEW st \in Seq(Calls), st # <<>>, st[Len(st)].rest # <<>>
  PROVE  LET up == [st EXCEPT ![Len(st)].rest = Tail(@)] IN
         /\ up \in Seq(Calls) /\ Len(up) = Len(st)
         /\ \A j \in 1..Len(st) : up[j].key = st[j].key
         /\ \A j \in 1..(Len(st) - 1) : up[j] = st[j]
         /\ up[Len(st)].rest = Tail(st[Len(st)].rest)
<1> DEFINE n == Len(st)
           c == [st[n] EXCEPT !.rest = Tail(@)]
           up == [st EXCEPT ![n].rest = Tail(@)]
<1>1. n \in Nat \ {0} /\ st[n] \in Calls
  OBVIOUS
<1>2. st[n].rest \in Seq(STRING) /\ st[n].rest # <<>>
  BY <1>1 DEF Calls
<1>3. Tail(st[n].rest) \in Seq(STRING)
  BY <1>2, HeadTail
<1>4. c \in Calls /\ c.key = st[n].key /\ c.rest = Tail(st[n].rest)
  BY <1>1, <1>3 DEF Calls
<1>5. up = [st EXCEPT ![n] = c]
  OBVIOUS
<1> HIDE DEF c, n
<1>6. [st EXCEPT ![n] = c] \in Seq(Calls) /\ Len([st EXCEPT ![n] = c]) = n
  BY <1>1, <1>4 DEF n
<1>7. \A j \in 1..n : [st EXCEPT ![n] = c][j] = IF j = n THEN c ELSE st[j]
  BY <1>1 DEF n
<1>8. /\ up \in Seq(Calls) /\ Len(up) = Len(st)
      /\ \A j \in 1..n : up[j] = IF j = n THEN c ELSE st[j]
  BY <1>5, <1>6, <1>7 DEF n
<1> HIDE DEF up
<1>9. /\ \A j \in 1..n : up[j].key = st[j].key
      /\ \A j \in 1..(n - 1) : up[j] = st[j]
      /\ up[n].rest = Tail(st[n].rest)
  BY <1>1, <1>4, <1>8
<1> QED  BY <1>8, <1>9 DEF n, up

LEMMA AppendIs ==
  ASSUME NEW T, NEW s \in Seq(T), NEW x \in T
  PROVE  /\ Append(s, x) \in Seq(T) /\ Len(s) \in Nat /\ Len(Append(s, x)) = Len(s) + 1
         /\ \A j \in 1..Len(s) : Append(s, x)[j] = s[j]
         /\ Append(s, x)[Len(s) + 1] = x
OBVIOUS

LEMMA ReturnedIs ==
  ASSUME NEW T, NEW s \in Seq(T), s # <<>>
  PROVE  LET r == SubSeq(s, 1, Len(s) - 1) IN
         /\ Len(s) \in Nat \ {0} /\ r \in Seq(T) /\ Len(r) = Len(s) - 1
         /\ \A j \in 1..(Len(s) - 1) : r[j] = s[j]
<1>1. Len(s) \in Nat \ {0} /\ \A j \in 1..Len(s) : s[j] \in T
  OBVIOUS
<1> DEFINE m == Len(s) - 1
<1>2. m \in Nat /\ m <= Len(s)
  BY <1>1
<1>3. SubSeq(s, 1, m) = [j \in 1..m |-> s[j]]
  BY <1>1
<1> HIDE DEF m
<1>4. [j \in 1..m |-> s[j]] \in Seq(T) /\ Len([j \in 1..m |-> s[j]]) = m
  BY <1>1, <1>2
<1> QED  BY <1>1, <1>3, <1>4 DEF m

-----------------------------------------------------------------------------
(* A definition that has passed the loops of Validate.                     *)

Passed == StepsPass /\ NeedsPass

\* The two loops find what the definition of ValidateExact says of steps.
Proper ==
  /\ \A i, j \in DOMAIN def : def[i].key = def[j].key => i = j
  /\ \A i \in DOMAIN def :
       /\ def[i].key # NoKey
       /\ def[i].type # NoType /\ def[i].type \in Known
       /\ def[i].retries \in 0..10
       /\ def[i].timeout \in 0..600
       /\ NeedsOf(def[i].key) \subseteq Keys(def)

LEMMA StepErrorIs ==
  ASSUME NEW i \in DOMAIN def
  PROVE  StepError(i) = "ok" <=>
           /\ def[i].key # NoKey
           /\ \A j \in 1..(i - 1) : def[j].key # def[i].key
           /\ def[i].type # NoType /\ def[i].type \in Known
           /\ def[i].retries \in 0..10
           /\ def[i].timeout \in 0..600
<1>1. ASSUME NEW a \in BOOLEAN, NEW b \in BOOLEAN, NEW c \in BOOLEAN, NEW d \in BOOLEAN, NEW e \in BOOLEAN,
             NEW f \in BOOLEAN
      PROVE  (CASE a -> "empty key" [] b -> "duplicate key" [] c -> "no type" [] d -> "unknown type"
                [] e -> "retries" [] f -> "timeout" [] OTHER -> "ok") = "ok"
             <=> ~a /\ ~b /\ ~c /\ ~d /\ ~e /\ ~f
  OBVIOUS
<1> DEFINE a == def[i].key = NoKey
           b == \E j \in 1..(i - 1) : def[j].key = def[i].key
           c == def[i].type = NoType
           d == def[i].type \notin Known
           e == def[i].retries \notin 0..10
           f == def[i].timeout \notin 0..600
<1>2. StepError(i) = CASE a -> "empty key" [] b -> "duplicate key" [] c -> "no type" [] d -> "unknown type"
                       [] e -> "retries" [] f -> "timeout" [] OTHER -> "ok"
  BY DEF StepError
<1>3. /\ a \in BOOLEAN /\ b \in BOOLEAN /\ c \in BOOLEAN /\ d \in BOOLEAN /\ e \in BOOLEAN /\ f \in BOOLEAN
  OBVIOUS
<1> HIDE DEF a, b, c, d, e, f
<1>4. StepError(i) = "ok" <=> ~a /\ ~b /\ ~c /\ ~d /\ ~e /\ ~f
  BY <1>1, <1>2, <1>3
<1> QED  BY <1>4 DEF a, b, c, d, e, f

LEMMA NeedErrorIs ==
  ASSUME NEW i, NEW j
  PROVE  NeedError(i, j) = "ok" <=> def[i].needs[j] \in Keys(def) /\ def[i].needs[j] # def[i].key
BY DEF NeedError

LEMMA DefType ==
  ASSUME def \in Definitions
  PROVE  /\ Len(def) \in Nat /\ DOMAIN def = 1..Len(def)
         /\ \A i \in DOMAIN def : def[i].key \in STRING /\ def[i].needs \in Seq(STRING)
<1> DEFINE R == [key : STRING, type : STRING, needs : Seq(STRING), retries : Int, timeout : Int]
<1>1. def \in Seq(R)
  BY DefinitionsAssumption
<1>2. Len(def) \in Nat /\ DOMAIN def = 1..Len(def) /\ \A i \in DOMAIN def : def[i] \in R
  <2> HIDE DEF R
  <2> QED  BY <1>1
<1> QED  BY <1>2

\* Distinct keys: the step of a key is the one that has it.
LEMMA StepOfKey ==
  ASSUME \A i, j \in DOMAIN def : def[i].key = def[j].key => i = j, def \in Definitions, NEW i \in DOMAIN def
  PROVE  Step(def, def[i].key) = def[i]
<1>1. i \in Nat
  BY DefType
<1>2. \A k \in DOMAIN def :
        (def[k].key = def[i].key /\ \A j \in DOMAIN def : def[j].key = def[i].key => k <= j) <=> k = i
  BY <1>1
<1> QED  BY <1>2 DEF Step

LEMMA Distinct ==
  ASSUME def \in Definitions, StepsPass
  PROVE  \A i, j \in DOMAIN def : def[i].key = def[j].key => i = j
<1> SUFFICES ASSUME NEW i \in DOMAIN def, NEW j \in DOMAIN def, def[i].key = def[j].key, i # j PROVE FALSE
  OBVIOUS
<1>1. i \in Nat \ {0} /\ j \in Nat \ {0}
  BY DefType
<1>2. i \in 1..(j - 1) \/ j \in 1..(i - 1)
  BY <1>1
<1> QED  BY <1>2, StepErrorIs DEF StepsPass

LEMMA NeedsAre ==
  ASSUME def \in Definitions, \A i, j \in DOMAIN def : def[i].key = def[j].key => i = j, NEW i \in DOMAIN def
  PROVE  NeedsOf(def[i].key) = Elements(def[i].needs)
BY StepOfKey DEF NeedsOf, Elements

LEMMA PassedIs ==
  ASSUME def \in Definitions, Passed
  PROVE  /\ Proper
         /\ \A k \in Keys(def) : /\ k \in STRING /\ k # NoKey
                                 /\ Step(def, k).needs \in Seq(STRING)
                                 /\ NeedsOf(k) = Elements(Step(def, k).needs)
                                 /\ NeedsOf(k) \subseteq Keys(def)
<1>1. \A i, j \in DOMAIN def : def[i].key = def[j].key => i = j
  BY Distinct DEF Passed
<1>2. ASSUME NEW i \in DOMAIN def PROVE NeedsOf(def[i].key) \subseteq Keys(def)
  <2>1. \A j \in DOMAIN def[i].needs : def[i].needs[j] \in Keys(def)
    BY NeedErrorIs DEF Passed, NeedsPass
  <2> QED  BY <1>1, <2>1, NeedsAre DEF Elements
<1>3. Proper
  <2>1. \A i \in DOMAIN def : /\ def[i].key # NoKey
                              /\ def[i].type # NoType /\ def[i].type \in Known
                              /\ def[i].retries \in 0..10
                              /\ def[i].timeout \in 0..600
    BY StepErrorIs DEF Passed, StepsPass
  <2> QED  BY <1>1, <1>2, <2>1 DEF Proper
<1>4. ASSUME NEW k \in Keys(def)
      PROVE  /\ k \in STRING /\ k # NoKey
             /\ Step(def, k).needs \in Seq(STRING)
             /\ NeedsOf(k) = Elements(Step(def, k).needs)
             /\ NeedsOf(k) \subseteq Keys(def)
  <2>1. PICK i \in DOMAIN def : k = def[i].key
    BY DEF Keys
  <2>2. Step(def, k) = def[i]
    BY <1>1, <2>1, StepOfKey
  <2> QED  BY <1>2, <1>3, <2>1, <2>2, DefType DEF Proper, NeedsOf, Elements
<1> QED  BY <1>3, <1>4

-----------------------------------------------------------------------------
(* checkAcyclic.                                                           *)

Black == {k \in Keys(def) : color[k] = "black"}

\* What the jth call of the stack has to visit: the first one is the loop over
\* all steps.
Duty(j) == IF j = 1 THEN Keys(def) ELSE NeedsOf(stack[j].key)

\* Where a call is: what it has to visit is done, ahead, or being visited.
Course(j) ==
  /\ Elements(stack[j].rest) \subseteq Duty(j)
  /\ j < Len(stack) => stack[j + 1].key \in Duty(j)
  /\ \A n \in Duty(j) :
       n \in Black \/ n \in Elements(stack[j].rest) \/ (j < Len(stack) /\ n = stack[j + 1].key)

\* The gray steps are those on the stack, each once.
GrayIsStack ==
  /\ \A j \in 2..Len(stack) : stack[j].key \in Keys(def) /\ color[stack[j].key] = "gray"
  /\ \A k \in Keys(def) : color[k] = "gray" => \E j \in 2..Len(stack) : stack[j].key = k
  /\ \A i, j \in 2..Len(stack) : stack[i].key = stack[j].key => i = j

\* Nothing that is done needs what is not, and there is no cycle in it.
BlackIsFinal ==
  /\ \A k \in Black : NeedsOf(k) \subseteq Black
  /\ \A T \in SUBSET Black : T # {} => \E k \in T : NeedsOf(k) \cap T = {}

Search ==
  /\ color \in [Keys(def) -> {"white", "gray", "black"}]
  /\ GrayIsStack
  /\ \A j \in 1..Len(stack) : Course(j)
  /\ BlackIsFinal

\* The call on top of the stack, and one that is put there.
LEMMA TopIs ==
  ASSUME stack \in Seq(Calls), stack # <<>>
  PROVE  /\ Len(stack) \in Nat \ {0} /\ Top = stack[Len(stack)]
         /\ Top.rest \in Seq(STRING)
<1>1. Len(stack) \in Nat \ {0} /\ stack[Len(stack)] \in Calls
  OBVIOUS
<1>2. \A c \in Calls : c.rest \in Seq(STRING)
  BY DEF Calls
<1> QED  BY <1>1, <1>2 DEF Top

LEMMA CallIs ==
  ASSUME NEW k \in STRING \cup {NoKey}, NEW needs \in Seq(STRING)
  PROVE  Call(k, needs) \in Calls /\ Call(k, needs).key = k /\ Call(k, needs).rest = needs
BY DEF Call, Calls

LEMMA StepCall ==
  ASSUME def \in Definitions, Passed, NEW n \in Keys(def), NEW c, c = Call(n, Step(def, n).needs)
  PROVE  c \in Calls /\ c.key = n /\ Elements(c.rest) = NeedsOf(n)
<1>1. n \in STRING /\ Step(def, n).needs \in Seq(STRING) /\ NeedsOf(n) = Elements(Step(def, n).needs)
  BY PassedIs
<1>2. c \in Calls /\ c.key = n /\ c.rest = Step(def, n).needs
  BY <1>1, CallIs
<1> QED  BY <1>1, <1>2

\* Steps need steps.
LEMMA DutyIn ==
  ASSUME def \in Definitions, Passed, Search, NEW j \in 1..Len(stack)
  PROVE  Duty(j) \subseteq Keys(def)
<1>1. CASE j = 1
  BY <1>1 DEF Duty
<1>2. CASE j # 1
  <2>1. stack[j].key \in Keys(def)
    <3>1. j \in 2..Len(stack)
      BY <1>2
    <3> QED  BY <3>1 DEF Search, GrayIsStack
  <2>2. NeedsOf(stack[j].key) \subseteq Keys(def)
    BY <2>1, PassedIs
  <2> QED  BY <1>2, <2>2 DEF Duty
<1> QED  BY <1>1, <1>2

\* The search begins.
LEMMA CheckSearch ==
  ASSUME def \in Definitions, Passed, CheckAcyclic
  PROVE  Search' /\ stack' \in Seq(Calls)
<1> DEFINE all == [i \in DOMAIN def |-> def[i].key]
<1>1. all \in Seq(STRING) /\ Elements(all) = Keys(def)
  BY DefType DEF Elements, Keys
<1> HIDE DEF all
<1>2. Call(NoKey, all) \in Calls /\ Call(NoKey, all).rest = all
  BY <1>1, CallIs
<1>3. stack' = <<Call(NoKey, all)>> /\ color' = [k \in Keys(def) |-> "white"] /\ def' = def
  BY DEF CheckAcyclic, all
<1>4. stack' \in Seq(Calls) /\ Len(stack') = 1 /\ stack'[1].rest = all
  BY <1>2, <1>3
<1>5. Black' = {}
  BY <1>3 DEF Black, Keys
<1>6. color' \in [Keys(def)' -> {"white", "gray", "black"}] /\ GrayIsStack' /\ BlackIsFinal'
  BY <1>3, <1>4, <1>5 DEF GrayIsStack, BlackIsFinal, Keys
<1>7. ASSUME NEW j \in 1..Len(stack') PROVE Course(j)'
  <2>1. j = 1
    BY <1>4
  <2>2. Duty(j)' = Keys(def)
    BY <1>3, <2>1 DEF Duty, Keys
  <2> QED  BY <1>1, <1>4, <2>1, <2>2 DEF Course
<1> QED  BY <1>4, <1>6, <1>7 DEF Search

\* What an unchanged definition leaves as it is.
LEMMA SameDef ==
  ASSUME def' = def
  PROVE  /\ Keys(def)' = Keys(def) /\ \A k : NeedsOf(k)' = NeedsOf(k)
         /\ Passed' = Passed /\ Proper' = Proper /\ NoCycle' = NoCycle
BY DEF Keys, NeedsOf, Step, Passed, StepsPass, NeedsPass, StepError, NeedError, Proper, NoCycle

\* The next step of the list is done already.
LEMMA VisitBlack ==
  ASSUME def \in Definitions, Passed, Search, stack \in Seq(Calls), stack # <<>>, Top.rest # <<>>,
         color[Head(Top.rest)] = "black", Visit
  PROVE  Search' /\ stack' \in Seq(Calls)
<1>0. stack' = LookedAt /\ UNCHANGED <<def, color>>
  BY DEF Visit
<1>a. PICK m : m = Len(stack)
  OBVIOUS
<1>b. PICK n : n = Head(Top.rest)
  OBVIOUS
<1>1. m \in Nat \ {0} /\ Top = stack[m] /\ stack[m].rest \in Seq(STRING) /\ stack[m].rest # <<>>
  BY <1>a, TopIs
<1>2. /\ stack' \in Seq(Calls) /\ Len(stack') = m
      /\ \A j \in 1..m : stack'[j].key = stack[j].key
      /\ \A j \in 1..(m - 1) : stack'[j] = stack[j]
      /\ stack'[m].rest = Tail(stack[m].rest)
  BY <1>0, <1>1, <1>a, LookedAtIs DEF LookedAt
<1>3. Elements(stack[m].rest) = {n} \cup Elements(stack'[m].rest)
  BY <1>1, <1>2, <1>b, HeadTail
<1>4. Black' = Black /\ Keys(def)' = Keys(def) /\ \A k : NeedsOf(k)' = NeedsOf(k)
  BY <1>0, SameDef DEF Black
<1>5. \A j \in 1..m : Duty(j)' = Duty(j)
  BY <1>2, <1>4 DEF Duty
<1>6. n \in Black
  <2>1. n \in Duty(m)
    BY <1>1, <1>3, <1>a DEF Search, Course
  <2>2. Duty(m) \subseteq Keys(def)
    BY <1>1, <1>a, DutyIn
  <2> QED  BY <2>1, <2>2, <1>b DEF Black
<1>7. ASSUME NEW j \in 1..m PROVE Course(j)'
  <2>1. Course(j)
    BY <1>a DEF Search
  <2>2. CASE j = m
    BY <1>1, <1>2, <1>3, <1>4, <1>5, <1>6, <2>1, <2>2, <1>a DEF Course
  <2>3. CASE j # m
    <3>1. j \in 1..(m - 1) /\ j + 1 \in 1..m
      BY <1>1, <2>3
    <3> QED  BY <1>2, <1>4, <1>5, <2>1, <3>1, <1>a DEF Course
  <2> QED  BY <2>2, <2>3
<1>8. GrayIsStack'
  <2>1. \A j \in 2..m : stack'[j].key = stack[j].key
    BY <1>1, <1>2
  <2> QED  BY <1>2, <1>4, <2>1, <1>0, <1>a DEF Search, GrayIsStack
<1>9. BlackIsFinal'
  BY <1>4 DEF Search, BlackIsFinal
<1> QED  BY <1>2, <1>4, <1>7, <1>8, <1>9, <1>0, <1>a DEF Search

\* The next step of the list is new: its call is put on the stack.
LEMMA VisitWhite ==
  ASSUME def \in Definitions, Passed, Search, stack \in Seq(Calls), stack # <<>>, Top.rest # <<>>,
         NEW n, n = Head(Top.rest), color[n] = "white", Visit
  PROVE  Search' /\ stack' \in Seq(Calls)
<1>0. /\ def' = def /\ color' = [color EXCEPT ![n] = "gray"]
      /\ stack' = Append(LookedAt, Call(n, Step(def, n).needs))
  BY DEF Visit, OnStack
<1>a. PICK m : m = Len(stack)
  OBVIOUS
<1>b. PICK up : up = LookedAt
  OBVIOUS
<1>c. PICK c : c = Call(n, Step(def, n).needs)
  OBVIOUS
<1>1. m \in Nat \ {0} /\ Top = stack[m] /\ stack[m].rest \in Seq(STRING) /\ stack[m].rest # <<>>
  BY <1>a, TopIs
<1>2. /\ up \in Seq(Calls) /\ Len(up) = m
      /\ \A j \in 1..m : up[j].key = stack[j].key
      /\ \A j \in 1..(m - 1) : up[j] = stack[j]
      /\ up[m].rest = Tail(stack[m].rest)
  BY <1>1, <1>a, <1>b, LookedAtIs DEF LookedAt
<1>3. Elements(stack[m].rest) = {n} \cup Elements(up[m].rest)
  BY <1>1, <1>2, HeadTail
<1>4. n \in Duty(m) /\ n \in Keys(def)
  <2>1. n \in Duty(m)
    BY <1>1, <1>3, <1>a DEF Search, Course
  <2> QED  BY <1>1, <1>a, <2>1, DutyIn
<1>5. c \in Calls /\ c.key = n /\ Elements(c.rest) = NeedsOf(n)
  BY <1>4, <1>c, StepCall
<1>6. /\ stack' \in Seq(Calls) /\ Len(stack') = m + 1
      /\ \A j \in 1..m : stack'[j] = up[j]
      /\ stack'[m + 1] = c
  BY <1>0, <1>2, <1>5, <1>b, <1>c, AppendIs
<1>7. /\ color' \in [Keys(def) -> {"white", "gray", "black"}]
      /\ color'[n] = "gray" /\ \A k \in Keys(def) \ {n} : color'[k] = color[k]
  BY <1>0, <1>4 DEF Search
<1>8. Black' = Black /\ Keys(def)' = Keys(def) /\ \A k : NeedsOf(k)' = NeedsOf(k)
  BY <1>0, <1>4, <1>7, SameDef DEF Black
<1>9. /\ \A j \in 1..m : stack'[j].key = stack[j].key /\ Duty(j)' = Duty(j)
      /\ Duty(m + 1)' = NeedsOf(n)
  <2>1. \A j \in 1..m : stack'[j].key = stack[j].key
    BY <1>2, <1>6
  <2>2. m + 1 # 1 /\ stack'[m + 1].key = n
    BY <1>1, <1>5, <1>6
  <2> QED  BY <1>8, <2>1, <2>2 DEF Duty
<1>10. GrayIsStack'
  <2>1. \A j \in 2..m : stack'[j].key \in Keys(def) /\ color[stack'[j].key] = "gray"
    BY <1>1, <1>9, <1>a DEF Search, GrayIsStack
  <2>2. \A j \in 2..m : stack'[j].key # n
    BY <2>1
  <2>3. stack'[m + 1].key = n /\ m + 1 \in 2..(m + 1) /\ 2..(m + 1) = 2..m \cup {m + 1}
    BY <1>1, <1>5, <1>6
  <2>4. \A j \in 2..(m + 1) : stack'[j].key \in Keys(def) /\ color'[stack'[j].key] = "gray"
    BY <1>4, <1>7, <2>1, <2>2, <2>3
  <2>5. ASSUME NEW k \in Keys(def), color'[k] = "gray" PROVE \E j \in 2..(m + 1) : stack'[j].key = k
    <3>1. CASE k = n
      BY <2>3, <3>1
    <3>2. CASE k # n
      <4>1. PICK j \in 2..m : stack[j].key = k
        BY <1>7, <2>5, <3>2, <1>a DEF Search, GrayIsStack
      <4>2. j \in 1..m /\ j \in 2..(m + 1)
        BY <1>1, <4>1
      <4> QED  BY <1>9, <4>1, <4>2
    <3> QED  BY <3>1, <3>2
  <2>6. ASSUME NEW i \in 2..(m + 1), NEW j \in 2..(m + 1), stack'[i].key = stack'[j].key PROVE i = j
    <3>1. CASE i = m + 1 \/ j = m + 1
      BY <1>1, <2>2, <2>3, <2>6, <3>1
    <3>2. CASE i \in 2..m /\ j \in 2..m
      <4>1. stack[i].key = stack[j].key
        BY <1>1, <1>9, <2>6, <3>2
      <4> QED  BY <3>2, <4>1, <1>a DEF Search, GrayIsStack
    <3> QED  BY <2>3, <3>1, <3>2
  <2> QED  BY <1>6, <1>8, <2>4, <2>5, <2>6 DEF GrayIsStack
<1>11. ASSUME NEW j \in 1..Len(stack') PROVE Course(j)'
  <2>1. CASE j = m + 1
    <3>1. stack'[j] = c /\ Duty(j)' = NeedsOf(n) /\ j = Len(stack')
      BY <1>6, <1>9, <2>1
    <3> QED  BY <1>5, <3>1 DEF Course
  <2>2. CASE j = m
    <3>1. Course(m) /\ m < Len(stack')
      BY <1>1, <1>6, <1>a DEF Search
    <3>2. stack'[m].rest = up[m].rest /\ stack'[m + 1].key = n /\ Duty(m)' = Duty(m)
      BY <1>1, <1>5, <1>6, <1>9
    <3> QED  BY <1>3, <1>4, <1>8, <2>2, <3>1, <3>2, <1>a DEF Course
  <2>3. CASE j \in 1..(m - 1)
    <3>1. /\ Course(j) /\ j < Len(stack) /\ j < Len(stack')
          /\ stack'[j].rest = stack[j].rest /\ stack'[j + 1].key = stack[j + 1].key /\ Duty(j)' = Duty(j)
      BY <1>1, <1>2, <1>6, <1>9, <2>3, <1>a DEF Search
    <3> QED  BY <1>8, <3>1 DEF Course
  <2>4. j = m + 1 \/ j = m \/ j \in 1..(m - 1)
    BY <1>1, <1>6
  <2> QED  BY <2>1, <2>2, <2>3, <2>4
<1>12. BlackIsFinal'
  BY <1>8 DEF Search, BlackIsFinal
<1> QED  BY <1>6, <1>7, <1>8, <1>10, <1>11, <1>12 DEF Search

\* A call is done: its step turns black.
LEMMA VisitedSearch ==
  ASSUME def \in Definitions, Passed, Search, stack \in Seq(Calls), Visited
  PROVE  Search' /\ stack' \in Seq(Calls)
<1>a. PICK m : m = Len(stack)
  OBVIOUS
<1>b. PICK k : k = stack[m].key
  OBVIOUS
<1>1. m \in Nat /\ m > 1 /\ Top = stack[m] /\ stack[m].rest = <<>> /\ stack # <<>>
  BY <1>a, TopIs DEF Visited, Searching
<1>2. k \in Keys(def) /\ color[k] = "gray" /\ Duty(m) = NeedsOf(k) /\ m \in 2..m
  BY <1>1, <1>a, <1>b DEF Search, GrayIsStack, Duty
<1>3. NeedsOf(k) \subseteq Black
  <2>1. Course(m) /\ Elements(stack[m].rest) = {}
    BY <1>1, <1>a DEF Search, Elements
  <2> QED  BY <1>2, <2>1, <1>a DEF Course
<1>4. /\ stack' \in Seq(Calls) /\ Len(stack') = m - 1
      /\ \A j \in 1..(m - 1) : stack'[j] = stack[j]
  BY <1>1, <1>a, ReturnedIs DEF Visited, Returned
<1>5. def' = def /\ color' = [color EXCEPT ![k] = "black"]
  BY <1>1, <1>b DEF Visited
<1>6. Keys(def)' = Keys(def) /\ \A x : NeedsOf(x)' = NeedsOf(x)
  BY <1>5, SameDef
<1>7. color' \in [Keys(def) -> {"white", "gray", "black"}]
  BY <1>2, <1>5 DEF Search
<1>8. Black' = Black \cup {k} /\ k \notin Black
  BY <1>2, <1>5, <1>6 DEF Black, Search
<1>9. \A j \in 1..(m - 1) : Duty(j)' = Duty(j)
  BY <1>4, <1>6 DEF Duty
<1>10. ASSUME NEW j \in 1..(m - 1) PROVE Course(j)'
  <2>1. Course(j) /\ j < m /\ stack'[j] = stack[j] /\ Duty(j)' = Duty(j)
    BY <1>1, <1>4, <1>9, <1>a DEF Search
  <2>2. CASE j = m - 1
    <3>1. stack[j + 1].key = k /\ ~(j < Len(stack'))
      BY <1>1, <1>4, <2>2, <1>a, <1>b
    <3> QED  BY <1>8, <2>1, <3>1, <1>a DEF Course
  <2>3. CASE j # m - 1
    <3>1. j < Len(stack') /\ stack'[j + 1] = stack[j + 1]
      BY <1>1, <1>4, <2>3
    <3> QED  BY <1>8, <2>1, <3>1, <1>a DEF Course
  <2> QED  BY <2>2, <2>3
<1>11. GrayIsStack'
  <2>1. \A j \in 2..(m - 1) : /\ j \in 2..m /\ j # m /\ stack'[j].key = stack[j].key
                              /\ stack[j].key \in Keys(def) /\ color[stack[j].key] = "gray"
    BY <1>1, <1>4, <1>a DEF Search, GrayIsStack
  <2>2. \A i, j \in 2..m : stack[i].key = stack[j].key => i = j
    BY <1>a DEF Search, GrayIsStack
  <2>3. \A j \in 2..(m - 1) : stack[j].key # k
    BY <1>2, <2>1, <2>2, <1>b
  <2>4. \A j \in 2..(m - 1) : color'[stack'[j].key] = "gray"
    BY <1>2, <1>5, <2>1, <2>3 DEF Search
  <2>5. ASSUME NEW x \in Keys(def), color'[x] = "gray" PROVE \E j \in 2..(m - 1) : stack'[j].key = x
    <3>1. x # k /\ color[x] = "gray"
      BY <1>2, <1>5, <2>5 DEF Search
    <3>2. PICK j \in 2..m : stack[j].key = x
      BY <3>1, <1>a DEF Search, GrayIsStack
    <3>3. j \in 2..(m - 1)
      BY <1>1, <3>1, <3>2, <1>b
    <3> QED  BY <2>1, <3>2, <3>3
  <2> QED  BY <1>4, <1>6, <2>1, <2>2, <2>4, <2>5 DEF GrayIsStack
<1>12. BlackIsFinal'
  <2>1. \A x \in Black \cup {k} : NeedsOf(x) \subseteq Black
    BY <1>3 DEF Search, BlackIsFinal
  <2>2. ASSUME NEW T \in SUBSET (Black \cup {k}), T # {} PROVE \E x \in T : NeedsOf(x) \cap T = {}
    <3>1. CASE T \ {k} = {}
      BY <1>3, <1>8, <2>2, <3>1
    <3>2. CASE T \ {k} # {}
      <4>1. PICK x \in T \ {k} : NeedsOf(x) \cap (T \ {k}) = {}
        <5>1. T \ {k} \in SUBSET Black
          OBVIOUS
        <5> QED  BY <3>2, <5>1 DEF Search, BlackIsFinal
      <4>2. k \notin NeedsOf(x)
        BY <1>8, <2>1, <4>1
      <4> QED  BY <4>1, <4>2
    <3> QED  BY <3>1, <3>2
  <2> QED  BY <1>6, <1>8, <2>1, <2>2 DEF BlackIsFinal
<1> QED  BY <1>4, <1>6, <1>7, <1>10, <1>11, <1>12 DEF Search

\* A step that is reached while its own call is under way closes a cycle.
LEMMA GrayIsCycle ==
  ASSUME def \in Definitions, Passed, Search, stack \in Seq(Calls), stack # <<>>, Top.rest # <<>>,
         color[Head(Top.rest)] = "gray"
  PROVE  ~NoCycle
<1> DEFINE m == Len(stack)
           n == Head(Top.rest)
<1>1. m \in Nat \ {0} /\ Top = stack[m] /\ stack[m].rest \in Seq(STRING) /\ stack[m].rest # <<>>
  BY TopIs
<1>2. n \in Elements(stack[m].rest)
  BY <1>1, HeadTail
<1>3. n \in Duty(m) /\ n \in Keys(def)
  <2>1. n \in Duty(m)
    BY <1>1, <1>2 DEF Search, Course
  <2> QED  BY <1>1, <2>1, DutyIn
<1> HIDE DEF n, m
<1>4. PICK j \in 2..m : stack[j].key = n
  BY <1>3 DEF Search, GrayIsStack, n, m
<1> DEFINE T == {stack[i].key : i \in j..m}
<1>5. T \in SUBSET Keys(def) /\ n \in T
  <2>1. j \in j..m /\ \A i \in j..m : i \in 2..m
    BY <1>1, <1>4
  <2>2. \A i \in j..m : stack[i].key \in Keys(def)
    BY <2>1 DEF Search, GrayIsStack, m
  <2> QED  BY <1>4, <2>1, <2>2
<1>6. ASSUME NEW i \in j..m PROVE NeedsOf(stack[i].key) \cap T # {}
  <2>1. i \in 1..m /\ i # 1
    BY <1>1, <1>4
  <2>2. Course(i) /\ Duty(i) = NeedsOf(stack[i].key)
    BY <2>1 DEF Search, Duty, m
  <2>3. CASE i = m
    BY <1>3, <1>5, <2>2, <2>3
  <2>4. CASE i # m
    <3>1. i < m /\ i + 1 \in j..m
      BY <1>1, <1>4, <2>1, <2>4
    <3>2. stack[i + 1].key \in NeedsOf(stack[i].key)
      BY <2>2, <3>1 DEF Course, m
    <3>3. stack[i + 1].key \in T
      BY <3>1
    <3> QED  BY <3>2, <3>3
  <2> QED  BY <2>3, <2>4
<1>7. \A k \in T : NeedsOf(k) \cap T # {}
  BY <1>6
<1> HIDE DEF T
<1> QED  BY <1>5, <1>7 DEF NoCycle

\* Nothing is left to visit.
LEMMA AcceptIsAcyclic ==
  ASSUME def \in Definitions, Passed, Search, stack \in Seq(Calls), Accept
  PROVE  NoCycle
<1>1. Len(stack) = 1 /\ stack[1].rest = <<>>
  BY DEF Accept, Top
<1>2. Course(1) /\ Duty(1) = Keys(def) /\ Elements(stack[1].rest) = {}
  BY <1>1 DEF Search, Duty, Elements
<1>3. Keys(def) \subseteq Black
  BY <1>1, <1>2 DEF Course
<1> QED  BY <1>3 DEF Search, BlackIsFinal, NoCycle

-----------------------------------------------------------------------------
(* TransitiveNeeds.                                                        *)

LEMMA ClosureIsClosed ==
  ASSUME def \in Definitions, Passed, NEW k \in Keys(def)
  PROVE  /\ Closure(k) \subseteq Keys(def)
         /\ NeedsOf(k) \subseteq Closure(k)
         /\ \A t \in Closure(k) : NeedsOf(t) \subseteq Closure(k)
<1>1. Closure(k) \subseteq Keys(def)
  BY DEF Closure
<1>2. \A t \in Keys(def) : NeedsOf(t) \subseteq Keys(def)
  BY PassedIs
<1>3. NeedsOf(k) \subseteq Closure(k)
  BY <1>2 DEF Closure
<1>4. ASSUME NEW t \in Closure(k), NEW n \in NeedsOf(t) PROVE n \in Closure(k)
  <2>1. n \in Keys(def)
    BY <1>1, <1>2
  <2>2. ASSUME NEW T \in SUBSET Keys(def), NeedsOf(k) \subseteq T, \A x \in T : NeedsOf(x) \subseteq T
        PROVE  n \in T
    BY <2>2 DEF Closure
  <2> QED  BY <2>1, <2>2 DEF Closure
<1> QED  BY <1>1, <1>3, <1>4

\* The closure is the least closed set.
LEMMA ClosureIsLeast ==
  ASSUME NEW k, NEW T \in SUBSET Keys(def), NeedsOf(k) \subseteq T, \A t \in T : NeedsOf(t) \subseteq T
  PROVE  Closure(k) \subseteq T
BY DEF Closure

\* Without a cycle no step is among its own transitive needs: of the steps that
\* have key among theirs, one would need none of the others.
LEMMA NotItsOwnNeed ==
  ASSUME def \in Definitions, Passed, NoCycle, NEW key \in Keys(def)
  PROVE  key \notin Closure(key)
<1> SUFFICES ASSUME key \in Closure(key) PROVE FALSE
  OBVIOUS
<1> DEFINE T == {n \in Keys(def) : key \in Closure(n)}
<1>1. PICK k \in T : NeedsOf(k) \cap T = {}
  <2>1. T \in SUBSET Keys(def) /\ T # {}
    OBVIOUS
  <2> HIDE DEF T
  <2> QED  BY <2>1 DEF NoCycle
<1>2. k \in Keys(def) /\ key \in Closure(k) /\ NeedsOf(k) \subseteq Keys(def)
  BY PassedIs
<1>3. \A x \in NeedsOf(k) : x # key /\ key \notin Closure(x)
  BY <1>1, <1>2
<1> DEFINE U == NeedsOf(k) \cup UNION {Closure(x) : x \in NeedsOf(k)}
<1>4. U \in SUBSET Keys(def) /\ NeedsOf(k) \subseteq U
  BY <1>2, ClosureIsClosed
<1>5. ASSUME NEW t \in U PROVE NeedsOf(t) \subseteq U
  <2>1. CASE t \in NeedsOf(k)
    BY <1>2, <2>1, ClosureIsClosed
  <2>2. CASE t \notin NeedsOf(k)
    <3>1. PICK x \in NeedsOf(k) : t \in Closure(x)
      BY <2>2
    <3>2. NeedsOf(t) \subseteq Closure(x)
      BY <1>2, <3>1, ClosureIsClosed
    <3> QED  BY <3>2
  <2> QED  BY <2>1, <2>2
<1>6. key \notin U
  BY <1>3
<1> HIDE DEF U
<1>7. Closure(k) \subseteq U
  BY <1>4, <1>5, ClosureIsLeast
<1> QED  BY <1>2, <1>6, <1>7

\* What the calls under way have still to look at.
Pending == UNION {Elements(stack[j].rest) : j \in 1..Len(stack)}

\* Only transitive needs are met, and the needs of what was collected are
\* collected or pending.
Gathered ==
  /\ asked \in Keys(def)
  /\ seen \subseteq Closure(asked)
  /\ Pending \subseteq Closure(asked)
  /\ \A n \in seen \cup {asked} : NeedsOf(n) \subseteq seen \cup Pending

LEMMA GatheredIsExact ==
  ASSUME def \in Definitions, Passed, NoCycle, Gathered, stack = <<>>
  PROVE  seen = Closure(asked) /\ asked \notin seen
<1>1. Pending = {}
  BY DEF Pending
<1>2. asked \in Keys(def) /\ seen \subseteq Closure(asked) /\ Closure(asked) \subseteq Keys(def)
  BY ClosureIsClosed DEF Gathered
<1>3. Closure(asked) \subseteq seen
  BY <1>1, <1>2, ClosureIsLeast DEF Gathered
<1> QED  BY <1>2, <1>3, NotItsOwnNeed

LEMMA SameClosure ==
  ASSUME def' = def
  PROVE  \A k : Closure(k)' = Closure(k)
<1>1. Keys(def)' = Keys(def) /\ \A k : NeedsOf(k)' = NeedsOf(k)
  BY SameDef
<1> QED  BY <1>1 DEF Closure

LEMMA AskGathered ==
  ASSUME def \in Definitions, Passed, NEW key \in Keys(def), TransitiveNeeds(key)
  PROVE  Gathered' /\ stack' \in Seq(Calls)
<1>a. PICK c : c = Call(key, Step(def, key).needs)
  OBVIOUS
<1>1. c \in Calls /\ Elements(c.rest) = NeedsOf(key)
  BY <1>a, StepCall
<1>2. stack' = <<c>> /\ asked' = key /\ seen' = {} /\ def' = def
  BY <1>a DEF TransitiveNeeds
<1>3. stack' \in Seq(Calls) /\ Len(stack') = 1 /\ stack'[1] = c
  BY <1>1, <1>2
<1>4. Pending' = NeedsOf(key)
  BY <1>1, <1>3 DEF Pending
<1>5. NeedsOf(key) \subseteq Closure(key)
  BY ClosureIsClosed
<1>6. Keys(def)' = Keys(def) /\ NeedsOf(key)' = NeedsOf(key) /\ Closure(key)' = Closure(key)
  BY <1>2, SameDef, SameClosure
<1> QED  BY <1>2, <1>3, <1>4, <1>5, <1>6 DEF Gathered

LEMMA CollectGathered ==
  ASSUME def \in Definitions, Passed, stack \in Seq(Calls), Gathered, Collect
  PROVE  Gathered' /\ stack' \in Seq(Calls)
<1>a. PICK m : m = Len(stack)
  OBVIOUS
<1>b. PICK n : n = Head(Top.rest)
  OBVIOUS
<1>c. PICK up : up = LookedAt
  OBVIOUS
<1>d. PICK c : c = Call(n, Step(def, n).needs)
  OBVIOUS
<1>0. stack # <<>> /\ Top.rest # <<>> /\ def' = def /\ asked' = asked
  BY DEF Collect, Collecting
<1>1. m \in Nat \ {0} /\ Top = stack[m] /\ stack[m].rest \in Seq(STRING) /\ stack[m].rest # <<>>
  BY <1>0, <1>a, TopIs
<1>2. /\ up \in Seq(Calls) /\ Len(up) = m
      /\ \A j \in 1..(m - 1) : up[j] = stack[j]
      /\ up[m].rest = Tail(stack[m].rest)
  BY <1>0, <1>1, <1>a, <1>c, LookedAtIs DEF LookedAt
<1>3. Elements(stack[m].rest) = {n} \cup Elements(up[m].rest)
  BY <1>1, <1>2, <1>b, HeadTail
<1>e. PICK P : P = UNION {Elements(up[j].rest) : j \in 1..m}
  OBVIOUS
<1>4. Pending = {n} \cup P
  <2>1. ASSUME NEW x \in Pending PROVE x = n \/ x \in P
    <3>1. PICK j \in 1..m : x \in Elements(stack[j].rest)
      BY <2>1, <1>a DEF Pending
    <3>2. j = m \/ j \in 1..(m - 1)
      BY <1>1
    <3> QED  BY <1>2, <1>3, <1>e, <3>1, <3>2
  <2>2. ASSUME NEW x \in P PROVE x \in Pending
    <3>1. PICK j \in 1..m : x \in Elements(up[j].rest)
      BY <2>2, <1>e
    <3>2. j = m \/ j \in 1..(m - 1)
      BY <1>1
    <3> QED  BY <1>2, <1>3, <1>a, <3>1, <3>2 DEF Pending
  <2>3. n \in Pending
    BY <1>1, <1>3, <1>a DEF Pending
  <2> QED  BY <2>1, <2>2, <2>3
<1>5. n \in Closure(asked) /\ n \in Keys(def) /\ asked \in Keys(def)
  BY <1>4, ClosureIsClosed DEF Gathered
<1>6. /\ Keys(def)' = Keys(def) /\ (\A k : NeedsOf(k)' = NeedsOf(k))
      /\ Closure(asked)' = Closure(asked)
  BY <1>0, SameDef, SameClosure
<1>7. CASE n \in seen
  <2>1. stack' = up /\ seen' = seen
    BY <1>7, <1>b, <1>c DEF Collect
  <2>2. Pending' = P
    BY <1>2, <1>e, <2>1 DEF Pending
  <2> QED  BY <1>0, <1>2, <1>4, <1>6, <1>7, <2>1, <2>2 DEF Gathered
<1>8. CASE n \notin seen
  <2>1. stack' = Append(up, c) /\ seen' = seen \cup {n}
    BY <1>8, <1>b, <1>c, <1>d DEF Collect, Deeper
  <2>2. c \in Calls /\ Elements(c.rest) = NeedsOf(n)
    BY <1>5, <1>d, StepCall
  <2>3. /\ stack' \in Seq(Calls) /\ Len(stack') = m + 1
        /\ \A j \in 1..m : stack'[j] = up[j]
        /\ stack'[m + 1] = c
    BY <1>2, <2>1, <2>2, AppendIs
  <2>4. Pending' = P \cup NeedsOf(n)
    <3>1. 1..(m + 1) = 1..m \cup {m + 1}
      BY <1>1
    <3> QED  BY <1>e, <2>2, <2>3, <3>1 DEF Pending
  <2>5. NeedsOf(n) \subseteq Closure(asked)
    BY <1>5, ClosureIsClosed
  <2> QED  BY <1>0, <1>4, <1>5, <1>6, <2>1, <2>3, <2>4, <2>5 DEF Gathered
<1> QED  BY <1>7, <1>8

LEMMA CollectedGathered ==
  ASSUME stack \in Seq(Calls), Gathered, Collected
  PROVE  Gathered' /\ stack' \in Seq(Calls)
<1>a. PICK m : m = Len(stack)
  OBVIOUS
<1>1. m \in Nat \ {0} /\ stack # <<>> /\ stack[m].rest = <<>> /\ Elements(stack[m].rest) = {}
  BY <1>a, TopIs DEF Collected, Collecting, Elements
<1>2. def' = def /\ asked' = asked /\ seen' = seen
  BY DEF Collected
<1>3. /\ stack' \in Seq(Calls) /\ Len(stack') = m - 1
      /\ \A j \in 1..(m - 1) : stack'[j] = stack[j]
  BY <1>1, <1>a, ReturnedIs DEF Collected, Returned
<1>4. 1..m = 1..(m - 1) \cup {m}
  BY <1>1
<1>5. Pending' = Pending
  BY <1>1, <1>3, <1>4, <1>a DEF Pending
<1>6. /\ Keys(def)' = Keys(def) /\ (\A k : NeedsOf(k)' = NeedsOf(k))
      /\ Closure(asked)' = Closure(asked)
  BY <1>2, SameDef, SameClosure
<1> QED  BY <1>2, <1>3, <1>5, <1>6 DEF Gathered

-----------------------------------------------------------------------------
(* The verdict and the answers.                                            *)

LEMMA RejectIsRight ==
  ASSUME def \in Definitions, NEW i \in DOMAIN def,
         RejectStep(i) \/ \E j \in DOMAIN def[i].needs : RejectNeed(i, j)
  PROVE  ~(Proper /\ NoCycle) /\ verdict' # "ok" /\ UNCHANGED <<def, stack, asked>>
<1>1. CASE RejectStep(i)
  <2>1. StepError(i) # "ok" /\ verdict' = StepError(i) /\ UNCHANGED <<def, stack, asked>>
    BY <1>1 DEF RejectStep, Rejected
  <2>2. Proper => \A j \in 1..(i - 1) : def[j].key # def[i].key
    <3>1. i \in Nat /\ \A j \in 1..(i - 1) : j \in DOMAIN def /\ j # i
      BY DefType
    <3> QED  BY <3>1 DEF Proper
  <2>3. ~Proper
    BY <2>1, <2>2, StepErrorIs DEF Proper
  <2> QED  BY <2>1, <2>3
<1>2. ASSUME NEW j \in DOMAIN def[i].needs, RejectNeed(i, j)
      PROVE  ~(Proper /\ NoCycle) /\ verdict' # "ok" /\ UNCHANGED <<def, stack, asked>>
  <2>1. /\ NeedError(i, j) # "ok" /\ verdict' = NeedError(i, j) /\ UNCHANGED <<def, stack, asked>>
        /\ StepsPass
    BY <1>2 DEF RejectNeed, Rejected
  <2>2. def[i].needs[j] \in NeedsOf(def[i].key)
    BY <2>1, Distinct, NeedsAre DEF Elements
  <2>3. CASE def[i].needs[j] \notin Keys(def)
    BY <2>1, <2>2, <2>3 DEF Proper
  <2>4. CASE def[i].needs[j] = def[i].key
    <3>1. {def[i].key} \in SUBSET Keys(def) /\ def[i].key \in NeedsOf(def[i].key)
      BY <2>2, <2>4 DEF Keys
    <3>2. ~NoCycle
      BY <3>1 DEF NoCycle
    <3> QED  BY <2>1, <3>2
  <2> QED  BY <2>1, <2>3, <2>4, NeedErrorIs
<1> QED  BY <1>1, <1>2

\* The inductive invariant: a search holds while one is under way, and what is
\* collected, when a definition is saved.
Verdicts ==
  /\ def \in Definitions
  /\ stack \in Seq(Calls)
  /\ stack # <<>> \/ verdict = "ok" => Passed
  /\ Searching => Search
  /\ verdict = "ok" => NoCycle
  /\ verdict \notin {"none", "ok"} => ~(Proper /\ NoCycle)
  /\ verdict # "ok" => asked = NoKey
  /\ verdict = "ok" => IF asked = NoKey THEN stack = <<>> ELSE Gathered

LEMMA VisitVerdicts ==
  ASSUME Verdicts, Visit
  PROVE  Verdicts'
<1>1. /\ def \in Definitions /\ Passed /\ Search /\ stack \in Seq(Calls) /\ stack # <<>> /\ Top.rest # <<>>
      /\ verdict = "none" /\ asked = NoKey
  BY DEF Verdicts, Visit, Searching
<1>2. def' = def /\ asked' = asked
  BY DEF Visit
<1>3. Passed' = Passed /\ Proper' = Proper /\ NoCycle' = NoCycle
  BY <1>2, SameDef
<1>a. PICK n : n = Head(Top.rest)
  OBVIOUS
<1>4. CASE color[n] = "gray"
  <2>1. verdict' = "cycle" /\ stack' = <<>>
    BY <1>4, <1>a DEF Visit
  <2>2. ~NoCycle
    BY <1>1, <1>4, <1>a, GrayIsCycle
  <2> QED  BY <1>1, <1>2, <1>3, <2>1, <2>2 DEF Verdicts, Searching
<1>5. CASE color[n] # "gray"
  <2>1. verdict' = verdict /\ color[n] \in {"black", "white"}
    BY <1>5, <1>a DEF Visit
  <2>2. Search' /\ stack' \in Seq(Calls)
    BY <1>1, <2>1, <1>a, VisitBlack, VisitWhite
  <2> QED  BY <1>1, <1>2, <1>3, <2>1, <2>2 DEF Verdicts, Searching
<1> QED  BY <1>4, <1>5

LEMMA VerdictsStep ==
  ASSUME Verdicts, [Next]_vars
  PROVE  Verdicts'
<1> USE DEF Verdicts
<1>1. CASE UNCHANGED vars
  <2>1. UNCHANGED <<def, verdict, color, stack, asked, seen>>
    BY <1>1 DEF vars
  <2>2. Passed' = Passed /\ Proper' = Proper /\ NoCycle' = NoCycle
    BY <2>1, SameDef
  <2>3. Search' = Search /\ Searching' = Searching
    <3>1. Keys(def)' = Keys(def) /\ (\A k : NeedsOf(k)' = NeedsOf(k)) /\ Black' = Black
      BY <2>1, SameDef DEF Black
    <3>2. \A j : Duty(j)' = Duty(j)
      BY <2>1, <3>1 DEF Duty
    <3>3. \A j : Course(j)' = Course(j)
      BY <2>1, <3>1, <3>2 DEF Course
    <3> QED  BY <2>1, <3>1, <3>3 DEF Search, Searching, GrayIsStack, BlackIsFinal
  <2>4. Gathered' = Gathered
    <3>1. Keys(def)' = Keys(def) /\ (\A k : NeedsOf(k)' = NeedsOf(k)) /\ Closure(asked)' = Closure(asked)
      BY <2>1, SameDef, SameClosure
    <3>2. Pending' = Pending
      BY <2>1 DEF Pending
    <3> QED  BY <2>1, <3>1, <3>2 DEF Gathered
  <2> QED  BY <2>1, <2>2, <2>3, <2>4
<1>2. ASSUME NEW i \in DOMAIN def, RejectStep(i) \/ \E j \in DOMAIN def[i].needs : RejectNeed(i, j)
      PROVE  Verdicts'
  <2>1. ~(Proper /\ NoCycle) /\ verdict' # "ok" /\ UNCHANGED <<def, stack, asked>>
    BY <1>2, RejectIsRight
  <2>2. verdict = "none" /\ stack = <<>>
    BY <1>2 DEF RejectStep, RejectNeed, Submitted
  <2>3. Proper' = Proper /\ NoCycle' = NoCycle
    BY <2>1, SameDef
  <2> QED  BY <2>1, <2>2, <2>3 DEF Searching
<1>3. CASE CheckAcyclic
  <2>1. /\ verdict = "none" /\ verdict' = verdict /\ asked' = asked /\ def' = def
        /\ Passed /\ stack = <<>>
    BY <1>3 DEF CheckAcyclic, Submitted, Passed
  <2>2. Search' /\ stack' \in Seq(Calls)
    BY <1>3, <2>1, CheckSearch
  <2>3. Passed' = Passed
    BY <2>1, SameDef
  <2> QED  BY <2>1, <2>2, <2>3
<1>4. CASE Visited
  <2>1. /\ verdict = "none" /\ verdict' = verdict /\ asked' = asked /\ def' = def
        /\ Passed /\ Search
    BY <1>4 DEF Visited, Searching
  <2>2. Search' /\ stack' \in Seq(Calls)
    BY <1>4, <2>1, VisitedSearch
  <2>3. Passed' = Passed
    BY <2>1, SameDef
  <2> QED  BY <2>1, <2>2, <2>3
<1>5. CASE Accept
  <2>1. /\ verdict' = "ok" /\ stack' = <<>> /\ def' = def /\ asked' = NoKey
        /\ Passed /\ Search
    BY <1>5 DEF Accept, Searching
  <2>2. NoCycle
    BY <1>5, <2>1, AcceptIsAcyclic
  <2>3. Passed' = Passed /\ NoCycle' = NoCycle
    BY <2>1, SameDef
  <2> QED  BY <2>1, <2>2, <2>3 DEF Searching
<1>6. ASSUME NEW key \in Keys(def), TransitiveNeeds(key) PROVE Verdicts'
  <2>1. verdict = "ok" /\ verdict' = "ok" /\ asked' = key /\ def' = def /\ Passed
    BY <1>6 DEF TransitiveNeeds
  <2>2. key # NoKey
    BY <2>1, PassedIs
  <2>3. Gathered' /\ stack' \in Seq(Calls)
    BY <1>6, <2>1, AskGathered
  <2>4. Passed' = Passed /\ NoCycle' = NoCycle
    BY <2>1, SameDef
  <2> QED  BY <2>1, <2>2, <2>3, <2>4 DEF Searching
<1>7. CASE Collect \/ Collected
  <2>1. /\ verdict = "ok" /\ verdict' = "ok" /\ asked' = asked /\ def' = def /\ Passed
        /\ asked # NoKey /\ Gathered
    BY <1>7 DEF Collect, Collected, Collecting
  <2>2. Gathered' /\ stack' \in Seq(Calls)
    BY <1>7, <2>1, CollectGathered, CollectedGathered
  <2>3. Passed' = Passed /\ NoCycle' = NoCycle
    BY <2>1, SameDef
  <2> QED  BY <2>1, <2>2, <2>3 DEF Searching
<1> QED  BY <1>1, <1>2, <1>3, <1>4, <1>5, <1>6, <1>7, VisitVerdicts DEF Next

LEMMA VerdictsInvariant == Spec => []Verdicts
<1>1. Init => Verdicts
  BY DEF Init, Verdicts, Searching
<1>2. Verdicts /\ [Next]_vars => Verdicts'
  BY VerdictsStep
<1> QED  BY <1>1, <1>2, PTL DEF Spec

(***************************************************************************)
(* definition.Validate accepts a definition of any size exactly if its     *)
(* steps are proper and it has no cycle: the three-colour search of        *)
(* checkAcyclic misses no cycle, and takes no diamond for one.             *)
(***************************************************************************)
THEOREM ValidateIsExact == Spec => []ValidateExact
<1>1. Verdicts => ValidateExact
  <2> SUFFICES ASSUME Verdicts, verdict # "none" PROVE verdict = "ok" <=> Proper /\ NoCycle
    BY DEF ValidateExact, Proper
  <2>1. verdict = "ok" => Proper /\ NoCycle
    BY PassedIs DEF Verdicts
  <2> QED  BY <2>1 DEF Verdicts
<1> QED  BY <1>1, VerdictsInvariant, PTL

(***************************************************************************)
(* For every step of a saved definition, TransitiveNeeds returns the least *)
(* set that is closed under needs, and the step is not in it.              *)
(***************************************************************************)
THEOREM NeedsAreExact == Spec => []TransitiveNeedsExact
<1>1. Verdicts => TransitiveNeedsExact
  BY GatheredIsExact DEF Verdicts, TransitiveNeedsExact
<1> QED  BY <1>1, VerdictsInvariant, PTL

-----------------------------------------------------------------------------
(* The redactor.                                                           *)

\* What the redactor makes of a line.
Marked == Seq(Chars \cup {Mark})
States == [at : Nat \ {0}, out : Marked]

\* From position p to e, out is what is at q in s, where v does not begin.
Copied(s, v, out, p, e, q) ==
  /\ ~Occurs(v, s, q)
  /\ q + (e - p) <= Len(s)
  /\ \A i \in p..e : s[q + (i - p)] = out[i]

\* The loop invariant: what is between two marks was copied in one piece.
Scanned(s, v, c) ==
  /\ c.at <= Len(s) + 1
  /\ \A p, e \in 1..Len(c.out) : p <= e /\ (\A i \in p..e : c.out[i] # Mark) =>
       \E q \in 1..Len(s) : Copied(s, v, c.out, p, e, q) /\ (e = Len(c.out) => q + (e - p) = c.at - 1)

LEMMA PassType ==
  ASSUME NEW s \in Marked, NEW v \in Seq(Chars), NEW c \in States
  PROVE  Pass(s, v, c) \in States
<1>1. Len(s) \in Nat /\ Len(v) \in Nat /\ \A i \in 1..Len(s) : s[i] \in Chars \cup {Mark}
  BY DEF Marked
<1>2. c.at \in Nat \ {0} /\ c.out \in Marked
  BY DEF States
<1>3. \A x \in Chars \cup {Mark} : Append(c.out, x) \in Marked
  BY <1>2, AppendIs DEF Marked
<1> QED  BY <1>1, <1>2, <1>3 DEF Pass, States

LEMMA PassScanned ==
  ASSUME NEW s \in Marked, NEW v \in Seq(Chars), v # <<>>, NEW c \in States, Scanned(s, v, c)
  PROVE  Scanned(s, v, Pass(s, v, c))
<1>1. Len(s) \in Nat /\ Len(v) \in Nat \ {0} /\ \A i \in 1..Len(s) : s[i] \in Chars \cup {Mark}
  BY DEF Marked
<1>2. c.at \in Nat \ {0} /\ c.out \in Marked /\ c.at <= Len(s) + 1 /\ Len(c.out) \in Nat
  BY DEF States, Scanned, Marked
<1>3. CASE c.at > Len(s)
  BY <1>3 DEF Pass
<1>4. ASSUME c.at <= Len(s), NEW x \in Chars \cup {Mark}, NEW d, d.out = Append(c.out, x),
             d.at \in Nat, d.at <= Len(s) + 1,
             x # Mark => d.at = c.at + 1 /\ s[c.at] = x /\ ~Occurs(v, s, c.at)
      PROVE  Scanned(s, v, d)
  <2> DEFINE m == Len(c.out)
  <2>1. Len(d.out) = m + 1 /\ d.out[m + 1] = x /\ \A j \in 1..m : d.out[j] = c.out[j]
    BY <1>2, <1>4, AppendIs DEF Marked
  <2> SUFFICES ASSUME NEW p \in 1..(m + 1), NEW e \in 1..(m + 1), p <= e, \A i \in p..e : d.out[i] # Mark
               PROVE  \E q \in 1..Len(s) : Copied(s, v, d.out, p, e, q) /\ (e = m + 1 => q + (e - p) = d.at - 1)
    BY <1>4, <2>1 DEF Scanned
  <2>2. CASE e # m + 1
    <3>1. p \in 1..m /\ e \in 1..m /\ \A i \in p..e : i \in 1..m /\ d.out[i] = c.out[i]
      BY <1>2, <2>1, <2>2
    <3>2. PICK q \in 1..Len(s) : Copied(s, v, c.out, p, e, q)
      BY <3>1 DEF Scanned
    <3>3. Copied(s, v, d.out, p, e, q)
      BY <3>1, <3>2 DEF Copied
    <3> QED  BY <2>2, <3>3
  <2>3. CASE e = m + 1
    <3>1. x # Mark /\ e \in p..e
      BY <1>2, <2>1, <2>3
    <3>2. d.at = c.at + 1 /\ s[c.at] = x /\ ~Occurs(v, s, c.at) /\ c.at \in 1..Len(s)
      BY <1>1, <1>2, <1>4, <3>1
    <3>3. CASE p = e
      <4>1. Copied(s, v, d.out, p, e, c.at)
        <5>1. p..e = {e} /\ c.at + (e - p) = c.at
          BY <1>2, <3>3
        <5> QED  BY <1>4, <2>1, <2>3, <3>2, <3>3, <5>1 DEF Copied
      <4> QED  BY <1>2, <3>2, <3>3, <4>1
    <3>4. CASE p # e
      <4>1. p \in 1..m /\ m \in 1..m /\ p <= m /\ \A i \in p..m : i \in 1..m /\ i \in p..e
        BY <1>2, <2>3, <3>4
      <4>2. \A i \in p..m : c.out[i] # Mark /\ d.out[i] = c.out[i]
        BY <2>1, <4>1
      <4>3. PICK q \in 1..Len(s) : Copied(s, v, c.out, p, m, q) /\ q + (m - p) = c.at - 1
        BY <4>1, <4>2 DEF Scanned
      <4>4. q + (e - p) = c.at
        BY <1>1, <1>2, <2>3, <4>3
      <4>5. \A i \in p..e : s[q + (i - p)] = d.out[i]
        <5>1. \A i \in p..e : i = e \/ i \in p..m
          BY <1>2, <2>3
        <5> QED  BY <2>1, <2>3, <3>2, <4>2, <4>3, <4>4, <5>1 DEF Copied
      <4>6. Copied(s, v, d.out, p, e, q)
        BY <1>4, <4>3, <4>4, <4>5 DEF Copied
      <4> QED  BY <1>2, <3>2, <4>4, <4>6
    <3> QED  BY <3>3, <3>4
  <2> QED  BY <2>2, <2>3
<1>5. CASE c.at <= Len(s) /\ Occurs(v, s, c.at)
  <2> DEFINE d == [at |-> c.at + Len(v), out |-> Append(c.out, Mark)]
  <2>1. Pass(s, v, c) = d
    BY <1>1, <1>2, <1>5 DEF Pass
  <2>2. d.at \in Nat /\ d.at <= Len(s) + 1 /\ d.out = Append(c.out, Mark)
    BY <1>1, <1>2, <1>5 DEF Occurs
  <2> HIDE DEF d
  <2> QED  BY <1>4, <1>5, <2>1, <2>2
<1>6. CASE c.at <= Len(s) /\ ~Occurs(v, s, c.at)
  <2> DEFINE d == [at |-> c.at + 1, out |-> Append(c.out, s[c.at])]
  <2>1. Pass(s, v, c) = d
    BY <1>1, <1>2, <1>6 DEF Pass
  <2>2. d.at = c.at + 1 /\ d.at \in Nat /\ d.at <= Len(s) + 1 /\ d.out = Append(c.out, s[c.at])
    BY <1>1, <1>2, <1>6
  <2>3. s[c.at] \in Chars \cup {Mark}
    BY <1>1, <1>2, <1>6
  <2> HIDE DEF d
  <2> QED  BY <1>4, <1>6, <2>1, <2>2, <2>3
<1> QED  BY <1>1, <1>2, <1>3, <1>5, <1>6

\* strings.ReplaceAll, unfolded.
LEMMA ReplacedIs ==
  ASSUME NEW s \in Marked, NEW v \in Seq(Chars)
  PROVE  \E scan : /\ scan[0] = [at |-> 1, out |-> <<>>] /\ Replaced(s, v) = scan[Len(s)].out
                   /\ \A n \in Nat : n < Len(s) => scan[n + 1] = Pass(s, v, scan[n])
<1> DEFINE N == Len(s)
           a == [at |-> 1, out |-> <<>>]
           scan == CHOOSE g : g = [k \in 0..N |-> IF k = 0 THEN a ELSE Pass(s, v, g[k - 1])]
<1>1. Replaced(s, v) = scan[N].out
  BY DEF Replaced
<1>2. N \in Nat
  BY DEF Marked
<1>3. a \in States
  <2>1. <<>> \in Marked
    BY DEF Marked
  <2> QED  BY <2>1 DEF States
<1>a. a = [at |-> 1, out |-> <<>>] /\ N = Len(s)
  OBVIOUS
<1> HIDE DEF a, N
<1>4. scan = [k \in 0..N |-> IF k = 0 THEN a ELSE Pass(s, v, scan[k - 1])]
  <2> DEFINE G == [k \in Nat |-> [c \in States |-> Pass(s, v, c)]]
  <2>1. G \in [Nat -> [States -> States]]
    BY PassType
  <2>2. PICK f : Iterates(f, States, a, G)
    <3> HIDE DEF G
    <3> QED  BY <1>3, <2>1, Recursion
  <2>3. f \in [Nat -> States] /\ f[0] = a /\ \A n \in Nat : f[n + 1] = Pass(s, v, f[n])
    BY <2>2 DEF Iterates
  <2> DEFINE h == [k \in 0..N |-> f[k]]
  <2>4. \A k \in 0..N : k # 0 => k - 1 \in 0..N /\ k - 1 \in Nat /\ (k - 1) + 1 = k
    BY <1>2
  <2>5. h = [k \in 0..N |-> IF k = 0 THEN a ELSE Pass(s, v, h[k - 1])]
    BY <2>3, <2>4
  <2> HIDE DEF h
  <2> QED  BY <2>5
<1> HIDE DEF scan
<1>5. scan[0] = a
  BY <1>2, <1>4
<1>6. ASSUME NEW n \in Nat, n < N PROVE scan[n + 1] = Pass(s, v, scan[n])
  <2>1. n + 1 \in 0..N /\ n + 1 # 0 /\ (n + 1) - 1 = n
    BY <1>2, <1>6
  <2> QED  BY <1>4, <2>1
<1> QED  BY <1>1, <1>5, <1>6, <1>a

\* What the loop of strings.ReplaceAll ends with satisfies its invariant.
LEMMA ReplacedScanned ==
  ASSUME NEW s \in Marked, NEW v \in Seq(Chars), v # <<>>
  PROVE  \E c \in States : Scanned(s, v, c) /\ Replaced(s, v) = c.out
<1> DEFINE N == Len(s)
           a == [at |-> 1, out |-> <<>>]
<1>1. PICK scan : /\ scan[0] = a /\ Replaced(s, v) = scan[N].out
                  /\ \A n \in Nat : n < N => scan[n + 1] = Pass(s, v, scan[n])
  BY ReplacedIs
<1>2. N \in Nat
  BY DEF Marked
<1>3. a \in States /\ Scanned(s, v, a)
  <2>1. <<>> \in Marked /\ Len(<<>>) = 0 /\ a.at = 1 /\ a.out = <<>>
    BY DEF Marked
  <2> QED  BY <1>2, <2>1 DEF States, Scanned
<1> HIDE DEF a, N
<1> DEFINE S == {n \in Nat : n <= N => scan[n] \in States /\ Scanned(s, v, scan[n])}
<1>4. 0 \in S
  BY <1>1, <1>3
<1>5. ASSUME NEW n \in S PROVE n + 1 \in S
  <2> SUFFICES ASSUME n + 1 <= N PROVE scan[n + 1] \in States /\ Scanned(s, v, scan[n + 1])
    OBVIOUS
  <2>1. n \in Nat /\ n <= N /\ n < N
    BY <1>2
  <2>2. scan[n] \in States /\ Scanned(s, v, scan[n])
    BY <2>1
  <2>3. scan[n + 1] = Pass(s, v, scan[n])
    BY <1>1, <2>1
  <2> QED  BY <2>2, <2>3, PassType, PassScanned
<1> HIDE DEF S
<1>6. S = Nat
  <2>1. S \in SUBSET Nat
    BY DEF S
  <2> QED  BY <1>4, <1>5, <2>1, SetInduction
<1>7. scan[N] \in States /\ Scanned(s, v, scan[N])
  BY <1>2, <1>6 DEF S
<1> QED  BY <1>1, <1>7

\* Where a text without marks is left, it was in the line, and not at a place
\* where the value begins.
LEMMA ReplacedLeaves ==
  ASSUME NEW s \in Marked, NEW v \in Seq(Chars), v # <<>>
  PROVE  /\ Replaced(s, v) \in Marked
         /\ \A u \in Seq(Chars) \ {<<>>} : \A p \in DOMAIN Replaced(s, v) : Occurs(u, Replaced(s, v), p) =>
              \E q \in DOMAIN s : Occurs(u, s, q) /\ ~Occurs(v, s, q)
<1>1. PICK c \in States : Scanned(s, v, c) /\ Replaced(s, v) = c.out
  BY ReplacedScanned
<1>2. c.out \in Marked /\ DOMAIN c.out = 1..Len(c.out) /\ Len(c.out) \in Nat
  BY DEF States, Marked
<1>3. Len(s) \in Nat /\ DOMAIN s = 1..Len(s)
  BY DEF Marked
<1>4. ASSUME NEW u \in Seq(Chars), u # <<>>, NEW p \in 1..Len(c.out), Occurs(u, c.out, p)
      PROVE  \E q \in 1..Len(s) : Occurs(u, s, q) /\ ~Occurs(v, s, q)
  <2> DEFINE e == p + Len(u) - 1
  <2>1. Len(u) \in Nat \ {0} /\ DOMAIN u = 1..Len(u) /\ \A j \in 1..Len(u) : u[j] \in Chars
    BY <1>4
  <2>2. e \in 1..Len(c.out) /\ p <= e
    BY <1>2, <1>4, <2>1 DEF Occurs
  <2>3. \A j \in 1..Len(u) : c.out[p + j - 1] = u[j]
    BY <1>4, <2>1 DEF Occurs
  <2>4. ASSUME NEW i \in p..e PROVE c.out[i] \in Chars
    <3>1. i - p + 1 \in 1..Len(u) /\ p + (i - p + 1) - 1 = i
      BY <1>2, <2>1
    <3>2. c.out[p + (i - p + 1) - 1] = u[i - p + 1] /\ u[i - p + 1] \in Chars
      BY <2>1, <2>3, <3>1
    <3> QED  BY <3>1, <3>2
  <2>5. \A i \in p..e : c.out[i] # Mark
    BY <2>4, LogAssumption
  <2> HIDE DEF e
  <2>6. PICK q \in 1..Len(s) : Copied(s, v, c.out, p, e, q)
    BY <1>1, <2>2, <2>5 DEF Scanned
  <2>7. q + Len(u) <= Len(s) + 1
    <3>1. q + (e - p) <= Len(s)
      BY <2>6 DEF Copied
    <3> QED  BY <1>2, <1>3, <2>1, <3>1 DEF e
  <2>8. ASSUME NEW j \in 1..Len(u) PROVE s[q + j - 1] = u[j]
    <3>1. p + j - 1 \in p..e /\ q + ((p + j - 1) - p) = q + j - 1
      BY <1>2, <1>3, <2>1 DEF e
    <3>2. s[q + ((p + j - 1) - p)] = c.out[p + j - 1]
      BY <2>6, <3>1 DEF Copied
    <3> QED  BY <2>3, <3>1, <3>2
  <2>9. Occurs(u, s, q)
    BY <2>1, <2>7, <2>8 DEF Occurs
  <2> QED  BY <2>6, <2>9 DEF Copied
<1> QED  BY <1>1, <1>2, <1>3, <1>4

\* v is nowhere in t.
Without(v, t) == \A p \in DOMAIN t : ~Occurs(v, t, p)

Clean(t, values) == \A v \in values : Without(v, t)

LEMMA ReplacedClean ==
  ASSUME NEW s \in Marked, NEW v \in Seq(Chars) \ {<<>>}
  PROVE  /\ Replaced(s, v) \in Marked /\ Without(v, Replaced(s, v))
         /\ \A u \in Seq(Chars) \ {<<>>} : Without(u, s) => Without(u, Replaced(s, v))
BY ReplacedLeaves DEF Without

\* redactor.String, unfolded.
LEMMA RedactIs ==
  ASSUME NEW order \in Seq(Seq(Chars) \ {<<>>}), NEW s \in Marked
  PROVE  \E text : /\ text[0] = s /\ Redact(order, s) = text[Len(order)]
                   /\ \A n \in Nat : n < Len(order) => text[n + 1] = Replaced(text[n], order[n + 1])
<1> DEFINE N == Len(order)
           Value == Seq(Chars) \ {<<>>}
           text == CHOOSE g : g = [k \in 0..N |-> IF k = 0 THEN s ELSE Replaced(g[k - 1], order[k])]
<1>1. Redact(order, s) = text[N]
  BY DEF Redact
<1>2. N \in Nat /\ DOMAIN order = 1..N /\ \A k \in 1..N : order[k] \in Value
  <2> HIDE DEF Value
  <2>1. order \in Seq(Value)
    BY DEF Value
  <2> QED  BY <2>1
<1>3. \A t \in Marked, v \in Value : Replaced(t, v) \in Marked
  BY ReplacedLeaves
<1>a. N = Len(order)
  OBVIOUS
<1> HIDE DEF N, Value
<1>4. text = [k \in 0..N |-> IF k = 0 THEN s ELSE Replaced(text[k - 1], order[k])]
  <2> DEFINE G == [k \in Nat |-> [t \in Marked |-> IF k < N THEN Replaced(t, order[k + 1]) ELSE t]]
  <2>1. G \in [Nat -> [Marked -> Marked]]
    <3>1. \A k \in Nat : k < N => order[k + 1] \in Value
      BY <1>2
    <3> QED  BY <1>3, <3>1
  <2>2. PICK f : Iterates(f, Marked, s, G)
    <3> HIDE DEF G
    <3> QED  BY <2>1, Recursion
  <2>3. /\ f \in [Nat -> Marked] /\ f[0] = s
        /\ \A n \in Nat : n < N => f[n + 1] = Replaced(f[n], order[n + 1])
    BY <2>2 DEF Iterates
  <2> DEFINE h == [k \in 0..N |-> f[k]]
  <2>4. \A k \in 0..N : k # 0 => k - 1 \in 0..N /\ k - 1 \in Nat /\ k - 1 < N /\ (k - 1) + 1 = k
    BY <1>2
  <2>5. h = [k \in 0..N |-> IF k = 0 THEN s ELSE Replaced(h[k - 1], order[k])]
    BY <2>3, <2>4
  <2> HIDE DEF h
  <2> QED  BY <2>5
<1> HIDE DEF text
<1>5. text[0] = s
  BY <1>2, <1>4
<1>6. ASSUME NEW n \in Nat, n < N PROVE text[n + 1] = Replaced(text[n], order[n + 1])
  <2>1. n + 1 \in 0..N /\ n + 1 # 0 /\ (n + 1) - 1 = n
    BY <1>2, <1>6
  <2> QED  BY <1>4, <2>1
<1> QED  BY <1>1, <1>5, <1>6, <1>a

\* redactor.String: after each value, those that were taken are gone.
LEMMA RedactClean ==
  ASSUME NEW order \in Seq(Seq(Chars) \ {<<>>}), NEW s \in Marked
  PROVE  Redact(order, s) \in Marked /\ Clean(Redact(order, s), {order[k] : k \in DOMAIN order})
<1> DEFINE N == Len(order)
           Value == Seq(Chars) \ {<<>>}
<1>1. PICK text : /\ text[0] = s /\ Redact(order, s) = text[N]
                  /\ \A n \in Nat : n < N => text[n + 1] = Replaced(text[n], order[n + 1])
  BY RedactIs
<1>2. N \in Nat /\ DOMAIN order = 1..N /\ \A k \in 1..N : order[k] \in Value
  <2> HIDE DEF Value
  <2>1. order \in Seq(Value)
    BY DEF Value
  <2> QED  BY <2>1
<1> HIDE DEF N, Value
<1> DEFINE S == {n \in Nat : n <= N => text[n] \in Marked /\ \A k \in 1..n : Without(order[k], text[n])}
<1>3. 0 \in S
  BY <1>1
<1>4. ASSUME NEW n \in S PROVE n + 1 \in S
  <2> SUFFICES ASSUME n + 1 <= N PROVE text[n + 1] \in Marked /\ \A k \in 1..(n + 1) : Without(order[k], text[n + 1])
    OBVIOUS
  <2>1. n \in Nat /\ n <= N /\ n < N /\ n + 1 \in 1..N
    BY <1>2
  <2>2. text[n] \in Marked /\ \A k \in 1..n : Without(order[k], text[n])
    BY <2>1
  <2>3. text[n + 1] = Replaced(text[n], order[n + 1])
    BY <1>1, <2>1
  <2>4. \A k \in 1..(n + 1) : order[k] \in Value /\ (k = n + 1 \/ k \in 1..n)
    BY <1>2, <2>1
  <2>5. text[n + 1] \in Marked /\ Without(order[n + 1], text[n + 1])
    BY <2>1, <2>2, <2>3, <2>4, ReplacedClean DEF Value
  <2>6. \A k \in 1..n : Without(order[k], text[n + 1])
    BY <2>1, <2>2, <2>3, <2>4, ReplacedClean DEF Value
  <2> QED  BY <2>4, <2>5, <2>6
<1> HIDE DEF S
<1>5. S = Nat
  <2>1. S \in SUBSET Nat
    BY DEF S
  <2> QED  BY <1>3, <1>4, <2>1, SetInduction
<1>6. text[N] \in Marked /\ \A k \in 1..N : Without(order[k], text[N])
  BY <1>2, <1>5 DEF S
<1> QED  BY <1>1, <1>2, <1>6 DEF Clean

\* Every order of a finite set holds all of its elements.
LEMMA OrderHasAll ==
  ASSUME IsFiniteSet(Values), NEW o \in Orders
  PROVE  o \in Seq(Values) /\ {o[k] : k \in DOMAIN o} = Values
<1> DEFINE n == Cardinality(Values)
<1>1. n \in Nat /\ IsFiniteSet(1..n) /\ Cardinality(1..n) = n
  BY FS_CardinalityType, FS_Interval
<1>2. o \in [1..n -> Values] /\ \A i, j \in 1..n : i # j => o[i] # o[j]
  BY DEF Orders, SetToSeqs
<1> HIDE DEF n
<1>3. o \in Injection(1..n, Values)
  BY <1>2 DEF Injection, IsInjective
<1>4. o \in Surjection(1..n, Values)
  BY <1>1, <1>3, FS_Injection DEF n
<1>5. \A v \in Values : \E k \in 1..n : o[k] = v
  BY <1>4 DEF Surjection
<1> QED  BY <1>1, <1>2, <1>5

\* Where a line is cut, nothing appears that was not there.
Stores == Seq(Chars \cup {Mark, Cut})

LEMMA TruncateIs ==
  ASSUME NEW t \in Marked
  PROVE  /\ Len(t) \in Nat /\ DOMAIN t = 1..Len(t) /\ MaxLine \in Nat
         /\ \A i \in 1..Len(t) : t[i] \in Chars \cup {Mark}
         /\ Truncate(t) \in Stores
         /\ \/ Len(t) <= MaxLine /\ Truncate(t) = t
            \/ /\ Len(t) > MaxLine /\ DOMAIN Truncate(t) = 1..(MaxLine + 1) /\ Len(Truncate(t)) = MaxLine + 1
               /\ Truncate(t)[MaxLine + 1] = Cut /\ \A i \in 1..MaxLine : Truncate(t)[i] = t[i]
<1>1. /\ Len(t) \in Nat /\ DOMAIN t = 1..Len(t) /\ MaxLine \in Nat
      /\ \A i \in 1..Len(t) : t[i] \in Chars \cup {Mark}
  BY LogAssumption DEF Marked
<1>2. CASE Len(t) <= MaxLine
  <2>1. ~(Len(t) > MaxLine)
    BY <1>1, <1>2
  <2>2. Truncate(t) = t
    BY <2>1 DEF Truncate
  <2>3. t \in Stores
    BY <1>1 DEF Marked, Stores
  <2> QED  BY <1>1, <1>2, <2>2, <2>3
<1>3. CASE Len(t) > MaxLine
  <2> DEFINE b == SubSeq(t, 1, MaxLine)
             r == Append(b, Cut)
  <2>1. b \in Stores /\ Len(b) = MaxLine /\ \A i \in 1..MaxLine : b[i] = t[i]
    <3>1. b = [i \in 1..MaxLine |-> t[i]]
      BY <1>1, <1>3 DEF Marked
    <3>2. \A i \in 1..MaxLine : t[i] \in Chars \cup {Mark, Cut}
      BY <1>1, <1>3
    <3> HIDE DEF b
    <3> QED  BY <1>1, <3>1, <3>2 DEF Stores
  <2> HIDE DEF b
  <2>2. r \in Stores /\ Len(r) = MaxLine + 1 /\ r[MaxLine + 1] = Cut /\ \A i \in 1..MaxLine : r[i] = t[i]
    BY <1>1, <2>1, AppendIs DEF Stores
  <2>3. Truncate(t) = r
    BY <1>1, <1>3 DEF Truncate, b
  <2> HIDE DEF r
  <2>4. DOMAIN r = 1..(MaxLine + 1)
    BY <2>2 DEF Stores
  <2> QED  BY <1>1, <1>3, <2>2, <2>3, <2>4
<1> QED  BY <1>1, <1>2, <1>3

LEMMA TruncateClean ==
  ASSUME NEW t \in Marked, NEW values \in SUBSET (Seq(Chars) \ {<<>>}), Clean(t, values)
  PROVE  Truncate(t) \in Stores /\ Clean(Truncate(t), values)
<1>1. Len(t) \in Nat /\ DOMAIN t = 1..Len(t) /\ MaxLine \in Nat /\ Truncate(t) \in Stores
  BY TruncateIs
<1>2. CASE Len(t) <= MaxLine
  <2>1. Truncate(t) = t
    BY <1>1, <1>2, TruncateIs
  <2> QED  BY <1>1, <2>1
<1>3. CASE Len(t) > MaxLine
  <2> DEFINE r == Truncate(t)
  <2>2. /\ DOMAIN r = 1..(MaxLine + 1) /\ Len(r) = MaxLine + 1 /\ r[MaxLine + 1] = Cut
        /\ \A i \in 1..MaxLine : r[i] = t[i]
    BY <1>1, <1>3, TruncateIs
  <2>3. Truncate(t) = r
    OBVIOUS
  <2> HIDE DEF r
  <2>4. ASSUME NEW u \in values, NEW p \in 1..(MaxLine + 1), Occurs(u, r, p) PROVE FALSE
    <3>1. Len(u) \in Nat \ {0} /\ DOMAIN u = 1..Len(u) /\ \A j \in 1..Len(u) : u[j] \in Chars
      <4>1. u \in Seq(Chars) /\ u # <<>>
        OBVIOUS
      <4> QED  BY <4>1
    <3>2. p + Len(u) <= MaxLine + 2 /\ \A j \in 1..Len(u) : r[p + j - 1] = u[j]
      <4>1. p + Len(u) <= (MaxLine + 1) + 1 /\ \A j \in 1..Len(u) : r[p + j - 1] = u[j]
        BY <2>2, <2>4, <3>1 DEF Occurs
      <4>2. (MaxLine + 1) + 1 = MaxLine + 2
        BY <1>1
      <4> QED  BY <4>1, <4>2
    <3>3. p + Len(u) # MaxLine + 2
      <4> SUFFICES ASSUME p + Len(u) = MaxLine + 2 PROVE FALSE
        OBVIOUS
      <4>1. p + Len(u) - 1 = MaxLine + 1 /\ Len(u) \in 1..Len(u)
        BY <1>1, <3>1
      <4>2. r[p + Len(u) - 1] = u[Len(u)] /\ u[Len(u)] \in Chars
        BY <3>1, <3>2, <4>1
      <4> QED  BY <2>2, <4>1, <4>2, LogAssumption
    <3>4. p + Len(u) <= MaxLine + 1 /\ \A j \in 1..Len(u) : p + j - 1 \in 1..MaxLine
      BY <1>1, <3>1, <3>2, <3>3
    <3>5. Occurs(u, t, p)
      <4>1. \A j \in 1..Len(u) : t[p + j - 1] = u[j]
        BY <2>2, <3>2, <3>4
      <4>2. p + Len(u) <= Len(t) + 1
        BY <1>1, <1>3, <3>1, <3>4
      <4> QED  BY <3>1, <4>1, <4>2 DEF Occurs
    <3>6. p \in DOMAIN t
      BY <1>1, <1>3, <3>1, <3>4
    <3> QED  BY <3>5, <3>6 DEF Clean, Without
  <2> QED  BY <1>1, <2>2, <2>3, <2>4 DEF Clean, Without
<1> QED  BY <1>1, <1>2, <1>3

\* What is teed and stored holds no secret that is long enough.
LEMMA MessageClean ==
  ASSUME secrets \subseteq Seq(Chars), IsFiniteSet(secrets), NEW order \in Orders, NEW s \in Seq(Chars)
  PROVE  /\ Message(order, s) \in Stores /\ Clean(Message(order, s), Values)
         /\ Len(Message(order, s)) <= MaxLine + 1
<1>1. \A v \in Values : v \in Seq(Chars) /\ v # <<>>
  <2> SUFFICES ASSUME NEW v \in Values PROVE v \in Seq(Chars) /\ v # <<>>
    OBVIOUS
  <2>1. v \in Seq(Chars) /\ Len(v) >= MinSecret /\ MinSecret \in Nat \ {0} /\ Len(<<>>) = 0
    BY LogAssumption DEF Values
  <2> QED  BY <2>1
<1>2. IsFiniteSet(Values)
  <2>1. Values \subseteq secrets
    BY DEF Values
  <2> QED  BY <2>1, FS_Subset
<1>3. order \in Seq(Values) /\ {order[k] : k \in DOMAIN order} = Values
  BY <1>2, OrderHasAll
<1>4. order \in Seq(Seq(Chars) \ {<<>>})
  <2> DEFINE V == Seq(Chars) \ {<<>>}
  <2>1. Values \subseteq V
    BY <1>1
  <2> HIDE DEF V
  <2>2. order \in Seq(V)
    BY <1>3, <2>1
  <2> QED  BY <2>2 DEF V
<1>5. s \in Marked
  BY DEF Marked
<1>6. Redact(order, s) \in Marked /\ Clean(Redact(order, s), Values)
  BY <1>3, <1>4, <1>5, RedactClean
<1>7. Values \in SUBSET (Seq(Chars) \ {<<>>})
  BY <1>1
<1>8. Len(Truncate(Redact(order, s))) <= MaxLine + 1
  <2> DEFINE t == Redact(order, s)
  <2>1. t \in Marked
    BY <1>6
  <2> HIDE DEF t
  <2>2. Len(t) \in Nat /\ MaxLine \in Nat
    BY <2>1, TruncateIs
  <2>3. (Len(Truncate(t)) = Len(t) /\ Len(t) <= MaxLine) \/ Len(Truncate(t)) = MaxLine + 1
    BY <2>1, TruncateIs
  <2>4. Len(Truncate(t)) <= MaxLine + 1
    BY <2>2, <2>3
  <2> QED  BY <2>4 DEF t
<1> QED  BY <1>6, <1>7, <1>8, TruncateClean DEF Message

-----------------------------------------------------------------------------
(* What the redactor leaves.  Values that do not overlap are replaced as   *)
(* wholes: the letters that are left are those no value covers.            *)

\* f takes the letters of t to the positions K of s, in their order; letters stand
\* side by side in t exactly if their positions do in s.
Maps(s, K, t, f) ==
  /\ K \subseteq Letters(s)
  /\ f \in [Letters(t) -> K]
  /\ \A p \in K : \E i \in Letters(t) : f[i] = p
  /\ \A i, j \in Letters(t) : i < j => f[i] < f[j]
  /\ \A i \in Letters(t) : t[i] = s[f[i]]
  /\ \A i, j \in Letters(t) : j = i + 1 <=> f[j] = f[i] + 1

\* What is to be kept of s where v is replaced, up to position at.
Rest(v, s, at) == {p \in Letters(s) : p \notin Covers(v, s) /\ p < at}

\* The loop invariant: so far what v does not cover is kept, and no v begins
\* before at and ends after it.
Kept(s, v, c) ==
  /\ c.at <= Len(s) + 1
  /\ \A i \in DOMAIN s : Occurs(v, s, i) => i >= c.at \/ i + Len(v) <= c.at
  /\ \E f : /\ Maps(s, Rest(v, s, c.at), c.out, f)
            /\ \A i \in Letters(c.out) : i = Len(c.out) <=> f[i] = c.at - 1

LEMMA MarkedIs ==
  ASSUME NEW s \in Marked
  PROVE  /\ Len(s) \in Nat /\ DOMAIN s = 1..Len(s)
         /\ \A i \in 1..Len(s) : s[i] \in Chars \cup {Mark}
         /\ Letters(s) = {i \in 1..Len(s) : s[i] # Mark}
         /\ Letters(s) \subseteq 1..Len(s)
<1>1. Len(s) \in Nat /\ DOMAIN s = 1..Len(s) /\ \A i \in 1..Len(s) : s[i] \in Chars \cup {Mark}
  BY DEF Marked
<1>2. Cut # Mark
  BY DEF Cut, Mark
<1>3. \A i \in 1..Len(s) : s[i] # Cut
  BY <1>1, <1>2, LogAssumption
<1> QED  BY <1>1, <1>3 DEF Letters

\* A mark that is written adds no letter.
LEMMA KeptMark ==
  ASSUME NEW s \in Marked, NEW v \in Seq(Chars) \ {<<>>}, NEW c \in States, Kept(s, v, c),
         NEW n \in Nat, n > c.at, n <= Len(s) + 1,
         \A i \in DOMAIN s : Occurs(v, s, i) => i >= n \/ i + Len(v) <= n,
         \A p \in Letters(s) : p >= c.at /\ p < n => p \in Covers(v, s)
  PROVE  Kept(s, v, [at |-> n, out |-> Append(c.out, Mark)])
<1> DEFINE o == Append(c.out, Mark)
           m == Len(c.out)
<1>1. c.at \in Nat \ {0} /\ c.out \in Marked
  BY DEF States
<1>2. m \in Nat /\ DOMAIN c.out = 1..m /\ Letters(c.out) = {i \in 1..m : c.out[i] # Mark}
  BY <1>1, MarkedIs
<1>3. Mark \in Chars \cup {Mark}
  OBVIOUS
<1>4. o \in Marked /\ Len(o) = m + 1 /\ o[m + 1] = Mark /\ \A j \in 1..m : o[j] = c.out[j]
  BY <1>1, <1>3, AppendIs DEF Marked
<1>5. Letters(o) = {i \in 1..(m + 1) : o[i] # Mark}
  BY <1>4, MarkedIs
<1> HIDE DEF o, m
<1>6. Letters(o) = Letters(c.out) /\ \A i \in Letters(o) : o[i] = c.out[i] /\ i \in 1..m
  BY <1>2, <1>4, <1>5
<1>7. Rest(v, s, n) = Rest(v, s, c.at)
  <2>1. Letters(s) \subseteq Nat
    BY MarkedIs
  <2> QED  BY <1>1, <2>1 DEF Rest
<1>8. PICK f : /\ Maps(s, Rest(v, s, c.at), c.out, f)
               /\ \A i \in Letters(c.out) : i = m <=> f[i] = c.at - 1
  BY DEF Kept, m
<1>9. Maps(s, Rest(v, s, n), o, f)
  BY <1>6, <1>7, <1>8 DEF Maps
<1>10. \A i \in Letters(o) : i = m + 1 <=> f[i] = n - 1
  <2> SUFFICES ASSUME NEW i \in Letters(o) PROVE i # m + 1 /\ f[i] # n - 1
    OBVIOUS
  <2>1. f[i] \in Nat /\ f[i] < c.at
    <3>1. f[i] \in Rest(v, s, n)
      BY <1>9 DEF Maps
    <3> QED  BY <1>7, <3>1, MarkedIs DEF Rest
  <2> QED  BY <1>1, <1>2, <1>6, <2>1
<1> DEFINE d == [at |-> n, out |-> o]
<1>11. d.at = n /\ d.out = o
  OBVIOUS
<1> HIDE DEF d
<1>12. Kept(s, v, d)
  BY <1>4, <1>9, <1>10, <1>11 DEF Kept
<1> QED  BY <1>12 DEF d, o

\* A letter that is copied is one that v does not cover.
LEMMA KeptLetter ==
  ASSUME NEW s \in Marked, NEW v \in Seq(Chars) \ {<<>>}, NEW c \in States, Kept(s, v, c),
         c.at \in Letters(s), ~Occurs(v, s, c.at)
  PROVE  Kept(s, v, [at |-> c.at + 1, out |-> Append(c.out, s[c.at])])
<1> DEFINE a == c.at
           x == s[a]
           o == Append(c.out, x)
           m == Len(c.out)
<1>1. a \in Nat \ {0} /\ c.out \in Marked /\ Len(s) \in Nat /\ DOMAIN s = 1..Len(s) /\ Letters(s) \subseteq 1..Len(s)
  BY MarkedIs DEF States
<1>2. m \in Nat /\ DOMAIN c.out = 1..m /\ Letters(c.out) = {i \in 1..m : c.out[i] # Mark}
  BY <1>1, MarkedIs
<1>3. x \in Chars \cup {Mark} /\ x # Mark
  BY MarkedIs
<1>4. o \in Marked /\ Len(o) = m + 1 /\ o[m + 1] = x /\ \A j \in 1..m : o[j] = c.out[j]
  BY <1>1, <1>3, AppendIs DEF Marked
<1>5. Letters(o) = {i \in 1..(m + 1) : o[i] # Mark}
  BY <1>4, MarkedIs
<1>v. Len(v) \in Nat \ {0}
  OBVIOUS
<1>a. a \in Letters(s) /\ ~Occurs(v, s, a)
  OBVIOUS
<1>b. \A i \in DOMAIN s : Occurs(v, s, i) => i >= a \/ i + Len(v) <= a
  BY DEF Kept
<1>8. PICK f : /\ Maps(s, Rest(v, s, a), c.out, f)
               /\ \A i \in Letters(c.out) : i = m <=> f[i] = a - 1
  BY DEF Kept, m
<1> HIDE DEF o, m, x, a
<1>6. Letters(o) = Letters(c.out) \cup {m + 1} /\ m + 1 \notin Letters(c.out)
  BY <1>2, <1>3, <1>4, <1>5
<1>7. a \notin Covers(v, s)
  <2> SUFFICES ASSUME NEW i \in DOMAIN s, Occurs(v, s, i), a \in i..(i + Len(v) - 1) PROVE FALSE
    BY DEF Covers
  <2>1. i # a /\ (i >= a \/ i + Len(v) <= a)
    BY <1>a, <1>b
  <2> QED  BY <1>1, <1>v, <2>1
<1>9. Rest(v, s, a + 1) = Rest(v, s, a) \cup {a} /\ \A p \in Rest(v, s, a) : p \in Nat /\ p < a
  BY <1>1, <1>7, <1>a DEF Rest
<1>c. /\ f \in [Letters(c.out) -> Rest(v, s, a)]
      /\ \A p \in Rest(v, s, a) : \E i \in Letters(c.out) : f[i] = p
      /\ \A i, j \in Letters(c.out) : i < j => f[i] < f[j]
      /\ \A i \in Letters(c.out) : c.out[i] = s[f[i]]
      /\ \A i, j \in Letters(c.out) : j = i + 1 <=> f[j] = f[i] + 1
  BY <1>8 DEF Maps
<1>d. \A i \in Letters(c.out) : i \in 1..m /\ f[i] \in Nat /\ f[i] < a
  BY <1>2, <1>9, <1>c
<1> DEFINE g == [i \in Letters(o) |-> IF i = m + 1 THEN a ELSE f[i]]
<1>e. g[m + 1] = a /\ \A i \in Letters(c.out) : g[i] = f[i] /\ g[i] \in Nat /\ g[i] < a /\ i \in 1..m
  BY <1>6, <1>d
<1>10. Maps(s, Rest(v, s, a + 1), o, g)
  <2>1. g \in [Letters(o) -> Rest(v, s, a + 1)]
    BY <1>6, <1>9, <1>c
  <2> HIDE DEF g
  <2>2. \A p \in Rest(v, s, a + 1) : \E i \in Letters(o) : g[i] = p
    BY <1>6, <1>9, <1>c, <1>e
  <2>3. \A i, j \in Letters(o) : i < j => g[i] < g[j]
    BY <1>1, <1>2, <1>6, <1>c, <1>e
  <2>4. \A i \in Letters(o) : o[i] = s[g[i]]
    <3>1. \A i \in Letters(c.out) : o[i] = s[g[i]]
      BY <1>4, <1>c, <1>e
    <3> QED  BY <1>4, <1>6, <1>e, <3>1 DEF x
  <2>5. \A i, j \in Letters(o) : j = i + 1 <=> g[j] = g[i] + 1
    <3>1. \A i \in Letters(c.out) : m + 1 = i + 1 <=> a = g[i] + 1
      BY <1>1, <1>2, <1>8, <1>e
    <3>2. \A j \in Letters(c.out) : j # (m + 1) + 1 /\ g[j] # a + 1
      BY <1>1, <1>2, <1>e
    <3>3. \A i, j \in Letters(c.out) : j = i + 1 <=> g[j] = g[i] + 1
      BY <1>c, <1>e
    <3>4. m + 1 # (m + 1) + 1 /\ a # a + 1
      BY <1>1, <1>2
    <3> SUFFICES ASSUME NEW i \in Letters(o), NEW j \in Letters(o) PROVE j = i + 1 <=> g[j] = g[i] + 1
      OBVIOUS
    <3>5. (i = m + 1 \/ i \in Letters(c.out)) /\ (j = m + 1 \/ j \in Letters(c.out))
      BY <1>6
    <3>6. CASE i = m + 1
      BY <1>e, <3>2, <3>4, <3>5, <3>6
    <3>7. CASE i \in Letters(c.out)
      BY <1>e, <3>1, <3>3, <3>5, <3>7
    <3> QED  BY <3>5, <3>6, <3>7
  <2>6. Rest(v, s, a + 1) \subseteq Letters(s)
    BY DEF Rest
  <2> QED  BY <2>1, <2>2, <2>3, <2>4, <2>5, <2>6 DEF Maps
<1>11. \A i \in Letters(o) : i = m + 1 <=> g[i] = (a + 1) - 1
  <2> HIDE DEF g
  <2> QED  BY <1>1, <1>2, <1>6, <1>e
<1>12. \A i \in DOMAIN s : Occurs(v, s, i) => i >= a + 1 \/ i + Len(v) <= a + 1
  BY <1>1, <1>v, <1>a, <1>b
<1> HIDE DEF g
<1> DEFINE d == [at |-> a + 1, out |-> o]
<1>13. d.at = a + 1 /\ d.out = o /\ a + 1 <= Len(s) + 1
  BY <1>1, <1>a
<1> HIDE DEF d
<1>14. Kept(s, v, d)
  BY <1>4, <1>10, <1>11, <1>12, <1>13 DEF Kept
<1> QED  BY <1>14 DEF d, o, x, a

LEMMA ValueIs ==
  ASSUME NEW v \in Seq(Chars) \ {<<>>}
  PROVE  Len(v) \in Nat \ {0} /\ DOMAIN v = 1..Len(v) /\ \A j \in 1..Len(v) : v[j] \in Chars /\ v[j] # Mark
<1>1. Len(v) \in Nat \ {0} /\ DOMAIN v = 1..Len(v) /\ \A j \in 1..Len(v) : v[j] \in Chars
  OBVIOUS
<1> QED  BY <1>1, LogAssumption

\* Where an occurrence of u runs into one of v, the end of u is the beginning of v.
LEMMA Overlapping ==
  ASSUME NEW u \in Seq(Chars) \ {<<>>}, NEW v \in Seq(Chars) \ {<<>>}, NEW s,
         NEW c \in Nat, Occurs(u, s, c), NEW b \in Nat, Occurs(v, s, b),
         c < b, b < c + Len(u), c + Len(u) < b + Len(v)
  PROVE  Overlap(u, v)
<1>1. PICK L \in Nat : L = Len(v)
  BY ValueIs
<1>2. PICK U \in Nat : U = Len(u)
  BY ValueIs
<1>3. PICK d \in Nat : b = c + d
  <2>1. b - c \in Nat /\ b = c + (b - c)
    OBVIOUS
  <2> QED  BY <2>1
<1>4. PICK n \in Nat : U = n + d
  <2>1. U - d \in Nat /\ U = (U - d) + d
    BY <1>2, <1>3
  <2> QED  BY <2>1
<1>5. n \in 1..U /\ n < U /\ n < L
  BY <1>1, <1>2, <1>3, <1>4
<1>6. ASSUME NEW j \in 1..n PROVE u[U - n + j] = v[j]
  <2>1. U - n + j = d + j /\ d + j \in 1..U /\ j \in 1..L
    BY <1>4, <1>5
  <2>2. c + (d + j) - 1 = b + j - 1
    BY <1>3
  <2>3. s[c + (d + j) - 1] = u[d + j]
    BY <1>2, <2>1, ValueIs DEF Occurs
  <2>4. s[b + j - 1] = v[j]
    BY <1>1, <2>1, ValueIs DEF Occurs
  <2> QED  BY <2>1, <2>2, <2>3, <2>4
<1> QED  BY <1>1, <1>2, <1>5, <1>6 DEF Overlap

\* One step of strings.ReplaceAll, for a value that does not overlap itself.
LEMMA PassKept ==
  ASSUME NEW s \in Marked, NEW v \in Seq(Chars) \ {<<>>}, ~Overlap(v, v), NEW c \in States, Kept(s, v, c)
  PROVE  Kept(s, v, Pass(s, v, c)) /\ (c.at <= Len(s) => Pass(s, v, c).at > c.at)
<1> DEFINE L == Len(v)
           a == c.at
<1>1. /\ Len(s) \in Nat /\ DOMAIN s = 1..Len(s) /\ Letters(s) = {i \in 1..Len(s) : s[i] # Mark}
      /\ a \in Nat \ {0} /\ a <= Len(s) + 1
      /\ L \in Nat \ {0} /\ DOMAIN v = 1..L
  BY MarkedIs DEF States, Kept
<1>2. \A i \in DOMAIN s : Occurs(v, s, i) => i >= a \/ i + L <= a
  BY DEF Kept
<1>a. a = c.at /\ L = Len(v)
  OBVIOUS
<1> HIDE DEF L, a
<1>3. CASE a > Len(s)
  BY <1>1, <1>3, <1>a DEF Pass
<1>4. CASE a <= Len(s) /\ Occurs(v, s, a)
  <2>1. Pass(s, v, c) = [at |-> a + L, out |-> Append(c.out, Mark)]
    BY <1>1, <1>4, <1>a DEF Pass
  <2>2. a + L \in Nat /\ a + L > a /\ a + L <= Len(s) + 1
    BY <1>1, <1>4, <1>a DEF Occurs
  <2>3. ASSUME NEW i \in DOMAIN s, Occurs(v, s, i), ~(i >= a + L), ~(i + L <= a + L) PROVE FALSE
    <3>1. i > a /\ i < a + L /\ a + L < i + L /\ i \in Nat /\ a \in Nat
      BY <1>1, <1>2, <2>3
    <3> QED  BY <1>4, <1>a, <2>3, <3>1, Overlapping
  <2>4. ASSUME NEW p \in Letters(s), p >= a, p < a + L PROVE p \in Covers(v, s)
    <3>1. p \in DOMAIN s /\ a \in DOMAIN s /\ p \in a..(a + L - 1)
      BY <1>1, <1>4, <2>4
    <3> QED  BY <1>4, <1>a, <3>1 DEF Covers
  <2>5. Kept(s, v, [at |-> a + L, out |-> Append(c.out, Mark)])
    BY <1>a, <2>2, <2>3, <2>4, KeptMark
  <2> QED  BY <1>a, <2>1, <2>2, <2>5
<1>5. CASE a <= Len(s) /\ ~Occurs(v, s, a)
  <2>1. Pass(s, v, c) = [at |-> a + 1, out |-> Append(c.out, s[a])]
    BY <1>1, <1>5, <1>a DEF Pass
  <2>2. Pass(s, v, c).at > a
    BY <1>1, <2>1
  <2>3. CASE s[a] # Mark
    <3>1. a \in Letters(s)
      BY <1>1, <1>5, <2>3
    <3> QED  BY <1>5, <1>a, <2>1, <2>2, <3>1, KeptLetter
  <2>4. CASE s[a] = Mark
    <3>1. a + 1 \in Nat /\ a + 1 > a /\ a + 1 <= Len(s) + 1
      BY <1>1, <1>5
    <3>2. \A i \in DOMAIN s : Occurs(v, s, i) => i >= a + 1 \/ i + L <= a + 1
      BY <1>1, <1>2, <1>5
    <3>3. \A p \in Letters(s) : ~(p >= a /\ p < a + 1)
      BY <1>1, <2>4
    <3>4. Kept(s, v, [at |-> a + 1, out |-> Append(c.out, Mark)])
      BY <1>a, <3>1, <3>2, <3>3, KeptMark
    <3> QED  BY <1>a, <2>1, <2>2, <2>4, <3>4
  <2> QED  BY <2>3, <2>4
<1> QED  BY <1>1, <1>3, <1>4, <1>5

\* strings.ReplaceAll keeps what the value does not cover.
LEMMA ReplacedMaps ==
  ASSUME NEW s \in Marked, NEW v \in Seq(Chars) \ {<<>>}, ~Overlap(v, v)
  PROVE  \E f : Maps(s, Letters(s) \ Covers(v, s), Replaced(s, v), f)
<1> DEFINE N == Len(s)
           a == [at |-> 1, out |-> <<>>]
<1>1. N \in Nat /\ DOMAIN s = 1..N /\ Letters(s) \subseteq 1..N
  BY MarkedIs
<1>2. PICK scan : /\ scan[0] = a /\ Replaced(s, v) = scan[N].out
                  /\ \A n \in Nat : n < N => scan[n + 1] = Pass(s, v, scan[n])
  BY ReplacedIs
<1>3. a \in States /\ Kept(s, v, a) /\ a.at = 1
  <2>1. <<>> \in Marked /\ Len(<<>>) = 0 /\ a.at = 1 /\ a.out = <<>> /\ Letters(<<>>) = {}
    BY DEF Marked, Letters
  <2>2. Rest(v, s, 1) = {}
    BY <1>1 DEF Rest
  <2>3. Maps(s, {}, <<>>, [i \in {} |-> i])
    BY <2>1 DEF Maps
  <2>4. \A i \in DOMAIN s : i >= 1
    BY <1>1
  <2> HIDE DEF a
  <2>5. a \in States
    BY <2>1 DEF States, a
  <2>6. 1 <= Len(s) + 1
    BY <1>1
  <2> QED  BY <2>1, <2>2, <2>3, <2>4, <2>5, <2>6 DEF Kept
<1> HIDE DEF a, N
<1> DEFINE S == {n \in Nat : n <= N => scan[n] \in States /\ Kept(s, v, scan[n]) /\ scan[n].at > n}
<1>4. 0 \in S
  BY <1>1, <1>2, <1>3
<1>5. ASSUME NEW n \in S PROVE n + 1 \in S
  <2> SUFFICES ASSUME n + 1 <= N PROVE scan[n + 1] \in States /\ Kept(s, v, scan[n + 1]) /\ scan[n + 1].at > n + 1
    OBVIOUS
  <2>1. n \in Nat /\ n < N /\ n <= N
    BY <1>1
  <2>2. scan[n] \in States /\ Kept(s, v, scan[n]) /\ scan[n].at > n
    BY <2>1
  <2>3. scan[n + 1] = Pass(s, v, scan[n])
    BY <1>2, <2>1
  <2>4. scan[n + 1] \in States /\ Kept(s, v, scan[n + 1])
    BY <2>2, <2>3, PassType, PassKept
  <2>5. scan[n].at <= N => scan[n + 1].at > scan[n].at
    BY <2>2, <2>3, PassKept DEF N
  <2>6. scan[n].at > N => scan[n + 1] = scan[n]
    BY <2>3 DEF Pass, N
  <2>7. scan[n].at \in Nat /\ scan[n + 1].at \in Nat
    BY <2>2, <2>4 DEF States
  <2> QED  BY <1>1, <2>1, <2>2, <2>4, <2>5, <2>6, <2>7
<1> HIDE DEF S
<1>6. S = Nat
  <2>1. S \in SUBSET Nat
    BY DEF S
  <2> QED  BY <1>4, <1>5, <2>1, SetInduction
<1>7. scan[N] \in States /\ Kept(s, v, scan[N]) /\ scan[N].at > N
  BY <1>1, <1>6 DEF S
<1>8. Rest(v, s, scan[N].at) = Letters(s) \ Covers(v, s)
  <2>1. scan[N].at \in Nat
    BY <1>7 DEF States
  <2> QED  BY <1>1, <1>7, <2>1 DEF Rest
<1> QED  BY <1>2, <1>7, <1>8 DEF Kept

\* What is kept of what was kept.
LEMMA MapsOnward ==
  ASSUME NEW s, NEW K, NEW t, NEW f, Maps(s, K, t, f),
         NEW J, NEW u, NEW g, Maps(t, J, u, g),
         NEW K2, K2 \subseteq K, \A i \in Letters(t) : i \in J <=> f[i] \in K2
  PROVE  Maps(s, K2, u, [i \in Letters(u) |-> f[g[i]]])
<1> DEFINE h == [i \in Letters(u) |-> f[g[i]]]
<1>1. /\ K \subseteq Letters(s)
      /\ f \in [Letters(t) -> K] /\ \A p \in K : \E i \in Letters(t) : f[i] = p
      /\ \A i, j \in Letters(t) : i < j => f[i] < f[j]
      /\ \A i \in Letters(t) : t[i] = s[f[i]]
      /\ \A i, j \in Letters(t) : j = i + 1 <=> f[j] = f[i] + 1
  BY DEF Maps
<1>2. /\ J \subseteq Letters(t)
      /\ g \in [Letters(u) -> J] /\ \A p \in J : \E i \in Letters(u) : g[i] = p
      /\ \A i, j \in Letters(u) : i < j => g[i] < g[j]
      /\ \A i \in Letters(u) : u[i] = t[g[i]]
      /\ \A i, j \in Letters(u) : j = i + 1 <=> g[j] = g[i] + 1
  BY DEF Maps
<1>3. \A i \in Letters(u) : g[i] \in J /\ g[i] \in Letters(t) /\ h[i] = f[g[i]] /\ h[i] \in K2
  BY <1>1, <1>2
<1>4. h \in [Letters(u) -> K2]
  BY <1>3
<1> HIDE DEF h
<1>5. ASSUME NEW p \in K2 PROVE \E i \in Letters(u) : h[i] = p
  <2>1. PICK j \in Letters(t) : f[j] = p
    BY <1>1
  <2>2. PICK i \in Letters(u) : g[i] = j
    BY <1>2, <2>1
  <2> QED  BY <1>3, <2>1, <2>2
<1>6. \A i, j \in Letters(u) : i < j => h[i] < h[j]
  BY <1>1, <1>2, <1>3
<1>7. \A i \in Letters(u) : u[i] = s[h[i]]
  BY <1>1, <1>2, <1>3
<1>8. \A i, j \in Letters(u) : j = i + 1 <=> h[j] = h[i] + 1
  BY <1>1, <1>2, <1>3
<1>9. Maps(s, K2, u, h)
  BY <1>1, <1>4, <1>5, <1>6, <1>7, <1>8 DEF Maps
<1> QED  BY <1>9 DEF h

Placed(s, K, t, f) ==
  /\ \A i \in Letters(t) : i \in 1..Len(t) /\ f[i] \in K /\ f[i] \in 1..Len(s) /\ t[i] = s[f[i]]
  /\ \A i, j \in Letters(t) : f[i] = f[j] => i = j

LEMMA MapsIs ==
  ASSUME NEW s \in Marked, NEW K, NEW t \in Marked, NEW f, Maps(s, K, t, f)
  PROVE  Placed(s, K, t, f)
<1>1. Letters(t) \subseteq 1..Len(t) /\ Letters(s) \subseteq 1..Len(s) /\ Len(s) \in Nat /\ Len(t) \in Nat
  BY MarkedIs
<1>2. K \subseteq Letters(s) /\ \A i \in Letters(t) : f[i] \in K /\ t[i] = s[f[i]]
  BY DEF Maps
<1>3. \A i \in Letters(t) : i \in Nat /\ f[i] \in Nat
  BY <1>1, <1>2
<1>4. ASSUME NEW i \in Letters(t), NEW j \in Letters(t), f[i] = f[j], i # j PROVE FALSE
  <2>1. i < j \/ j < i
    BY <1>3, <1>4
  <2>2. i < j => f[i] < f[j]
    BY DEF Maps
  <2>3. j < i => f[j] < f[i]
    BY DEF Maps
  <2> QED  BY <1>3, <1>4, <2>1, <2>2, <2>3
<1> QED  BY <1>1, <1>2, <1>4 DEF Placed

\* Where v is still in the text, it was in the line.
LEMMA CoveredForth ==
  ASSUME NEW s \in Marked, NEW K, NEW t \in Marked, NEW f, Maps(s, K, t, f),
         NEW v \in Seq(Chars) \ {<<>>}, NEW i \in Letters(t), i \in Covers(v, t)
  PROVE  f[i] \in Covers(v, s)
<1> DEFINE L == Len(v)
<1>1. PICK a \in DOMAIN t : Occurs(v, t, a) /\ i \in a..(a + L - 1)
  BY DEF Covers
<1>2. L \in Nat \ {0} /\ DOMAIN v = 1..L /\ \A j \in 1..L : v[j] # Mark
  BY ValueIs
<1>3. /\ Len(t) \in Nat /\ DOMAIN t = 1..Len(t) /\ Letters(t) = {j \in 1..Len(t) : t[j] # Mark}
      /\ Len(s) \in Nat /\ DOMAIN s = 1..Len(s)
  BY MarkedIs
<1> HIDE DEF L
<1>4. a + L <= Len(t) + 1 /\ \A j \in 1..L : t[a + j - 1] = v[j]
  BY <1>1, <1>2 DEF Occurs, L
<1>5. ASSUME NEW j \in Nat, j < L PROVE a + j \in Letters(t)
  <2>1. j + 1 \in 1..L /\ a + (j + 1) - 1 = a + j /\ a + j \in 1..Len(t)
    BY <1>1, <1>2, <1>3, <1>4, <1>5
  <2>2. t[a + j] = v[j + 1]
    BY <1>4, <2>1
  <2> QED  BY <1>2, <1>3, <2>1, <2>2
<1>m. Placed(s, K, t, f)
  BY MapsIs
<1>6. \A k \in Letters(t) : f[k] \in 1..Len(s) /\ t[k] = s[f[k]] /\ k \in Nat
  BY <1>3, <1>m DEF Placed
<1> DEFINE S == {j \in Nat : j < L => f[a + j] = f[a] + j}
<1>7. 0 \in S
  <2>1. a + 0 = a /\ a \in Letters(t)
    BY <1>1, <1>2, <1>3, <1>5
  <2>2. f[a] + 0 = f[a]
    BY <1>6, <2>1
  <2> QED  BY <2>1, <2>2
<1>8. ASSUME NEW j \in S PROVE j + 1 \in S
  <2> SUFFICES ASSUME j + 1 < L PROVE f[a + (j + 1)] = f[a] + (j + 1)
    OBVIOUS
  <2>1. j < L /\ f[a + j] = f[a] + j /\ j + 1 \in Nat /\ j \in Nat
    BY <1>2
  <2>2. a + j \in Letters(t) /\ a + (j + 1) \in Letters(t) /\ a + (j + 1) = (a + j) + 1
    BY <1>1, <1>3, <1>5, <2>1
  <2>3. f[a + (j + 1)] = f[a + j] + 1
    BY <2>2 DEF Maps
  <2>4. f[a] \in Nat
    <3>1. a + 0 = a /\ a \in Letters(t)
      BY <1>1, <1>2, <1>3, <1>5
    <3> QED  BY <1>3, <1>6, <3>1
  <2> QED  BY <2>1, <2>3, <2>4
<1> HIDE DEF S
<1>9. S = Nat
  <2>1. S \in SUBSET Nat
    BY DEF S
  <2> QED  BY <1>7, <1>8, <2>1, SetInduction
<1>10. \A j \in Nat : j < L => f[a + j] = f[a] + j
  BY <1>9 DEF S
<1> DEFINE b == f[a]
<1>11. b \in 1..Len(s)
  <2>1. a + 0 = a /\ a \in Letters(t)
    BY <1>1, <1>2, <1>3, <1>5
  <2> QED  BY <1>6, <2>1
<1>12. \A j \in Nat : j < L => b + j \in 1..Len(s) /\ s[b + j] = t[a + j]
  BY <1>5, <1>6, <1>10
<1> HIDE DEF b
<1>13. Occurs(v, s, b)
  <2>1. b + L <= Len(s) + 1
    <3>1. L - 1 \in Nat /\ L - 1 < L
      BY <1>2
    <3>2. b + (L - 1) \in 1..Len(s)
      BY <1>12, <3>1
    <3> QED  BY <1>2, <1>3, <1>11, <3>2
  <2>2. ASSUME NEW j \in 1..L PROVE s[b + j - 1] = v[j]
    <3>1. j - 1 \in Nat /\ j - 1 < L /\ b + (j - 1) = b + j - 1 /\ a + (j - 1) = a + j - 1
      BY <1>2, <1>3, <1>11
    <3>2. s[b + (j - 1)] = t[a + (j - 1)]
      BY <1>12, <3>1
    <3> QED  BY <1>4, <3>1, <3>2
  <2> QED  BY <1>2, <2>1, <2>2 DEF Occurs, L
<1>14. f[i] \in b..(b + L - 1) /\ f[i] \in DOMAIN s
  <2>1. i - a \in Nat /\ i - a < L /\ a + (i - a) = i
    BY <1>1, <1>2, <1>3
  <2>2. f[i] = b + (i - a)
    BY <1>10, <2>1 DEF b
  <2> QED  BY <1>2, <1>3, <1>6, <1>11, <2>1, <2>2
<1> QED  BY <1>3, <1>11, <1>13, <1>14 DEF Covers, L

\* Where v was in the line, it still is, if it is kept as a whole or not at all.
LEMMA CoveredBack ==
  ASSUME NEW s \in Marked, NEW K, NEW t \in Marked, NEW f, Maps(s, K, t, f),
         NEW v \in Seq(Chars) \ {<<>>},
         \A b \in DOMAIN s : Occurs(v, s, b) =>
           \A p, q \in b..(b + Len(v) - 1) : p \in K => q \in K,
         NEW i \in Letters(t), f[i] \in Covers(v, s)
  PROVE  i \in Covers(v, t)
<1> DEFINE L == Len(v)
<1>1. PICK b \in DOMAIN s : Occurs(v, s, b) /\ f[i] \in b..(b + L - 1)
  BY DEF Covers
<1>2. L \in Nat \ {0} /\ DOMAIN v = 1..L
  BY ValueIs
<1>3. /\ Len(t) \in Nat /\ DOMAIN t = 1..Len(t)
      /\ Len(s) \in Nat /\ DOMAIN s = 1..Len(s)
  BY MarkedIs
<1>m. Placed(s, K, t, f)
  BY MapsIs
<1>4. \A k \in Letters(t) : f[k] \in K /\ f[k] \in 1..Len(s) /\ t[k] = s[f[k]] /\ k \in 1..Len(t)
  BY <1>m DEF Placed
<1>5. \A q \in b..(b + L - 1) : \E k \in Letters(t) : f[k] = q
  <2>1. f[i] \in K
    BY <1>4
  <2>2. \A q \in b..(b + L - 1) : q \in K
    BY <1>1, <2>1
  <2> QED  BY <2>2 DEF Maps
<1>6. b + L <= Len(s) + 1 /\ \A j \in 1..L : s[b + j - 1] = v[j]
  BY <1>1, <1>2 DEF Occurs
<1> HIDE DEF L
<1>7. PICK a \in Letters(t) : f[a] = b
  <2>1. b \in b..(b + L - 1)
    BY <1>1, <1>2, <1>3
  <2> QED  BY <1>5, <2>1
<1> DEFINE S == {j \in Nat : j < L => a + j \in Letters(t) /\ f[a + j] = b + j}
<1>8. 0 \in S
  <2>1. a + 0 = a /\ b + 0 = b
    BY <1>1, <1>3, <1>4, <1>7
  <2> QED  BY <1>7, <2>1
<1>9. ASSUME NEW j \in S PROVE j + 1 \in S
  <2> SUFFICES ASSUME j + 1 < L PROVE a + (j + 1) \in Letters(t) /\ f[a + (j + 1)] = b + (j + 1)
    OBVIOUS
  <2>1. j \in Nat /\ j < L /\ a + j \in Letters(t) /\ f[a + j] = b + j
    BY <1>2
  <2>2. b + (j + 1) \in b..(b + L - 1)
    BY <1>1, <1>2, <1>3, <2>1
  <2>3. PICK k \in Letters(t) : f[k] = b + (j + 1)
    BY <1>5, <2>2
  <2>4. f[k] = f[a + j] + 1
    BY <1>1, <1>3, <2>1, <2>3
  <2>5. k = (a + j) + 1
    BY <2>1, <2>4 DEF Maps
  <2>6. (a + j) + 1 = a + (j + 1)
    BY <1>3, <1>4, <2>1
  <2> QED  BY <2>3, <2>5, <2>6
<1> HIDE DEF S
<1>10. S = Nat
  <2>1. S \in SUBSET Nat
    BY DEF S
  <2> QED  BY <1>8, <1>9, <2>1, SetInduction
<1>11. \A j \in Nat : j < L => a + j \in Letters(t) /\ f[a + j] = b + j
  BY <1>10 DEF S
<1>12. Occurs(v, t, a)
  <2>1. a + L <= Len(t) + 1
    <3>1. L - 1 \in Nat /\ L - 1 < L
      BY <1>2
    <3>2. a + (L - 1) \in 1..Len(t)
      BY <1>4, <1>11, <3>1
    <3>3. a \in Nat
      BY <1>3, <1>4
    <3> QED  BY <1>2, <1>3, <3>2, <3>3
  <2>2. ASSUME NEW j \in 1..L PROVE t[a + j - 1] = v[j]
    <3>1. j - 1 \in Nat /\ j - 1 < L /\ b + (j - 1) = b + j - 1 /\ a + (j - 1) = a + j - 1
      BY <1>1, <1>2, <1>3, <1>4
    <3>2. t[a + (j - 1)] = s[b + (j - 1)]
      BY <1>4, <1>11, <3>1
    <3> QED  BY <1>6, <3>1, <3>2
  <2> QED  BY <1>2, <2>1, <2>2 DEF Occurs, L
<1>13. i \in a..(a + L - 1)
  <2> DEFINE j == f[i] - b
  <2>1. j \in Nat /\ j < L /\ b + j = f[i]
    BY <1>1, <1>2, <1>3
  <2>2. a + j \in Letters(t) /\ f[a + j] = f[i]
    BY <1>11, <2>1
  <2> HIDE DEF j
  <2>3. i = a + j
    BY <1>m, <2>2 DEF Placed
  <2>4. a \in Nat
    BY <1>3, <1>4
  <2> QED  BY <1>2, <2>1, <2>3, <2>4
<1> QED  BY <1>3, <1>4, <1>12, <1>13 DEF Covers, L

\* Of two values of which neither ends with the beginning of the other, the longer
\* one covers all of the shorter one or nothing.
LEMMA AllOrNothing ==
  ASSUME NEW s \in Marked, NEW u \in Seq(Chars) \ {<<>>}, NEW v \in Seq(Chars) \ {<<>>},
         ~Overlap(u, v), ~Overlap(v, u), Len(u) >= Len(v),
         NEW b \in DOMAIN s, Occurs(v, s, b),
         NEW p \in b..(b + Len(v) - 1), NEW q \in b..(b + Len(v) - 1), q \in Covers(u, s)
  PROVE  p \in Covers(u, s)
<1> DEFINE L == Len(v)
           U == Len(u)
<1>1. PICK c \in DOMAIN s : Occurs(u, s, c) /\ q \in c..(c + U - 1)
  BY DEF Covers
<1>2. L \in Nat \ {0} /\ DOMAIN v = 1..L /\ U \in Nat \ {0} /\ DOMAIN u = 1..U /\ L <= U
  BY ValueIs
<1>3. Len(s) \in Nat /\ DOMAIN s = 1..Len(s)
  BY MarkedIs
<1>4. /\ b + L <= Len(s) + 1 /\ c + U <= Len(s) + 1
  BY <1>1, <1>2 DEF Occurs
<1>a. p \in b..(b + L - 1) /\ q \in b..(b + L - 1) /\ L = Len(v) /\ U = Len(u)
  OBVIOUS
<1> HIDE DEF L, U
<1>5. CASE b < c
  <2>1. b \in Nat /\ c \in Nat /\ c < b + L /\ b + L < c + U
    BY <1>1, <1>2, <1>3, <1>5, <1>a
  <2> QED  BY <1>1, <1>5, <1>a, <2>1, Overlapping
<1>6. CASE b >= c /\ b + L > c + U
  <2>1. b \in Nat /\ c \in Nat /\ c < b /\ b < c + U /\ c + U < b + L
    BY <1>1, <1>2, <1>3, <1>6, <1>a
  <2> QED  BY <1>1, <1>a, <2>1, Overlapping
<1>7. CASE b >= c /\ b + L <= c + U
  <2>1. p \in c..(c + U - 1) /\ p \in DOMAIN s
    BY <1>1, <1>2, <1>3, <1>4, <1>7, <1>a
  <2> QED  BY <1>1, <1>a, <2>1 DEF Covers
<1> QED  BY <1>1, <1>2, <1>3, <1>5, <1>6, <1>7

\* What the first n values do not cover.
Left(order, s, n) == {p \in DOMAIN s : \A k \in 1..n : p \notin Covers(order[k], s)}

\* The values of an order, the longest first, none of which overlaps another.
Apart(order) ==
  /\ order \in Seq(Seq(Chars) \ {<<>>})
  /\ \A i, j \in 1..Len(order) : ~Overlap(order[i], order[j]) /\ (i < j => Len(order[i]) >= Len(order[j]))

\* One value more.
LEMMA StageMaps ==
  ASSUME NEW order, Apart(order), NEW s \in Seq(Chars), NEW n \in Nat, n < Len(order),
         NEW t \in Marked, NEW f, Maps(s, Left(order, s, n), t, f)
  PROVE  \E h : Maps(s, Left(order, s, n + 1), Replaced(t, order[n + 1]), h)
<1> DEFINE v == order[n + 1]
           K == Left(order, s, n)
           J == Left(order, s, n + 1)
           Value == Seq(Chars) \ {<<>>}
<1>1. Len(order) \in Nat /\ \A k \in 1..Len(order) : order[k] \in Value
  <2> HIDE DEF Value
  <2>1. order \in Seq(Value)
    BY DEF Value, Apart
  <2> QED  BY <2>1
<1>2. n + 1 \in 1..Len(order) /\ \A k \in 1..n : k \in 1..Len(order) /\ k < n + 1
  BY <1>1
<1>3. v \in Value /\ ~Overlap(v, v)
  BY <1>1, <1>2 DEF Apart
<1>4. s \in Marked /\ t \in Marked
  BY DEF Marked
<1>5. PICK g : Maps(t, Letters(t) \ Covers(v, t), Replaced(t, v), g)
  BY <1>3, ReplacedMaps
<1>6. J \subseteq K /\ \A p \in K : p \in J <=> p \notin Covers(v, s)
  <2>1. \A k \in 1..(n + 1) : k \in 1..n \/ k = n + 1
    OBVIOUS
  <2>2. \A k \in 1..n : k \in 1..(n + 1)
    OBVIOUS
  <2>3. n + 1 \in 1..(n + 1)
    OBVIOUS
  <2> QED  BY <2>1, <2>2, <2>3 DEF Left
<1>7. Maps(s, K, t, f)
  OBVIOUS
<1>v. v = order[n + 1]
  OBVIOUS
<1>8. \A b \in DOMAIN s : Occurs(v, s, b) =>
           \A p, q \in b..(b + Len(v) - 1) : p \in K => q \in K
  <2> SUFFICES ASSUME NEW b \in DOMAIN s, Occurs(v, s, b),
                      NEW p \in b..(b + Len(v) - 1), NEW q \in b..(b + Len(v) - 1), p \in K, q \notin K
               PROVE  FALSE
    OBVIOUS
  <2>1. q \in DOMAIN s
    <3>1. Len(s) \in Nat /\ DOMAIN s = 1..Len(s) /\ Len(v) \in Nat
      BY <1>3, <1>4, MarkedIs, ValueIs
    <3>2. b + Len(v) <= Len(s) + 1
      BY DEF Occurs
    <3> HIDE DEF v
    <3> QED  BY <3>1, <3>2
  <2>2. PICK k \in 1..n : q \in Covers(order[k], s)
    BY <2>1 DEF Left
  <2>3. order[k] \in Value /\ ~Overlap(order[k], v) /\ ~Overlap(v, order[k]) /\ Len(order[k]) >= Len(v)
    BY <1>1, <1>2 DEF Apart
  <2> HIDE DEF v
  <2>4. p \in Covers(order[k], s)
    BY <1>3, <1>4, <2>2, <2>3, AllOrNothing
  <2> QED  BY <2>2, <2>4 DEF Left
<1> HIDE DEF v, K, J, Value
<1>9. ASSUME NEW i \in Letters(t) PROVE i \in Letters(t) \ Covers(v, t) <=> f[i] \in J
  <2>1. f[i] \in K
    BY <1>7 DEF Maps
  <2>2. i \in Covers(v, t) => f[i] \in Covers(v, s)
    BY <1>3, <1>4, <1>7, CoveredForth DEF Value
  <2>3. f[i] \in Covers(v, s) => i \in Covers(v, t)
    BY <1>3, <1>4, <1>7, <1>8, CoveredBack DEF Value
  <2> QED  BY <1>6, <2>1, <2>2, <2>3
<1> DEFINE M == Letters(t) \ Covers(v, t)
           u == Replaced(t, v)
<1>10. Maps(t, M, u, g) /\ \A i \in Letters(t) : i \in M <=> f[i] \in J
  BY <1>5, <1>9
<1> HIDE DEF M, u
<1>11. Maps(s, J, u, [i \in Letters(u) |-> f[g[i]]])
  BY <1>6, <1>7, <1>10, MapsOnward
<1> QED  BY <1>11 DEF J, u, v

\* redactor.String keeps what no value covers.
LEMMA RedactMaps ==
  ASSUME NEW order, Apart(order), NEW s \in Seq(Chars)
  PROVE  Redact(order, s) \in Marked /\ \E f : Maps(s, Left(order, s, Len(order)), Redact(order, s), f)
<1> DEFINE N == Len(order)
           Value == Seq(Chars) \ {<<>>}
<1>1. order \in Seq(Value)
  BY DEF Apart
<1>2. s \in Marked
  BY DEF Marked
<1>3. PICK text : /\ text[0] = s /\ Redact(order, s) = text[N]
                  /\ \A n \in Nat : n < N => text[n + 1] = Replaced(text[n], order[n + 1])
  BY <1>1, <1>2, RedactIs
<1>4. N \in Nat /\ \A k \in 1..N : order[k] \in Value
  <2> HIDE DEF Value
  <2> QED  BY <1>1
<1>N. N = Len(order)
  OBVIOUS
<1> HIDE DEF N, Value
<1>5. Maps(s, Left(order, s, 0), s, [i \in Letters(s) |-> i])
  <2>1. Letters(s) = DOMAIN s /\ DOMAIN s = 1..Len(s) /\ Len(s) \in Nat
    <3>1. DOMAIN s = 1..Len(s) /\ Len(s) \in Nat /\ \A i \in 1..Len(s) : s[i] \in Chars
      OBVIOUS
    <3> QED  BY <3>1, LogAssumption DEF Letters
  <2>2. Left(order, s, 0) = Letters(s)
    BY <2>1 DEF Left
  <2>3. Letters(s) \subseteq Nat
    BY <2>1
  <2> DEFINE e == [i \in Letters(s) |-> i]
  <2>4. e \in [Letters(s) -> Letters(s)] /\ \A i \in Letters(s) : e[i] = i
    OBVIOUS
  <2> HIDE DEF e
  <2>5. Maps(s, Letters(s), s, e)
    BY <2>4 DEF Maps
  <2> QED  BY <2>2, <2>5 DEF e
<1> DEFINE S == {n \in Nat : n <= N => text[n] \in Marked /\ \E f : Maps(s, Left(order, s, n), text[n], f)}
<1>6. 0 \in S
  BY <1>2, <1>3, <1>5
<1>7. ASSUME NEW n \in S PROVE n + 1 \in S
  <2> SUFFICES ASSUME n + 1 <= N
               PROVE  text[n + 1] \in Marked /\ \E f : Maps(s, Left(order, s, n + 1), text[n + 1], f)
    OBVIOUS
  <2>1. n \in Nat /\ n < N /\ n <= N /\ n + 1 \in 1..N
    BY <1>4
  <2>2. text[n] \in Marked /\ \E f : Maps(s, Left(order, s, n), text[n], f)
    BY <2>1
  <2>3. text[n + 1] = Replaced(text[n], order[n + 1]) /\ order[n + 1] \in Value
    BY <1>3, <1>4, <2>1
  <2>4. text[n + 1] \in Marked
    BY <2>2, <2>3, ReplacedLeaves DEF Value
  <2>5. PICK f : Maps(s, Left(order, s, n), text[n], f)
    BY <2>2
  <2>6. \E h : Maps(s, Left(order, s, n + 1), Replaced(text[n], order[n + 1]), h)
    BY <1>N, <2>1, <2>2, <2>5, StageMaps
  <2> QED  BY <2>3, <2>4, <2>6
<1> HIDE DEF S
<1>8. S = Nat
  <2>1. S \in SUBSET Nat
    BY DEF S
  <2> QED  BY <1>6, <1>7, <2>1, SetInduction
<1>9. text[N] \in Marked /\ \E f : Maps(s, Left(order, s, N), text[N], f)
  BY <1>4, <1>8 DEF S
<1> QED  BY <1>3, <1>9, <1>N

\* f takes A to the beginning of B, in its order.
Onset(A, B, f) ==
  /\ f \in [A -> B]
  /\ \A i, j \in A : i < j => f[i] < f[j]
  /\ \A i \in A, p \in B : p <= f[i] => \E j \in A : f[j] = p

LEMMA OnsetSize ==
  ASSUME NEW A \in SUBSET Nat, NEW B \in SUBSET Nat, IsFiniteSet(B), NEW f, Onset(A, B, f)
  PROVE  /\ IsFiniteSet(A) /\ Cardinality(A) <= Cardinality(B)
         /\ (\A p \in B : \E i \in A : f[i] = p) => Cardinality(A) = Cardinality(B)
<1>1. f \in [A -> B] /\ \A i, j \in A : f[i] = f[j] => i = j
  <2>1. f \in [A -> B] /\ \A i, j \in A : i < j => f[i] < f[j]
    BY DEF Onset
  <2>2. \A i \in A : i \in Nat /\ f[i] \in Nat
    BY <2>1
  <2> SUFFICES ASSUME NEW i \in A, NEW j \in A, f[i] = f[j], i # j PROVE FALSE
    BY <2>1
  <2>3. i < j \/ j < i
    BY <2>2
  <2> QED  BY <2>1, <2>2, <2>3
<1>2. f \in Injection(A, B)
  BY <1>1 DEF Injection, IsInjective
<1>3. (\A p \in B : \E i \in A : f[i] = p) => f \in Surjection(A, B)
  BY <1>1 DEF Surjection
<1> QED  BY <1>2, <1>3, FS_Injection

\* The letter that has the rank of a position is the one that is taken there.
LEMMA SameRank ==
  ASSUME NEW A \in SUBSET Nat, NEW B \in SUBSET Nat, IsFiniteSet(B), NEW f, Onset(A, B, f),
         NEW i \in A, NEW p \in B, Rank(A, i) = Rank(B, p)
  PROVE  p = f[i]
<1> DEFINE q == f[i]
           Ai == {j \in A : j <= i}
           Bq == {j \in B : j <= q}
           Bp == {j \in B : j <= p}
           g == [j \in Ai |-> f[j]]
<1>1. /\ f \in [A -> B] /\ \A j, k \in A : j < k => f[j] < f[k]
      /\ \A r \in B : r <= q => \E j \in A : f[j] = r
  BY DEF Onset
<1>2. \A j \in A : j \in Nat /\ f[j] \in Nat /\ f[j] \in B
  BY <1>1
<1>3. q \in B /\ q \in Nat /\ p \in Nat /\ i \in Nat
  BY <1>2
<1>q. q = f[i]
  OBVIOUS
<1> HIDE DEF q
<1>4. Onset(Ai, Bq, g)
  <2>1. \A j \in Ai : j \in A /\ j <= i /\ g[j] = f[j] /\ f[j] \in Bq
    <3> SUFFICES ASSUME NEW j \in Ai PROVE f[j] \in Bq
      OBVIOUS
    <3>1. j < i \/ j = i
      BY <1>2, <1>3
    <3>2. f[j] <= q
      BY <1>1, <1>2, <1>3, <1>q, <3>1
    <3> QED  BY <1>2, <3>2
  <2>2. g \in [Ai -> Bq]
    BY <2>1
  <2>3. ASSUME NEW r \in Bq PROVE \E j \in Ai : g[j] = r
    <3>1. PICK j \in A : f[j] = r
      BY <1>1
    <3>2. ~(i < j)
      BY <1>1, <1>2, <1>3, <1>q, <3>1
    <3>3. j \in Ai
      BY <1>2, <1>3, <3>2
    <3> QED  BY <2>1, <3>1, <3>3
  <2> HIDE DEF g, Bq
  <2> QED  BY <1>1, <2>1, <2>2, <2>3 DEF Onset
<1>5. \A r \in Bq : \E j \in Ai : g[j] = r
  <2> SUFFICES ASSUME NEW r \in Bq PROVE \E j \in Ai : g[j] = r
    OBVIOUS
  <2>1. i \in Ai /\ g[i] = q
    BY <1>3, <1>q
  <2> HIDE DEF g, Ai
  <2> QED  BY <1>4, <2>1 DEF Onset
<1>6. Bq \in SUBSET B /\ Bp \in SUBSET B /\ IsFiniteSet(Bq) /\ IsFiniteSet(Bp)
  BY FS_Subset
<1>7. Cardinality(Ai) = Cardinality(Bq)
  <2>1. Ai \in SUBSET Nat /\ Bq \in SUBSET Nat
    OBVIOUS
  <2> HIDE DEF Ai, Bq, g
  <2> QED  BY <1>4, <1>5, <1>6, <2>1, OnsetSize
<1>8. Cardinality(Bq) = Cardinality(Bp)
  BY <1>7 DEF Rank
<1>b. \A j \in B : j \in Nat
  OBVIOUS
<1>9. CASE p <= q
  <2>a. \A j \in B : j <= p => j <= q
    BY <1>3, <1>9, <1>b
  <2>b. q <= q
    BY <1>3
  <2>c. q \in Bq
    BY <1>3, <2>b
  <2>d. \A j \in Bp : j \in Bq
    BY <2>a
  <2>1. Bp \in SUBSET Bq /\ q \in Bq
    <3> HIDE DEF Bp, Bq
    <3> QED  BY <2>c, <2>d
  <2>2. Bp = Bq
    <3> HIDE DEF Bp, Bq
    <3> QED  BY <1>6, <1>8, <2>1, FS_Subset
  <2>3. q <= p
    BY <2>1, <2>2
  <2> QED  BY <1>3, <1>9, <1>q, <2>3
<1>10. CASE q <= p
  <2>a. \A j \in B : j <= q => j <= p
    BY <1>3, <1>10, <1>b
  <2>b. p <= p
    BY <1>3
  <2>c. p \in Bp
    BY <1>3, <2>b
  <2>d. \A j \in Bq : j \in Bp
    BY <2>a
  <2>1. Bq \in SUBSET Bp /\ p \in Bp
    <3> HIDE DEF Bp, Bq
    <3> QED  BY <2>c, <2>d
  <2>2. Bp = Bq
    <3> HIDE DEF Bp, Bq
    <3> QED  BY <1>6, <1>8, <2>1, FS_Subset
  <2>3. p <= q
    BY <2>1, <2>2
  <2> QED  BY <1>3, <1>10, <1>q, <2>3
<1> QED  BY <1>3, <1>9, <1>10

\* Where the letters of a message are the beginning of what is not covered, or,
\* uncut, all of it, the rest of the line is kept.
LEMMA KeepsByOnset ==
  ASSUME NEW values, NEW line \in Seq(Chars), NEW msg \in Stores, NEW f,
         Onset(Letters(msg), Uncovered(values, line), f),
         \A i \in Letters(msg) : msg[i] = line[f[i]],
         (\A i \in DOMAIN msg : msg[i] # Cut) => \A p \in Uncovered(values, line) : \E i \in Letters(msg) : f[i] = p
  PROVE  KeepsTheRest(values, line, msg)
<1> DEFINE A == Letters(msg)
           B == Uncovered(values, line)
<1>1. A \in SUBSET Nat
  <2>1. DOMAIN msg = 1..Len(msg) /\ Len(msg) \in Nat
    BY DEF Stores
  <2> QED  BY <2>1 DEF Letters
<1>2. B \in SUBSET Nat /\ IsFiniteSet(B)
  <2>1. DOMAIN line = 1..Len(line) /\ Len(line) \in Nat
    OBVIOUS
  <2>2. B \in SUBSET (1..Len(line))
    BY <2>1 DEF Uncovered
  <2>3. IsFiniteSet(1..Len(line))
    BY <2>1, FS_Interval
  <2>4. B \in SUBSET Nat
    BY <2>1, <2>2
  <2> HIDE DEF B
  <2>5. IsFiniteSet(B)
    BY <2>2, <2>3, FS_Subset
  <2> QED  BY <2>4, <2>5
<1>3. ASSUME NEW i \in A, NEW p \in B, Rank(A, i) = Rank(B, p) PROVE msg[i] = line[p]
  <2> HIDE DEF A, B
  <2>1. p = f[i]
    BY <1>1, <1>2, <1>3, SameRank DEF A, B
  <2> QED  BY <2>1 DEF A
<1>4. Cardinality(A) <= Cardinality(B)
  BY <1>1, <1>2, OnsetSize
<1>5. (\A i \in DOMAIN msg : msg[i] # Cut) => Cardinality(A) = Cardinality(B)
  BY <1>1, <1>2, OnsetSize
<1> QED  BY <1>3, <1>4, <1>5 DEF KeepsTheRest

\* A line that is cut keeps the beginning.
LEMMA TruncateKeeps ==
  ASSUME NEW values, NEW s \in Seq(Chars), NEW t \in Marked, NEW f, Maps(s, Uncovered(values, s), t, f)
  PROVE  KeepsTheRest(values, s, Truncate(t))
<1> DEFINE B == Uncovered(values, s)
           m == Truncate(t)
<1>1. s \in Marked
  BY DEF Marked
<1>2. Placed(s, B, t, f)
  BY <1>1, MapsIs
<1>3. /\ f \in [Letters(t) -> B]
      /\ \A p \in B : \E i \in Letters(t) : f[i] = p
      /\ \A i, j \in Letters(t) : i < j => f[i] < f[j]
      /\ \A i \in Letters(t) : t[i] = s[f[i]]
  BY DEF Maps
<1>4. Letters(t) = {i \in 1..Len(t) : t[i] # Mark} /\ Letters(s) \subseteq 1..Len(s)
  BY <1>1, MarkedIs
<1>a. m \in Stores /\ Cut # Mark
  BY TruncateIs DEF Mark, Cut
<1>B. B = Uncovered(values, s)
  OBVIOUS
<1>b. Len(t) \in Nat /\ MaxLine \in Nat
  BY TruncateIs
<1>5. CASE Len(t) <= MaxLine
  <2>1. m = t
    BY <1>5, <1>b, TruncateIs
  <2> HIDE DEF B, m
  <2>2. Onset(Letters(m), B, f)
    BY <1>3, <2>1 DEF Onset
  <2>3. KeepsTheRest(values, s, m)
    BY <1>3, <1>a, <1>B, <2>1, <2>2, KeepsByOnset
  <2> QED  BY <2>3 DEF m
<1>6. CASE Len(t) > MaxLine
  <2>1. /\ DOMAIN m = 1..(MaxLine + 1) /\ m[MaxLine + 1] = Cut
        /\ \A i \in 1..MaxLine : m[i] = t[i]
    BY <1>6, <1>b, TruncateIs
  <2>2. \A i \in 1..MaxLine : t[i] # Cut
    <3>1. \A i \in 1..MaxLine : t[i] \in Chars \cup {Mark}
      BY <1>6, <1>b, TruncateIs
    <3> QED  BY <1>a, <3>1, LogAssumption
  <2> HIDE DEF m
  <2>3. Letters(m) = {i \in Letters(t) : i <= MaxLine}
    BY <1>4, <1>6, <1>b, <2>1, <2>2 DEF Letters
  <2> DEFINE A == Letters(m)
             g == [i \in A |-> f[i]]
  <2>4. /\ \A i \in A : i \in Letters(t) /\ i <= MaxLine /\ g[i] = f[i] /\ g[i] \in B /\ m[i] = s[g[i]]
        /\ \A i \in Letters(t) : i <= MaxLine => i \in A
    BY <1>3, <1>4, <1>b, <2>1, <2>3
  <2>5. g \in [A -> B]
    BY <2>4
  <2> HIDE DEF A, g, B
  <2>6. ASSUME NEW i \in A, NEW p \in B, p <= g[i] PROVE \E j \in A : g[j] = p
    <3>1. PICK j \in Letters(t) : f[j] = p
      BY <1>3
    <3>2. i \in Nat /\ j \in Nat /\ f[i] \in Nat /\ f[j] \in Nat /\ i \in Letters(t) /\ i <= MaxLine
      <4>1. Len(s) \in Nat
        OBVIOUS
      <4>2. i \in Letters(t) /\ i <= MaxLine
        BY <2>4
      <4>3. i \in 1..Len(t) /\ j \in 1..Len(t) /\ f[i] \in 1..Len(s) /\ f[j] \in 1..Len(s)
        BY <1>2, <4>2 DEF Placed
      <4> QED  BY <1>b, <4>1, <4>2, <4>3
    <3>3. f[j] <= f[i]
      BY <2>4, <2>6, <3>1
    <3>4. ~(i < j)
      <4>1. i < j => f[i] < f[j]
        BY <1>3, <3>2
      <4> QED  BY <3>2, <3>3, <4>1
    <3>5. j <= MaxLine
      BY <1>b, <3>2, <3>4
    <3> QED  BY <2>4, <3>1, <3>5
  <2>7. Onset(A, B, g)
    BY <1>3, <2>4, <2>5, <2>6 DEF Onset
  <2>8. \E i \in DOMAIN m : m[i] = Cut
    <3>1. MaxLine + 1 \in 1..(MaxLine + 1)
      BY <1>b
    <3> QED  BY <2>1, <3>1
  <2>9. KeepsTheRest(values, s, m)
    BY <1>a, <1>B, <2>4, <2>7, <2>8, KeepsByOnset DEF A
  <2> QED  BY <2>9 DEF m
<1> QED  BY <1>5, <1>6, <1>b

\* None of the values ends with the beginning of another, or of itself.
NoOverlaps(values) == \A u, v \in values : ~Overlap(u, v)

LEMMA MessageKeeps ==
  ASSUME secrets \subseteq Seq(Chars), IsFiniteSet(secrets), NEW order \in Orders, NEW s \in Seq(Chars),
         NoOverlaps(Values)
  PROVE  KeepsTheRest(Values, s, Message(order, s))
<1> DEFINE V == Seq(Chars) \ {<<>>}
<1>1. \A v \in Values : v \in V
  <2> SUFFICES ASSUME NEW v \in Values PROVE v \in Seq(Chars) /\ v # <<>>
    OBVIOUS
  <2>1. v \in Seq(Chars) /\ Len(v) >= MinSecret /\ MinSecret \in Nat \ {0} /\ Len(<<>>) = 0
    BY LogAssumption DEF Values
  <2> QED  BY <2>1
<1>2. IsFiniteSet(Values)
  <2>1. Values \subseteq secrets
    BY DEF Values
  <2> QED  BY <2>1, FS_Subset
<1>3. order \in Seq(Values) /\ {order[k] : k \in DOMAIN order} = Values
  BY <1>2, OrderHasAll
<1>4. DOMAIN order = 1..Len(order) /\ Len(order) \in Nat /\ \A k \in 1..Len(order) : order[k] \in Values
  BY <1>3
<1>5. Apart(order)
  <2> HIDE DEF V
  <2>1. order \in Seq(V)
    BY <1>1, <1>3
  <2>2. \A i, j \in 1..Len(order) : i < j => Len(order[i]) >= Len(order[j])
    BY <1>4 DEF Orders
  <2>3. \A i, j \in 1..Len(order) : ~Overlap(order[i], order[j])
    BY <1>4 DEF NoOverlaps
  <2> QED  BY <2>1, <2>2, <2>3 DEF Apart, V
<1>6. Left(order, s, Len(order)) = Uncovered(Values, s)
  <2>1. \A v \in Values : \E k \in 1..Len(order) : order[k] = v
    BY <1>3, <1>4
  <2> QED  BY <1>4, <2>1 DEF Left, Uncovered
<1>7. Redact(order, s) \in Marked /\ \E f : Maps(s, Uncovered(Values, s), Redact(order, s), f)
  BY <1>5, <1>6, RedactMaps
<1> QED  BY <1>7, TruncateKeeps DEF Message

\* What a message may be: without a secret and, if none overlaps another, with
\* all of the rest.
Good(values, line, msg) ==
  Clean(msg, values) /\ (NoOverlaps(values) => KeepsTheRest(values, line, msg))

-----------------------------------------------------------------------------
(* The handler.                                                            *)

Notice == [pc |-> "notice"]
Entries == [pc : {"add", "insert"}, line : Seq(Chars), msg : Stores]
Handles == {Idle, Notice} \cup Entries
LineRows == [notice : {FALSE}, line : Seq(Chars), msg : Stores]
Rows == {[notice |-> TRUE]} \cup LineRows

LogTypeOK ==
  /\ secrets \subseteq Seq(Chars) /\ IsFiniteSet(secrets)
  /\ lines \subseteq Seq(Chars)
  /\ handle \in [Loggers -> Handles]
  /\ ended \in BOOLEAN /\ written \in Nat /\ capped \in BOOLEAN
  /\ rows \in Seq(Rows)

LEMMA HandleIs ==
  ASSUME NEW h \in Handles
  PROVE  /\ h.pc = "idle" => h = Idle
         /\ h.pc = "notice" => h = Notice
         /\ h.pc \in {"add", "insert"} => h \in Entries /\ h.line \in Seq(Chars) /\ h.msg \in Stores
BY DEF Handles, Entries, Idle, Notice

LEMMA RowIs ==
  ASSUME NEW r \in Rows
  PROVE  r.notice \in BOOLEAN /\ (~r.notice => r \in LineRows /\ r.line \in Seq(Chars) /\ r.msg \in Stores)
<1>1. CASE r = [notice |-> TRUE]
  <2>1. r.notice = TRUE
    BY <1>1
  <2> QED  BY <2>1
<1>2. CASE r \in LineRows
  <2>1. r.notice = FALSE /\ r.line \in Seq(Chars) /\ r.msg \in Stores
    BY <1>2 DEF LineRows
  <2> QED  BY <1>2, <2>1
<1> QED  BY <1>1, <1>2 DEF Rows

\* Each step of a handler: what it does to its entry and to the table.
Enters(g, h) == handle' = [handle EXCEPT ![g] = h]

LEMMA StartsIs ==
  ASSUME LogTypeOK, NEW g \in Loggers, NEW s \in lines, Starts(g, s)
  PROVE  \E h \in Entries : /\ handle[g] = Idle /\ Enters(g, h) /\ h.pc = "add"
                            /\ Good(Values, h.line, h.msg) /\ Len(h.msg) <= MaxLine + 1
<1>1. PICK order \in Orders :
        handle' = [handle EXCEPT ![g] = [pc |-> "add", line |-> s, msg |-> Message(order, s)]]
  BY DEF Starts
<1>2. /\ s \in Seq(Chars) /\ Message(order, s) \in Stores /\ Good(Values, s, Message(order, s))
      /\ Len(Message(order, s)) <= MaxLine + 1
  BY MessageClean, MessageKeeps DEF LogTypeOK, Good
<1> DEFINE h == [pc |-> "add", line |-> s, msg |-> Message(order, s)]
<1>3. h \in Entries /\ h.pc = "add" /\ h.line = s /\ h.msg = Message(order, s)
  BY <1>2 DEF Entries
<1>4. Enters(g, h)
  BY <1>1 DEF Enters
<1> HIDE DEF h
<1>5. handle[g] = Idle
  BY DEF Starts
<1> QED  BY <1>2, <1>3, <1>4, <1>5

\* Log goes on with the handler of the executor; End has a new one.
LEMMA LogIs ==
  ASSUME NEW g, NEW s, Log(g, s)
  PROVE  Starts(g, s) /\ ~ended /\ UNCHANGED <<secrets, lines, ended, written, capped, rows>>
BY DEF Log

LEMMA EndIs ==
  ASSUME NEW g, NEW s, End(g, s)
  PROVE  /\ Starts(g, s) /\ ~ended /\ ended' = TRUE /\ written' = 0 /\ capped' = FALSE
         /\ UNCHANGED <<secrets, lines, rows>> /\ \A f \in Loggers : handle[f] = Idle
BY DEF End

LEMMA AddIs ==
  ASSUME LogTypeOK, NEW g \in Loggers, Add(g)
  PROVE  /\ handle[g].pc = "add" /\ handle[g].msg \in Stores
         /\ written' = written + Len(handle[g].msg) /\ UNCHANGED <<secrets, lines, ended, rows>>
         /\ \/ /\ written' <= MaxTask /\ UNCHANGED capped
               /\ \E h \in Entries : h.pc = "insert" /\ h.line = handle[g].line /\ h.msg = handle[g].msg /\ Enters(g, h)
            \/ ~(written' <= MaxTask) /\ capped' = TRUE /\ capped /\ Enters(g, Idle)
            \/ ~(written' <= MaxTask) /\ capped' = TRUE /\ ~capped /\ Enters(g, Notice)
<1>1. handle[g] \in Handles /\ handle[g].pc = "add"
  BY DEF LogTypeOK, Add
<1>2. handle[g] \in Entries /\ handle[g].msg \in Stores
  BY <1>1, HandleIs
<1>3. written' = written + Len(handle[g].msg) /\ UNCHANGED <<secrets, lines, ended, rows>>
  BY DEF Add
<1>4. CASE written + Len(handle[g].msg) <= MaxTask
  <2> DEFINE h == [handle[g] EXCEPT !.pc = "insert"]
  <2>1. h \in Entries /\ h.pc = "insert" /\ h.line = handle[g].line /\ h.msg = handle[g].msg
    BY <1>2 DEF Entries
  <2>2. Enters(g, h) /\ UNCHANGED capped
    BY <1>4 DEF Add, Total, Enters
  <2> HIDE DEF h
  <2> QED  BY <1>1, <1>2, <1>3, <1>4, <2>1, <2>2
<1>5. CASE ~(written + Len(handle[g].msg) <= MaxTask)
  <2>1. capped' = TRUE /\ Enters(g, IF capped THEN Idle ELSE Notice)
    BY <1>5 DEF Add, Total, Enters, Notice
  <2> QED  BY <1>1, <1>2, <1>3, <1>5, <2>1
<1> QED  BY <1>4, <1>5

LEMMA InsertIs ==
  ASSUME LogTypeOK, NEW g \in Loggers, Insert(g)
  PROVE  /\ Enters(g, Idle) /\ UNCHANGED <<secrets, lines, ended, written, capped>>
         /\ handle[g].pc \in {"insert", "notice"}
         /\ \/ UNCHANGED rows
            \/ handle[g].pc = "notice" /\ rows' = Append(rows, [notice |-> TRUE])
            \/ /\ handle[g].pc = "insert"
               /\ \E r \in LineRows : r.line = handle[g].line /\ r.msg = handle[g].msg /\ rows' = Append(rows, r)
<1>1. handle[g] \in Handles /\ handle[g].pc \in {"insert", "notice"}
  BY DEF LogTypeOK, Insert
<1>2. Enters(g, Idle) /\ UNCHANGED <<secrets, lines, ended, written, capped>>
  BY DEF Insert, Enters
<1>3. CASE handle[g].pc = "notice"
  <2>1. UNCHANGED rows \/ rows' = Append(rows, [notice |-> TRUE])
    BY <1>3 DEF Insert
  <2> QED  BY <1>1, <1>2, <1>3, <2>1
<1>4. CASE handle[g].pc # "notice"
  <2> DEFINE r == [notice |-> FALSE, line |-> handle[g].line, msg |-> handle[g].msg]
  <2>1. handle[g].pc = "insert" /\ handle[g].line \in Seq(Chars) /\ handle[g].msg \in Stores
    BY <1>1, <1>4, HandleIs
  <2>2. r \in LineRows /\ r.line = handle[g].line /\ r.msg = handle[g].msg
    BY <2>1 DEF LineRows
  <2>3. UNCHANGED rows \/ rows' = Append(rows, r)
    BY <1>4 DEF Insert
  <2> HIDE DEF r
  <2> QED  BY <1>1, <1>2, <2>1, <2>2, <2>3
<1> QED  BY <1>3, <1>4

\* A step of one handler, whichever it is.
LEMMA LogStepType ==
  ASSUME LogTypeOK, [LogNext]_logVars
  PROVE  LogTypeOK' /\ UNCHANGED <<secrets, lines>>
<1>1. \A g \in Loggers, h \in Handles : Enters(g, h) => handle' \in [Loggers -> Handles]
  BY DEF LogTypeOK, Enters
<1>2. Entries \subseteq Handles /\ Idle \in Handles /\ Notice \in Handles
  BY DEF Handles
<1>3. CASE UNCHANGED logVars
  BY <1>3 DEF logVars, LogTypeOK
<1>4. ASSUME NEW g \in Loggers, NEW s \in lines, Log(g, s) PROVE LogTypeOK' /\ UNCHANGED <<secrets, lines>>
  <2>1. UNCHANGED <<secrets, lines, ended, written, capped, rows>> /\ \E h \in Entries : Enters(g, h)
    BY <1>4, LogIs, StartsIs
  <2> QED  BY <1>1, <1>2, <2>1 DEF LogTypeOK
<1>7. ASSUME NEW g \in Loggers, NEW s \in lines, End(g, s) PROVE LogTypeOK' /\ UNCHANGED <<secrets, lines>>
  <2>1. UNCHANGED <<secrets, lines, rows>> /\ \E h \in Entries : Enters(g, h)
    BY <1>7, EndIs, StartsIs
  <2>2. ended' = TRUE /\ written' = 0 /\ capped' = FALSE
    BY <1>7, EndIs
  <2>3. written' \in Nat
    BY <2>2
  <2> QED  BY <1>1, <1>2, <2>1, <2>2, <2>3 DEF LogTypeOK
<1>5. ASSUME NEW g \in Loggers, Add(g) PROVE LogTypeOK' /\ UNCHANGED <<secrets, lines>>
  <2>1. /\ handle[g].msg \in Stores /\ written' = written + Len(handle[g].msg)
        /\ UNCHANGED <<secrets, lines, ended, rows>> /\ capped' \in {TRUE, capped}
    BY <1>5, AddIs
  <2>2. \E h \in Handles : Enters(g, h)
    BY <1>2, <1>5, AddIs
  <2>3. written' \in Nat
    <3>1. \A m \in Stores : Len(m) \in Nat
      BY DEF Stores
    <3> QED  BY <2>1, <3>1 DEF LogTypeOK
  <2> QED  BY <1>1, <2>1, <2>2, <2>3 DEF LogTypeOK
<1>6. ASSUME NEW g \in Loggers, Insert(g) PROVE LogTypeOK' /\ UNCHANGED <<secrets, lines>>
  <2>1. Enters(g, Idle) /\ UNCHANGED <<secrets, lines, ended, written, capped>>
    BY <1>6, InsertIs
  <2>2. rows' \in Seq(Rows)
    <3>1. rows' = rows \/ \E r \in Rows : rows' = Append(rows, r)
      <4>1. [notice |-> TRUE] \in Rows /\ LineRows \subseteq Rows
        BY DEF Rows
      <4> QED  BY <1>6, <4>1, InsertIs
    <3> QED  BY <3>1, AppendIs DEF LogTypeOK
  <2> QED  BY <1>1, <1>2, <2>1, <2>2 DEF LogTypeOK
<1> QED  BY <1>3, <1>4, <1>5, <1>6, <1>7 DEF LogNext

\* The invariant for SecretsStayOut and NoFragments: what is on its way to the table
\* is good too.
AllGood ==
  /\ \A g \in Loggers : handle[g].pc \in {"add", "insert"} => Good(Values, handle[g].line, handle[g].msg)
  /\ \A k \in Lines : Good(Values, rows[k].line, rows[k].msg)

\* The rows after an insert.
LEMMA MoreRows ==
  ASSUME rows \in Seq(Rows), NEW r \in Rows, rows' = Append(rows, r)
  PROVE  /\ Len(rows) \in Nat /\ DOMAIN rows = 1..Len(rows) /\ DOMAIN rows' = 1..(Len(rows) + 1)
         /\ \A k \in DOMAIN rows : rows'[k] = rows[k]
         /\ rows'[Len(rows) + 1] = r
         /\ \A k \in DOMAIN rows' : k \in DOMAIN rows \/ k = Len(rows) + 1
OBVIOUS

LEMMA GoodStep ==
  ASSUME LogTypeOK, AllGood, [LogNext]_logVars
  PROVE  AllGood'
<1>1. Values' = Values
  BY LogStepType DEF Values
<1>2. ASSUME NEW g \in Loggers, NEW h, Enters(g, h), h.pc \in {"add", "insert"} => Good(Values, h.line, h.msg)
      PROVE  \A f \in Loggers : handle'[f].pc \in {"add", "insert"} => Good(Values, handle'[f].line, handle'[f].msg)
  <2>1. \A f \in Loggers : handle'[f] = IF f = g THEN h ELSE handle[f]
    BY <1>2 DEF Enters, LogTypeOK
  <2> QED  BY <1>2, <2>1 DEF AllGood
<1>3. UNCHANGED rows => \A k \in Lines' : Good(Values, rows'[k].line, rows'[k].msg)
  BY DEF AllGood, Lines
<1>a. Idle.pc = "idle" /\ Notice.pc = "notice"
  BY DEF Idle, Notice
<1>4. CASE UNCHANGED logVars
  <2>1. handle' = handle /\ rows' = rows
    BY <1>4 DEF logVars
  <2> QED  BY <1>1, <1>3, <2>1 DEF AllGood
<1>5. ASSUME NEW g \in Loggers, NEW s \in lines, Log(g, s) \/ End(g, s) PROVE AllGood'
  <2>1. PICK h \in Entries : Enters(g, h) /\ Good(Values, h.line, h.msg) /\ UNCHANGED rows
    BY <1>5, LogIs, EndIs, StartsIs
  <2> QED  BY <1>1, <1>2, <1>3, <2>1 DEF AllGood
<1>6. ASSUME NEW g \in Loggers, Add(g) PROVE AllGood'
  <2>1. PICK h : Enters(g, h) /\ (h.pc \in {"add", "insert"} => h.line = handle[g].line /\ h.msg = handle[g].msg)
    BY <1>6, <1>a, AddIs
  <2>2. handle[g].pc = "add" /\ UNCHANGED rows
    BY <1>6, AddIs
  <2>3. Good(Values, handle[g].line, handle[g].msg)
    BY <2>2 DEF AllGood
  <2> QED  BY <1>1, <1>2, <1>3, <2>1, <2>2, <2>3 DEF AllGood
<1>7. ASSUME NEW g \in Loggers, Insert(g) PROVE AllGood'
  <2>1. Enters(g, Idle)
    BY <1>7, InsertIs
  <2>2. ASSUME NEW r \in Rows, rows' = Append(rows, r), ~r.notice => Good(Values, r.line, r.msg)
        PROVE  \A k \in Lines' : Good(Values, rows'[k].line, rows'[k].msg)
    <3> SUFFICES ASSUME NEW k \in Lines' PROVE Good(Values, rows'[k].line, rows'[k].msg)
      OBVIOUS
    <3>1. k \in DOMAIN rows' /\ ~rows'[k].notice
      BY DEF Lines
    <3>2. CASE k = Len(rows) + 1
      BY <2>2, <3>1, <3>2, MoreRows DEF LogTypeOK
    <3>3. CASE k \in DOMAIN rows
      <4>1. rows'[k] = rows[k]
        BY <2>2, <3>3, MoreRows DEF LogTypeOK
      <4> QED  BY <3>1, <3>3, <4>1 DEF AllGood, Lines
    <3> QED  BY <2>2, <3>1, <3>2, <3>3, MoreRows DEF LogTypeOK
  <2>3. CASE UNCHANGED rows
    BY <1>1, <1>2, <1>3, <1>a, <2>1, <2>3 DEF AllGood
  <2>4. CASE rows' = Append(rows, [notice |-> TRUE])
    <3>1. [notice |-> TRUE] \in Rows /\ [notice |-> TRUE].notice
      BY DEF Rows
    <3> QED  BY <1>1, <1>2, <1>a, <2>1, <2>2, <2>4, <3>1 DEF AllGood
  <2>5. ASSUME handle[g].pc = "insert", NEW r \in LineRows, r.line = handle[g].line, r.msg = handle[g].msg, rows' = Append(rows, r)
        PROVE  AllGood'
    <3>1. r \in Rows /\ Good(Values, r.line, r.msg)
      BY <2>5 DEF Rows, AllGood
    <3> QED  BY <1>1, <1>2, <1>a, <2>1, <2>2, <2>5, <3>1 DEF AllGood
  <2> QED  BY <1>7, <2>3, <2>4, <2>5, InsertIs
<1> QED  BY <1>4, <1>5, <1>6, <1>7 DEF LogNext

LEMMA LogInitially ==
  ASSUME LogInit
  PROVE  LogTypeOK /\ AllGood
<1>1. PICK c \in Cases : secrets = c.secrets /\ lines = c.lines
  BY DEF LogInit
<1>2. secrets \subseteq Seq(Chars) /\ IsFiniteSet(secrets) /\ lines \subseteq Seq(Chars)
  BY <1>1, LogAssumption
<1>3. handle \in [Loggers -> Handles] /\ \A g \in Loggers : handle[g].pc = "idle"
  BY DEF LogInit, Handles, Idle
<1>4. ended \in BOOLEAN /\ written \in Nat /\ capped \in BOOLEAN /\ rows = <<>>
  BY DEF LogInit
<1>5. rows \in Seq(Rows) /\ Lines = {}
  BY <1>4 DEF Lines
<1> QED  BY <1>2, <1>3, <1>4, <1>5 DEF LogTypeOK, AllGood

(***************************************************************************)
(* taskLogHandler.Handle: no secret of the least length or more reaches a  *)
(* row, whatever the secrets, the lines and the order the redactor takes   *)
(* them in, for any number of goroutines that log at once.                 *)
(***************************************************************************)
THEOREM SecretsNeverLogged == LogSpec => []SecretsStayOut
<1>1. LogInit => LogTypeOK /\ AllGood
  BY LogInitially
<1>2. LogTypeOK /\ AllGood /\ [LogNext]_logVars => (LogTypeOK /\ AllGood)'
  BY LogStepType, GoodStep
<1>3. AllGood => SecretsStayOut
  BY DEF AllGood, SecretsStayOut, Good, Clean, Without, Values
<1> QED  BY <1>1, <1>2, <1>3, PTL DEF LogSpec

(***************************************************************************)
(* taskLogHandler.Handle: where no secret ends with the beginning of       *)
(* another or of itself, a row keeps of its line exactly what no           *)
(* occurrence of a secret covers, or, of a line that was cut, the          *)
(* beginning of that: no fragment of a secret, and nothing else lost, in   *)
(* whatever order the redactor takes secrets of one length.                *)
(***************************************************************************)
THEOREM NothingElseLost == LogSpec => []NoFragments
<1>1. LogInit => LogTypeOK /\ AllGood
  BY LogInitially
<1>2. LogTypeOK /\ AllGood /\ [LogNext]_logVars => (LogTypeOK /\ AllGood)'
  BY LogStepType, GoodStep
<1>3. AllGood => NoFragments
  BY DEF AllGood, NoFragments, Good, NoOverlaps
<1> QED  BY <1>1, <1>2, <1>3, PTL DEF LogSpec

-----------------------------------------------------------------------------
(* The cap.                                                                *)

\* The characters of a message, as those of the row or the logger x.
Block(x, msg) == {x} \X DOMAIN msg

LEMMA BlockSize ==
  ASSUME NEW x, NEW msg \in Stores
  PROVE  IsFiniteSet(Block(x, msg)) /\ Cardinality(Block(x, msg)) = Len(msg) /\ Len(msg) \in Nat
<1>a. PICK n : n = Len(msg)
  OBVIOUS
<1>1. n \in Nat /\ DOMAIN msg = 1..n
  BY <1>a DEF Stores
<1>2. IsFiniteSet(1..n) /\ Cardinality(1..n) = n
  BY <1>1, FS_Interval
<1>3. IsFiniteSet({x}) /\ Cardinality({x}) = 1
  BY FS_Singleton
<1>4. IsFiniteSet({x} \X (1..n)) /\ Cardinality({x} \X (1..n)) = Cardinality({x}) * Cardinality(1..n)
  BY <1>2, <1>3, FS_Product
<1>5. Cardinality({x}) * Cardinality(1..n) = n
  <2>1. 1 * n = n
    BY <1>1
  <2> QED  BY <1>2, <1>3, <2>1
<1> QED  BY <1>1, <1>4, <1>5, <1>a DEF Block

\* Two disjoint sets, and one that holds another.
LEMMA SizeOfUnion ==
  ASSUME NEW A, NEW B, IsFiniteSet(A), IsFiniteSet(B), A \cap B = {}
  PROVE  IsFiniteSet(A \cup B) /\ Cardinality(A \cup B) = Cardinality(A) + Cardinality(B)
<1>1. Cardinality(A \cap B) = 0
  BY FS_EmptySet
<1>2. Cardinality(A) \in Nat /\ Cardinality(B) \in Nat
  BY FS_CardinalityType
<1>3. /\ IsFiniteSet(A \cup B)
      /\ Cardinality(A \cup B) = Cardinality(A) + Cardinality(B) - Cardinality(A \cap B)
  BY FS_Union
<1>4. \A i, j \in Nat : i + j - 0 = i + j
  OBVIOUS
<1> QED  BY <1>1, <1>2, <1>3, <1>4

\* The characters that are counted and not yet stored, for the entries of h.
Counted(h) == UNION {Block(g, h[g].msg) : g \in {g \in Loggers : h[g].pc = "insert"}}

LEMMA CountedIs ==
  ASSUME NEW h, NEW g \in Loggers, NEW x
  PROVE  LET up == [f \in Loggers |-> IF f = g THEN x ELSE h[f]] IN
         /\ h[g].pc = "insert" => Counted(h) = Counted(up) \cup Block(g, h[g].msg) \/ x.pc = "insert"
         /\ x.pc = "insert" => Counted(up) = Counted(h) \cup Block(g, x.msg) \/ h[g].pc = "insert"
         /\ h[g].pc # "insert" => Counted(h) \cap Block(g, x.msg) = {}
         /\ x.pc # "insert" => Counted(up) \cap Block(g, h[g].msg) = {}
         /\ h[g].pc # "insert" /\ x.pc # "insert" => Counted(up) = Counted(h)
<1> DEFINE up == [f \in Loggers |-> IF f = g THEN x ELSE h[f]]
<1>1. up[g] = x /\ \A f \in Loggers \ {g} : up[f] = h[f]
  OBVIOUS
<1> HIDE DEF up
<1>2. \A m : \A f \in Loggers : f # g => Block(f, m) \cap Block(g, x.msg) = {} /\ Block(f, m) \cap Block(g, h[g].msg) = {}
  BY DEF Block
<1>3. ASSUME h[g].pc = "insert", x.pc # "insert" PROVE Counted(h) = Counted(up) \cup Block(g, h[g].msg)
  BY <1>1, <1>3 DEF Counted
<1>4. ASSUME h[g].pc # "insert", x.pc = "insert" PROVE Counted(up) = Counted(h) \cup Block(g, x.msg)
  BY <1>1, <1>4 DEF Counted
<1>5. ASSUME h[g].pc # "insert" PROVE Counted(h) \cap Block(g, x.msg) = {}
  BY <1>2, <1>5 DEF Counted
<1>6. ASSUME x.pc # "insert" PROVE Counted(up) \cap Block(g, h[g].msg) = {}
  BY <1>1, <1>2, <1>6 DEF Counted
<1>7. ASSUME h[g].pc # "insert", x.pc # "insert" PROVE Counted(up) = Counted(h)
  BY <1>1, <1>7 DEF Counted
<1> QED  BY <1>3, <1>4, <1>5, <1>6, <1>7 DEF up

\* What the handler of the executor may have left in the table, after its end.
Before == IF ended THEN MaxTask ELSE 0

\* What is stored and what is counted together stay below the counter of the
\* handler in use, and below the cap until the last one comes.
Capped ==
  /\ IsFiniteSet(Stored) /\ IsFiniteSet(Counted(handle))
  /\ Cardinality(Stored) + Cardinality(Counted(handle)) <= Before + written
  /\ ~ended => Cardinality(Stored) + Cardinality(Counted(handle)) <= MaxTask

\* The last handler is given one line, which does not reach the cap.
LastLine ==
  ended => /\ written <= MaxLine + 1
           /\ \A g \in Loggers : handle[g].pc # "notice"
           /\ \A g \in Loggers : handle[g].pc = "add" => /\ written = 0 /\ Len(handle[g].msg) <= MaxLine + 1
                                                         /\ \A f \in Loggers \ {g} : handle[f].pc # "add"

\* A notice is written or on its way only after the flag was set, once.
OneNotice ==
  /\ \A j, k \in DOMAIN rows : rows[j].notice /\ rows[k].notice => j = k
  /\ \A f, g \in Loggers : handle[f].pc = "notice" /\ handle[g].pc = "notice" => f = g
  /\ \A g \in Loggers, k \in DOMAIN rows : ~(handle[g].pc = "notice" /\ rows[k].notice)
  /\ ~capped /\ ~ended =>
       (\A g \in Loggers : handle[g].pc # "notice") /\ (\A k \in DOMAIN rows : ~rows[k].notice)

LEMMA EntersIs ==
  ASSUME LogTypeOK, NEW g \in Loggers, NEW x, Enters(g, x)
  PROVE  /\ handle' = [f \in Loggers |-> IF f = g THEN x ELSE handle[f]]
         /\ \A f \in Loggers : handle'[f] = IF f = g THEN x ELSE handle[f]
BY DEF LogTypeOK, Enters

LEMMA StoredIs ==
  ASSUME rows \in Seq(Rows), NEW r \in Rows, rows' = Append(rows, r)
  PROVE  /\ r.notice => Stored' = Stored
         /\ ~r.notice => /\ Stored' = Stored \cup Block(Len(rows) + 1, r.msg)
                         /\ Stored \cap Block(Len(rows) + 1, r.msg) = {}
<1>a. PICK n : n = Len(rows) + 1
  OBVIOUS
<1>1. /\ n \notin DOMAIN rows /\ DOMAIN rows' = DOMAIN rows \cup {n}
      /\ (\A k \in DOMAIN rows : rows'[k] = rows[k]) /\ rows'[n] = r
  <2>1. Len(rows) \in Nat /\ DOMAIN rows = 1..Len(rows) /\ DOMAIN rows' = 1..(Len(rows) + 1)
    BY MoreRows
  <2> QED  BY <1>a, <2>1, MoreRows
<1>2. r.notice => Lines' = Lines
  BY <1>1 DEF Lines
<1>3. ~r.notice => Lines' = Lines \cup {n}
  BY <1>1 DEF Lines
<1>4. \A k \in Lines : k \in DOMAIN rows /\ k # n
  BY <1>1 DEF Lines
<1>5. r.notice => Stored' = Stored
  BY <1>1, <1>2, <1>4 DEF Stored
<1>6. ~r.notice => Stored' = Stored \cup Block(n, r.msg)
  BY <1>1, <1>3, <1>4 DEF Stored, Block
<1>7. Stored \cap Block(n, r.msg) = {}
  BY <1>4 DEF Stored, Block
<1> QED  BY <1>5, <1>6, <1>7, <1>a

LEMMA CappedStep ==
  ASSUME LogTypeOK, Capped, [LogNext]_logVars
  PROVE  Capped'
<1>0. /\ Cardinality(Stored) \in Nat /\ Cardinality(Counted(handle)) \in Nat /\ written \in Nat /\ MaxTask \in Nat
      /\ Before \in Nat /\ Idle.pc = "idle" /\ Notice.pc = "notice"
  BY FS_CardinalityType, LogAssumption DEF Capped, LogTypeOK, Idle, Notice, Before
<1>b. /\ Cardinality(Stored) + Cardinality(Counted(handle)) <= Before + written
      /\ ~ended => Before = 0 /\ Cardinality(Stored) + Cardinality(Counted(handle)) <= MaxTask
  BY DEF Capped, Before
<1>c. UNCHANGED ended => Before' = Before
  BY DEF Before
<1>1. ASSUME UNCHANGED <<ended, rows>>, Counted(handle)' = Counted(handle), written' \in Nat, written' >= written
      PROVE  Capped'
  <2>1. Stored' = Stored
    BY <1>1 DEF Stored, Lines
  <2>2. Before' = Before
    BY <1>1, <1>c
  <2>3. Cardinality(Stored) + Cardinality(Counted(handle)) <= Before + written'
    BY <1>0, <1>1, <1>b
  <2> QED  BY <1>0, <1>1, <2>1, <2>2, <2>3 DEF Capped
<1>2. CASE UNCHANGED logVars
  <2>1. UNCHANGED <<rows, handle, ended, written>>
    BY <1>2 DEF logVars
  <2> QED  BY <1>0, <1>1, <2>1
<1>3. ASSUME NEW g \in Loggers, NEW s \in lines, Starts(g, s) PROVE Counted(handle)' = Counted(handle)
  <2>1. PICK x \in Entries : handle[g] = Idle /\ Enters(g, x) /\ x.pc = "add"
    BY <1>3, StartsIs
  <2> QED  BY <1>0, <2>1, EntersIs, CountedIs
<1>6. ASSUME NEW g \in Loggers, NEW s \in lines, Log(g, s) PROVE Capped'
  <2>1. Starts(g, s) /\ UNCHANGED <<ended, written, rows>>
    BY <1>6, LogIs
  <2>2. Counted(handle)' = Counted(handle)
    BY <1>3, <2>1
  <2> QED  BY <1>0, <1>1, <2>1, <2>2
<1>7. ASSUME NEW g \in Loggers, NEW s \in lines, End(g, s) PROVE Capped'
  <2>1. Starts(g, s) /\ ~ended /\ ended' = TRUE /\ written' = 0 /\ rows' = rows
    BY <1>7, EndIs
  <2>2. Counted(handle)' = Counted(handle)
    BY <1>3, <2>1
  <2>3. Stored' = Stored
    BY <2>1 DEF Stored, Lines
  <2>4. Before' = MaxTask
    BY <2>1 DEF Before
  <2>5. Cardinality(Stored) + Cardinality(Counted(handle)) <= MaxTask + 0
    BY <1>0, <1>b, <2>1
  <2> QED  BY <2>1, <2>2, <2>3, <2>4, <2>5 DEF Capped
<1>4. ASSUME NEW g \in Loggers, Add(g) PROVE Capped'
  <2>1. /\ handle[g].pc = "add" /\ handle[g].msg \in Stores
        /\ written' = written + Len(handle[g].msg) /\ UNCHANGED <<ended, rows>>
    BY <1>4, AddIs
  <2>2. Len(handle[g].msg) \in Nat
    BY <2>1, BlockSize
  <2>3. ASSUME NEW x \in {Idle, Notice}, Enters(g, x) PROVE Capped'
    <3>1. Counted(handle') = Counted(handle)
      BY <1>0, <2>1, <2>3, EntersIs, CountedIs
    <3> QED  BY <1>0, <1>1, <2>1, <2>2, <3>1
  <2>4. ASSUME written' <= MaxTask, NEW x \in Entries, x.pc = "insert", x.msg = handle[g].msg, Enters(g, x)
        PROVE  Capped'
    <3>1. /\ Counted(handle') = Counted(handle) \cup Block(g, x.msg)
          /\ Counted(handle) \cap Block(g, x.msg) = {}
      BY <2>1, <2>4, EntersIs, CountedIs
    <3>2. IsFiniteSet(Block(g, x.msg)) /\ Cardinality(Block(g, x.msg)) = Len(handle[g].msg)
      BY <2>1, <2>4, BlockSize
    <3>3. /\ IsFiniteSet(Counted(handle'))
          /\ Cardinality(Counted(handle')) = Cardinality(Counted(handle)) + Len(handle[g].msg)
      BY <3>1, <3>2, SizeOfUnion DEF Capped
    <3>4. Stored' = Stored /\ Before' = Before
      BY <1>c, <2>1 DEF Stored, Lines
    <3>5. Cardinality(Stored) + Cardinality(Counted(handle')) <= Before + written'
      <4>1. \A i, j, k, w, b \in Nat : i + j <= b + w => i + (j + k) <= b + (w + k)
        OBVIOUS
      <4> QED  BY <1>0, <1>b, <2>1, <2>2, <3>3, <4>1
    <3>6. ~ended => Cardinality(Stored) + Cardinality(Counted(handle')) <= MaxTask
      BY <1>0, <1>b, <2>1, <2>2, <2>4, <3>3, <3>5
    <3> QED  BY <2>1, <3>3, <3>4, <3>5, <3>6 DEF Capped
  <2> QED  BY <1>4, <2>3, <2>4, AddIs
<1>5. ASSUME NEW g \in Loggers, Insert(g) PROVE Capped'
  <2>1. /\ Enters(g, Idle) /\ UNCHANGED <<ended, written>> /\ Before' = Before
        /\ handle[g].pc \in {"insert", "notice"} /\ rows \in Seq(Rows)
    BY <1>5, <1>c, InsertIs DEF LogTypeOK
  <2>2. CASE handle[g].pc = "notice"
    <3>1. Counted(handle') = Counted(handle)
      BY <1>0, <2>1, <2>2, EntersIs, CountedIs
    <3>2. Stored' = Stored
      <4>1. CASE UNCHANGED rows
        BY <4>1 DEF Stored, Lines
      <4>2. CASE rows' = Append(rows, [notice |-> TRUE])
        <5>1. [notice |-> TRUE] \in Rows /\ [notice |-> TRUE].notice
          BY DEF Rows
        <5> QED  BY <2>1, <4>2, <5>1, StoredIs
      <4> QED  BY <1>5, <2>2, <4>1, <4>2, InsertIs
    <3> QED  BY <1>0, <2>1, <3>1, <3>2 DEF Capped
  <2>3. CASE handle[g].pc = "insert"
    <3>1. /\ Counted(handle) = Counted(handle') \cup Block(g, handle[g].msg)
          /\ Counted(handle') \cap Block(g, handle[g].msg) = {}
      BY <1>0, <2>1, <2>3, EntersIs, CountedIs
    <3>2. handle[g].msg \in Stores
      BY <2>3, HandleIs DEF LogTypeOK
    <3>3. /\ IsFiniteSet(Block(g, handle[g].msg)) /\ Len(handle[g].msg) \in Nat
          /\ Cardinality(Block(g, handle[g].msg)) = Len(handle[g].msg)
      BY <3>2, BlockSize
    <3>4. IsFiniteSet(Counted(handle')) /\ Cardinality(Counted(handle')) \in Nat
      <4>1. Counted(handle') \subseteq Counted(handle)
        BY <3>1
      <4> QED  BY <4>1, FS_Subset, FS_CardinalityType DEF Capped
    <3>5. Cardinality(Counted(handle)) = Cardinality(Counted(handle')) + Len(handle[g].msg)
      BY <3>1, <3>3, <3>4, SizeOfUnion
    <3>6. CASE UNCHANGED rows
      <4>1. Stored' = Stored
        BY <3>6 DEF Stored, Lines
      <4>2. /\ Cardinality(Stored) + Cardinality(Counted(handle')) <= Before + written
            /\ ~ended => Cardinality(Stored) + Cardinality(Counted(handle')) <= MaxTask
        BY <1>0, <1>b, <3>3, <3>4, <3>5
      <4> QED  BY <2>1, <3>4, <4>1, <4>2 DEF Capped
    <3>7. ASSUME NEW r \in LineRows, r.msg = handle[g].msg, rows' = Append(rows, r) PROVE Capped'
      <4>1. r \in Rows /\ ~r.notice
        BY DEF Rows, LineRows
      <4>2. /\ Stored' = Stored \cup Block(Len(rows) + 1, r.msg)
            /\ Stored \cap Block(Len(rows) + 1, r.msg) = {}
        BY <2>1, <3>7, <4>1, StoredIs
      <4>3. /\ IsFiniteSet(Block(Len(rows) + 1, r.msg))
            /\ Cardinality(Block(Len(rows) + 1, r.msg)) = Len(handle[g].msg)
        BY <3>2, <3>7, BlockSize
      <4>4. IsFiniteSet(Stored') /\ Cardinality(Stored') = Cardinality(Stored) + Len(handle[g].msg)
        BY <4>2, <4>3, SizeOfUnion DEF Capped
      <4>5. Cardinality(Stored') + Cardinality(Counted(handle')) = Cardinality(Stored) + Cardinality(Counted(handle))
        BY <1>0, <3>3, <3>4, <3>5, <4>4
      <4> QED  BY <2>1, <3>4, <4>4, <4>5 DEF Capped
    <3> QED  BY <1>5, <2>3, <3>6, <3>7, InsertIs
  <2> QED  BY <2>1, <2>2, <2>3
<1> QED  BY <1>2, <1>4, <1>5, <1>6, <1>7 DEF LogNext

LEMMA LastStep ==
  ASSUME LogTypeOK, LastLine, [LogNext]_logVars
  PROVE  LastLine'
<1>0. /\ Idle.pc = "idle" /\ Notice.pc = "notice" /\ written \in Nat
      /\ MaxLine \in Nat /\ MaxTask \in Nat /\ MaxLine < MaxTask
  BY LogAssumption DEF LogTypeOK, Idle, Notice
<1>1. CASE UNCHANGED logVars
  <2>1. UNCHANGED <<handle, ended, written>>
    BY <1>1 DEF logVars
  <2> QED  BY <2>1 DEF LastLine
<1>2. ASSUME NEW g \in Loggers, NEW s \in lines, Log(g, s) PROVE LastLine'
  BY <1>2, LogIs DEF LastLine
<1>3. ASSUME NEW g \in Loggers, NEW s \in lines, End(g, s) PROVE LastLine'
  <2>1. PICK x \in Entries : Enters(g, x) /\ x.pc = "add" /\ Len(x.msg) <= MaxLine + 1
    BY <1>3, EndIs, StartsIs
  <2>2. written' = 0 /\ \A f \in Loggers : handle[f] = Idle
    BY <1>3, EndIs
  <2>3. \A f \in Loggers : handle'[f] = IF f = g THEN x ELSE Idle
    BY <2>1, <2>2, EntersIs
  <2> QED  BY <1>0, <2>1, <2>2, <2>3 DEF LastLine
<1>4. ASSUME NEW g \in Loggers, Add(g) PROVE LastLine'
  <2> SUFFICES ASSUME ended PROVE LastLine'
    BY <1>4, AddIs DEF LastLine
  <2>1. handle[g].pc = "add" /\ handle[g].msg \in Stores /\ written' = written + Len(handle[g].msg)
    BY <1>4, AddIs
  <2>2. Len(handle[g].msg) \in Nat
    BY <2>1, BlockSize
  <2>3. written = 0 /\ Len(handle[g].msg) <= MaxLine + 1
    BY <2>1 DEF LastLine
  <2>4. written' <= MaxLine + 1 /\ written' <= MaxTask
    BY <1>0, <2>1, <2>2, <2>3
  <2>5. PICK x \in Entries : x.pc = "insert" /\ Enters(g, x)
    BY <1>4, <2>4, AddIs
  <2>6. \A f \in Loggers : handle'[f] = IF f = g THEN x ELSE handle[f]
    BY <2>5, EntersIs
  <2>7. \A f \in Loggers : handle'[f].pc \notin {"add", "notice"}
    BY <2>1, <2>5, <2>6 DEF LastLine
  <2> QED  BY <2>4, <2>7 DEF LastLine
<1>5. ASSUME NEW g \in Loggers, Insert(g) PROVE LastLine'
  <2>1. Enters(g, Idle) /\ UNCHANGED <<ended, written>>
    BY <1>5, InsertIs
  <2>2. \A f \in Loggers : handle'[f] = IF f = g THEN Idle ELSE handle[f]
    BY <2>1, EntersIs
  <2> QED  BY <1>0, <2>1, <2>2 DEF LastLine
<1> QED  BY <1>1, <1>2, <1>3, <1>4, <1>5 DEF LogNext

LEMMA NoticeStep ==
  ASSUME LogTypeOK, OneNotice, LastLine', [LogNext]_logVars
  PROVE  OneNotice'
<1>0. Idle.pc = "idle" /\ Notice.pc = "notice" /\ capped \in BOOLEAN /\ ended \in BOOLEAN
  BY DEF Idle, Notice, LogTypeOK
<1>1. ASSUME NEW g \in Loggers, NEW x, Enters(g, x), x.pc # "notice", UNCHANGED rows,
             ended' = TRUE \/ (UNCHANGED ended /\ (capped' = TRUE \/ UNCHANGED capped))
      PROVE  OneNotice'
  <2>1. \A f \in Loggers : handle'[f].pc = "notice" => handle[f].pc = "notice"
    BY <1>1, EntersIs
  <2> QED  BY <1>1, <2>1 DEF OneNotice
<1>2. CASE UNCHANGED logVars
  <2>1. UNCHANGED <<rows, handle, ended, capped>>
    BY <1>2 DEF logVars
  <2> QED  BY <2>1 DEF OneNotice
<1>3. ASSUME NEW g \in Loggers, NEW s \in lines, Log(g, s) \/ End(g, s) PROVE OneNotice'
  <2>1. PICK x \in Entries : Enters(g, x) /\ x.pc = "add"
    BY <1>3, LogIs, EndIs, StartsIs
  <2>2. rows' = rows /\ (ended' = TRUE \/ UNCHANGED <<ended, capped>>)
    BY <1>3, LogIs, EndIs
  <2> QED  BY <1>1, <2>1, <2>2
<1>4. ASSUME NEW g \in Loggers, Add(g) PROVE OneNotice'
  <2>1. UNCHANGED <<ended, rows>>
    BY <1>4, AddIs
  <2>2. ASSUME ~capped, capped' = TRUE, Enters(g, Notice) PROVE OneNotice'
    <3>0. ~ended
      <4>1. handle'[g] = Notice
        BY <2>2, EntersIs
      <4> QED  BY <1>0, <2>1, <4>1 DEF LastLine
    <3>1. \A f \in Loggers : handle'[f].pc = "notice" => f = g
      BY <1>0, <2>2, <3>0, EntersIs DEF OneNotice
    <3> QED  BY <2>1, <2>2, <3>0, <3>1 DEF OneNotice
  <2>3. (~capped /\ capped' = TRUE /\ Enters(g, Notice)) \/
        \E x : Enters(g, x) /\ x.pc # "notice" /\ (capped' = TRUE \/ UNCHANGED capped)
    BY <1>0, <1>4, AddIs
  <2> QED  BY <1>1, <2>1, <2>2, <2>3
<1>5. ASSUME NEW g \in Loggers, Insert(g) PROVE OneNotice'
  <2>1. Enters(g, Idle) /\ UNCHANGED <<ended, capped>> /\ rows \in Seq(Rows)
    BY <1>5, InsertIs DEF LogTypeOK
  <2>2. CASE UNCHANGED rows
    BY <1>0, <1>1, <2>1, <2>2
  <2>3. \A f \in Loggers : handle'[f].pc = "notice" => f # g /\ handle[f].pc = "notice"
    BY <1>0, <2>1, EntersIs
  <2>4. CASE handle[g].pc = "notice" /\ rows' = Append(rows, [notice |-> TRUE])
    <3>1. [notice |-> TRUE] \in Rows /\ [notice |-> TRUE].notice
      BY DEF Rows
    <3>2. \A k \in DOMAIN rows : rows'[k] = rows[k] /\ ~rows[k].notice
      BY <2>1, <2>4, <3>1, MoreRows DEF OneNotice
    <3>3. \A k \in DOMAIN rows' : rows'[k].notice => k = Len(rows) + 1
      BY <2>1, <2>4, <3>1, <3>2, MoreRows
    <3>4. \A f \in Loggers : handle'[f].pc # "notice"
      BY <2>3, <2>4 DEF OneNotice
    <3>5. capped' = capped /\ ended' = ended /\ (capped \/ ended)
      BY <1>0, <2>1, <2>4 DEF OneNotice
    <3> QED  BY <3>3, <3>4, <3>5 DEF OneNotice
  <2>5. ASSUME NEW r \in LineRows, rows' = Append(rows, r) PROVE OneNotice'
    <3>1. r \in Rows /\ ~r.notice
      BY DEF Rows, LineRows
    <3>2. \A k \in DOMAIN rows' : rows'[k].notice => k \in DOMAIN rows /\ rows[k].notice
      BY <2>1, <2>5, <3>1, MoreRows
    <3> QED  BY <2>1, <2>3, <3>2 DEF OneNotice
  <2> QED  BY <1>5, <2>2, <2>4, <2>5, InsertIs
<1> QED  BY <1>2, <1>3, <1>4, <1>5 DEF LogNext

LEMMA CapInitially ==
  ASSUME LogInit
  PROVE  Capped /\ LastLine /\ OneNotice
<1>1. rows = <<>> /\ ended = FALSE /\ written = 0 /\ capped = FALSE /\ \A g \in Loggers : handle[g].pc = "idle"
  BY DEF LogInit, Idle
<1>2. Stored = {} /\ Counted(handle) = {}
  BY <1>1 DEF Stored, Lines, Counted
<1>3. IsFiniteSet({}) /\ Cardinality({}) = 0 /\ MaxTask \in Nat
  BY FS_EmptySet, LogAssumption
<1>4. OneNotice
  BY <1>1 DEF OneNotice
<1>5. LastLine
  BY <1>1 DEF LastLine
<1> QED  BY <1>1, <1>2, <1>3, <1>4, <1>5 DEF Capped, Before

(***************************************************************************)
(* taskLogHandler.Handle: the executor's handler stores maxTaskLogs at     *)
(* most, however many goroutines have counted a line and not stored it;    *)
(* the worker's last line, through a handler of its own, adds one line;    *)
(* and the table says at most once that lines were dropped.                *)
(***************************************************************************)
THEOREM TheCapHolds == LogSpec => []CapHolds
<1> DEFINE I == LogTypeOK /\ Capped /\ LastLine /\ OneNotice
<1>1. LogInit => I
  BY LogInitially, CapInitially
<1>2. I /\ [LogNext]_logVars => I'
  BY LogStepType, CappedStep, LastStep, NoticeStep
<1>3. I => CapHolds
  <2> SUFFICES ASSUME LogTypeOK, Capped, LastLine, OneNotice PROVE CapHolds
    OBVIOUS
  <2>1. /\ Cardinality(Stored) \in Nat /\ Cardinality(Counted(handle)) \in Nat /\ written \in Nat
        /\ MaxTask \in Nat /\ MaxLine \in Nat
    BY FS_CardinalityType, LogAssumption DEF Capped, LogTypeOK
  <2>2. CASE ended
    <3>1. Cardinality(Stored) + Cardinality(Counted(handle)) <= MaxTask + written /\ written <= MaxLine + 1
      BY <2>2 DEF Capped, Before, LastLine
    <3>2. Cardinality(Stored) <= MaxTask + (MaxLine + 1)
      BY <2>1, <3>1
    <3> QED  BY <2>2, <3>2 DEF OneNotice, CapHolds
  <2>3. CASE ~ended
    <3>1. Cardinality(Stored) + Cardinality(Counted(handle)) <= MaxTask
      BY <2>3 DEF Capped
    <3>2. Cardinality(Stored) <= MaxTask + 0
      BY <2>1, <3>1
    <3> QED  BY <2>3, <3>2 DEF OneNotice, CapHolds
  <2> QED  BY <2>2, <2>3
<1> HIDE DEF I
<1> QED  BY <1>1, <1>2, <1>3, PTL DEF LogSpec
=============================================================================
