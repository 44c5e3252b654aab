--------------------------- MODULE AccountsProofs ---------------------------
(***************************************************************************)
(* Theorems about Accounts, for any users, replicas and requests at once,  *)
(* any window and maximum of the limiter.                                  *)
(***************************************************************************)
EXTENDS Accounts, FiniteSetTheorems, TLAPS

Tokens == Requests \cup {Boot, NoToken}
Places == {"claim", "select", "fail", "reset", "start", "verify", "update", "close", "create", "delete"}
Ops == {"setup", "login", "change"} \cup AdminOps

\* What the handler of a request keeps between its statements.
Open ==
  [pc : Places, op : Ops, replica : Replicas, user : Users,
   token : Tokens, password : Nat]

Done == [pc |-> "done"]

Typed ==
  /\ life \in [Users -> {"unborn", "live", "gone"}]
  /\ password \in [Users -> Nat]
  /\ mustChange \in [Users -> BOOLEAN]
  /\ sessions \subseteq [user : Users, token : Tokens, born : Nat]
  /\ configured \in [Replicas -> BOOLEAN]
  /\ failures \in [Replicas -> [Users -> Seq(Nat)]]
  /\ req \in [Requests -> {Idle, Done} \cup Open]
  /\ closed \in [Users -> [password : Nat, token : Tokens]]

-----------------------------------------------------------------------------
(* Types.                                                                  *)

\* A request that is being handled has all its fields.
LEMMA OpenRequest ==
  ASSUME Typed, NEW r \in Requests, req[r].pc \notin {"idle", "done"}
  PROVE  req[r] \in Open
BY DEF Typed, Idle, Done

\* It keeps them from one statement to the next.
LEMMA OpenStays ==
  ASSUME NEW x \in Open, NEW pc \in Places, NEW n \in Nat
  PROVE  /\ [x EXCEPT !.pc = pc] \in Open
         /\ [x EXCEPT !.pc = pc, !.password = n] \in Open
BY DEF Open

\* It begins with them.
LEMMA OpenBegins ==
  ASSUME NEW pc \in Places, NEW op \in Ops, NEW p \in Replicas,
         NEW u \in Users, NEW t \in Tokens
  PROVE  Request(pc, op, p, u, t) \in Open
BY DEF Request, Open

\* A request that becomes something of its type.
LEMMA BecomesType ==
  ASSUME Typed, NEW r \in Requests, NEW x \in {Idle, Done} \cup Open, Becomes(r, x)
  PROVE  req' \in [Requests -> {Idle, Done} \cup Open]
BY DEF Typed, Becomes

\* A flag of one user.
LEMMA FlagType ==
  ASSUME NEW f \in [Users -> BOOLEAN], NEW u, NEW b \in BOOLEAN
  PROVE  [f EXCEPT ![u] = b] \in [Users -> BOOLEAN]
OBVIOUS

\* The limiter's list of one account.
LEMMA FailuresType ==
  ASSUME Typed, NEW p \in Replicas, NEW u \in Users, NEW ages \in Seq(Nat), SetFailures(p, u, ages)
  PROVE  failures' \in [Replicas -> [Users -> Seq(Nat)]]
BY DEF Typed, SetFailures

\* The list is pruned to an end of it.
LEMMA Pruned ==
  ASSUME NEW ages \in Seq(Nat)
  PROVE  prune(ages) \in Seq(Nat) /\ Len(prune(ages)) <= Len(ages)
<1> DEFINE expired == {k \in DOMAIN ages : ages[k] >= Window}
           n == Cardinality(expired)
<1>1. IsFiniteSet(1..Len(ages))
  BY FS_Interval
<1>2. expired \in SUBSET (1..Len(ages))
  OBVIOUS
<1> HIDE DEF expired
<1>3. n \in Nat
  BY <1>1, <1>2, FS_Subset, FS_CardinalityType
<1> HIDE DEF n
<1>4. SubSeq(ages, n + 1, Len(ages)) \in Seq(Nat) /\ Len(SubSeq(ages, n + 1, Len(ages))) <= Len(ages)
  BY <1>3
<1> QED  BY <1>4 DEF prune, n, expired

\* Every handler's statement keeps the types.
LEMMA HandleType ==
  ASSUME Typed, NEW r \in Requests, Handle(r)
  PROVE  Typed'
<1> DEFINE x == req[r]
<1>1. x \in Open /\ x.replica \in Replicas /\ x.user \in Users /\ x.token \in Tokens /\ x.password \in Nat
  <2>1. x.pc \notin {"idle", "done"}
    BY DEF Handle, Claim, Select, Fail, Reset, StartSession, Verify, Update, Close, createUser, deleteUser, At
  <2>2. x \in Open
    BY <2>1, OpenRequest
  <2> QED  BY <2>2 DEF Open
<1>2. Owner \in Users
  BY AccountsAssumption
<1>3. \A pc \in Places, n \in Nat : [x EXCEPT !.pc = pc] \in Open
                                   /\ [x EXCEPT !.pc = pc, !.password = n] \in Open
  BY <1>1, OpenStays
<1> HIDE DEF x
<1>4. CASE Claim(r)
  <2>1. password[Owner] + 1 \in Nat
    BY <1>2 DEF Typed
  <2>2. req' \in [Requests -> {Idle, Done} \cup Open]
    BY <1>3, <1>4, <2>1, BecomesType DEF Claim, Places, x
  <2>3. /\ password' = password \/ password' = [password EXCEPT ![Owner] = @ + 1]
        /\ mustChange' = mustChange \/ mustChange' = [mustChange EXCEPT ![Owner] = FALSE]
        /\ configured' = configured \/ configured' = [configured EXCEPT ![x.replica] = TRUE]
        /\ UNCHANGED <<life, sessions, failures, closed>>
    BY <1>4 DEF Claim, x
  <2>4. password' \in [Users -> Nat]
    BY <1>2, <2>1, <2>3 DEF Typed
  <2>5. mustChange' \in [Users -> BOOLEAN] /\ configured' \in [Replicas -> BOOLEAN]
    BY <2>3 DEF Typed
  <2> QED  BY <2>2, <2>3, <2>4, <2>5 DEF Typed
<1>5. CASE Select(r) \/ Verify(r)
  <2>1. req' \in [Requests -> {Idle, Done} \cup Open]
    BY <1>3, <1>5, BecomesType DEF Select, Verify, Places, x
  <2> QED  BY <1>5, <2>1 DEF Select, Verify, Typed, database, memory, history
<1>6. CASE Fail(r)
  <2>1. failures' \in [Replicas -> [Users -> Seq(Nat)]]
    <3>1. Append(failures[x.replica][x.user], 0) \in Seq(Nat)
      BY <1>1 DEF Typed
    <3> QED  BY <1>1, <1>6, <3>1, FailuresType DEF Fail, x
  <2>2. req' \in [Requests -> {Idle, Done} \cup Open]
    BY <1>6, BecomesType DEF Fail
  <2> QED  BY <1>6, <2>1, <2>2 DEF Fail, Typed, database, history
<1>7. CASE Reset(r)
  <2>1. failures' \in [Replicas -> [Users -> Seq(Nat)]]
    <3>1. <<>> \in Seq(Nat)
      OBVIOUS
    <3> QED  BY <1>1, <1>7, <3>1, FailuresType DEF Reset, x
  <2>2. req' \in [Requests -> {Idle, Done} \cup Open]
    BY <1>3, <1>7, BecomesType DEF Reset, Places, x
  <2> QED  BY <1>7, <2>1, <2>2 DEF Reset, Typed, database, history
<1>8. CASE StartSession(r)
  <2>1. req' \in [Requests -> {Idle, Done} \cup Open]
    BY <1>8, BecomesType DEF StartSession, Done
  <2>2. Session(x.user, r) \in [user : Users, token : Tokens, born : Nat]
    BY <1>1 DEF Session, Tokens, Typed
  <2>3. sessions' \subseteq [user : Users, token : Tokens, born : Nat]
    BY <1>8, <2>2 DEF StartSession, Typed, x
  <2> QED  BY <1>8, <2>1, <2>3 DEF StartSession, Typed, memory, history
<1>9. CASE Update(r)
  <2>1. password' \in [Users -> Nat] /\ mustChange' \in [Users -> BOOLEAN]
    <3> DEFINE b == x.op = "reset"
    <3>1. \/ UNCHANGED <<password, mustChange>>
          \/ /\ password' = [password EXCEPT ![x.user] = @ + 1]
             /\ mustChange' = [mustChange EXCEPT ![x.user] = b]
      BY <1>9 DEF Update, x
    <3>2. b \in BOOLEAN
      OBVIOUS
    <3> HIDE DEF b
    <3>3. password' \in [Users -> Nat]
      <4>1. password' = password \/ password' = [password EXCEPT ![x.user] = @ + 1]
        BY <3>1
      <4>2. password \in [Users -> Nat]
        BY DEF Typed
      <4> QED  BY <4>1, <4>2
    <3>4. mustChange' \in [Users -> BOOLEAN]
      <4>1. mustChange \in [Users -> BOOLEAN]
        BY DEF Typed
      <4>2. [mustChange EXCEPT ![x.user] = b] \in [Users -> BOOLEAN]
        BY <3>2, <4>1, FlagType
      <4> QED  BY <3>1, <4>1, <4>2
    <3> QED  BY <3>3, <3>4
  <2>2. req' \in [Requests -> {Idle, Done} \cup Open]
    <3>1. password'[x.user] \in Nat
      BY <1>1, <2>1
    <3>2. [x EXCEPT !.pc = "close", !.password = password'[x.user]] \in Open
      BY <1>3, <3>1 DEF Places
    <3>3. req' = [req EXCEPT ![r] = [x EXCEPT !.pc = "close", !.password = password'[x.user]]]
      BY <1>9 DEF Update, Becomes, x
    <3> QED  BY <3>2, <3>3 DEF Typed
  <2> QED  BY <1>9, <2>1, <2>2 DEF Update, Typed, memory, history
<1>10. CASE Close(r)
  <2>1. req' \in [Requests -> {Idle, Done} \cup Open]
    BY <1>3, <1>10, BecomesType DEF Close, Places, x
  <2>2. sessions' \subseteq [user : Users, token : Tokens, born : Nat]
    BY <1>10 DEF Close, Typed
  <2>3. closed' \in [Users -> [password : Nat, token : Tokens]]
    <3>1. [password |-> x.password, token |-> x.token] \in [password : Nat, token : Tokens]
      BY <1>1
    <3>2. \/ closed' = closed
          \/ closed' = [closed EXCEPT ![x.user] = [password |-> x.password, token |-> x.token]]
      BY <1>10 DEF Close, x
    <3> QED  BY <3>1, <3>2 DEF Typed
  <2> QED  BY <1>10, <2>1, <2>2, <2>3 DEF Close, Typed, memory
<1>11. CASE createUser(r) \/ deleteUser(r)
  <2>1. req' \in [Requests -> {Idle, Done} \cup Open]
    BY <1>11, BecomesType DEF createUser, deleteUser
  <2>2. CASE createUser(r)
    <3>1. /\ life' = life \/ life' = [life EXCEPT ![x.user] = "live"]
          /\ password' = password \/ password' = [password EXCEPT ![x.user] = 1]
          /\ mustChange' = mustChange \/ mustChange' = [mustChange EXCEPT ![x.user] = TRUE]
          /\ UNCHANGED <<sessions, configured, failures, closed>>
      BY <2>2 DEF createUser, x, memory, history
    <3>2. life' \in [Users -> {"unborn", "live", "gone"}]
      BY <3>1 DEF Typed
    <3>3. password' \in [Users -> Nat]
      BY <3>1 DEF Typed
    <3>4. mustChange' \in [Users -> BOOLEAN]
      BY <3>1, FlagType DEF Typed
    <3> QED  BY <2>1, <3>1, <3>2, <3>3, <3>4 DEF Typed
  <2>3. CASE deleteUser(r)
    <3>1. life' \in [Users -> {"unborn", "live", "gone"}]
      BY <1>1, <2>3 DEF deleteUser, x, Typed
    <3> QED  BY <2>1, <2>3, <3>1 DEF deleteUser, Typed, memory, history
  <2> QED  BY <1>11, <2>2, <2>3
<1> QED  BY <1>4, <1>5, <1>6, <1>7, <1>8, <1>9, <1>10, <1>11 DEF Handle

\* So does the first statement of a handler.
LEMMA BeginType ==
  ASSUME Typed, NEW r \in Requests, NEW p \in Replicas,
         \/ Setup(r, p)
         \/ \E u \in Users : Login(r, p, u) \/ (\E op \in AdminOps : Admin(r, p, op, u))
         \/ \E s \in sessions : Change(r, p, s)
  PROVE  Typed'
<1>1. Owner \in Users /\ NoToken \in Tokens
  BY AccountsAssumption DEF Tokens
<1>2. CASE Setup(r, p)
  <2>1. req' \in [Requests -> {Idle, Done} \cup Open]
    BY <1>1, <1>2, OpenBegins, BecomesType DEF Setup, Places, Ops
  <2>2. configured' \in [Replicas -> BOOLEAN]
    BY <1>2 DEF Setup, Configured, PasswordExists, Typed
  <2> QED  BY <1>2, <2>1, <2>2 DEF Setup, Typed, database, history
<1>3. ASSUME NEW u \in Users, Login(r, p, u) PROVE Typed'
  <2>1. req' \in [Requests -> {Idle, Done} \cup Open]
    BY <1>1, <1>3, OpenBegins, BecomesType DEF Login, Places, Ops
  <2>2. failures' \in [Replicas -> [Users -> Seq(Nat)]]
    BY <1>3, FailuresType DEF Login, Attempt, Typed
  <2> QED  BY <1>3, <2>1, <2>2 DEF Login, Typed, database, history
<1>4. ASSUME NEW u \in Users, NEW op \in AdminOps, Admin(r, p, op, u) PROVE Typed'
  <2>1. req' \in [Requests -> {Idle, Done} \cup Open]
    BY <1>1, <1>4, OpenBegins, BecomesType DEF Admin, AdminOps, Ops, Places
  <2> QED  BY <1>4, <2>1 DEF Admin, Typed, database, memory, history
<1>5. ASSUME NEW s \in sessions, Change(r, p, s) PROVE Typed'
  <2>1. s.user \in Users /\ s.token \in Tokens
    BY DEF Typed
  <2>2. req' \in [Requests -> {Idle, Done} \cup Open]
    BY <1>5, <2>1, OpenBegins, BecomesType DEF Change, Places, Ops
  <2> QED  BY <1>5, <2>2 DEF Change, Typed, database, memory, history
<1> QED  BY <1>2, <1>3, <1>4, <1>5

\* Everything else.
Other ==
  \/ \E p \in Replicas : Unauthenticated(p) \/ Restart(p)
  \/ \E s \in sessions : Logout(s)
  \/ Tick

\* Everything else keeps them too.
LEMMA OtherType ==
  ASSUME Typed, Other
  PROVE  Typed'
<1>1. ASSUME NEW p \in Replicas, Unauthenticated(p) PROVE Typed'
  BY <1>1 DEF Unauthenticated, Configured, PasswordExists, Typed, database, history
<1>2. ASSUME NEW p \in Replicas, Restart(p) PROVE Typed'
  <2>1. failures' \in [Replicas -> [Users -> Seq(Nat)]]
    <3>1. [u \in Users |-> <<>>] \in [Users -> Seq(Nat)]
      OBVIOUS
    <3> QED  BY <1>2, <3>1 DEF Restart, Typed
  <2>2. req' \in [Requests -> {Idle, Done} \cup Open]
    BY <1>2 DEF Restart, Typed
  <2> QED  BY <1>2, <2>1, <2>2 DEF Restart, Typed, database, history
<1>3. ASSUME NEW s \in sessions, Logout(s) PROVE Typed'
  BY <1>3 DEF Logout, Typed, memory, history
<1>5. CASE Tick
  <2>1. ASSUME NEW p \in Replicas, NEW u \in Users
        PROVE  prune([k \in DOMAIN failures[p][u] |-> failures[p][u][k] + 1]) \in Seq(Nat)
    <3>1. failures[p][u] \in Seq(Nat)
      BY DEF Typed
    <3>2. [k \in DOMAIN failures[p][u] |-> failures[p][u][k] + 1] \in Seq(Nat)
      BY <3>1
    <3> QED  BY <3>2, Pruned
  <2>2. failures' \in [Replicas -> [Users -> Seq(Nat)]]
    BY <1>5, <2>1 DEF Tick
  <2> QED  BY <1>5, <2>2 DEF Tick, Typed, database, history
<1> QED  BY <1>1, <1>2, <1>3, <1>5 DEF Other

\* The types are kept by every step.
LEMMA TypeStep == Typed /\ [Next]_vars => Typed'
<1>1. ASSUME Typed, UNCHANGED vars PROVE Typed'
  BY <1>1 DEF vars, Typed
<1> QED  BY <1>1, HandleType, BeginType, OtherType DEF Next, Other

-----------------------------------------------------------------------------
(* Passwords are counted up, and the setup that wins is the first of the   *)
(* owner's.                                                                *)

\* There is no password before there is an account.
Born == \A u \in Users : life[u] = "unborn" => password[u] = 0

\* One setup at most has won, and then the owner has had a password.
Won ==
  /\ winners = {} \/ \E r \in Requests : winners = {r}
  /\ winners # {} => password[Owner] # 0

\* Somebody has had a password.
EverSet == \E u \in Users : life[u] # "unborn" /\ password[u] # 0

\* A replica that takes setup for done has seen or set a password.
FlagEarned == \A p \in Replicas : configured[p] => EverSet

\* The first statement of a handler writes nothing but the replica's memory, and
\* what nobody's request does nothing but that and sessions that end.
LEMMA BeginLeaves ==
  ASSUME NEW r \in Requests, NEW p \in Replicas,
         \/ Setup(r, p)
         \/ \E u \in Users : Login(r, p, u) \/ (\E op \in AdminOps : Admin(r, p, op, u))
         \/ \E s \in sessions : Change(r, p, s)
  PROVE  /\ UNCHANGED <<life, password, mustChange, sessions, winners, closed>>
         /\ UNCHANGED configured \/ configured' = [configured EXCEPT ![p] = Configured(p)]
<1>1. CASE Setup(r, p)
  BY <1>1 DEF Setup, database, history
<1>2. ASSUME NEW u \in Users, Login(r, p, u)
      PROVE  UNCHANGED <<life, password, mustChange, sessions, winners, closed, configured>>
  BY <1>2 DEF Login, database, history
<1>3. ASSUME NEW u \in Users, NEW op \in AdminOps, Admin(r, p, op, u)
      PROVE  UNCHANGED <<life, password, mustChange, sessions, winners, closed, configured>>
  BY <1>3 DEF Admin, database, memory, history
<1>4. ASSUME NEW s \in sessions, Change(r, p, s)
      PROVE  UNCHANGED <<life, password, mustChange, sessions, winners, closed, configured>>
  BY <1>4 DEF Change, database, memory, history
<1> QED  BY <1>1, <1>2, <1>3, <1>4

LEMMA OtherLeaves ==
  ASSUME Other
  PROVE  /\ UNCHANGED <<life, password, mustChange, winners, closed>>
         /\ sessions' \subseteq sessions
         /\ \/ UNCHANGED configured
            \/ \E p \in Replicas : \/ configured' = [configured EXCEPT ![p] = Configured(p)]
                                   \/ configured' = [configured EXCEPT ![p] = FALSE]
BY DEF Other, Unauthenticated, Restart, Logout, Tick, database, memory, history

\* What a step may be.
LEMMA Steps ==
  ASSUME [Next]_vars
  PROVE  \/ \E r \in Requests : Handle(r)
         \/ \E r \in Requests, p \in Replicas :
              \/ Setup(r, p)
              \/ \E u \in Users : Login(r, p, u) \/ (\E op \in AdminOps : Admin(r, p, op, u))
              \/ \E s \in sessions : Change(r, p, s)
         \/ Other
         \/ UNCHANGED vars
BY DEF Next, Other

\* Few statements write accounts.
LEMMA AccountsSame ==
  ASSUME [Next]_vars
  PROVE  \/ UNCHANGED <<life, password>>
         \/ \E r \in Requests : Claim(r) \/ Update(r) \/ createUser(r) \/ deleteUser(r)
<1>1. ASSUME NEW r \in Requests, Handle(r), ~(Claim(r) \/ Update(r) \/ createUser(r) \/ deleteUser(r))
      PROVE  UNCHANGED <<life, password>>
  BY <1>1 DEF Handle, Select, Fail, Reset, StartSession, Verify, Close, database
<1>2. UNCHANGED vars => UNCHANGED <<life, password>>
  BY DEF vars
<1> QED  BY <1>1, <1>2, Steps, BeginLeaves, OtherLeaves

\* A password is never taken back: another one comes after it; and an account
\* that was made stays made.
LEMMA PasswordsGrow ==
  ASSUME Typed, Born, [Next]_vars
  PROVE  Born' /\ \A u \in Users : /\ password'[u] >= password[u]
                                   /\ life[u] # "unborn" => life'[u] # "unborn"
<1> DEFINE Grow == Born' /\ \A u \in Users : /\ password'[u] >= password[u]
                                             /\ life[u] # "unborn" => life'[u] # "unborn"
<1>1. Owner \in Users
  BY AccountsAssumption
<1>2. password \in [Users -> Nat] /\ life \in [Users -> {"unborn", "live", "gone"}]
  BY DEF Typed
<1>3. CASE UNCHANGED <<life, password>>
  BY <1>1, <1>2, <1>3 DEF Born
<1>4. ASSUME NEW u \in Users, life[u] = "live", password' = [password EXCEPT ![u] = @ + 1], UNCHANGED life
      PROVE  Grow
  BY <1>1, <1>2, <1>4 DEF Born
<1>5. ASSUME NEW r \in Requests, Claim(r) PROVE Grow
  BY <1>1, <1>3, <1>4, <1>5 DEF Claim
<1>6. ASSUME NEW r \in Requests, Update(r) PROVE Grow
  <2>1. req[r].user \in Users
    BY <1>6, OpenRequest DEF Update, At, Open
  <2> QED  BY <1>3, <1>4, <1>6, <2>1 DEF Update
<1>7. ASSUME NEW r \in Requests, createUser(r) PROVE Grow
  <2>1. req[r].user \in Users
    BY <1>7, OpenRequest DEF createUser, At, Open
  <2>2. CASE life[req[r].user] = "unborn"
    <3>1. /\ life' = [life EXCEPT ![req[r].user] = "live"]
          /\ password' = [password EXCEPT ![req[r].user] = 1]
          /\ password[req[r].user] = 0
      BY <1>7, <2>1, <2>2 DEF createUser, Born
    <3> QED  BY <1>2, <2>1, <3>1 DEF Born
  <2> QED  BY <1>3, <1>7, <2>2 DEF createUser
<1>8. ASSUME NEW r \in Requests, deleteUser(r) PROVE Grow
  <2>1. req[r].user \in Users
    BY <1>8, OpenRequest DEF deleteUser, At, Open
  <2>2. /\ life' = [life EXCEPT ![req[r].user] = IF @ = "live" THEN "gone" ELSE @]
        /\ password' = password
    BY <1>8 DEF deleteUser
  <2>3. \A u \in Users : life'[u] = life[u] \/ (life[u] = "live" /\ life'[u] = "gone")
    BY <1>2, <2>1, <2>2
  <2> QED  BY <1>2, <2>2, <2>3 DEF Born
<1> QED  BY <1>3, <1>5, <1>6, <1>7, <1>8, AccountsSame

\* The second claim finds no row: the owner has had a password since the first.
LEMMA WonStep ==
  ASSUME Typed, Typed', Born, Won, [Next]_vars
  PROVE  Won'
<1>1. Owner \in Users
  BY AccountsAssumption
<1>2. password'[Owner] >= password[Owner] /\ password[Owner] \in Nat /\ password'[Owner] \in Nat
  BY <1>1, PasswordsGrow DEF Typed
<1>3. CASE winners' = winners
  BY <1>2, <1>3 DEF Won
<1>4. ASSUME NEW r \in Requests, Claim(r), winners' # winners PROVE Won'
  <2>1. password[Owner] = 0 /\ winners' = winners \cup {r} /\ password' = [password EXCEPT ![Owner] = @ + 1]
    BY <1>4 DEF Claim, Unclaimed
  <2>2. winners = {}
    BY <2>1 DEF Won
  <2>3. winners' = {r} /\ password'[Owner] = 1
    BY <1>1, <2>1, <2>2 DEF Typed
  <2> QED  BY <2>3 DEF Won
<1>5. ASSUME NEW r \in Requests, Handle(r), ~Claim(r) PROVE winners' = winners
  BY <1>5 DEF Handle, Select, Fail, Reset, StartSession, Verify, Update, Close, createUser, deleteUser, history
<1>6. UNCHANGED vars => winners' = winners
  BY DEF vars
<1> QED  BY <1>3, <1>4, <1>5, <1>6, Steps, BeginLeaves, OtherLeaves

\* A replica's flag is set where a password was found or set.
LEMMA FlagStep ==
  ASSUME Typed, Typed', Born, FlagEarned, [Next]_vars
  PROVE  FlagEarned'
<1> SUFFICES \A p \in Replicas : configured'[p] => EverSet'
  BY DEF FlagEarned
<1>8. \A p \in Replicas : configured[p] => EverSet
  BY DEF FlagEarned
<1>1. EverSet => EverSet'
  <2> SUFFICES ASSUME NEW u \in Users, life[u] # "unborn", password[u] # 0 PROVE EverSet'
    BY DEF EverSet
  <2>1. /\ password'[u] >= password[u] /\ life'[u] # "unborn"
        /\ password[u] \in Nat /\ password'[u] \in Nat
    BY PasswordsGrow DEF Typed
  <2> QED  BY <2>1 DEF EverSet
<1>2. PasswordExists => EverSet
  BY DEF PasswordExists, EverSet
<1>3. CASE \A p \in Replicas : configured'[p] => configured[p] \/ PasswordExists
  BY <1>1, <1>2, <1>3, <1>8
<1>4. ASSUME NEW r \in Requests, Claim(r), configured' # configured PROVE EverSet'
  <2>1. Owner \in Users
    BY AccountsAssumption
  <2>2. life[Owner] = "live" /\ life' = life /\ password' = [password EXCEPT ![Owner] = @ + 1]
    BY <1>4 DEF Claim
  <2>3. password'[Owner] = password[Owner] + 1 /\ password[Owner] \in Nat
    BY <2>1, <2>2 DEF Typed
  <2> QED  BY <2>1, <2>2, <2>3 DEF EverSet
<1>5. ASSUME NEW p \in Replicas, configured' = [configured EXCEPT ![p] = Configured(p)]
      PROVE  \A q \in Replicas : configured'[q] => configured[q] \/ PasswordExists
  BY <1>5 DEF Configured, Typed
<1>6. ASSUME NEW p \in Replicas, configured' = [configured EXCEPT ![p] = FALSE]
      PROVE  \A q \in Replicas : configured'[q] => configured[q] \/ PasswordExists
  BY <1>6 DEF Typed
<1>7. \/ UNCHANGED configured
      \/ \E r \in Requests : Claim(r)
      \/ \E p \in Replicas : \/ configured' = [configured EXCEPT ![p] = Configured(p)]
                             \/ configured' = [configured EXCEPT ![p] = FALSE]
  <2>1. ASSUME NEW r \in Requests, Handle(r), ~Claim(r) PROVE UNCHANGED configured
    BY <2>1 DEF Handle, Select, Fail, Reset, StartSession, Verify, Update, Close, createUser, deleteUser, memory
  <2>2. UNCHANGED vars => UNCHANGED configured
    BY DEF vars
  <2> QED  BY <2>1, <2>2, Steps, BeginLeaves, OtherLeaves
<1> QED  BY <1>1, <1>3, <1>4, <1>5, <1>6, <1>7, <1>8

-----------------------------------------------------------------------------
(* Sessions and the changes that close them.                               *)

(***************************************************************************)
(* Nothing is from a later password than the account's: the sessions, the  *)
(* last change that closed the others, and those about to.                 *)
(***************************************************************************)
Dated ==
  /\ \A s \in sessions : s.born <= password[s.user]
  /\ \A u \in Users : closed[u].password <= password[u]
  /\ \A r \in Requests : req[r].pc = "close" => req[r].password <= password[req[r].user]

\* A session is new only where a handler stores it.
LEMMA SessionsFrom ==
  ASSUME [Next]_vars
  PROVE  \/ sessions' \subseteq sessions
         \/ \E r \in Requests : StartSession(r)
<1>1. ASSUME NEW r \in Requests, Handle(r), ~StartSession(r) PROVE sessions' \subseteq sessions
  BY <1>1 DEF Handle, Claim, Select, Fail, Reset, Verify, Update, Close, createUser, deleteUser, database
<1>2. UNCHANGED vars => UNCHANGED sessions
  BY DEF vars
<1> QED  BY <1>1, <1>2, Steps, BeginLeaves, OtherLeaves

\* No session outlives its user.
LEMMA LivingStep ==
  ASSUME Typed, Born, SessionsHaveUsers, [Next]_vars
  PROVE  SessionsHaveUsers'
<1>1. ASSUME NEW r \in Requests, StartSession(r) PROVE SessionsHaveUsers'
  BY <1>1 DEF StartSession, UserThere, Session, SessionsHaveUsers
<1>2. ASSUME NEW r \in Requests, deleteUser(r) PROVE SessionsHaveUsers'
  BY <1>2 DEF deleteUser, SessionsHaveUsers, Typed
<1>3. ASSUME NEW r \in Requests, createUser(r) PROVE SessionsHaveUsers'
  BY <1>3 DEF createUser, SessionsHaveUsers, Typed
<1>4. CASE sessions' \subseteq sessions /\ UNCHANGED life
  BY <1>4 DEF SessionsHaveUsers
<1> QED  BY <1>1, <1>2, <1>3, <1>4, AccountsSame, SessionsFrom DEF Claim, Update

\* Where a request is after a step, as far as claims and closings go.
LEMMA PlaceStep ==
  ASSUME Typed, [Next]_vars, NEW r \in Requests
  PROVE  \/ req'[r] = req[r]
         \/ req'[r].pc \notin {"claim", "close"}
         \/ req'[r].pc = "claim" /\ req'[r].user = Owner
         \/ (Claim(r) \/ Update(r)) /\ req'[r].pc = "close"
<1> SUFFICES ASSUME req'[r] # req[r], ~(Claim(r) \/ Update(r)) \/ req'[r].pc # "close"
             PROVE  \/ req'[r].pc \notin {"claim", "close"}
                    \/ req'[r].pc = "claim" /\ req'[r].user = Owner
  OBVIOUS
<1>1. \A v : Becomes(r, v) => req'[r] = v
  BY DEF Becomes, Typed
<1>2. ASSUME NEW q \in Requests \ {r}, NEW v, Becomes(q, v) PROVE FALSE
  BY <1>2 DEF Becomes, Typed
<1>3. Idle.pc = "idle" /\ Done.pc = "done"
  BY DEF Idle, Done
<1>4. ASSUME Handle(r) PROVE req'[r].pc \notin {"claim", "close"}
  <2>1. req[r] \in Open
    BY <1>4, OpenRequest DEF Handle, Claim, Select, Fail, Reset, StartSession, Verify, Update, Close, createUser,
                     deleteUser, At
  <2>2. \A pc \in Places : [req[r] EXCEPT !.pc = pc].pc = pc
    BY <2>1 DEF Open
  <2>3. CASE Select(r)
    BY <1>1, <2>2, <2>3 DEF Select, Places
  <2>4. CASE Reset(r) \/ Close(r)
    BY <1>1, <1>3, <2>2, <2>4 DEF Reset, Close, Places
  <2>5. CASE Fail(r) \/ StartSession(r) \/ createUser(r) \/ deleteUser(r)
    BY <1>1, <1>3, <2>5 DEF Fail, StartSession, createUser, deleteUser, Done
  <2>6. CASE Verify(r)
    BY <1>1, <1>3, <2>2, <2>6 DEF Verify, Places
  <2>7. CASE Claim(r) \/ Update(r)
    <3>1. ASSUME NEW n PROVE [req[r] EXCEPT !.pc = "close", !.password = n].pc = "close"
      BY <2>1 DEF Open
    <3>2. \/ req'[r] = Idle
          \/ \E n : req'[r] = [req[r] EXCEPT !.pc = "close", !.password = n]
      BY <2>7 DEF Claim, Update, Becomes, Typed
    <3> QED  BY <1>3, <2>7, <3>1, <3>2
  <2> QED  BY <1>4, <2>3, <2>4, <2>5, <2>6, <2>7 DEF Handle
<1>5. ASSUME NEW q \in Requests \ {r}, Handle(q) PROVE FALSE
  <2>1. CASE Update(q)
    BY <2>1 DEF Update, Becomes, Typed
  <2>2. CASE ~Update(q)
    <3>1. \E v : Becomes(q, v)
      BY <1>5, <2>2 DEF Handle, Claim, Select, Fail, Reset, StartSession, Verify, Close, createUser, deleteUser
    <3> QED  BY <1>2, <3>1
  <2> QED  BY <2>1, <2>2
<1>6. ASSUME NEW p \in Replicas, NEW q \in Requests,
             \/ Setup(q, p)
             \/ \E u \in Users : Login(q, p, u) \/ (\E op \in AdminOps : Admin(q, p, op, u))
             \/ \E s \in sessions : Change(q, p, s)
      PROVE  \/ req'[r].pc \notin {"claim", "close"}
             \/ req'[r].pc = "claim" /\ req'[r].user = Owner
  <2>1. \A pc, op, u, t : Request(pc, op, p, u, t).pc = pc /\ Request(pc, op, p, u, t).user = u
    BY DEF Request
  <2>2. PICK v : Becomes(q, v) /\ (v.pc \notin {"claim", "close"} \/ (v.pc = "claim" /\ v.user = Owner))
    BY <1>3, <1>6, <2>1 DEF Setup, Login, Admin, AdminOps, Change
  <2> QED  BY <1>1, <1>2, <2>2
<1>7. ASSUME Other PROVE req'[r].pc \notin {"claim", "close"}
  <2>1. req'[r] \in {req[r], Idle}
    BY <1>7 DEF Other, Unauthenticated, Restart, Logout, Tick
  <2> QED  BY <1>3, <2>1
<1>8. ~UNCHANGED vars
  BY DEF vars
<1> QED  BY <1>4, <1>5, <1>6, <1>7, <1>8 DEF Next, Other

\* A claim is of the owner.
Claims == \A r \in Requests : req[r].pc = "claim" => req[r].user = Owner

\* It stays so.
LEMMA ClaimsStep ==
  ASSUME Typed, Claims, [Next]_vars
  PROVE  Claims'
BY PlaceStep DEF Claims

\* A change that is about to close sessions has the password it set.
LEMMA CloseDated ==
  ASSUME Typed, Typed', Claims, Dated, \A u \in Users : password'[u] >= password[u], [Next]_vars,
         NEW r \in Requests, req'[r].pc = "close"
  PROVE  req'[r].password <= password'[req'[r].user]
<1>1. CASE req'[r] = req[r]
  <2>1. req[r].user \in Users /\ req[r].password \in Nat
    BY <1>1, OpenRequest DEF Open
  <2>2. /\ password[req[r].user] \in Nat /\ password'[req[r].user] \in Nat
        /\ password'[req[r].user] >= password[req[r].user]
    BY <2>1 DEF Typed
  <2>3. req[r].password <= password[req[r].user]
    BY <1>1 DEF Dated
  <2> QED  BY <1>1, <2>1, <2>2, <2>3
<1>2. CASE req'[r] # req[r]
  <2>1. Claim(r) \/ Update(r)
    BY <1>2, PlaceStep
  <2>2. req[r] \in Open /\ req[r].user \in Users
    <3>1. req[r] \in Open
      BY <2>1, OpenRequest DEF Claim, Update, At
    <3> QED  BY <3>1 DEF Open
  <2>3. \A n \in Nat : /\ [req[r] EXCEPT !.pc = "close", !.password = n].password = n
                       /\ [req[r] EXCEPT !.pc = "close", !.password = n].user = req[r].user
    BY <2>2 DEF Open
  <2>4. \A u \in Users : password[u] \in Nat /\ password'[u] \in Nat /\ password[u] + 1 \in Nat
    BY DEF Typed
  <2>5. req'[r].password = password'[req[r].user] /\ req'[r].user = req[r].user
    <3>1. CASE Update(r)
      <4>1. req'[r] = [req[r] EXCEPT !.pc = "close", !.password = password'[req[r].user]]
        BY <3>1 DEF Update, Becomes, Typed
      <4> QED  BY <2>2, <2>3, <2>4, <4>1
    <3>2. CASE Claim(r)
      <4>1. Owner \in Users /\ Idle.pc # "close"
        BY AccountsAssumption DEF Idle
      <4>2. /\ password' = [password EXCEPT ![Owner] = @ + 1]
            /\ req'[r] = [req[r] EXCEPT !.pc = "close", !.password = password[Owner] + 1]
        BY <3>2, <4>1 DEF Claim, Becomes, Typed
      <4>3. password'[Owner] = password[Owner] + 1
        BY <4>1, <4>2 DEF Typed
      <4>4. req[r].user = Owner
        BY <3>2 DEF Claim, At, Claims
      <4>5. /\ req'[r].password = password[Owner] + 1
            /\ req'[r].user = req[r].user
        BY <2>3, <2>4, <4>1, <4>2
      <4> QED  BY <4>3, <4>4, <4>5
    <3> QED  BY <2>1, <3>1, <3>2
  <2> QED  BY <2>2, <2>4, <2>5
<1> QED  BY <1>1, <1>2

\* Only closing the sessions moves the mark.
LEMMA ClosedFrom ==
  ASSUME [Next]_vars
  PROVE  UNCHANGED closed \/ \E r \in Requests : Close(r)
<1>1. ASSUME NEW r \in Requests, Handle(r), ~Close(r) PROVE UNCHANGED closed
  BY <1>1 DEF Handle, Claim, Select, Fail, Reset, StartSession, Verify, Update, createUser, deleteUser, history
<1>2. UNCHANGED vars => UNCHANGED closed
  BY DEF vars
<1> QED  BY <1>1, <1>2, Steps, BeginLeaves, OtherLeaves

\* What closing does to the mark and to the sessions of the account.
LEMMA CloseFacts ==
  ASSUME Typed, Dated, NEW r \in Requests, Close(r), closed' # closed
  PROVE  LET u == req[r].user IN
         /\ u \in Users /\ req[r].password \in Nat /\ req[r].password <= password[u]
         /\ closed'[u] = [password |-> req[r].password, token |-> req[r].token]
         /\ \A v \in Users \ {u} : closed'[v] = closed[v]
         /\ \A s \in sessions' : s \in sessions /\ (s.user = u => s.token = req[r].token)
         /\ password' = password
<1>1. req[r] \in Open /\ req[r].pc = "close"
  BY OpenRequest DEF Close, At
<1>2. req[r].user \in Users /\ req[r].password \in Nat
  BY <1>1 DEF Open
<1>3. req[r].password <= password[req[r].user]
  BY <1>1 DEF Dated
<1>4. /\ sessions' = {s \in sessions : ~Closes(r, s)}
      /\ closed' = [closed EXCEPT ![req[r].user] = [password |-> req[r].password, token |-> req[r].token]]
      /\ password' = password
  BY DEF Close
<1>5. \A s \in sessions' : s \in sessions /\ (s.user = req[r].user => s.token = req[r].token)
  BY <1>4 DEF Closes
<1>6. /\ closed'[req[r].user] = [password |-> req[r].password, token |-> req[r].token]
      /\ \A v \in Users \ {req[r].user} : closed'[v] = closed[v]
  BY <1>2, <1>4 DEF Typed
<1> QED  BY <1>2, <1>3, <1>4, <1>5, <1>6

\* A session that is stored has the account's password of that moment.
LEMMA StartFacts ==
  ASSUME Typed, NEW r \in Requests, StartSession(r), NEW s \in sessions'
  PROVE  /\ s \in sessions \/ s.born = password[s.user]
         /\ UNCHANGED <<password, closed>>
BY DEF StartSession, Session, history

\* Nothing comes to be from a later password.
LEMMA DatedStep ==
  ASSUME Typed, Typed', Claims, Dated, \A u \in Users : password'[u] >= password[u], [Next]_vars
  PROVE  Dated'
<1>1. \A u \in Users : password[u] \in Nat /\ password'[u] \in Nat
  BY DEF Typed
<1>2. ASSUME NEW s \in sessions' PROVE s.born <= password'[s.user]
  <2>1. s.user \in Users /\ s.born \in Nat
    BY DEF Typed
  <2>2. CASE s \in sessions
    <3>1. s.born <= password[s.user] /\ password'[s.user] >= password[s.user]
      BY <2>1, <2>2 DEF Dated
    <3> QED  BY <1>1, <2>1, <3>1
  <2>3. CASE s \notin sessions
    BY <1>1, <2>1, <2>3, SessionsFrom, StartFacts
  <2> QED  BY <2>2, <2>3
<1>3. ASSUME NEW u \in Users PROVE closed'[u].password <= password'[u]
  <2>1. closed[u].password \in Nat /\ closed[u].password <= password[u] /\ password'[u] >= password[u]
    BY DEF Typed, Dated
  <2>2. CASE closed'[u] = closed[u]
    BY <1>1, <2>1, <2>2
  <2>3. CASE closed'[u] # closed[u]
    <3>1. PICK r \in Requests : Close(r) /\ closed' # closed
      BY <2>3, ClosedFrom
    <3>2. /\ req[r].password <= password[req[r].user] /\ password' = password
          /\ closed'[req[r].user] = [password |-> req[r].password, token |-> req[r].token]
          /\ \A v \in Users \ {req[r].user} : closed'[v] = closed[v]
      BY <3>1, CloseFacts
    <3>3. u = req[r].user
      BY <2>3, <3>2
    <3> QED  BY <3>2, <3>3
  <2> QED  BY <2>2, <2>3
<1>4. \A r \in Requests : req'[r].pc = "close" => req'[r].password <= password'[req'[r].user]
  BY CloseDated
<1> QED  BY <1>2, <1>3, <1>4 DEF Dated

\* Sessions from before the mark are the one it was made from.
LEMMA ClosedStep ==
  ASSUME Typed, Typed', Dated, OldSessionsClosed, [Next]_vars
  PROVE  OldSessionsClosed'
<1> SUFFICES ASSUME NEW s \in sessions', s.born < closed'[s.user].password
             PROVE  s.token = closed'[s.user].token
  BY DEF OldSessionsClosed
<1>1. s.user \in Users /\ s.born \in Nat
  BY DEF Typed
<1>2. CASE closed'[s.user] = closed[s.user]
  <2>1. CASE s \in sessions
    BY <1>2, <2>1 DEF OldSessionsClosed
  <2>2. CASE s \notin sessions
    <3>1. s.born = password[s.user]
      BY <2>2, SessionsFrom, StartFacts
    <3>2. closed[s.user].password <= password[s.user]
      BY <1>1 DEF Dated
    <3>3. closed[s.user].password \in Nat /\ password[s.user] \in Nat
      BY <1>1 DEF Typed
    <3> QED  BY <1>1, <1>2, <3>1, <3>2, <3>3
  <2> QED  BY <2>1, <2>2
<1>3. CASE closed'[s.user] # closed[s.user]
  <2>1. PICK r \in Requests : Close(r) /\ closed' # closed
    BY <1>3, ClosedFrom
  <2>2. /\ closed'[req[r].user] = [password |-> req[r].password, token |-> req[r].token]
        /\ \A v \in Users \ {req[r].user} : closed'[v] = closed[v]
        /\ s.user = req[r].user => s.token = req[r].token
    BY <2>1, CloseFacts
  <2>3. s.user = req[r].user
    BY <1>1, <1>3, <2>2
  <2> QED  BY <2>2, <2>3
<1> QED  BY <1>2, <1>3

-----------------------------------------------------------------------------
(* The limiter.                                                            *)

Bounded(p, u) ==
  Len(failures[p][u]) + Cardinality(Attempts(p, u)) < MaxFailures + Cardinality(Requests)

\* Attempts are some of the requests.
LEMMA AttemptsFinite ==
  ASSUME NEW A \in SUBSET Requests
  PROVE  /\ IsFiniteSet(A) /\ Cardinality(A) \in Nat
         /\ Cardinality(Requests) \in Nat /\ Cardinality(A) <= Cardinality(Requests)
<1>1. IsFiniteSet(Requests)
  BY AccountsAssumption
<1>2. IsFiniteSet(A) /\ Cardinality(A) <= Cardinality(Requests)
  BY <1>1, FS_Subset
<1> QED  BY <1>1, <1>2, FS_CardinalityType

\* An account with fewer failures than the maximum is within the bound.
LEMMA BelowIsBounded ==
  ASSUME Typed', NEW p \in Replicas, NEW u \in Users, Len(failures'[p][u]) < MaxFailures
  PROVE  Bounded(p, u)'
<1>1. Attempts(p, u)' \in SUBSET Requests
  BY DEF Attempts
<1>2. Len(failures'[p][u]) \in Nat
  BY DEF Typed
<1>3. Cardinality(Attempts(p, u)') \in Nat /\ Cardinality(Requests) \in Nat
      /\ Cardinality(Attempts(p, u)') <= Cardinality(Requests)
  BY <1>1, AttemptsFinite
<1>4. MaxFailures \in Nat
  BY AccountsAssumption
<1> HIDE DEF Attempts
<1> QED  BY <1>2, <1>3, <1>4 DEF Bounded

\* So is one that gains neither failures nor attempts.
LEMMA FewerIsBounded ==
  ASSUME Typed, Typed', NEW p \in Replicas, NEW u \in Users, Bounded(p, u),
         Len(failures'[p][u]) <= Len(failures[p][u]), Attempts(p, u)' \subseteq Attempts(p, u)
  PROVE  Bounded(p, u)'
<1>1. Attempts(p, u) \in SUBSET Requests
  BY DEF Attempts
<1>2. Len(failures[p][u]) \in Nat /\ Len(failures'[p][u]) \in Nat
  BY DEF Typed
<1>3. IsFiniteSet(Attempts(p, u)) /\ Cardinality(Attempts(p, u)) \in Nat /\ Cardinality(Requests) \in Nat
  BY <1>1, AttemptsFinite
<1>4. Cardinality(Attempts(p, u)') <= Cardinality(Attempts(p, u)) /\ Cardinality(Attempts(p, u)') \in Nat
  <2>1. Attempts(p, u)' \in SUBSET Attempts(p, u)
    OBVIOUS
  <2> QED  BY <1>3, <2>1, FS_Subset, FS_CardinalityType
<1>5. MaxFailures \in Nat
  BY AccountsAssumption
<1> HIDE DEF Attempts
<1> QED  BY <1>2, <1>3, <1>4, <1>5 DEF Bounded

\* A failure takes the place of the attempt it was.
LEMMA FailIsBounded ==
  ASSUME Typed, Typed', NEW r \in Requests, Fail(r), NEW p \in Replicas, NEW u \in Users, Bounded(p, u),
         req[r].replica = p, req[r].user = u
  PROVE  Bounded(p, u)'
<1>1. Attempts(p, u) \in SUBSET Requests /\ r \in Attempts(p, u)
  BY DEF Attempts, Fail, At
<1>2. Attempts(p, u)' = Attempts(p, u) \ {r}
  <2>1. req'[r].pc = "idle" /\ \A q \in Requests \ {r} : req'[q] = req[q]
    BY DEF Fail, Becomes, Typed, Idle
  <2> QED  BY <2>1 DEF Attempts
<1>3. failures[p][u] \in Seq(Nat) /\ failures'[p][u] = Append(failures[p][u], 0)
  <2>1. SetFailures(p, u, Append(failures[p][u], 0))
    BY DEF Fail
  <2> QED  BY <2>1 DEF SetFailures, Typed
<1>4. Len(failures[p][u]) \in Nat /\ Len(failures'[p][u]) = Len(failures[p][u]) + 1
  <2>1. ASSUME NEW f \in Seq(Nat) PROVE Len(f) \in Nat /\ Len(Append(f, 0)) = Len(f) + 1
    OBVIOUS
  <2> QED  BY <1>3, <2>1
<1>5. /\ IsFiniteSet(Attempts(p, u)) /\ Cardinality(Attempts(p, u)) \in Nat
      /\ Cardinality(Requests) \in Nat /\ MaxFailures \in Nat
  BY <1>1, AttemptsFinite, AccountsAssumption
<1>6. Cardinality(Attempts(p, u)') = Cardinality(Attempts(p, u)) - 1
  <2>1. ASSUME NEW S, IsFiniteSet(S), NEW x \in S PROVE Cardinality(S \ {x}) = Cardinality(S) - 1
    BY <2>1, FS_RemoveElement
  <2>2. Cardinality(Attempts(p, u) \ {r}) = Cardinality(Attempts(p, u)) - 1
    BY <1>1, <1>5, <2>1
  <2> QED  BY <1>2, <2>2
<1> QED  BY <1>4, <1>5, <1>6 DEF Bounded

\* Requests that a step leaves alone, or moves to a place that is no attempt.
LEMMA AttemptsFewer ==
  ASSUME NEW p, NEW u, NEW r \in Requests, \A q \in Requests \ {r} : req'[q] = req[q],
         req'[r] = req[r] \/ req'[r].pc \notin {"select", "fail"}
  PROVE  Attempts(p, u)' \subseteq Attempts(p, u)
BY DEF Attempts

\* A handler's statement.
LEMMA HandleBounded ==
  ASSUME Typed, Typed', NEW r \in Requests, Handle(r), NEW p \in Replicas, NEW u \in Users, Bounded(p, u)
  PROVE  Bounded(p, u)'
<1>1. req[r] \in Open /\ req[r].user \in Users /\ req[r].replica \in Replicas
  <2>1. req[r] \in Open
    BY OpenRequest DEF Handle, Claim, Select, Fail, Reset, StartSession, Verify, Update, Close, createUser,
                     deleteUser, At
  <2> QED  BY <2>1 DEF Open
<1>2. \A q \in Requests \ {r} : req'[q] = req[q]
  BY DEF Handle, Claim, Select, Fail, Reset, StartSession, Verify, Update, Close, createUser, deleteUser, Becomes,
         Typed
<1>3. Idle.pc = "idle" /\ Done.pc = "done"
  BY DEF Idle, Done
<1>4. \A v : Becomes(r, v) => req'[r] = v
  BY DEF Becomes, Typed
<1>5. \A pc \in Places : /\ [req[r] EXCEPT !.pc = pc].pc = pc
                         /\ [req[r] EXCEPT !.pc = pc].user = req[r].user
                         /\ [req[r] EXCEPT !.pc = pc].replica = req[r].replica
  BY <1>1 DEF Open
<1>6. Len(failures[p][u]) \in Nat
  BY DEF Typed
<1>7. CASE Claim(r) \/ StartSession(r) \/ Verify(r) \/ Update(r) \/ Close(r) \/ createUser(r) \/ deleteUser(r)
  <2>1. failures' = failures
    BY <1>7 DEF Claim, StartSession, Verify, Update, Close, createUser, deleteUser, memory
  <2>2. req'[r].pc \notin {"select", "fail"}
    <3>1. CASE Claim(r) \/ Update(r)
      <4>1. ASSUME NEW n PROVE [req[r] EXCEPT !.pc = "close", !.password = n].pc = "close"
        BY <1>1 DEF Open
      <4>2. \/ req'[r] = Idle
            \/ \E n : req'[r] = [req[r] EXCEPT !.pc = "close", !.password = n]
        BY <3>1 DEF Claim, Update, Becomes, Typed
      <4> QED  BY <1>3, <4>1, <4>2
    <3>2. CASE StartSession(r)
      BY <1>3, <1>4, <3>2 DEF StartSession, Done
    <3>3. CASE Verify(r)
      BY <1>3, <1>4, <1>5, <3>3 DEF Verify, Places
    <3>4. CASE Close(r)
      BY <1>3, <1>4, <1>5, <3>4 DEF Close, Places
    <3>5. CASE createUser(r) \/ deleteUser(r)
      BY <1>3, <1>4, <3>5 DEF createUser, deleteUser
    <3> QED  BY <1>7, <3>1, <3>2, <3>3, <3>4, <3>5
  <2> QED  BY <1>2, <1>6, <2>1, <2>2, AttemptsFewer, FewerIsBounded
<1>8. CASE Select(r)
  <2>1. failures' = failures
    BY <1>8 DEF Select, memory
  <2>2. \/ req'[r].pc = "reset"
        \/ req'[r].pc = "fail" /\ req'[r].user = req[r].user /\ req'[r].replica = req[r].replica
    <3>1. \/ req'[r] = [req[r] EXCEPT !.pc = "reset"]
          \/ req'[r] = [req[r] EXCEPT !.pc = "fail"]
      BY <1>4, <1>8 DEF Select
    <3>2. "reset" \in Places /\ "fail" \in Places
      BY DEF Places
    <3>3. CASE req'[r] = [req[r] EXCEPT !.pc = "reset"]
      BY <1>5, <3>2, <3>3
    <3>4. CASE req'[r] = [req[r] EXCEPT !.pc = "fail"]
      BY <1>5, <3>2, <3>4
    <3> QED  BY <3>1, <3>3, <3>4
  <2>3. req[r].pc = "select"
    BY <1>8 DEF Select, At
  <2>4. Attempts(p, u)' \subseteq Attempts(p, u)
    BY <1>2, <2>2, <2>3 DEF Attempts
  <2> QED  BY <1>6, <2>1, <2>4, FewerIsBounded
<1>9. CASE Fail(r)
  <2>1. CASE req[r].replica = p /\ req[r].user = u
    BY <1>9, <2>1, FailIsBounded
  <2>2. CASE ~(req[r].replica = p /\ req[r].user = u)
    <3>1. failures'[p][u] = failures[p][u]
      BY <1>1, <1>9, <2>2 DEF Fail, SetFailures, Typed
    <3>2. req'[r].pc \notin {"select", "fail"}
      BY <1>3, <1>4, <1>9 DEF Fail
    <3> QED  BY <1>2, <1>6, <3>1, <3>2, AttemptsFewer, FewerIsBounded
  <2> QED  BY <2>1, <2>2
<1>10. CASE Reset(r)
  <2>1. req'[r].pc \notin {"select", "fail"}
    BY <1>4, <1>5, <1>10 DEF Reset, Places
  <2>2. failures'[p][u] = failures[p][u] \/ failures'[p][u] = <<>>
    BY <1>1, <1>10 DEF Reset, SetFailures, Typed
  <2>3. Len(failures'[p][u]) <= Len(failures[p][u])
    BY <1>6, <2>2
  <2> QED  BY <1>2, <2>1, <2>3, AttemptsFewer, FewerIsBounded
<1> QED  BY <1>7, <1>8, <1>9, <1>10 DEF Handle

\* The first statement of a handler: a login is an attempt when it is allowed.
LEMMA BeginBounded ==
  ASSUME Typed, Typed', NEW r \in Requests, NEW q \in Replicas,
         \/ Setup(r, q)
         \/ \E v \in Users : Login(r, q, v) \/ (\E op \in AdminOps : Admin(r, q, op, v))
         \/ \E s \in sessions : Change(r, q, s),
         NEW p \in Replicas, NEW u \in Users, Bounded(p, u)
  PROVE  Bounded(p, u)'
<1>1. failures' = failures
  BY DEF Setup, Login, Admin, Change, SetFailures, Attempt, Typed, memory
<1>2. \A t \in Requests \ {r} : req'[t] = req[t]
  BY DEF Setup, Login, Admin, Change, Becomes, Typed
<1>3. Len(failures[p][u]) \in Nat
  BY DEF Typed
<1>4. CASE Len(failures[p][u]) < MaxFailures
  BY <1>1, <1>4, BelowIsBounded
<1>5. CASE ~(Len(failures[p][u]) < MaxFailures)
  <2>1. Idle.pc = "idle" /\ \A pc, op, v, t : /\ Request(pc, op, q, v, t).pc = pc
                                             /\ Request(pc, op, q, v, t).replica = q
                                             /\ Request(pc, op, q, v, t).user = v
    BY DEF Idle, Request
  <2>2. \A v : Becomes(r, v) => req'[r] = v
    BY DEF Becomes, Typed
  <2>3. \/ req'[r].pc \notin {"select", "fail"}
        \/ \E v \in Users : allowed(q, v) /\ req'[r].replica = q /\ req'[r].user = v
    BY <2>1, <2>2 DEF Setup, Login, Admin, AdminOps, Change
  <2>4. Attempts(p, u)' \subseteq Attempts(p, u)
    BY <1>2, <1>5, <2>3 DEF Attempts, allowed
  <2> QED  BY <1>1, <1>3, <2>4, FewerIsBounded
<1> QED  BY <1>4, <1>5

\* Every step keeps the failures and the attempts of an account within the bound.
LEMMA BoundedStep ==
  ASSUME Typed, Typed', FailuresBounded, [Next]_vars
  PROVE  FailuresBounded'
<1> SUFFICES ASSUME NEW p \in Replicas, NEW u \in Users PROVE Bounded(p, u)'
  BY DEF FailuresBounded, Bounded
<1>1. Bounded(p, u)
  BY DEF FailuresBounded, Bounded
<1>2. failures[p][u] \in Seq(Nat) /\ Len(failures[p][u]) \in Nat
  BY DEF Typed
<1>3. ASSUME NEW q \in Replicas, Restart(q) PROVE Bounded(p, u)'
  <2>1. Attempts(p, u)' \subseteq Attempts(p, u)
    BY <1>3 DEF Restart, Attempts, Idle
  <2>2. failures'[p][u] = failures[p][u] \/ failures'[p][u] = <<>>
    BY <1>3 DEF Restart, Typed
  <2>3. Len(failures'[p][u]) <= Len(failures[p][u])
    BY <1>2, <2>2
  <2> QED  BY <1>1, <2>1, <2>3, FewerIsBounded
<1>4. CASE Tick
  <2>1. [k \in DOMAIN failures[p][u] |-> failures[p][u][k] + 1] \in Seq(Nat)
        /\ Len([k \in DOMAIN failures[p][u] |-> failures[p][u][k] + 1]) = Len(failures[p][u])
    <3>1. ASSUME NEW f \in Seq(Nat)
          PROVE  /\ [k \in DOMAIN f |-> f[k] + 1] \in Seq(Nat)
                 /\ Len([k \in DOMAIN f |-> f[k] + 1]) = Len(f)
      <4>1. DOMAIN f = 1 .. Len(f) /\ Len(f) \in Nat /\ \A k \in DOMAIN f : f[k] + 1 \in Nat
        BY <3>1
      <4>2. [k \in 1 .. Len(f) |-> f[k] + 1] \in Seq(Nat)
        BY <4>1
      <4> QED  BY <4>1, <4>2
    <3> QED  BY <1>2, <3>1
  <2>2. failures'[p][u] = prune([k \in DOMAIN failures[p][u] |-> failures[p][u][k] + 1])
    BY <1>4 DEF Tick
  <2>3. Len(failures'[p][u]) <= Len(failures[p][u])
    BY <2>1, <2>2, Pruned
  <2>4. Attempts(p, u)' = Attempts(p, u)
    BY <1>4 DEF Tick, Attempts
  <2> QED  BY <1>1, <2>3, <2>4, FewerIsBounded
<1>5. CASE UNCHANGED <<failures, req>>
  <2>1. Attempts(p, u)' = Attempts(p, u)
    BY <1>5 DEF Attempts
  <2> QED  BY <1>1, <1>2, <1>5, <2>1, FewerIsBounded
<1> QED  BY <1>1, <1>3, <1>4, <1>5, HandleBounded, BeginBounded
         DEF Next, vars, Unauthenticated, Logout, memory

-----------------------------------------------------------------------------
Inv ==
  /\ Typed /\ Born /\ FlagEarned /\ Won /\ Claims
  /\ SessionsHaveUsers /\ Dated /\ OldSessionsClosed /\ FailuresBounded

\* At first there is the owner, without a password, and at most its old session.
LEMMA InitInv == Init => Inv
<1> SUFFICES ASSUME Init PROVE Inv
  OBVIOUS
<1>1. Owner \in Users
  BY AccountsAssumption
<1>2. Idle.pc = "idle" /\ \A r \in Requests : req[r] = Idle
  BY DEF Init, Idle
<1>3. \A s \in sessions : s = [user |-> Owner, token |-> Boot, born |-> 0]
  BY <1>1 DEF Init, Session
<1>4. Typed
  <2>1. failures \in [Replicas -> [Users -> Seq(Nat)]]
    <3>1. [u \in Users |-> <<>>] \in [Users -> Seq(Nat)]
      OBVIOUS
    <3> QED  BY <3>1 DEF Init
  <2>2. req \in [Requests -> {Idle, Done} \cup Open]
    BY DEF Init
  <2>3. closed \in [Users -> [password : Nat, token : Tokens]]
    BY DEF Init, Tokens
  <2>4. sessions \subseteq [user : Users, token : Tokens, born : Nat]
    BY <1>1, <1>3 DEF Tokens
  <2>5. /\ life \in [Users -> {"unborn", "live", "gone"}] /\ password \in [Users -> Nat]
        /\ mustChange \in [Users -> BOOLEAN] /\ configured \in [Replicas -> BOOLEAN]
    BY DEF Init
  <2> QED  BY <2>1, <2>2, <2>3, <2>4, <2>5 DEF Typed
<1>5. Born /\ FlagEarned /\ Won /\ Claims
  BY <1>1, <1>2 DEF Init, Born, FlagEarned, Won, Claims
<1>6. SessionsHaveUsers /\ Dated /\ OldSessionsClosed
  BY <1>1, <1>2, <1>3 DEF Init, SessionsHaveUsers, Dated, OldSessionsClosed
<1>7. FailuresBounded
  <2> SUFFICES ASSUME NEW p \in Replicas, NEW u \in Users
               PROVE  Len(failures[p][u]) + Cardinality(Attempts(p, u)) < MaxFailures + Cardinality(Requests)
    BY DEF FailuresBounded
  <2>1. Len(failures[p][u]) = 0
    BY DEF Init
  <2>2. Attempts(p, u) = {}
    BY <1>2 DEF Attempts
  <2>3. Cardinality(Attempts(p, u)) = 0
    BY <2>2, FS_EmptySet
  <2>4. Cardinality(Requests) \in Nat /\ MaxFailures \in Nat \ {0}
    BY AttemptsFinite, AccountsAssumption
  <2> QED  BY <2>1, <2>3, <2>4
<1> QED  BY <1>4, <1>5, <1>6, <1>7 DEF Inv

\* Every step keeps the invariant.
LEMMA StepInv == Inv /\ [Next]_vars => Inv'
<1> SUFFICES ASSUME Inv, [Next]_vars PROVE Inv'
  OBVIOUS
<1>1. Typed /\ Typed'
  BY TypeStep DEF Inv
<1>2. Born' /\ \A u \in Users : password'[u] >= password[u]
  BY PasswordsGrow DEF Inv
<1>3. FlagEarned' /\ Won' /\ Claims'
  BY <1>1, FlagStep, WonStep, ClaimsStep DEF Inv
<1>4. SessionsHaveUsers' /\ Dated' /\ OldSessionsClosed'
  BY <1>1, <1>2, LivingStep, DatedStep, ClosedStep DEF Inv
<1>5. FailuresBounded'
  BY <1>1, BoundedStep DEF Inv
<1> QED  BY <1>1, <1>2, <1>3, <1>4, <1>5 DEF Inv

\* The invariant holds in every reachable state.
LEMMA InvHolds == Spec => []Inv
BY InitInv, StepInv, PTL DEF Spec

(***************************************************************************)
(* Whatever the replicas remember and however many attempts race, the      *)
(* seeded owner is claimed once in the life of the instance.               *)
(***************************************************************************)
THEOREM SetupOnce == Spec => []OneSetup
<1>1. Inv => OneSetup
  <2>1. Cardinality({}) = 0 /\ \A r \in Requests : Cardinality({r}) = 1
    BY FS_EmptySet, FS_Singleton
  <2> QED  BY <2>1 DEF Inv, Won, OneSetup
<1> QED  BY <1>1, InvHolds, PTL

(***************************************************************************)
(* No replica takes setup for done before there was a password to log in   *)
(* with.  The flag is one-way, and so is this: when the last account with  *)
(* a password is deleted, nothing clears the flag but a restart.           *)
(***************************************************************************)
THEOREM FlagNotEarly == Spec => []ConfiguredNotEarly
<1>1. Inv => ConfiguredNotEarly
  <2> SUFFICES ASSUME Inv, NEW p \in Replicas, configured[p]
               PROVE  PasswordExists \/ \E u \in Users : life[u] = "gone" /\ password[u] # 0
    BY DEF ConfiguredNotEarly
  <2>1. PICK u \in Users : life[u] # "unborn" /\ password[u] # 0
    BY DEF Inv, FlagEarned, EverSet
  <2>2. life[u] \in {"live", "gone"}
    BY <2>1 DEF Inv, Typed
  <2> QED  BY <2>1, <2>2 DEF PasswordExists
<1> QED  BY <1>1, InvHolds, PTL

(***************************************************************************)
(* No session outlives its user, though the deletion may come between the  *)
(* check of a password and the insert of the session.                      *)
(***************************************************************************)
THEOREM SessionsOfUsers == Spec => []SessionsHaveUsers
<1>1. Inv => SessionsHaveUsers
  BY DEF Inv
<1> QED  BY <1>1, InvHolds, PTL

(***************************************************************************)
(* Once a change, a reset or the setup of a password has deleted the other *)
(* sessions, the only one stored under an earlier password is the session  *)
(* the change was made from, however changes, resets and logins overlap.   *)
(***************************************************************************)
THEOREM ChangesClose == Spec => []OldSessionsClosed
<1>1. Inv => OldSessionsClosed
  BY DEF Inv
<1> QED  BY <1>1, InvHolds, PTL

(***************************************************************************)
(* Attempts that passed the limiter together overshoot it by no more than  *)
(* their number: the bound is below the maximum and the requests at once.  *)
(***************************************************************************)
THEOREM OvershootBounded == Spec => []FailuresBounded
<1>1. Inv => FailuresBounded
  BY DEF Inv
<1> QED  BY <1>1, InvHolds, PTL

-----------------------------------------------------------------------------
(* User management: Members, of the same users and requests.               *)

VARIABLES role, handler

M == INSTANCE Members

\* What a handler knows on its way to the write: the user is there, and at the
\* write, that an admin is left afterwards.
WriteIsSafe ==
  \A q \in Requests :
    LET h == handler[q] IN
    /\ h.at \in {"adminCount", "write"} => role[h.user] # "none"
    /\ h.at = "write" =>
         \/ M!isAdminRole(h.to)
         \/ ~M!isAdminRole(role[h.user])
         \/ \E u \in Users \ {h.user} : M!isAdminRole(role[u])

KeepsOne == M!TypeOK /\ M!SomeAdmin /\ WriteIsSafe

\* Two admins are counted only if there is one beside any given user.
LEMMA AnotherAdmin ==
  ASSUME IsFiniteSet(Users), NEW x \in Users, M!adminCount > 1
  PROVE  \E u \in Users \ {x} : M!isAdminRole(role[u])
<1> DEFINE admins == {u \in Users : M!isAdminRole(role[u])}
<1>1. IsFiniteSet(admins)
  BY FS_Subset
<1>2. SUFFICES ASSUME admins \subseteq {x} PROVE FALSE
  OBVIOUS
<1>3. admins = {} \/ admins = {x}
  BY <1>2
<1>4. Cardinality(admins) \in {0, 1}
  BY <1>3, FS_EmptySet, FS_Singleton
<1> QED
  BY <1>4 DEF M!adminCount, M!Cardinality, Cardinality

LEMMA KeepsOneStep ==
  ASSUME IsFiniteSet(Users), NEW q0, Requests = {q0}
  PROVE  KeepsOne /\ [M!Next]_M!vars => KeepsOne'
<1> SUFFICES ASSUME KeepsOne, [M!Next]_M!vars PROVE KeepsOne'
  OBVIOUS
<1> USE DEF KeepsOne
<1>1. ASSUME NEW u \in Users, NEW r \in M!allowedRoles, M!createUser(u, r) PROVE KeepsOne'
  BY <1>1 DEF M!TypeOK, M!SomeAdmin, WriteIsSafe, M!createUser, M!Roles, M!allowedRoles, M!isAdminRole
<1>2. ASSUME NEW q \in Requests, NEW u \in Users, NEW to \in M!allowedRoles \cup {"none"},
             M!Request(q, u, to)
      PROVE  KeepsOne'
  BY <1>2 DEF M!TypeOK, M!SomeAdmin, WriteIsSafe, M!Request, M!Becomes
<1>3. ASSUME NEW q \in Requests, M!memberRole(q) PROVE KeepsOne'
  <2> DEFINE h == handler[q]
             to(place) == [h EXCEPT !.at = place]
  <2>1. /\ role' = role
        /\ h \in [at : {"memberRole", "adminCount", "write"}, user : Users,
                  to : M!allowedRoles \cup {"none"}]
    BY <1>3 DEF M!TypeOK, M!memberRole, M!Idle
  <2>2. CASE role[h.user] \in {"none", h.to}
    <3>1. handler' = [handler EXCEPT ![q] = M!Idle]
      BY <1>3, <2>2 DEF M!memberRole, M!Becomes
    <3> QED
      BY <2>1, <3>1 DEF M!TypeOK, M!SomeAdmin, WriteIsSafe, M!Idle
  <2>3. CASE role[h.user] \notin {"none", h.to} /\ M!LosesAdmin(role[h.user], h.to)
    <3>1. handler' = [handler EXCEPT ![q] = to("adminCount")]
      BY <1>3, <2>3 DEF M!memberRole, M!Becomes
    <3> QED
      BY <2>1, <2>3, <3>1 DEF M!TypeOK, M!SomeAdmin, WriteIsSafe
  <2>4. CASE role[h.user] \notin {"none", h.to} /\ ~M!LosesAdmin(role[h.user], h.to)
    <3>1. handler' = [handler EXCEPT ![q] = to("write")]
      BY <1>3, <2>4 DEF M!memberRole, M!Becomes
    <3> QED
      BY <2>1, <2>4, <3>1 DEF M!TypeOK, M!SomeAdmin, WriteIsSafe, M!LosesAdmin
  <2> QED
    BY <2>2, <2>3, <2>4
<1>4. ASSUME NEW q \in Requests, M!CheckAdmins(q) PROVE KeepsOne'
  <2>1. CASE M!adminCount <= 1
    BY <1>4, <2>1 DEF M!TypeOK, M!SomeAdmin, WriteIsSafe, M!CheckAdmins, M!Becomes, M!Idle
  <2>2. CASE ~(M!adminCount <= 1)
    <3>1. handler[q] \in [at : {"memberRole", "adminCount", "write"}, user : Users,
                          to : M!allowedRoles \cup {"none"}]
      BY <1>4 DEF M!TypeOK, M!CheckAdmins, M!Idle
    <3>2. M!adminCount \in Nat
      <4>1. IsFiniteSet({u \in Users : M!isAdminRole(role[u])})
        BY FS_Subset
      <4> QED
        BY <4>1, FS_CardinalityType DEF M!adminCount, M!Cardinality, Cardinality
    <3>3. \E u \in Users \ {handler[q].user} : M!isAdminRole(role[u])
      BY <2>2, <3>1, <3>2, AnotherAdmin
    <3>4. handler' = [handler EXCEPT ![q] = [handler[q] EXCEPT !.at = "write"]] /\ role' = role
      BY <1>4, <2>2 DEF M!CheckAdmins, M!Becomes
    <3>5. role[handler[q].user] # "none"
      BY <1>4 DEF WriteIsSafe, M!CheckAdmins
    <3> QED
      BY <3>1, <3>3, <3>4, <3>5 DEF M!TypeOK, M!SomeAdmin, WriteIsSafe
  <2> QED
    BY <2>1, <2>2
<1>5. ASSUME NEW q \in Requests, M!Write(q) PROVE KeepsOne'
  BY <1>5 DEF M!TypeOK, M!SomeAdmin, WriteIsSafe, M!Write, M!Becomes, M!Idle, M!Roles, M!allowedRoles
<1>6. ASSUME NEW q \in Requests, M!Fails(q) PROVE KeepsOne'
  BY <1>6 DEF M!TypeOK, M!SomeAdmin, WriteIsSafe, M!Fails, M!Becomes, M!Idle
<1>7. CASE UNCHANGED M!vars
  BY <1>7 DEF M!vars, M!TypeOK, M!SomeAdmin, WriteIsSafe
<1> QED
  BY <1>1, <1>2, <1>3, <1>4, <1>5, <1>6, <1>7 DEF M!Next

(***************************************************************************)
(* updateUser and deleteUser, one request at a time: the workspace keeps   *)
(* an admin through changes, deletions, creations and failures, for every  *)
(* number of users.  The assumption Requests = {q0} is what the code does  *)
(* not establish.                                                          *)
(***************************************************************************)
THEOREM SerialKeepsAdmin ==
  ASSUME IsFiniteSet(Users), Owner \in Users, NEW q0, Requests = {q0}
  PROVE  M!Spec => []M!SomeAdmin
<1>1. M!Init => KeepsOne
  BY DEF M!Init, KeepsOne, M!TypeOK, M!SomeAdmin, WriteIsSafe, M!Idle, M!Roles, M!isAdminRole
<1>2. KeepsOne /\ [M!Next]_M!vars => KeepsOne'
  BY KeepsOneStep
<1>3. KeepsOne => M!SomeAdmin
  BY DEF KeepsOne
<1> QED
  BY <1>1, <1>2, <1>3, PTL DEF M!Spec
=============================================================================
