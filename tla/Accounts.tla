------------------------------ MODULE Accounts ------------------------------
(***************************************************************************)
(* Accounts (api/auth.go, api/ratelimit.go, and the passwords of           *)
(* api/users.go): the first setup, logins and their limiter, sessions, and *)
(* changes and resets of passwords.                                        *)
(*                                                                         *)
(* A handler is a sequence of statements without a transaction, and the    *)
(* handlers of all replicas interleave.  A replica keeps two things in its *)
(* memory, both lost when it restarts: that setup is done, and the times   *)
(* of failed logins, here their ages.  A password is its number among      *)
(* those the account has had; 0 is null.  Roles are those of Members: here *)
(* any session may be an admin's, and the check of the last admin may pass *)
(* or fail.                                                                *)
(***************************************************************************)
EXTENDS Naturals, Sequences, FiniteSets

CONSTANTS
  Users,
  Owner,         \* the user the migrations seed, without a password
  Replicas,
  Requests,      \* requests handled at the same time; one opens one session
  Boot,          \* token of a session from before there were passwords
  Window,        \* of the limiter, in ticks
  MaxFailures,   \* of the limiter, in one window
  MaxPasswords   \* bound on the passwords each account has had

ASSUME AccountsAssumption ==
  /\ Owner \in Users
  /\ IsFiniteSet(Requests) /\ Boot \notin Requests
  /\ Window \in Nat \ {0} /\ MaxFailures \in Nat \ {0}
  /\ MaxPasswords \in [Users -> Nat \ {0}]

VARIABLES
  life,        \* of each user
  password,    \* the number of its password, 0 for null
  mustChange,  \* must_change_password
  sessions,    \* sessions that have not expired
  configured,  \* each replica's setupConfigured
  failures,    \* each replica's ages of failed logins, by user, oldest first
  req,         \* the requests that are being handled
  winners,     \* history: the setups that claimed the owner
  closed       \* history: the last password whose change closed the sessions,
               \* and the token of the session it kept

vars == <<life, password, mustChange, sessions, configured, failures, req, winners, closed>>

Idle == [pc |-> "idle"]
NoToken == "none"

\* A session remembers, as history, the password its account had when it was
\* stored; the password it was opened with may be an older one.
Session(u, t) == [user |-> u, token |-> t, born |-> password[u]]

Init ==
  /\ life = [u \in Users |-> IF u = Owner THEN "live" ELSE "unborn"]
  /\ password = [u \in Users |-> 0]
  /\ mustChange = [u \in Users |-> FALSE]
  /\ sessions \in {{}, {Session(Owner, Boot)}}
  /\ configured = [p \in Replicas |-> FALSE]
  /\ failures = [p \in Replicas |-> [u \in Users |-> <<>>]]
  /\ req = [r \in Requests |-> Idle]
  /\ winners = {}
  /\ closed = [u \in Users |-> [password |-> 0, token |-> NoToken]]

\* A request of replica p: its place, the operation, the account, the session
\* it came with, and the password it has set.
Request(pc, op, p, u, t) ==
  [pc |-> pc, op |-> op, replica |-> p, user |-> u, token |-> t, password |-> 0]

At(r, pc) == req[r].pc = pc
Becomes(r, x) == req' = [req EXCEPT ![r] = x]

database == <<life, password, mustChange, sessions>>
memory == <<configured, failures>>
history == <<winners, closed>>

-----------------------------------------------------------------------------
(* Setup.                                                                  *)

PasswordExists == \E u \in Users : life[u] = "live" /\ password[u] # 0

\* Mutated form: the flag is set as soon as a request has asked.
Configured_Early(p) == TRUE

\* setupRequired: what a replica keeps of its query.
Configured(p) == configured[p] \/ PasswordExists

\* A request without a session asks setupRequired.
Unauthenticated(p) ==
  /\ ~configured[p]
  /\ configured' = [configured EXCEPT ![p] = Configured(p)]
  /\ UNCHANGED <<database, failures, req, history>>

\* setup: 409 once there is a password.
Setup(r, p) ==
  /\ At(r, "idle")
  /\ configured' = [configured EXCEPT ![p] = Configured(p)]
  /\ Becomes(r, IF configured[p] \/ PasswordExists
                  THEN Idle ELSE Request("claim", "setup", p, Owner, NoToken))
  /\ UNCHANGED <<database, failures, history>>

\* Mutated form: the update has no guard of its own.
Unclaimed_Always == password[Owner] < MaxPasswords[Owner]

\* The guard of the update, in its subquery and again on the row.
Unclaimed == password[Owner] = 0

\* The update claims the seeded owner, or finds no row: 409.  (An owner that was
\* given another role is not found either.)
Claim(r) ==
  /\ At(r, "claim")
  /\ \/ /\ life[Owner] = "live" /\ Unclaimed
        /\ password' = [password EXCEPT ![Owner] = @ + 1]
        /\ mustChange' = [mustChange EXCEPT ![Owner] = FALSE]
        /\ configured' = [configured EXCEPT ![req[r].replica] = TRUE]
        /\ winners' = winners \cup {r}
        /\ Becomes(r, [req[r] EXCEPT !.pc = "close", !.password = password[Owner] + 1])
     \/ /\ Becomes(r, Idle)
        /\ UNCHANGED <<password, mustChange, configured, winners>>
  /\ UNCHANGED <<life, sessions, failures, closed>>

-----------------------------------------------------------------------------
(* The limiter: the lock of loginLimiter makes each call one step.         *)

\* Mutated form: one failure too many.
allowed_OneMore(p, u) == Len(failures[p][u]) <= MaxFailures

allowed(p, u) == Len(failures[p][u]) < MaxFailures

SetFailures(p, u, ages) == failures' = [failures EXCEPT ![p][u] = ages]

\* The ages that are still in the window; they come oldest first, so that what
\* the filter keeps is the end of the list.
prune(ages) ==
  LET expired == {k \in DOMAIN ages : ages[k] >= Window}
  IN  SubSeq(ages, Cardinality(expired) + 1, Len(ages))

\* Time passes.  allowed and fail prune before they look, so that it makes no
\* difference to do it here.
Tick ==
  /\ failures' = [p \in Replicas |-> [u \in Users |->
       prune([k \in DOMAIN failures[p][u] |-> failures[p][u][k] + 1])]]
  /\ UNCHANGED <<database, configured, req, history>>

-----------------------------------------------------------------------------
(* Logins and sessions.                                                    *)

\* Mutated form: an attempt that is turned away counts as a failure (the
\* oldest makes room for it, which keeps the ages few).
Attempt_Counts(p, u) ==
  IF allowed(p, u) THEN failures[p][u] ELSE Append(Tail(failures[p][u]), 0)

\* What an attempt leaves behind before it is known to fail.
Attempt(p, u) == failures[p][u]

\* login begins; 429 when the limiter says no.
Login(r, p, u) ==
  /\ At(r, "idle")
  /\ Becomes(r, IF allowed(p, u) THEN Request("select", "login", p, u, NoToken) ELSE Idle)
  /\ SetFailures(p, u, Attempt(p, u))
  /\ UNCHANGED <<database, configured, history>>

\* The hash is read and compared: what becomes of it later does not matter.
Select(r) ==
  LET u == req[r].user IN
  /\ At(r, "select")
  /\ \/ life[u] = "live" /\ password[u] # 0 /\ Becomes(r, [req[r] EXCEPT !.pc = "reset"])
     \/ Becomes(r, [req[r] EXCEPT !.pc = "fail"])
  /\ UNCHANGED <<database, memory, history>>

\* fail: 401.
Fail(r) ==
  LET p == req[r].replica  u == req[r].user IN
  /\ At(r, "fail")
  /\ SetFailures(p, u, Append(failures[p][u], 0))
  /\ Becomes(r, Idle)
  /\ UNCHANGED <<database, configured, history>>

\* reset, and on to the session.
Reset(r) ==
  /\ At(r, "reset")
  /\ SetFailures(req[r].replica, req[r].user, <<>>)
  /\ Becomes(r, [req[r] EXCEPT !.pc = "start"])
  /\ UNCHANGED <<database, configured, history>>

\* Mutated form: sessions do not refer to users.
UserThere_Unchecked(u) == TRUE

\* The foreign key of sessions.
UserThere(u) == life[u] = "live"

\* startSession: the row refers to the user, who may be gone.
StartSession(r) ==
  LET u == req[r].user IN
  /\ At(r, "start")
  /\ IF UserThere(u)
       THEN /\ sessions' = sessions \cup {Session(u, r)}
            /\ Becomes(r, [pc |-> "done"])
       ELSE Becomes(r, Idle) /\ UNCHANGED sessions
  /\ UNCHANGED <<life, password, mustChange, memory, history>>

\* logout, or the end of its time to live.
Logout(s) ==
  /\ sessions' = sessions \ {s}
  /\ UNCHANGED <<life, password, mustChange, memory, req, history>>

-----------------------------------------------------------------------------
(* Changes of passwords.                                                   *)

\* changePassword, with what loadSession reads of the user.
Change(r, p, s) ==
  /\ At(r, "idle")
  /\ password[s.user] < MaxPasswords[s.user]
  /\ Becomes(r, Request(IF mustChange[s.user] THEN "update" ELSE "verify", "change", p, s.user, s.token))
  /\ UNCHANGED <<database, memory, history>>

\* The current password is asked for: 403 when it is wrong or null.
Verify(r) ==
  LET u == req[r].user IN
  /\ At(r, "verify")
  /\ \/ life[u] = "live" /\ password[u] # 0 /\ Becomes(r, [req[r] EXCEPT !.pc = "update"])
     \/ Becomes(r, Idle)
  /\ UNCHANGED <<database, memory, history>>

\* A change and a reset write the new password, if there still is a row.
Update(r) ==
  LET u == req[r].user IN
  /\ At(r, "update")
  /\ password[u] < MaxPasswords[u]
  /\ IF life[u] = "live"
       THEN /\ password' = [password EXCEPT ![u] = @ + 1]
            /\ mustChange' = [mustChange EXCEPT ![u] = req[r].op = "reset"]
       ELSE UNCHANGED <<password, mustChange>>
  /\ Becomes(r, [req[r] EXCEPT !.pc = "close", !.password = password'[u]])
  /\ UNCHANGED <<life, sessions, memory, history>>

\* Mutated form: the comparison of the tokens is the wrong way round.
Closes_Own(r, s) == s.user = req[r].user /\ s.token = req[r].token

\* The sessions a new password closes: all, but for the one it was changed from.
Closes(r, s) == s.user = req[r].user /\ s.token # req[r].token

\* The sessions are deleted; an error is ignored.  A setup goes on to log in.
Close(r) ==
  LET u == req[r].user IN
  /\ At(r, "close")
  /\ \/ /\ sessions' = {s \in sessions : ~Closes(r, s)}
        /\ closed' = IF closed[u].password < req[r].password
                       THEN [closed EXCEPT ![u] = [password |-> req[r].password, token |-> req[r].token]]
                       ELSE closed
     \/ UNCHANGED <<sessions, closed>>
  /\ Becomes(r, IF req[r].op = "setup" THEN [req[r] EXCEPT !.pc = "start"] ELSE Idle)
  /\ UNCHANGED <<life, password, mustChange, memory, winners>>

-----------------------------------------------------------------------------
(* What admins do to accounts.                                             *)

AdminOps == {"create", "reset", "delete"}

(***************************************************************************)
(* requireAdmin: the request came with a session, be it one from before    *)
(* there were passwords, whatever becomes of it later.  resetUserPassword  *)
(* and deleteUser then look for the member, 404 when there is none; an     *)
(* account that is there already is 409 to createUser.                     *)
(***************************************************************************)
Admin(r, p, op, u) ==
  /\ At(r, "idle")
  /\ sessions # {}
  /\ life[u] = IF op = "create" THEN "unborn" ELSE "live"
  /\ op = "reset" => password[u] < MaxPasswords[u]
  /\ Becomes(r, Request(IF op = "reset" THEN "update" ELSE op, op, p, u, NoToken))
  /\ UNCHANGED <<database, memory, history>>

\* createUser: an account with a password that must be changed, or 409.
createUser(r) ==
  LET u == req[r].user IN
  /\ At(r, "create")
  /\ IF life[u] = "unborn"
       THEN /\ life' = [life EXCEPT ![u] = "live"]
            /\ password' = [password EXCEPT ![u] = 1]
            /\ mustChange' = [mustChange EXCEPT ![u] = TRUE]
       ELSE UNCHANGED <<life, password, mustChange>>
  /\ Becomes(r, Idle)
  /\ UNCHANGED <<sessions, memory, history>>

\* deleteUser: the sessions go along.
deleteUser(r) ==
  LET u == req[r].user IN
  /\ At(r, "delete")
  /\ life' = [life EXCEPT ![u] = IF @ = "live" THEN "gone" ELSE @]
  /\ sessions' = {s \in sessions : s.user # u}
  /\ Becomes(r, Idle)
  /\ UNCHANGED <<password, mustChange, memory, history>>

\* A replica dies and comes back: its memory and its requests are lost.
Restart(p) ==
  /\ configured' = [configured EXCEPT ![p] = FALSE]
  /\ failures' = [failures EXCEPT ![p] = [u \in Users |-> <<>>]]
  /\ req' = [r \in Requests |->
       IF req[r].pc \notin {"idle", "done"} /\ req[r].replica = p THEN Idle ELSE req[r]]
  /\ UNCHANGED <<database, history>>

Handle(r) ==
  \/ Claim(r) \/ Select(r) \/ Fail(r) \/ Reset(r) \/ StartSession(r)
  \/ Verify(r) \/ Update(r) \/ Close(r) \/ createUser(r) \/ deleteUser(r)

Next ==
  \/ \E r \in Requests :
       \/ Handle(r)
       \/ \E p \in Replicas :
            \/ Setup(r, p)
            \/ \E u \in Users : Login(r, p, u) \/ (\E op \in AdminOps : Admin(r, p, op, u))
            \/ \E s \in sessions : Change(r, p, s)
  \/ \E p \in Replicas : Unauthenticated(p) \/ Restart(p)
  \/ \E s \in sessions : Logout(s)
  \/ Tick

\* Time goes on; nothing else has to happen.
Spec == Init /\ [][Next]_vars /\ WF_vars(Tick)

-----------------------------------------------------------------------------
\* Every variable holds a value of its type.
TypeOK ==
  /\ life \in [Users -> {"unborn", "live", "gone"}]
  /\ \A u \in Users : password[u] \in 0..MaxPasswords[u]
  /\ mustChange \in [Users -> BOOLEAN]
  /\ sessions \subseteq [user : Users, token : Requests \cup {Boot}, born : Nat]
  /\ configured \in [Replicas -> BOOLEAN]
  /\ \A p \in Replicas, u \in Users : failures[p][u] \in Seq(0..(Window - 1))

(***************************************************************************)
(* No session outlives its user, whose deletion may come between a login's *)
(* check of the password and the insert of its session.                    *)
(***************************************************************************)
SessionsHaveUsers == \A s \in sessions : life[s.user] = "live"

(***************************************************************************)
(* Setup attempts on any replicas race for the seeded owner: one of them   *)
(* wins, in the life of the instance, whatever the replicas remember.      *)
(***************************************************************************)
OneSetup == Cardinality(winners) <= 1

(***************************************************************************)
(* The cached "setup is done" is one-way, and set too early it would shut  *)
(* everyone out: no replica takes setup for done unless somebody can log   *)
(* in or an account that could was deleted.  (After such a deletion, by an *)
(* old session and before setup, the flag is wrong until a restart.)       *)
(***************************************************************************)
ConfiguredNotEarly ==
  \A p \in Replicas : configured[p] =>
    PasswordExists \/ \E u \in Users : life[u] = "gone" /\ password[u] # 0

(***************************************************************************)
(* All other sessions are invalidated by a change, a reset or the setup of *)
(* a password.  Once that has deleted them, the only session stored under  *)
(* an earlier password is the one the change was made from, although       *)
(* changes from several sessions, resets and logins overlap.  (A login     *)
(* that has read the old hash may store its session after the change.)     *)
(***************************************************************************)
OldSessionsClosed ==
  \A s \in sessions : s.born < closed[s.user].password => s.token = closed[s.user].token

(***************************************************************************)
(* Attempts that passed the limiter together fail one after the other: the *)
(* failures of a window and the attempts under way on one replica, for one *)
(* address and account, stay below the maximum and the requests at once.   *)
(***************************************************************************)
Attempts(p, u) ==
  {r \in Requests : req[r].pc \in {"select", "fail"} /\ req[r].replica = p /\ req[r].user = u}

FailuresBounded ==
  \A p \in Replicas, u \in Users :
    Len(failures[p][u]) + Cardinality(Attempts(p, u)) < MaxFailures + Cardinality(Requests)

(***************************************************************************)
(* An account that is locked out is let in again, however often its user   *)
(* tries in the meantime.                                                  *)
(***************************************************************************)
LimitEnds == \A p \in Replicas, u \in Users : []<>allowed(p, u)
=============================================================================
