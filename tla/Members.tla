------------------------------ MODULE Members ------------------------------
(***************************************************************************)
(* User management (api/users.go): admins create users, change their roles *)
(* and delete them.  A handler reads the role, counts the admins and       *)
(* writes in three statements outside any transaction, so the handlers of  *)
(* two requests interleave between them.                                   *)
(***************************************************************************)
EXTENDS Naturals, FiniteSets

CONSTANTS
  Users,
  Owner,     \* the user the first migration makes the owner
  Requests   \* requests that may be handled at the same time

VARIABLES
  role,     \* workspace_members.role, or "none" for a user that is not there
  handler   \* what the handler of each request is about to do

vars == <<role, handler>>

allowedRoles == {"admin", "editor", "viewer"}

isAdminRole(r) == r \in {"owner", "admin"}

Roles == allowedRoles \cup {"owner", "none"}

Idle == [at |-> "idle"]

Init ==
  /\ role = [u \in Users |-> IF u = Owner THEN "owner" ELSE "none"]
  /\ handler = [q \in Requests |-> Idle]

Becomes(q, h) == handler' = [handler EXCEPT ![q] = h]

adminCount == Cardinality({u \in Users : isAdminRole(role[u])})

----------------------------------------------------------------------------
\* requireAdmin lets an admin's request in: a role for a user, "none" to delete.
Request(q, u, to) ==
  /\ handler[q] = Idle
  /\ adminCount > 0
  /\ Becomes(q, [at |-> "memberRole", user |-> u, to |-> to])
  /\ UNCHANGED role

LosesAdmin(from, to) == isAdminRole(from) /\ ~isAdminRole(to)

\* The first query: 404 when there is no such user, nothing to do when the role
\* is the user's already, and the admins are counted when one would be lost.
memberRole(q) ==
  LET h == handler[q] IN
  /\ h.at = "memberRole"
  /\ Becomes(q, IF role[h.user] \in {"none", h.to} THEN Idle
                ELSE [h EXCEPT !.at = IF LosesAdmin(role[h.user], h.to)
                                        THEN "adminCount" ELSE "write"])
  /\ UNCHANGED role

\* The second query: 409 for the last admin.
CheckAdmins(q) ==
  /\ handler[q].at = "adminCount"
  /\ Becomes(q, IF adminCount <= 1 THEN Idle ELSE [handler[q] EXCEPT !.at = "write"])
  /\ UNCHANGED role

\* The update or the delete; a user that is gone by now stays gone.
Write(q) ==
  LET h == handler[q] IN
  /\ h.at = "write"
  /\ role' = [role EXCEPT ![h.user] = IF @ = "none" THEN "none" ELSE h.to]
  /\ Becomes(q, Idle)

\* Any of the statements fails.
Fails(q) ==
  /\ handler[q] # Idle
  /\ Becomes(q, Idle)
  /\ UNCHANGED role

\* createUser: user and membership in one transaction.
createUser(u, r) ==
  /\ adminCount > 0
  /\ role[u] = "none"
  /\ role' = [role EXCEPT ![u] = r]
  /\ UNCHANGED handler

Next ==
  \/ \E u \in Users, r \in allowedRoles : createUser(u, r)
  \/ \E q \in Requests :
       \/ memberRole(q) \/ CheckAdmins(q) \/ Write(q) \/ Fails(q)
       \/ \E u \in Users, to \in allowedRoles \cup {"none"} : Request(q, u, to)

Spec == Init /\ [][Next]_vars

----------------------------------------------------------------------------
\* Every variable holds a value of its type, and no handler makes an owner.
TypeOK ==
  /\ role \in [Users -> Roles]
  /\ \A u \in Users : role[u] = "owner" => u = Owner
  /\ handler \in [Requests ->
       {Idle} \cup [at : {"memberRole", "adminCount", "write"}, user : Users,
                    to : allowedRoles \cup {"none"}]]

(***************************************************************************)
(* The last admin-tier member is never deleted or demoted: somebody can    *)
(* always manage the users.                                                *)
(***************************************************************************)
SomeAdmin == \E u \in Users : isAdminRole(role[u])
=============================================================================
