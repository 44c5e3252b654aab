------------------------------ MODULE Workspace ------------------------------
(***************************************************************************)
(* What a workspace keeps (api/api.go, api/resources.go): workflows with   *)
(* their numbered versions, and the secrets and MCP servers that step      *)
(* configurations refer to by name.                                        *)
(*                                                                         *)
(* A save (putDefinition) is a transaction; the deletion of a resource and *)
(* the renaming of a server are handlers of several statements without     *)
(* one.  All of them interleave.  A definition is the set of references in *)
(* it, each a pair of the way it refers and the name; nothing checks that  *)
(* the name exists.                                                        *)
(***************************************************************************)
EXTENDS Naturals, Sequences

CONSTANTS
  Workflows,    \* ids, each used once
  Secrets,      \* ids of secrets, each used once
  Servers,      \* ids of MCP servers, each used once
  Names,
  Given,        \* the names each resource may be created with
  Definitions,  \* the definitions that are saved
  Requests,     \* requests that are handled at the same time
  Ops,          \* the operations each request may be
  MaxVersions   \* bound on the versions of a workflow

Resources == Secrets \cup Servers

\* How a step refers to a resource: its api_key, {{secrets.name}}, its server.
Ways(i) == IF i \in Secrets THEN {"api_key", "mention"} ELSE {"server"}

ASSUME WorkspaceAssumption ==
  /\ Secrets \cap Servers = {}
  /\ Given \in [Resources -> SUBSET Names]
  /\ Definitions \subseteq SUBSET ({"api_key", "mention", "server"} \X Names)
  /\ {"unborn", "gone"} \cap Names = {}
  /\ Ops \in [Requests -> SUBSET {"save", "delete", "rename"}]
  /\ MaxVersions \in Nat \ {0}

VARIABLES
  life,      \* of each workflow
  versions,  \* the numbers of its committed versions, in order of commit
  current,   \* the number current_version_id points at
  def,       \* the definition of that version
  name,      \* the name of each resource, or "unborn" or "gone"
  req,       \* the requests that are being handled
  held       \* history: what has referred to a request's name since it came

vars == <<life, versions, current, def, name, req, held>>

Idle == [pc |-> "idle"]

Init ==
  /\ life = [w \in Workflows |-> "unborn"]
  /\ versions = [w \in Workflows |-> <<>>]
  /\ current = [w \in Workflows |-> 0]
  /\ def = [w \in Workflows |-> {}]
  /\ name = [i \in Resources |-> "unborn"]
  /\ req = [r \in Requests |-> Idle]
  /\ held = [r \in Requests |-> {}]

Becomes(r, x) == req' = [req EXCEPT ![r] = x]
At(r, pc) == req[r].pc = pc

-----------------------------------------------------------------------------
(* Workflows and versions.                                                 *)

\* createWorkflow: the workflow and its first version in one transaction.
createWorkflow(w, d) ==
  /\ life[w] = "unborn"
  /\ life' = [life EXCEPT ![w] = "live"]
  /\ versions' = [versions EXCEPT ![w] = <<1>>]
  /\ current' = [current EXCEPT ![w] = 1]
  /\ def' = [def EXCEPT ![w] = d]
  /\ UNCHANGED <<name, req>>

\* Requests whose transaction holds an uncommitted version of w.
Inserted(w) == {r \in Requests : At(r, "update") /\ req[r].workflow = w}

\* deleteWorkflow: waits for those, then takes the versions along.
deleteWorkflow(w) ==
  /\ life[w] = "live"
  /\ Inserted(w) = {}
  /\ life' = [life EXCEPT ![w] = "gone"]
  /\ versions' = [versions EXCEPT ![w] = <<>>]
  /\ current' = [current EXCEPT ![w] = 0]
  /\ def' = [def EXCEPT ![w] = {}]
  /\ UNCHANGED <<name, req>>

\* coalesce(max(version), 0) + 1, over what the statement's snapshot shows.
NextVersion(w) ==
  IF versions[w] = <<>> THEN 1
  ELSE 1 + CHOOSE n \in {versions[w][k] : k \in DOMAIN versions[w]} :
             \A k \in DOMAIN versions[w] : versions[w][k] <= n

\* putDefinition, the insert takes its snapshot; no row of workflows is a 404.
Save(r, w, d) ==
  /\ At(r, "idle") /\ "save" \in Ops[r]
  /\ life[w] = "live"
  /\ NextVersion(w) <= MaxVersions
  /\ Becomes(r, [pc |-> "insert", workflow |-> w, version |-> NextVersion(w), def |-> d])
  /\ UNCHANGED <<life, versions, current, def, name>>

\* Mutated form: a save also waits for those that have only taken a number.
MayInsert_WaitsForAll(r) ==
  \A p \in Requests \ {r} :
    ~(req[p].pc \in {"insert", "update"} /\ req[p].workflow = req[r].workflow)

\* unique (workflow_id, version): an uncommitted row with the number is waited for.
MayInsert(r) ==
  \A p \in Inserted(req[r].workflow) : req[p].version # req[r].version

\* Mutated form: there is no unique index.
Duplicate_Never(r) == FALSE

\* unique (workflow_id, version): a committed one refuses the insert.
Duplicate(r) ==
  \E k \in DOMAIN versions[req[r].workflow] : versions[req[r].workflow][k] = req[r].version

\* The insert goes through, or fails by the index or the foreign key: a 500.
SaveInsert(r) ==
  /\ At(r, "insert")
  /\ MayInsert(r)
  /\ Becomes(r, IF Duplicate(r) \/ life[req[r].workflow] # "live"
                  THEN Idle ELSE [req[r] EXCEPT !.pc = "update"])
  /\ UNCHANGED <<life, versions, current, def, name>>

\* current_version_id is pointed at the new row, and the transaction commits.
SaveCommit(r) ==
  LET w == req[r].workflow IN
  /\ At(r, "update")
  /\ versions' = [versions EXCEPT ![w] = Append(@, req[r].version)]
  /\ current' = [current EXCEPT ![w] = req[r].version]
  /\ def' = [def EXCEPT ![w] = req[r].def]
  /\ Becomes(r, Idle)
  /\ UNCHANGED <<life, name>>

-----------------------------------------------------------------------------
(* Secrets and MCP servers.                                                *)

Kind(i) == IF i \in Secrets THEN Secrets ELSE Servers

\* unique (workspace_id, name), of secrets and of servers.
Taken(i, n) == \E j \in Kind(i) \ {i} : name[j] = n

\* createSecret and createMCPServer; a name that is taken is a 409.
createResource(i, n) ==
  /\ name[i] = "unborn"
  /\ ~Taken(i, n)
  /\ name' = [name EXCEPT ![i] = n]
  /\ UNCHANGED <<life, versions, current, def, req>>

Exists(i) == name[i] \in Names

\* deleteSecret and deleteMCPServer read the name, or answer 404.
Delete(r, i) ==
  /\ At(r, "idle") /\ "delete" \in Ops[r]
  /\ Exists(i)
  /\ Becomes(r, [pc |-> "refs", op |-> "delete", target |-> i, name |-> name[i], new |-> "gone"])
  /\ UNCHANGED <<life, versions, current, def, name>>

\* updateMCPServer reads the name; one that does not change is not checked.
Rename(r, i, n) ==
  /\ At(r, "idle") /\ "rename" \in Ops[r]
  /\ i \in Servers /\ Exists(i)
  /\ Becomes(r, [pc |-> IF n = name[i] THEN "write" ELSE "refs",
                 op |-> "rename", target |-> i, name |-> name[i], new |-> n])
  /\ UNCHANGED <<life, versions, current, def, name>>

\* The workflows whose current version refers to n in the given way.
referencingWorkflows(way, n) == {w \in Workflows : life[w] = "live" /\ <<way, n>> \in def[w]}

\* The first query, by the config of steps: 409 when there are any.
CheckRefs(r) ==
  LET secret == req[r].target \in Secrets IN
  /\ At(r, "refs")
  /\ Becomes(r, IF referencingWorkflows(IF secret THEN "api_key" ELSE "server", req[r].name) # {}
                  THEN Idle
                  ELSE [req[r] EXCEPT !.pc = IF secret THEN "mentions" ELSE "write"])
  /\ UNCHANGED <<life, versions, current, def, name>>

\* Mutated form: only the api_key of ai steps counts as a use of a secret.
workflowsMentioning_None(n) == {}

\* The second query for a secret, by the text of the definition.
workflowsMentioning(n) == referencingWorkflows("mention", n)

CheckMentions(r) ==
  /\ At(r, "mentions")
  /\ Becomes(r, IF workflowsMentioning(req[r].name) # {}
                  THEN Idle ELSE [req[r] EXCEPT !.pc = "write"])
  /\ UNCHANGED <<life, versions, current, def, name>>

\* The delete or the update, by id: no row is no error, a taken name is a 409.
Write(r) ==
  LET i == req[r].target
      n == req[r].new IN
  /\ At(r, "write")
  /\ name' = IF Exists(i) /\ ~(n \in Names /\ Taken(i, n)) THEN [name EXCEPT ![i] = n] ELSE name
  /\ Becomes(r, Idle)
  /\ UNCHANGED <<life, versions, current, def>>

-----------------------------------------------------------------------------
\* A statement fails, the client goes away or the server dies: rollback.
Fails(r) ==
  /\ ~At(r, "idle")
  /\ Becomes(r, Idle)
  /\ UNCHANGED <<life, versions, current, def, name>>

Handle(r) == SaveInsert(r) \/ SaveCommit(r) \/ CheckRefs(r) \/ CheckMentions(r) \/ Write(r)

Step ==
  \/ \E w \in Workflows :
       (\E d \in Definitions : createWorkflow(w, d)) \/ deleteWorkflow(w)
  \/ \E i \in Resources : \E n \in Given[i] : createResource(i, n)
  \/ \E r \in Requests :
       \/ Handle(r) \/ Fails(r)
       \/ \E w \in Workflows, d \in Definitions : Save(r, w, d)
       \/ \E i \in Resources : Delete(r, i)
       \/ \E i \in Servers, n \in Names : Rename(r, i, n)

\* Requests that mean to take a name away.
Taking(r) == req[r].pc \in {"refs", "mentions", "write"}

\* What refers to the name a request has read, and how, while it is its target's.
Uses(r) ==
  {u \in Workflows \X Ways(req[r].target) :
     name[req[r].target] = req[r].name /\ u[1] \in referencingWorkflows(u[2], req[r].name)}

\* The history: the uses that were there all the while.
Watch ==
  held' = [r \in Requests |->
    IF ~Taking(r)' THEN {} ELSE IF ~Taking(r) THEN Uses(r)' ELSE held[r] \cap Uses(r)']

Next == Step /\ Watch

\* The server goes on with the requests it has; an insert that waits is woken
\* whenever the transaction ahead of it ends.
Fairness ==
  \A r \in Requests : WF_vars(Handle(r) /\ Watch) /\ SF_vars(SaveInsert(r) /\ Watch)

Spec == Init /\ [][Next]_vars /\ Fairness

-----------------------------------------------------------------------------
(***************************************************************************)
(* Every variable holds a value of its type and the tables keep their      *)
(* constraints: a workflow lives exactly as long as its versions do, and   *)
(* no two secrets and no two servers share a name, whatever creations and  *)
(* renamings meet.                                                         *)
(***************************************************************************)
TypeOK ==
  /\ life \in [Workflows -> {"unborn", "live", "gone"}]
  /\ def \in [Workflows -> SUBSET ({"api_key", "mention", "server"} \X Names)]
  /\ name \in [Resources -> Names \cup {"unborn", "gone"}]
  /\ \A w \in Workflows : (life[w] = "live") = (versions[w] # <<>>)
  /\ \A i \in Resources : Exists(i) => ~(\E j \in Kind(i) \ {i} : name[j] = name[i])

(***************************************************************************)
(* Saves at once take the same number, and only one of them may keep it:   *)
(* the versions of a workflow are numbered 1 to n in the order of their    *)
(* commits, each number once, and the current version is the last.  A run  *)
(* that starts after a save was answered can only get that save or one     *)
(* that was committed after it.                                            *)
(***************************************************************************)
VersionsInOrder ==
  \A w \in Workflows : life[w] = "live" =>
    /\ \A k \in DOMAIN versions[w] : versions[w][k] = k
    /\ current[w] = Len(versions[w])

(***************************************************************************)
(* Deletion is blocked while a workflow uses the name.  The check and the  *)
(* write are separate statements and saves come in between, so this is     *)
(* what the handlers can promise: a name is not taken from a resource,     *)
(* by deletion or by renaming, while a use of it has been there in the     *)
(* same way since the request came.                                        *)
(***************************************************************************)
InUseIsKept ==
  [][\A r \in Requests :
       At(r, "write") /\ At(r, "idle")' /\ name'[req[r].target] # name[req[r].target]
         => held[r] = {}]_vars

(***************************************************************************)
(* A save that waits for another's version number, and a deletion in the   *)
(* middle of its checks, come to an end.                                   *)
(***************************************************************************)
HandlersEnd == \A r \in Requests : []<>At(r, "idle")
=============================================================================
