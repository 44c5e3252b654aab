---------------------------- MODULE MCRunStart ----------------------------
(* Small instances of RunStart: callers that chose the same key.           *)
EXTENDS RunStart

CONSTANTS w1, h1, h2, a1, a2, b1, d1

\* Two webhooks on one workflow.
MCTarget == [t \in Triggers |-> w1]

MCWorkflow == [r \in Requests |-> w1]

\* a1 and a2 come by the first webhook, b1 by the second, d1 by the API.
MCTrigger == [r \in Requests |-> IF r = d1 THEN Api ELSE IF r = b1 THEN h2 ELSE h1]

\* One of the callers of the first webhook sends again.
MCMaxSends == [r \in Requests |-> IF r = a1 THEN 2 ELSE 1]

MCCallerKey == [r \in Requests |-> <<"k">>]
===========================================================================
