---------------------------- MODULE MCWorkspace ----------------------------
(* One workflow, saved twice at once while names are taken from under it.  *)
EXTENDS Workspace

CONSTANTS a, b, m2, r1, r2, r3

\* Two saves and a deletion; the second save may
\* also be a renaming.
MCOps == [r \in Requests |-> CASE r = r1 -> {"save"}
                               [] r = r2 -> {"save", "rename"}
                               [] r = r3 -> {"delete"}]

MCGiven == [i \in Resources |-> IF i = m2 THEN {b} ELSE {a}]

\* One reference of each way; to the server by either name.
MCDefinitions ==
  {{<<"api_key", a>>}, {<<"mention", a>>}, {<<"server", a>>}, {<<"server", b>>}}
============================================================================
