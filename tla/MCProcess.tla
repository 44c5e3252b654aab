---------------------------- MODULE MCProcess ----------------------------
(* A deployment that is upgraded while a replica of the old release boots. *)
EXTENDS Process

CONSTANTS old, n1

\* The new release brings a migration.
MCCount == [r \in Replicas |-> IF r = old THEN 1 ELSE 2]

\* The old release ran as one process, the new one is split.
MCMode == [r \in Replicas |-> CASE r = old -> "all" [] r = n1 -> "api" [] OTHER -> "worker"]
==========================================================================
