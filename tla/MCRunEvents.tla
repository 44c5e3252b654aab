---------------------------- MODULE MCRunEvents ----------------------------
(* A run of a chain of two steps, with a stream and a waiter; viewers      *)
(* share nothing but the run they read.                                    *)
EXTENDS RunEvents

CONSTANTS s1, s2, v1, v2

MCNeeds == [s \in Steps |-> IF s = s2 THEN {s1} ELSE {}]
=============================================================================
