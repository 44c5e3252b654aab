--------------------------- MODULE MCRunEngine ---------------------------
(* Instances of RunEngine for TLC. *)
EXTENDS RunEngine, TLC

CONSTANTS s1, s2, s3, r1, r2, c1, c2

Symmetric == Permutations(Callers) \cup Permutations(Reapers)

\* A chain: s2 needs s1.
ChainNeeds == s1 :> {} @@ s2 :> {s1}

\* A join: s3 needs s1 and s2.
JoinNeeds == s1 :> {} @@ s2 :> {} @@ s3 :> {s1, s2}

NoRetries == [s \in Steps |-> 0]
RetryFirst == [s \in Steps |-> IF s = s1 THEN 1 ELSE 0]

NoSuspends == [s \in Steps |-> {}]
SuspendFirst == [s \in Steps |-> IF s = s1 THEN Kinds ELSE {}]
==========================================================================
