---------------------------- MODULE RunLifecycle ----------------------------
(***************************************************************************)
(* What a run promises its user, without tasks, attempts or jobs: a status *)
(* and the set of steps that are done.  RunEngine implements it.           *)
(***************************************************************************)
CONSTANTS Steps, Needs

VARIABLES status, done

vars == <<status, done>>

Open == {"queued", "running"}

Init == status = "none" /\ done = {}

Start == status = "none" /\ status' = "queued" /\ UNCHANGED done

\* Some steps become done, after what they need; never in a canceled run, and
\* not in one that has succeeded, where nothing is left.  Steps of a failed run
\* that were under way may still complete.
Complete ==
    /\ status \in Open \cup {"failed"}
    /\ \E more \in SUBSET (Steps \ done) :
        /\ \A s \in more : Needs[s] \subseteq done
        /\ done' = done \cup more
    /\ status' \in IF status = "queued" THEN Open ELSE {status}

Succeed ==
    /\ status \in Open
    /\ done = Steps
    /\ status' = "succeeded"
    /\ UNCHANGED done

Fail   == status \in Open /\ status' = "failed" /\ UNCHANGED done
Cancel == status \in Open /\ status' = "canceled" /\ UNCHANGED done

\* A retry reopens the run and keeps what is done.
Retry == status \in {"failed", "canceled"} /\ status' = "running" /\ UNCHANGED done

Next == Start \/ Complete \/ Succeed \/ Fail \/ Cancel \/ Retry

Spec == Init /\ [][Next]_vars
=============================================================================
