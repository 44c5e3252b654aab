\* Three steps in a join, two of them guarded, one with a retry; one user retry.
CONSTANTS
    s1 = s1  s2 = s2  s3 = s3  r1 = r1  r2 = r2  c1 = c1  c2 = c2
    Steps = {s1, s2, s3}
    Needs <- JoinNeeds
    Retries <- RetryFirst
    Guarded = {s2, s3}
    Suspends <- NoSuspends
    Reapers = {r1}
    Callers = {}
    FaultPoints = {"execute"}
    MaxRetryRuns = 1
    MaxAttempt = 3
SPECIFICATION Spec
INVARIANTS AttemptHistory NeedsFirst SucceededIsComplete
    AttemptBudget NoHungRun
PROPERTIES TaskRowsAreFinal ContextIsFrozen
CHECK_DEADLOCK FALSE
