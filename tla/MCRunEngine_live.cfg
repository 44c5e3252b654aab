\* A chain with a guard, a delay, a callback and one user retry, under fairness.
CONSTANTS
    s1 = s1  s2 = s2  s3 = s3  r1 = r1  r2 = r2  c1 = c1  c2 = c2
    Steps = {s1, s2}
    Needs <- ChainNeeds
    Retries <- NoRetries
    Guarded = {s2}
    Suspends <- SuspendFirst
    Reapers = {r1}
    Callers = {c1}
    FaultPoints = {"execute"}
    MaxRetryRuns = 1
    MaxAttempt = 2
SPECIFICATION FairSpec
PROPERTIES RunSettles TasksResolve
CHECK_DEADLOCK FALSE
