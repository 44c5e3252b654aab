\* A worker that dies between loading a task and starting it.
CONSTANTS
    s1 = s1  s2 = s2  s3 = s3  r1 = r1  r2 = r2  c1 = c1  c2 = c2
    Steps = {s1, s2}
    Needs <- ChainNeeds
    Retries <- RetryFirst
    Guarded = {}
    Suspends <- NoSuspends
    Reapers = {r1}
    Callers = {}
    FaultPoints = {"load", "execute"}
    MaxRetryRuns = 0
    MaxAttempt = 2
SPECIFICATION FairSpec
PROPERTY RunSettles
CHECK_DEADLOCK FALSE
