\* A chain whose first step may park for a delay or a callback; two callers, two reapers.
CONSTANTS
    s1 = s1  s2 = s2  s3 = s3  r1 = r1  r2 = r2  c1 = c1  c2 = c2
    Steps = {s1, s2}
    Needs <- ChainNeeds
    Retries <- RetryFirst
    Guarded = {s2}
    Suspends <- SuspendFirst
    Reapers = {r1, r2}
    Callers = {c1, c2}
    FaultPoints = {"execute"}
    MaxRetryRuns = 1
    MaxAttempt = 3
SPECIFICATION Spec
SYMMETRY Symmetric
INVARIANTS CanceledIsQuiet CallbackAnswers
PROPERTIES Lifecycle
CHECK_DEADLOCK FALSE
