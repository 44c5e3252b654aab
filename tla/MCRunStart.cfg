\* Two callers of one webhook, a caller of another and one of the API, with the same key.
SPECIFICATION Spec
CONSTANTS
  w1 = w1  h1 = h1  h2 = h2  a1 = a1  a2 = a2  b1 = b1  d1 = d1
  Api = Api
  Requests = {a1, a2, b1, d1}
  Workflows = {w1}
  Triggers = {h1, h2}
  Target <- MCTarget
  Workflow <- MCWorkflow
  Trigger <- MCTrigger
  CallerKey <- MCCallerKey
  MaxSends <- MCMaxSends
INVARIANTS OneRunPerKey OwnRun RunHasJob RunsKeepTheirSource
PROPERTIES RequestsEnd
CHECK_DEADLOCK FALSE
