SPECIFICATION Spec
CONSTANTS
  s1 = s1  s2 = s2  v1 = v1  v2 = v2
  Steps = {s1, s2}
  Needs <- MCNeeds
  Viewers = {v1, v2}
  Waiters = {v2}
  MaxRetries = 1
INVARIANTS SucceededShowsAll
PROPERTIES StreamsEnd WaitersAnswered
CHECK_DEADLOCK FALSE
