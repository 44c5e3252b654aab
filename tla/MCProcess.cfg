\* Three replicas of two releases; two workers and two requests on a pool of two
\* connections.
SPECIFICATION Spec
CONSTANTS
  old = old  n1 = n1
  Replicas = {old, n1, n2}
  Count <- MCCount
  Mode <- MCMode
  Nobody = Nobody
  Workers = {w1, w2}
  Requests = {q1, q2}
  PoolSize = 2
  MaxDeaths = 2
INVARIANTS MigratedInTurn SchemaIsThere
PROPERTIES EveryoneServes ConnectionsReturn
