\* One workflow of up to two versions, a secret and two servers.
SPECIFICATION Spec
CONSTANTS
  a = a  b = b  m2 = m2  r1 = r1  r2 = r2  r3 = r3
  Workflows = {w1}
  Secrets = {s1}
  Servers = {m1, m2}
  Names = {a, b}
  Given <- MCGiven
  Definitions <- MCDefinitions
  Requests = {r1, r2, r3}
  Ops <- MCOps
  MaxVersions = 2
INVARIANTS VersionsInOrder
PROPERTIES InUseIsKept HandlersEnd
CHECK_DEADLOCK FALSE
