\* Two requests at once, one failure in a window of two ticks.
SPECIFICATION Spec
CONSTANTS
  owner = owner
  Users = {owner, u1}
  Owner = owner
  Replicas = {p1}
  Requests = {r1, r2}
  Boot = boot
  Window = 2
  MaxFailures = 1
  MaxPasswords <- MCMaxPasswords
INVARIANTS SessionsHaveUsers OneSetup ConfiguredNotEarly OldSessionsClosed FailuresBounded
PROPERTIES LimitEnds
