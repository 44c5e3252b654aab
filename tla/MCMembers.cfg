SPECIFICATION Spec
CONSTANTS
  u1 = u1
  u2 = u2
  u3 = u3
  q1 = q1
  q2 = q2
  Users = {u1, u2, u3}
  Owner = u1
  Requests = {q1, q2}
INVARIANTS SomeAdmin
