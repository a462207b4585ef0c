\* A transfer that is accepted in time.
CONSTANTS
  u1 = u1
  u2 = u2
  u3 = u3
  s1 = s1
  s2 = s2
  User = {u1, u2, u3}
  Session = {s1, s2}
  NoRole = NoRole
  MaxRequests = 2
SPECIFICATION Spec
INVARIANTS
  TransferIsExecuted
SYMMETRY Symmetry
CHECK_DEADLOCK FALSE
