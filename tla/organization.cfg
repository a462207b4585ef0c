\* Three users, two sessions at a time and two transfers that are asked for.
CONSTANTS
  u1 = u1
  u2 = u2
  u3 = u3
  s1 = s1
  s2 = s2
  User = {u1, u2, u3}
  Session = {s1, s2}
  NoRole = NoRole
  MaxRequests = 2
SPECIFICATION Spec
INVARIANTS
  TypeOK
  OneOwner
  AskedByOwner
SYMMETRY Symmetry
CHECK_DEADLOCK FALSE
