\* Requests about different references and addresses interleave freely.
CONSTANTS
  a1 = a1
  a2 = a2
  o1 = o1
  o2 = o2
  r1 = r1
  r2 = r2
  c1 = c1
  c2 = c2
  NoOne = NoOne
  Address = {a1, a2}
  Order = {o1, o2}
  Reference = {r1, r2}
  Caller = {c1, c2}
  Overlap = FALSE
  EarlyUnarchive = FALSE
  MaxCrashes = 1
SPECIFICATION Spec
INVARIANTS
  TypeOK
  OpenOrderHoldsAddress
  OneAddressPerReference
  
PROPERTIES
  CooldownIsServed
SYMMETRY Symmetry
CHECK_DEADLOCK FALSE
