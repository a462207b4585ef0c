\* Two deposits and a queue with room for one; two calls may fail. Two check cycles
\* may be under way, so that one begins while the other still checks the deposit
\* that has been dropped.
CONSTANTS
  t1 = t1
  t2 = t2
  c1 = c1
  c2 = c2
  Transfer = {t1, t2}
  Cycle = {c1, c2}
  Confirmations = 2
  Capacity = 1
  MaxRetries = 2
  Safe = 1
  HeightLag = 1
  ReorgDepth = 0
  BlocksAreSlow = TRUE
  RecordingIsQuick = TRUE
  MaxHeight = 3
  Moving = {}
  MaxReorgs = 0
  MaxErrors = 2
SPECIFICATION Spec
INVARIANTS
  TypeOK
  ConfirmedIsAnnounced
PROPERTIES
  LeavesOnce
SYMMETRY CycleSymmetry
CHECK_DEADLOCK FALSE
