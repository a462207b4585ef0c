\* Two deposits and a queue with room for two; a transaction may move once to a
\* later block, and a height may be one block old. Check cycles do not overlap.
CONSTANTS
  t1 = t1
  t2 = t2
  c1 = c1
  c2 = c2
  Transfer = {t1, t2}
  Cycle = {c1}
  Confirmations = 4
  Capacity = 2
  MaxRetries = 2
  Safe = 1
  HeightLag = 1
  ReorgDepth = 2
  BlocksAreSlow = TRUE
  RecordingIsQuick = TRUE
  MaxHeight = 5
  Moving = {t1}
  MaxReorgs = 1
  MaxErrors = 0
SPECIFICATION FairSpec
INVARIANTS
  AnnouncedOnce
PROPERTIES
  ConfirmedIsDeep
  KeepsQueue
CHECK_DEADLOCK FALSE
