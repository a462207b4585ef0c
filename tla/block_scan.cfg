\* Two payments, a crash and a failure on a chain with a safe distance of one
\* block, batches of two, and two blocks that are scanned again at a start.
CONSTANTS
  Safe = 1
  Batch = 2
  Depth = 2
  Confirmations = 3
  RequestsAreQuick = TRUE
  MaxHeight = 6
  MaxPayments = 2
  MaxCrashes = 1
  MaxFailures = 1
SPECIFICATION FairSpec
INVARIANTS
  TypeOK
  NothingSkipped
  RecoveryIsComplete
PROPERTIES
  PaymentsAreFound
  RecoveryEnds
CHECK_DEADLOCK FALSE
