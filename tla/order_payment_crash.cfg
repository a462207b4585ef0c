\* Handlers overlap freely, one statement may fail and the process may crash
\* once, while two orders take the same address in turn.
CONSTANTS
  o1 = o1
  o2 = o2
  a1 = a1
  t1 = t1
  t2 = t2
  t3 = t3
  NoOrder = NoOrder
  NoAddress = NoAddress
  Order = {o1, o2}
  Address = {a1}
  Transfer = {t1, t2}
  To <- ToA1
  TxOf <- OwnTx
  Sufficient <- OneCoin
  Overlap = TRUE
  CooldownOutlivesWork = TRUE
  MaxCrashes = 1
  MaxFailures = 1
SPECIFICATION Spec
INVARIANTS
  TypeOK
  CompletedIsPaid
  ReceivedIsConfirmed
  PendingHoldsAddress
SYMMETRY Symmetry
CHECK_DEADLOCK FALSE
