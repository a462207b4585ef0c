\* The process may crash twice while one order is created, paid and closed.
CONSTANTS
  o1 = o1
  o2 = o2
  a1 = a1
  t1 = t1
  t2 = t2
  t3 = t3
  NoOrder = NoOrder
  NoAddress = NoAddress
  Order = {o1}
  Address = {a1}
  Transfer = {t1, t2}
  To <- ToA1
  TxOf <- OwnTx
  Sufficient <- TwoCoins
  Overlap = TRUE
  CooldownOutlivesWork = TRUE
  MaxCrashes = 2
  MaxFailures = 0
SPECIFICATION FairSpec
INVARIANTS
  PendingIsAttended
PROPERTIES
  EveryOrderCloses
CHECK_DEADLOCK FALSE
