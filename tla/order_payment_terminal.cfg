\* The timeout of an order races the confirmation of its payment.
CONSTANTS
  o1 = o1
  o2 = o2
  a1 = a1
  t1 = t1
  t2 = t2
  t3 = t3
  NoOrder = NoOrder
  NoAddress = NoAddress
  Order = {o1}
  Address = {a1}
  Transfer = {t1}
  To <- ToA1
  TxOf <- OwnTx
  Sufficient <- OneCoin
  Overlap = TRUE
  CooldownOutlivesWork = TRUE
  MaxCrashes = 0
  MaxFailures = 0
SPECIFICATION FairSpec
PROPERTIES
  TerminalIsFinal
CHECK_DEADLOCK FALSE
