\* One handler of an order at a time and no crash: what the code keeps then.
CONSTANTS
  o1 = o1
  o2 = o2
  a1 = a1
  t1 = t1
  t2 = t2
  t3 = t3
  NoOrder = NoOrder
  NoAddress = NoAddress
  Order = {o1, o2}
  Address = {a1}
  Transfer = {t1, t2, t3}
  To <- ToA1
  TxOf <- OwnTx
  Sufficient <- MixedCoins
  Overlap = FALSE
  CooldownOutlivesWork = TRUE
  MaxCrashes = 0
  MaxFailures = 0
SPECIFICATION FairSpec
INVARIANT AnnouncedOutcomeStands
PROPERTIES
  ReceivedNeverFalls
  AddressReturns
  KeepsContract
CHECK_DEADLOCK FALSE
