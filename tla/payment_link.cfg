\* Two buyers and one or two units; edits, one crash and one failed statement. A
\* notice of the end of the payment window may be synced after the order has closed.
CONSTANTS
  b1 = b1
  b2 = b2
  b3 = b3
  Unlimited = Unlimited
  Nothing = Nothing
  Buyer = {b1, b2}
  Totals <- FewUnits
  MaxEdits = 1
  MaxCrashes = 1
  MaxFailures = 1
SPECIFICATION FairSpec
INVARIANTS
  TypeOK
  
  
  
PROPERTIES
  ReservationEnds
CHECK_DEADLOCK FALSE
