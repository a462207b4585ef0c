\* Two events for one endpoint, which may be disabled or deleted; retries by
\* hand and automatic, two failed statements, a graceful stop and a crash.
CONSTANTS
  e1 = e1
  e2 = e2
  i1 = i1
  i2 = i2
  p1 = p1
  p2 = p2
  s1 = s1
  s2 = s2
  Nobody = Nobody
  Event = {e1, e2}
  Id = {i1, i2}
  IdOf <- OwnId
  Endpoint = {p1}
  Slot = {s1, s2}
  BatchSize = 2
  MaxRetries = 1
  StatementsAreQuick = TRUE
  MaxStops = 1
  MaxManual = 1
  MayCrash = TRUE
  MaxFailures = 2
SPECIFICATION FairSpec
INVARIANTS
  TypeOK
  OneSender
  SendingHasSender
  AttemptsAreBounded
PROPERTIES
  EveryNotificationEnds
CHECK_DEADLOCK FALSE
