SPECIFICATION FairSpec
CONSTANTS
  Requests = {r1, r2, r3}
  MaxClients = 3
  MaxAttempts = 2
  MaxDrops = 2
  MaxRefusals = 2
INVARIANTS
  ClosedCarriesNothing
PROPERTIES
  RequestsSettle
  RecoveryEnds
CHECK_DEADLOCK FALSE
