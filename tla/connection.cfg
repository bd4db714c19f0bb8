SPECIFICATION FairSpec
CONSTANTS
  Requests = {r1, r2, r3}
  MaxClients = 2
  MaxAttempts = 2
  MaxDrops = 2
  MaxRefusals = 0
INVARIANTS
  TypeOK
  NobodyWaitsInVain
PROPERTIES
  ImplementsWire
CHECK_DEADLOCK FALSE
