SPECIFICATION Spec
CONSTANTS
  Threads = {t1}
  MaxRequests = 4
  MaxLive = 2
  MaxFaults = 2
INVARIANTS
  TypeOK
  OneLanePerSession
  RestIsClean
PROPERTIES
  PromptIsHeard
CHECK_DEADLOCK FALSE
