SPECIFICATION Spec
CONSTANTS
  MaxSets = 1
  MaxInstances = 2
  MaxConnections = 2
  MaxCalls = 2
INVARIANTS
  ResultIsOfItsCall
CHECK_DEADLOCK FALSE
