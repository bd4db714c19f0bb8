CONSTANTS
  MaxUpdates = 2
  MaxFaults = 2
  MaxSweeps = 1
SPECIFICATION Spec
INVARIANTS
  TypeOK
  WatchedIsHeld
PROPERTIES
  PanelCatchesUp
CHECK_DEADLOCK FALSE
