SPECIFICATION FairSpec
CONSTANTS
  MaxSets = 2
  MaxInstances = 2
  MaxConnections = 2
  MaxCalls = 1
INVARIANTS
  TypeOK
  ServedSetIsPublished
  AloneAckIsOwn
PROPERTIES
  ChannelSettles
CHECK_DEADLOCK FALSE
