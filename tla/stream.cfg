SPECIFICATION FairSpec
CONSTANTS
  MaxEvents = 3
  MaxGens = 2
  MaxDrops = 1
  MaxReplays = 1
  MaxRefusals = 1
INVARIANTS
  TypeOK
  NothingLost
PROPERTIES
  ShownOnceInOrder
  StreamResumes
CHECK_DEADLOCK FALSE
