SPECIFICATION FairSpec
CONSTANTS
  Turns = {t1}
  Steers = {}
  Foreign = Foreign
  NoInput = NoInput
  MaxFaults <- ReattachRefused
  MaxKinds = 2
  MaxInterrupts = 0
PROPERTIES
  CallsReturn
CHECK_DEADLOCK FALSE
