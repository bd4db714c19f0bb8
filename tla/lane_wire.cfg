SPECIFICATION FairSpec
CONSTANTS
  Turns = {t1, t2}
  Steers = {}
  Foreign = Foreign
  NoInput = NoInput
  MaxFaults <- WireFaults
  MaxKinds = 2
  MaxInterrupts = 1
INVARIANTS
  PromptsFollowAttachOnce
  LiveLaneIsSeatedOnce
  OneRequestPerCall
PROPERTIES
  ImplementsPromptOnce
  CallsReturn
  OpenTurnSettles
CHECK_DEADLOCK FALSE
