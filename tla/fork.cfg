SPECIFICATION Spec
CONSTANTS
  Texts = {"yes", "go"}
  MaxTurns = 3
  MaxForks = 1
  MaxPolls = 2
  MaxFaults = 2
INVARIANTS
  TypeOK
PROPERTIES
  SourceIsLeftAlone
  BranchEndsWithTurn
CHECK_DEADLOCK FALSE
