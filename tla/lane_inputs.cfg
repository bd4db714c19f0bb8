SPECIFICATION Spec
CONSTANTS
  Turns = {t1, t2}
  Steers = {s1}
  Foreign = Foreign
  NoInput = NoInput
  MaxFaults <- InputFaults
  MaxKinds = 1
  MaxInterrupts = 1
INVARIANTS
  TypeOK
  AnchorsAligned
  AnchorSpentOnce
  TurnClosedOnce
CHECK_DEADLOCK FALSE
