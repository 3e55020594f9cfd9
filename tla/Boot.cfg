SPECIFICATION Spec
CONSTANTS
  PollTime = 2
INVARIANTS
  TypeOK
  SlcrWritesTake
  PollsCanSucceed
  NeverOnUnlockedPll
  BringUpOrder
  UpWhenSuccessful
  ClocksAsDeclared
  ReadbackValid
PROPERTIES
  BootEnds
CHECK_DEADLOCK FALSE
