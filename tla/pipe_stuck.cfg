SPECIFICATION FairSpec
CONSTANTS
  Size = 2
  MaxRounds = 2
  MaxRuns = 2
  PipeRoom = 1
  SockRoom = 3
CHECK_DEADLOCK FALSE
PROPERTIES
  PipeTestFinishes
