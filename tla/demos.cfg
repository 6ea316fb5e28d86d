SPECIFICATION FairSpec
CONSTANTS
  Size = 2
  MaxRounds = 2
  MaxRuns = 2
  PipeRoom = 1
  SockRoom = 3
CHECK_DEADLOCK FALSE
INVARIANTS
  TypeOK
  HandsApart
  RoundsMatch
  TokenOnce
  NoSignalLost
  WriterHasReader
  OneUnderWay
  NeverRefused
PROPERTIES
  ImplementsTurns
  GuardEnds
  
  PipeEnds
  ExchangeEnds
