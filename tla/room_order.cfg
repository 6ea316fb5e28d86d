SPECIFICATION FairSpec
CONSTANTS
  ann = ann
  bob = bob
  cat = cat
  ann2 = ann2
  Procs = {ann, bob}
  IdOf <- IdOfProc
  NameOf <- NameOfProc
  Commands <- AnnListsBobQuits
  Targets = {}
  Careful = FALSE
  MaxInputs <- BobTwice
  Breakers = {}
  Mortal = {bob}
  MAX_CLIENT = 2
  Capacity = 1
  OPEN_MAX = 1000
  MaxStarts = 1
  Signals = {}
CHECK_DEADLOCK FALSE
INVARIANTS
  SenderOrder
  MembersReachable
PROPERTIES
  ImplementsSequencer
  RequestsHandled
  QuitLeaves
