SPECIFICATION FairSpec
CONSTANTS
  ann = ann
  bob = bob
  cat = cat
  ann2 = ann2
  Procs = {ann, bob}
  IdOf <- IdOfProc
  NameOf <- NameOfProc
  Commands <- AnnListsAndQuits
  Targets = {}
  Careful = FALSE
  MaxInputs <- Two
  Breakers = {}
  Mortal = {}
  MAX_CLIENT = 2
  Capacity = 2
  OPEN_MAX = 1000
  MaxStarts = 1
  Signals = {"SIGINT"}
CHECK_DEADLOCK FALSE
PROPERTIES
  CtrlCStops
