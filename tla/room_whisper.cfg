SPECIFICATION Spec
CONSTANTS
  ann = ann
  bob = bob
  cat = cat
  ann2 = ann2
  Procs = {ann, bob, cat}
  IdOf <- IdOfProc
  NameOf <- NameOfProc
  Commands <- AnnWhispers
  Targets = {"cat", "bob"}
  Careful = TRUE
  MaxInputs <- Four
  Breakers = {}
  Mortal = {}
  MAX_CLIENT = 3
  Capacity = 2
  OPEN_MAX = 1000
  MaxStarts = 1
  Signals = {}
CHECK_DEADLOCK FALSE
INVARIANTS
  ListComplete
  WhisperPrivate
  WhisperSigned
  NeverFaults
