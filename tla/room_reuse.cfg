SPECIFICATION Spec
CONSTANTS
  ann = ann
  bob = bob
  cat = cat
  ann2 = ann2
  Procs = {ann, ann2}
  IdOf <- IdOfProc
  NameOf <- NameOfProc
  Commands <- Anything
  Targets = {"ann", "cat"}
  Careful = FALSE
  MaxInputs <- One
  Breakers = {ann}
  Mortal = {ann}
  MAX_CLIENT = 2
  Capacity = 2
  OPEN_MAX = 4
  MaxStarts = 2
  Signals = {"SIGINT", "SIGKILL"}
CHECK_DEADLOCK FALSE
INVARIANTS
  TypeOK
  MembersReachable

  
