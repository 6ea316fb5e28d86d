SPECIFICATION Spec
CONSTANTS
  Senders = {p1, p2}
  MESSAGE_BUF_SIZE = 3
  MaxSends = 2
  Zero = Zero
  Stale = Stale
CHECK_DEADLOCK FALSE
INVARIANTS
  TypeOK
  SerialSendsDeliver
  CopiesNeverMeet
