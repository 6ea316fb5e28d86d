SPECIFICATION FairSpec
CONSTANTS
  Senders = {server}
  MESSAGE_BUF_SIZE = 3
  MaxSends = 6
  Zero = Zero
  Stale = Stale
CHECK_DEADLOCK FALSE
INVARIANTS
  WaitedNeverRefused
PROPERTIES
  ImplementsMailbox
  WaitingSenderGetsIn
