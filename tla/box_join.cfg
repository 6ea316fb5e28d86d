SPECIFICATION JoinSpec
CONSTANTS
  Senders = {server}
  MESSAGE_BUF_SIZE = 4
  MaxSends = 5
  Zero = Zero
  Stale = Stale
CHECK_DEADLOCK FALSE
INVARIANTS
  JoinDeliversInOrder
