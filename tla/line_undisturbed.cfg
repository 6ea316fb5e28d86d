SPECIFICATION Spec
CONSTANTS
  Char = {a, b}
  NUL = NUL
  Enter = Enter
  Erase = Erase
  Prompt = Prompt
  MAXLINE = 4
  OutLen = 3
  MaxKeys = 6
  MaxPrints = 2
CHECK_DEADLOCK FALSE
INVARIANTS
  TypeOK
  LineAsTyped
  UndisturbedLineShown
