CONSTANTS
  Sessions <- CutoffSessions
  MaxLines = 2
  MaxTs = 2
  MaxId = 2
SPECIFICATION Spec
CHECK_DEADLOCK FALSE
INVARIANT CutoffIsSafe
