SPECIFICATION Spec
CONSTANTS
  Tasks = {main, echo}
  Main = main
  MaxOps = 6
  MaxCalls = 0
  BufSizes = {2}
CHECK_DEADLOCK FALSE
INVARIANT SendingKept
