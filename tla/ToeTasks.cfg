SPECIFICATION Spec
CONSTANTS
  Tasks = {main, echo}
  Main = main
  MaxOps = 8
  MaxCalls = 2
  BufSizes = {1, 4, 128}
CHECK_DEADLOCK FALSE
INVARIANTS
  ToeTypeOK
  SpiFramesWhole
  OwnersApart
  ConfigurationKept
  FlagKept
