SPECIFICATION FairSpec
CONSTANTS
  MinPacket = 1
  MaxPacket = 2
  FrameSizes = {1, 3}
  RxSize = 6
  Span = 7
  FilterTasks = {t1, t2}
  CountSpan = 3
  Workloads <- MCWorkloads
CHECK_DEADLOCK FALSE
INVARIANTS
  EthTypeOK
  InStep
  FramesWhole
  TransmitHonest
  LinkAgrees
  FilterKept
PROPERTIES
  FrameRead
  TaskRests
  LinkServed
