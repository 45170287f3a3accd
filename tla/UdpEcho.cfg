SPECIFICATION Spec
CONSTANTS
  PtrMod = 8
  RxSize = 4
  Start = 7
  TxSize = 2
  Sources = {1, 2}
  MaxSize = 2
  MaxDatagrams = 2
  BufSize = 1
  MaxCalls = 4
CHECK_DEADLOCK FALSE
INVARIANTS
  UdpTypeOK
  Framed
  SendIsWhole
  AnswerIsOwn
PROPERTIES
  EchoServed
  CallsReturn
  EverythingRead
