SPECIFICATION ClientFairSpec
CONSTANTS
  MaxConn = 3
  MaxBytes = 3
  TxMax = 1
  RxMax = 3
  RcvTimeout = FALSE
  BufSize = 3
  Application = "loopback"
CHECK_DEADLOCK FALSE
INVARIANTS
  FreshAttempt
  ClientEchoInv
PROPERTIES
  EchoServiceSpec
  Reconnects
  EchoReturns
