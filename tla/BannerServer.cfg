SPECIFICATION Spec
CONSTANTS
  MaxConn = 2
  MaxBytes = 2
  TxMax = 2
  RxMax = 2
  RcvTimeout = TRUE
  BufSize = 3
  Application = "tcp_server"
CHECK_DEADLOCK FALSE
INVARIANTS
  EchoInv
