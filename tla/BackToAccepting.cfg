SPECIFICATION FairSpec
CONSTANTS
  MaxConn = 2
  MaxBytes = 2
  TxMax = 2
  RxMax = 2
  RcvTimeout = FALSE
  BufSize = 2
  Application = "tcp_server"
CHECK_DEADLOCK FALSE
PROPERTY BackToAccepting
