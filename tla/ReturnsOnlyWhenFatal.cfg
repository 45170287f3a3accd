SPECIFICATION Spec
CONSTANTS
  MaxConn = 2
  MaxBytes = 2
  TxMax = 2
  RxMax = 2
  RcvTimeout = FALSE
  BufSize = 2
  Application = "loopback"
CHECK_DEADLOCK FALSE
INVARIANT ReturnsOnlyWhenFatal
