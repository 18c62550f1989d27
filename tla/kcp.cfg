CONSTANTS
  Parts = 3
  Mss = 2
  Overhead = 1
  SndWnd = 3
  RcvWnd = 3
  RmtWnd = 2
  RxBufs = {6, 7}
  MaxSent <- OneWay
  MaxFaults = 1
  Faults = {"lose", "repeat", "delay", "early"}
SPECIFICATION FairSpec
CHECK_DEADLOCK FALSE
INVARIANT TypeOK
INVARIANT ForgottenOnlyIfReceived
INVARIANT OnlyFullBuffersLose
PROPERTY IsChannel
PROPERTY AllArrive
